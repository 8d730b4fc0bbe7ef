------------------------------- MODULE Channel -------------------------------
(***************************************************************************)
(* OwtChannel (src/owt/channel.py): the publications and subscriptions     *)
(* that share one peer connection.  A call of publish or subscribe waits   *)
(* its turn to negotiate, registers itself, makes an offer, asks the       *)
(* server for a session, sends the offer, and waits for a promise that the *)
(* server's progress messages settle.  stop(), a failed call, an error     *)
(* message and close() all undo a registration through _unpublish or       *)
(* _unsubscribe, which are the same but for the dictionaries they use.     *)
(*                                                                         *)
(* An action is what a coroutine runs between two suspensions.  A call is  *)
(* its own internal id and its own session id.  SDP, options and media are *)
(* left out; of a subscription's tracks only the number is kept.  The      *)
(* server is the environment: it creates or refuses a session, answers an  *)
(* offer once, and reports ready or an error.                              *)
(***************************************************************************)
EXTENDS Integers, Sequences, FiniteSets

CONSTANTS
  Ops,          \* calls of publish and subscribe on the channel
  Pubs,         \* the publish calls among them
  MediaTracks,  \* transceivers of each subscription
  CloseOnEnd,   \* ConferenceClient closes the channel when its session ends
  PeerTasks,    \* peer connection callbacks that may report "failed"
  Faults,       \* what else may go wrong, by the guards that name it
  MaxInbox      \* bound: messages received and not yet handled

ASSUME OpsAssumption == IsFiniteSet(Ops) /\ Pubs \subseteq Ops
ASSUME BoundAssumption == MediaTracks \in Nat \ {0} /\ MaxInbox \in Nat
ASSUME FlagAssumption == CloseOnEnd \in BOOLEAN /\ "handler" \notin PeerTasks

VARIABLES
  stage,        \* where each call is suspended, or how it ended
  order,        \* the calls in the order they were made (internal ids)
  chain,        \* the future each call put in _sdpPromise
  transceivers, \* keys of _publishTransceivers and _subscribeTransceivers
  known,        \* calls whose registration was given its session id
  reverse,      \* values of _reverseIdMap
  promise,      \* the future each call returns
  promised,     \* keys of _publishPromises and _subscribePromises
  sessions,     \* keys of _publications and _subscriptions
  tracks,       \* tracks recorded for each subscription
  un,           \* each run of _unpublish / _unsubscribe, by who started it
  fired,        \* 'ended' events dispatched on each session (history)
  refused,      \* sessions a request to end failed for (history)
  broken,       \* calls a run for was broken off (history)
  sig,          \* pc.signalingState
  transport,    \* _id is set
  routed,       \* the client routes messages to this channel
  handler,      \* the onMessage call in progress
  postponed,    \* its end must wait for a close() that started meanwhile
  errors,       \* runs of _handleError: where, and the size iterated over
  closing,      \* how far close() is
  queue,        \* sessions close() has still to stop, of the dictionary it is at
  server,       \* the session at the server
  unanswered,   \* offers the server has received and not answered
  inbox         \* messages received and not yet handled

callVars == << stage, order, chain >>
regVars == << transceivers, known, reverse, promise, promised, sessions, tracks >>
histVars == << fired, refused, broken >>
undoVars == << un, histVars >>
pathVars == << sig, transport, routed >>
handlerVars == << handler, postponed, errors >>
closeVars == << closing, queue >>
serverVars == << server, unanswered, inbox >>
vars == << callVars, regVars, undoVars, pathVars, handlerVars, closeVars, serverVars >>

Subs == Ops \ Pubs
Who == {"call", "user", "handler", "closer"}
ErrorTasks == PeerTasks \cup {"handler"}
Idle == << "idle", "none" >>
Applying == << "applying", "none" >>
Failing == << "failing", "none" >>
Draining == << "drain", "none" >>
Answer == << "answer", "none" >>
TransportError == << "error", "none" >>

TypeOK ==
  /\ stage \in [Ops -> {"idle", "chain", "offer", "request", "announce", "soac", "await",
                        "undo", "done", "failed"}]
  /\ order \in Seq(Ops)
  /\ chain \in [Ops -> {"none", "waiting", "armed", "ok", "failed"}]
  /\ transceivers \subseteq Ops /\ known \subseteq Ops /\ reverse \subseteq Ops
  /\ promise \in [Ops -> {"none", "pending", "ok", "error"}]
  /\ promised \subseteq Ops /\ sessions \subseteq Ops
  /\ tracks \in [Ops -> 0..MediaTracks]
  /\ un \in [Ops -> [Who -> {"none", "ack", "event", "closing"}]]
  /\ fired \in [Ops -> Nat]
  /\ refused \subseteq Ops /\ broken \subseteq Ops
  /\ sig \in {"stable", "offer", "closed"}
  /\ transport \in BOOLEAN /\ routed \in BOOLEAN /\ postponed \in BOOLEAN
  /\ handler \in {Idle, Applying, Failing, Draining} \cup ({"errorEvent", "undoing"} \X Ops)
  /\ errors \in [ErrorTasks -> {"none", "pubs", "subs"} \X Nat]
  /\ closing \in {"open", "pubs", "subs", "announce", "peer", "done", "aborted"}
  /\ queue \subseteq Ops
  /\ server \in [Ops -> {"none", "asked", "live", "answered", "ready", "gone"}]
  /\ unanswered \subseteq Ops
  /\ inbox \in Seq({Answer, TransportError} \cup ({"ready", "error"} \X Ops))

Init ==
  /\ stage = [o \in Ops |-> "idle"] /\ order = << >> /\ chain = [o \in Ops |-> "none"]
  /\ transceivers = {} /\ known = {} /\ reverse = {}
  /\ promise = [o \in Ops |-> "none"] /\ promised = {}
  /\ sessions = {} /\ tracks = [o \in Ops |-> 0]
  /\ un = [o \in Ops |-> [w \in Who |-> "none"]] /\ fired = [o \in Ops |-> 0]
  /\ refused = {} /\ broken = {}
  /\ sig = "stable" /\ transport = FALSE /\ routed = FALSE
  /\ handler = Idle /\ postponed = FALSE
  /\ errors = [w \in ErrorTasks |-> << "none", 0 >>]
  /\ closing = "open" /\ queue = {}
  /\ server = [o \in Ops |-> "none"] /\ unanswered = {} /\ inbox = << >>

Ended == closing # "open"
Over == closing \in {"done", "aborted"}

\* Call p was made before call o.
Before(p, o) == \E i, j \in 1..Len(order) : i < j /\ order[i] = p /\ order[j] = o

-----------------------------------------------------------------------------
(* The negotiation queue: each call chains a future to the one before it.  *)

Follows(o, p) == \E i \in 1..(Len(order) - 1) : order[i] = p /\ order[i + 1] = o

\* The resolvers of the calls in S are set: where one was registered, its call
\* gives up the turn, and the next call's own resolver is registered.
ResolveSet(c, S) ==
  [x \in Ops |-> IF x \in S /\ c[x] = "armed" THEN "ok"
                 ELSE IF c[x] = "waiting" /\ \E y \in S : c[y] = "armed" /\ Follows(x, y)
                 THEN "armed" ELSE c[x]]
Resolve(c, o) == ResolveSet(c, {o})

\* _nextSdpPromise: every resolver that is registered.
NextSdpPromise(c) == ResolveSet(c, Ops)

\* What a future becomes that is chained to one in the given state: a failed
\* one fails it at once.
ChainedAlone == [ok |-> "armed", failed |-> "failed", waiting |-> "armed", armed |-> "armed"]
Chained == [ok |-> "armed", failed |-> "failed", waiting |-> "waiting", armed |-> "waiting"]

\* publish / subscribe up to _chainSdpPromise.
Start(o) ==
  /\ stage[o] = "idle"
  /\ ~Ended
  /\ stage' = [stage EXCEPT ![o] = "chain"]
  /\ order' = Append(order, o)
  /\ LET prior == IF order = << >> THEN "ok" ELSE chain[order[Len(order)]]
     IN  chain' = [chain EXCEPT ![o] = Chained[prior]]
  /\ UNCHANGED << regVars, undoVars, pathVars, handlerVars, closeVars, serverVars >>

\* Ten seconds without an answer: every future chained after o's fails too.
\* The caller of o is not told.
TimedOutAlone(o) == [chain EXCEPT ![o] = "failed"]
TimedOut(o) == [x \in Ops |-> IF x = o \/ chain[x] = "waiting" THEN "failed" ELSE chain[x]]

Timeout(o) ==
  /\ "timeout" \in Faults
  /\ chain[o] = "armed"
  /\ chain' = TimedOut(o)
  /\ UNCHANGED << stage, order, regVars, undoVars, pathVars, handlerVars, closeVars, serverVars >>

\* The call's turn: register.  addTransceiver on a closed connection raises
\* before anything is registered.
Proceed(o) ==
  /\ stage[o] = "chain"
  /\ chain[o] # "waiting"
  /\ \/ /\ sig = "closed"
        /\ stage' = [stage EXCEPT ![o] = "failed"]
        /\ UNCHANGED << transceivers, promised, promise >>
     \/ /\ sig # "closed"
        /\ stage' = [stage EXCEPT ![o] = "offer"]
        /\ transceivers' = transceivers \cup {o}
        /\ promised' = promised \cup {o}
        /\ promise' = [promise EXCEPT ![o] = "pending"]
  /\ UNCHANGED << known, reverse, sessions, tracks, order, chain >>
  /\ UNCHANGED << undoVars, pathVars, handlerVars, closeVars, serverVars >>

-----------------------------------------------------------------------------
(* _unpublish and _unsubscribe                                             *)

ReverseKept(o) == reverse
ReverseWithout(o) == reverse \ {o}

PromiseForgotten(o) == promise
PromiseFailed(o) ==
  [promise EXCEPT ![o] = IF o \in promised /\ @ = "pending" THEN "error" ELSE @]

\* The end of a run that finds no session: the call's promise fails, and the
\* call gives up its turn.
DropRegistration(o) ==
  /\ transceivers' = transceivers \ {o}
  /\ reverse' = ReverseWithout(o)
  /\ promise' = PromiseFailed(o)
  /\ promised' = promised \ {o}
  /\ chain' = Resolve(chain, o)
  /\ UNCHANGED << known, sessions, tracks, order >>

\* Run w for o is over, and what awaited it goes on.
Resume(o, w) ==
  /\ un' = [un EXCEPT ![o][w] = "none"]
  /\ stage' = IF w = "call" THEN [stage EXCEPT ![o] = "failed"] ELSE stage
  /\ handler' = IF w = "handler" THEN Draining ELSE handler

\* The call's except clause.
FailCallAtOnce(o) == stage' = [stage EXCEPT ![o] = "failed"] /\ UNCHANGED << regVars, order, chain, un >>
FailCall(o) ==
  \/ /\ o \notin transceivers
     /\ stage' = [stage EXCEPT ![o] = "failed"]
     /\ UNCHANGED << regVars, order, chain, un >>
  \/ /\ o \in transceivers \cap known
     /\ stage' = [stage EXCEPT ![o] = "undo"]
     /\ un' = [un EXCEPT ![o]["call"] = "ack"]
     /\ UNCHANGED << regVars, order, chain >>
  \/ /\ o \in transceivers \ known
     /\ stage' = [stage EXCEPT ![o] = "failed"]
     /\ DropRegistration(o)
     /\ UNCHANGED un

\* "del" of the registration raises KeyError: another run was faster.
RegistrationGoneNever(o) == FALSE
RegistrationGone(o) == o \notin transceivers

\* The request to end the session is over.  The server has ended it, or has
\* none; a request that fails is logged and its session left to the server.  A
\* second run finds its registration gone: the KeyError of "del" ends it, and
\* ends close() when close() started it.
UnpublishAck(o, w) ==
  /\ un[o][w] = "ack"
  /\ \/ /\ server' = [server EXCEPT ![o] = "gone"]
        /\ UNCHANGED refused
     \/ /\ "refuse" \in Faults
        /\ refused' = refused \cup {o}
        /\ UNCHANGED server
  /\ \/ /\ RegistrationGone(o)
        /\ Resume(o, w)
        /\ closing' = IF w = "closer" THEN "aborted" ELSE closing
        /\ UNCHANGED << regVars, order, chain, fired >>
     \/ /\ ~RegistrationGone(o)
        /\ o \in sessions
        /\ transceivers' = transceivers \ {o}
        /\ reverse' = ReverseWithout(o)
        /\ un' = [un EXCEPT ![o][w] = "event"]
        /\ fired' = [fired EXCEPT ![o] = @ + 1]
        /\ UNCHANGED << known, promise, promised, sessions, tracks, callVars, handler, closing >>
     \/ /\ ~RegistrationGone(o)
        /\ o \notin sessions
        /\ DropRegistration(o)
        /\ Resume(o, w)
        /\ UNCHANGED << fired, closing >>
  /\ UNCHANGED << broken, pathVars, postponed, errors, queue, unanswered, inbox >>

\* The request ends in a CancelledError, from a cancelled gate or because who
\* awaits the run is cancelled: nothing is undone.
UndoBroken(o, w) ==
  /\ "broken" \in Faults
  /\ un[o][w] = "ack"
  /\ broken' = broken \cup {o}
  /\ Resume(o, w)
  /\ closing' = IF w = "closer" THEN "aborted" ELSE closing
  /\ UNCHANGED << order, chain, regVars, fired, refused >>
  /\ UNCHANGED << pathVars, postponed, errors, queue, serverVars >>

\* The first sessions close() has to stop, from the given dictionary on.
ClosePhase(at) ==
  LET pubs == sessions \cap Pubs
      subs == sessions \cap Subs
  IN  IF at = "pubs" /\ pubs # {} THEN /\ closing' = "pubs" /\ queue' = pubs
      ELSE IF subs # {} THEN /\ closing' = "subs" /\ queue' = subs
      ELSE /\ closing' = "announce" /\ queue' = {}

\* close() is called.  During an onMessage its caller does not wait for it:
\* the end of onMessage does.
RequestClose(inHandler) ==
  \/ /\ Ended
     /\ UNCHANGED << closing, queue, postponed >>
  \/ /\ ~Ended
     /\ ClosePhase("pubs")
     /\ postponed' = (postponed \/ inHandler)

\* The 'ended' listeners of the session have run.  The one ConferenceClient
\* adds to a session it returns closes the channel and, outside onMessage,
\* waits until it is closed.
Forget(o, w) ==
  /\ sessions' = sessions \ {o}
  /\ chain' = Resolve(chain, o)
  /\ Resume(o, w)
  /\ UNCHANGED << order, transceivers, known, reverse, promise, promised, tracks >>

ListenerCloses(o) == CloseOnEnd /\ stage[o] = "done"

ListenerWaitsAlways(o) == ListenerCloses(o) /\ handler = Idle
ListenerWaits(o) == ListenerCloses(o) /\ ~Ended /\ handler = Idle

EndedEvent(o, w) ==
  /\ \/ /\ un[o][w] = "event"
        /\ IF ListenerCloses(o) THEN RequestClose(handler # Idle)
                                ELSE UNCHANGED << closing, queue, postponed >>
        /\ \/ /\ ListenerWaits(o)
              /\ un' = [un EXCEPT ![o][w] = "closing"]
              /\ UNCHANGED << callVars, regVars, handler >>
           \/ /\ ~ListenerWaits(o)
              /\ Forget(o, w)
     \/ /\ un[o][w] = "closing"
        /\ Over
        /\ Forget(o, w)
        /\ UNCHANGED << closing, queue, postponed >>
  /\ UNCHANGED << histVars, pathVars, errors, serverVars >>

\* stop() of a session its caller holds.
Stop(o) ==
  /\ stage[o] = "done"
  /\ o \in transceivers
  /\ un[o]["user"] = "none"
  /\ un' = [un EXCEPT ![o]["user"] = "ack"]
  /\ UNCHANGED << callVars, regVars, histVars, pathVars, handlerVars, closeVars, serverVars >>

-----------------------------------------------------------------------------
(* The rest of a call                                                      *)

\* createOffer and setLocalDescription; then the request goes out.
Offer(o) ==
  /\ stage[o] = "offer"
  /\ \/ /\ sig = "closed"
        /\ FailCall(o)
        /\ UNCHANGED << sig, server >>
     \/ /\ sig # "closed"
        /\ sig' = "offer"
        /\ stage' = [stage EXCEPT ![o] = "request"]
        /\ server' = [server EXCEPT ![o] = "asked"]
        /\ UNCHANGED << regVars, order, chain, un >>
  /\ UNCHANGED << histVars, transport, routed, handlerVars, closeVars, unanswered, inbox >>

\* The response brings the session's id.  One that names another transport
\* fails the call, which is registered under that id by then.
Response(o) ==
  /\ stage[o] = "request"
  /\ server[o] # "asked"
  /\ known' = known \cup {o}
  /\ reverse' = reverse \cup {o}
  /\ \/ /\ stage' = [stage EXCEPT ![o] = "announce"]
        /\ transport' = TRUE
        /\ UNCHANGED un
     \/ /\ "conflict" \in Faults /\ transport
        /\ stage' = [stage EXCEPT ![o] = "undo"]
        /\ un' = [un EXCEPT ![o]["call"] = "ack"]
        /\ UNCHANGED transport
  /\ UNCHANGED << transceivers, promise, promised, sessions, tracks, order, chain, histVars >>
  /\ UNCHANGED << sig, routed, handlerVars, closeVars, serverVars >>

Refused(o) ==
  /\ stage[o] = "request"
  /\ server[o] = "asked"
  /\ server' = [server EXCEPT ![o] = "none"]
  /\ FailCall(o)
  /\ UNCHANGED << histVars, pathVars, handlerVars, closeVars, unanswered, inbox >>

\* The 'id' listener has registered the channel; the offer goes out.
Announce(o) ==
  /\ stage[o] = "announce"
  /\ stage' = [stage EXCEPT ![o] = "soac"]
  /\ routed' = TRUE
  /\ unanswered' = unanswered \cup {o}
  /\ UNCHANGED << order, chain, regVars, undoVars, sig, transport, handlerVars, closeVars, server,
                  inbox >>

SoacAck(o) ==
  /\ stage[o] = "soac"
  /\ \/ /\ stage' = [stage EXCEPT ![o] = "await"]
        /\ UNCHANGED << order, chain, regVars, un >>
     \/ /\ "nack" \in Faults
        /\ FailCall(o)
  /\ UNCHANGED << histVars, pathVars, handlerVars, closeVars, serverVars >>

\* The promise is settled.
Return(o) ==
  /\ stage[o] = "await"
  /\ \/ /\ promise[o] = "ok"
        /\ stage' = [stage EXCEPT ![o] = "done"]
        /\ UNCHANGED << order, chain, regVars, un >>
     \/ /\ promise[o] = "error"
        /\ FailCall(o)
  /\ UNCHANGED << histVars, pathVars, handlerVars, closeVars, serverVars >>

\* The caller's task is cancelled.  Waiting for its turn it leaves its place
\* in the queue behind; waiting for the promise it cancels the promise.
Cancel(o) ==
  /\ "cancel" \in Faults
  /\ \/ /\ stage[o] = "chain"
        /\ stage' = [stage EXCEPT ![o] = "failed"]
        /\ UNCHANGED << order, chain, regVars, un >>
     \/ /\ stage[o] \in {"offer", "request", "announce", "soac"}
        /\ FailCall(o)
     \/ /\ stage[o] = "await"
        /\ promise' = [promise EXCEPT ![o] = IF @ = "pending" THEN "error" ELSE @]
        /\ IF o \in transceivers
           THEN /\ stage' = [stage EXCEPT ![o] = "undo"]
                /\ un' = [un EXCEPT ![o]["call"] = "ack"]
           ELSE /\ stage' = [stage EXCEPT ![o] = "failed"]
                /\ UNCHANGED un
        /\ UNCHANGED << order, chain, transceivers, known, reverse, promised, sessions, tracks >>
  /\ UNCHANGED << histVars, pathVars, handlerVars, closeVars, serverVars >>

-----------------------------------------------------------------------------
(* _handleError: tell every session, then close.                           *)

\* Tell the sessions of the given dictionary and the ones after it; close.
TellFrom(w, at) ==
  LET pubs == IF at = "pubs" THEN Cardinality(sessions \cap Pubs) ELSE 0
      subs == IF at # "end" THEN Cardinality(sessions \cap Subs) ELSE 0
      inHandler == w = "handler"
  IN  \/ /\ pubs + subs > 0
         /\ errors' = [errors EXCEPT ![w] = IF pubs > 0 THEN << "pubs", pubs >> ELSE << "subs", subs >>]
         /\ handler' = IF inHandler THEN Failing ELSE handler
         /\ UNCHANGED << closing, queue, postponed >>
      \/ /\ pubs + subs = 0
         /\ errors' = [errors EXCEPT ![w] = << "none", 0 >>]
         /\ handler' = IF inHandler THEN Draining ELSE handler
         /\ RequestClose(inHandler \/ handler # Idle)

\* The listeners have run.  A dictionary that changed its size under the loop
\* ends the run with an error, and nothing is closed.
ErrorsTold(w) ==
  /\ errors[w][1] # "none"
  /\ LET dict == IF errors[w][1] = "pubs" THEN Pubs ELSE Subs
     IN  \/ /\ Cardinality(sessions \cap dict) # errors[w][2]
            /\ errors' = [errors EXCEPT ![w] = << "none", 0 >>]
            /\ handler' = IF w = "handler" THEN Draining ELSE handler
            /\ UNCHANGED << closing, queue, postponed >>
         \/ /\ Cardinality(sessions \cap dict) = errors[w][2]
            /\ TellFrom(w, IF errors[w][1] = "pubs" THEN "subs" ELSE "end")
  /\ UNCHANGED << callVars, regVars, undoVars, pathVars, serverVars >>

\* The peer connection reports "failed"; each of its callbacks on its own.
PeerFails(w) ==
  /\ sig # "closed" /\ transport /\ ~Ended
  /\ errors[w][1] = "none"
  /\ TellFrom(w, "pubs")
  /\ UNCHANGED << callVars, regVars, undoVars, pathVars, serverVars >>

-----------------------------------------------------------------------------
(* onMessage: one message at a time, to its end.                           *)

\* A session settles the promise of its call, a subscription's when it has all
\* its tracks or none.
SettlesWithTracks(o) == promise[o] = "pending" /\ tracks[o] = MediaTracks
Settles(o) == promise[o] = "pending" /\ (o \in Pubs \/ tracks[o] \in {0, MediaTracks})

\* _readyHandler.  A subscription without tracks fails (their list is deleted
\* from a dictionary that has none); one short of tracks keeps its caller
\* waiting.  A promise that is settled already makes the handler fail, when
\* the session is registered.
ReadyHandler(o) ==
  \/ /\ o \notin reverse \cap promised
     /\ UNCHANGED regVars
  \/ /\ o \in reverse \cap promised
     /\ sessions' = sessions \cup {o}
     /\ LET result == IF o \in Subs /\ tracks[o] = 0 THEN "error" ELSE "ok"
        IN  /\ promise' = [promise EXCEPT ![o] = IF Settles(o) THEN result ELSE @]
            /\ promised' = IF Settles(o) /\ o \in Subs THEN promised \ {o} ELSE promised
     /\ UNCHANGED << transceivers, known, reverse, tracks >>

\* The answer is applied.  Its tracks are looked for in the first subscription
\* only; a session waiting for its last track is complete then.
FirstSub == {o \in transceivers \cap Subs \cap known : \A p \in transceivers \cap Subs : ~Before(p, o)}

\* The tracks got of each session are new ones of its whole list.
RecordedTwice(got) == [o \in Ops |-> tracks[o] + IF o \in FirstSub THEN got[o] ELSE 0]
Recorded(got) == [o \in Ops |-> IF o \in FirstSub THEN got[o] ELSE tracks[o]]

ApplyAnswer ==
  /\ handler = Applying
  /\ sig # "closed"
  /\ sig' = "stable"
  /\ chain' = NextSdpPromise(chain)
  /\ handler' = Draining
  /\ \E got \in [FirstSub -> IF "short" \in Faults THEN 0..MediaTracks ELSE {MediaTracks}] :
       LET complete == {s \in FirstSub \cap sessions \cap promised :
                          got[s] = MediaTracks /\ promise[s] = "pending"}
       IN  /\ \A s \in FirstSub : got[s] >= tracks[s]
           /\ tracks' = Recorded(got)
           /\ promise' = [o \in Ops |-> IF o \in complete THEN "ok" ELSE promise[o]]
           /\ promised' = promised \ complete
  /\ UNCHANGED << stage, order, transceivers, known, reverse, sessions, undoVars, transport, routed,
                  postponed, errors, closeVars, serverVars >>

\* It is not: _rejectPromise fails the promises in the order they were made
\* and stops at the first that is settled.  Only when it gets through are the
\* promises forgotten, the channel closed, and the next turn given.
Rejected(S) ==
  {o \in promised \cap S :
     promise[o] = "pending" /\ \A p \in promised \cap S : Before(p, o) => promise[p] = "pending"}

RejectAnswer ==
  /\ handler = Applying
  /\ sig = "closed" \/ "badAnswer" \in Faults
  /\ handler' = Draining
  /\ LET pubs == Rejected(Pubs)
         allPubs == pubs = promised \cap Pubs
         subs == IF allPubs THEN Rejected(Subs) ELSE {}
         all == allPubs /\ subs = promised \cap Subs
     IN  /\ promise' = [o \in Ops |-> IF o \in pubs \cup subs THEN "error" ELSE promise[o]]
         /\ promised' = promised \ ((IF allPubs THEN Pubs ELSE {}) \cup (IF all THEN Subs ELSE {}))
         /\ IF all THEN RequestClose(TRUE) /\ chain' = NextSdpPromise(chain)
                   ELSE UNCHANGED << closing, queue, postponed, chain >>
  /\ UNCHANGED << stage, order, transceivers, known, reverse, sessions, tracks, undoVars, pathVars,
                  errors, serverVars >>

ReceiveAnswer ==
  /\ Head(inbox) = Answer
  /\ IF sig # "stable" THEN handler' = Applying /\ UNCHANGED chain
                       ELSE chain' = NextSdpPromise(chain) /\ UNCHANGED handler
  /\ UNCHANGED << regVars, un, errors, closing, queue, postponed >>

ReceiveReady(o) ==
  /\ Head(inbox) = << "ready", o >>
  /\ ReadyHandler(o)
  /\ UNCHANGED << handler, chain, un, errors, closing, queue, postponed >>

\* _errorHandler: the session is told, if there is one, and then undone, if it
\* is still registered.
UndoByHandler(o) ==
  IF o \in reverse
  THEN un' = [un EXCEPT ![o]["handler"] = "ack"] /\ handler' = << "undoing", o >>
  ELSE handler' = Draining /\ UNCHANGED un

ReceiveError(o) ==
  /\ Head(inbox) = << "error", o >>
  /\ IF o \in sessions THEN handler' = << "errorEvent", o >> /\ UNCHANGED un
                       ELSE UndoByHandler(o)
  /\ UNCHANGED << regVars, chain, errors, closing, queue, postponed >>

ErrorEventDone(o) ==
  /\ handler = << "errorEvent", o >>
  /\ UndoByHandler(o)
  /\ UNCHANGED << callVars, regVars, histVars, pathVars, postponed, errors, closeVars, serverVars >>

ReceiveTransportError ==
  /\ Head(inbox) = TransportError
  /\ IF Ended THEN UNCHANGED << handler, errors, closing, queue, postponed >>
              ELSE TellFrom("handler", "pubs")
  /\ UNCHANGED << regVars, chain, un >>

\* A message for a channel the client does not know, or knows before it has
\* its transport id, is dropped.
Receive ==
  /\ handler = Idle
  /\ inbox # << >>
  /\ inbox' = Tail(inbox)
  /\ IF routed /\ transport
     THEN \/ ReceiveAnswer
          \/ \E o \in Ops : ReceiveReady(o) \/ ReceiveError(o)
          \/ ReceiveTransportError
     ELSE UNCHANGED << handler, regVars, chain, un, errors, closing, queue, postponed >>
  /\ UNCHANGED << stage, order, histVars, pathVars, server, unanswered >>

\* The end of onMessage: it waits for the close() that was postponed to it.
Drain ==
  /\ handler = Draining
  /\ postponed => Over
  /\ handler' = Idle
  /\ postponed' = FALSE
  /\ UNCHANGED << callVars, regVars, undoVars, pathVars, errors, closeVars, serverVars >>

-----------------------------------------------------------------------------
(* close()                                                                 *)

\* leave(), or a peer connection that reports "closed".
CloseCalled ==
  /\ "close" \in Faults
  /\ ~Ended
  /\ RequestClose(handler # Idle)
  /\ UNCHANGED << callVars, regVars, undoVars, pathVars, handler, errors, serverVars >>

\* stop() of the next session that is still registered, one after the other, in
\* the order they became sessions, which is not kept here.
CloseNext ==
  /\ closing \in {"pubs", "subs"}
  /\ \A o \in Ops : un[o]["closer"] = "none"
  /\ \/ \E o \in queue \cap transceivers :
          /\ un' = [un EXCEPT ![o]["closer"] = "ack"]
          /\ queue' = queue \ {o}
          /\ UNCHANGED closing
     \/ /\ queue \cap transceivers = {}
        /\ UNCHANGED un
        /\ IF closing = "pubs" THEN ClosePhase("subs")
                               ELSE closing' = "announce" /\ UNCHANGED queue
  /\ UNCHANGED << callVars, regVars, histVars, pathVars, handlerVars, serverVars >>

\* The client's 'ended' listener forgets the channel; then the connection is
\* closed, at once for who looks at it, and over when its parts have stopped.
CloseEnd ==
  /\ \/ closing = "announce" /\ closing' = "peer" /\ routed' = FALSE /\ sig' = "closed"
     \/ closing = "peer" /\ closing' = "done" /\ UNCHANGED << routed, sig >>
  /\ UNCHANGED << callVars, regVars, undoVars, transport, handlerVars, queue, serverVars >>

-----------------------------------------------------------------------------
(* The server                                                              *)

Room == Len(inbox) < MaxInbox

ServerStep(o) ==
  /\ \/ /\ server[o] = "asked"
        /\ server' = [server EXCEPT ![o] = "live"]
        /\ UNCHANGED << unanswered, inbox >>
     \/ /\ server[o] = "live" /\ o \in unanswered /\ Room
        /\ server' = [server EXCEPT ![o] = "answered"]
        /\ unanswered' = unanswered \ {o}
        /\ inbox' = Append(inbox, Answer)
     \/ /\ server[o] = "answered" /\ Room
        /\ server' = [server EXCEPT ![o] = "ready"]
        /\ inbox' = Append(inbox, << "ready", o >>)
        /\ UNCHANGED unanswered
  /\ UNCHANGED << callVars, regVars, undoVars, pathVars, handlerVars, closeVars >>

ServerFails(o) ==
  /\ server[o] \in {"live", "answered", "ready"} /\ Room
  /\ \/ /\ "error" \in Faults
        /\ server' = [server EXCEPT ![o] = "gone"]
        /\ inbox' = Append(inbox, << "error", o >>)
     \/ /\ "transportError" \in Faults /\ inbox = << >>
        /\ inbox' = << TransportError >>
        /\ UNCHANGED server
  /\ UNCHANGED << callVars, regVars, undoVars, pathVars, handlerVars, closeVars, unanswered >>

-----------------------------------------------------------------------------
CallStep(o) ==
  Proceed(o) \/ Offer(o) \/ Response(o) \/ Refused(o) \/ Announce(o) \/ SoacAck(o) \/ Return(o)

UndoStep == \E o \in Ops, w \in Who : UnpublishAck(o, w) \/ EndedEvent(o, w)
UndoFails == \E o \in Ops, w \in Who : UndoBroken(o, w)

HandlerStep ==
  \/ Receive \/ ApplyAnswer \/ RejectAnswer \/ Drain
  \/ \E o \in Ops : ErrorEventDone(o)
  \/ \E w \in ErrorTasks : ErrorsTold(w)

CloseStep == CloseNext \/ CloseEnd

Environment ==
  \/ \E o \in Ops : Start(o) \/ Stop(o) \/ Cancel(o) \/ Timeout(o) \/ ServerFails(o)
  \/ \E w \in PeerTasks : PeerFails(w)
  \/ UndoFails \/ CloseCalled

Next ==
  \/ \E o \in Ops : CallStep(o) \/ ServerStep(o)
  \/ UndoStep \/ HandlerStep \/ CloseStep \/ Environment

Spec == Init /\ [][Next]_vars

\* The event loop runs what can run and its timers; the server does what it
\* was asked.
Fairness ==
  /\ \A o \in Ops : WF_vars(CallStep(o)) /\ WF_vars(Timeout(o)) /\ WF_vars(ServerStep(o))
  /\ WF_vars(UndoStep) /\ WF_vars(HandlerStep) /\ WF_vars(CloseStep)

FairSpec == Spec /\ Fairness

-----------------------------------------------------------------------------
(* Properties                                                              *)

Preparing(o) == stage[o] \in {"offer", "request", "announce"}

\* A turn timed out, a call was given up, or a message of the server failed it.
TurnsLost ==
  \E x \in Ops : chain[x] = "failed" \/ stage[x] \in {"undo", "failed"} \/ promise[x] = "error"

\* _chainSdpPromise: two calls prepare offers on the connection together only
\* after a call was given up that may still be preparing, or has its answer
\* under way.
NegotiationSerialized ==
  \A o, p \in Ops : o # p /\ Preparing(o) /\ Preparing(p) => TurnsLost

\* _unpublish / _unsubscribe: however many of stop(), close(), an error message
\* and a failing call undo a session together, it announces its end once.
EndedOnce == \A o \in Ops : fired[o] <= 1

\* _reverseIdMap has the sessions whose registration is there, no others:
\* readyHandler and errorHandler never act on a registration that has gone.
MapsAgree == reverse = transceivers \cap known

\* A subscription was a session before it had its last track: from then on its
\* promise is settled by that track alone.
ShortOfTracks(o) ==
  o \in Subs /\ (o \in sessions \/ fired[o] > 0) /\ tracks[o] \notin {0, MediaTracks}

\* A caller whose promise is pending can still be reached by ready, error or
\* stop, with one exception: _unsubscribe takes the registration of a session
\* that is short of tracks and leaves its promise as it is.
PendingCallReachable ==
  \A o \in Ops :
    stage[o] \in {"request", "announce", "soac", "await"} /\ promise[o] = "pending" =>
      o \in promised /\ (o \in transceivers \/ (ShortOfTracks(o) /\ fired[o] = 1))

\* The except clause of publish and subscribe: a call that failed has taken
\* back its registration and, if it knew its session, the session from the
\* server, unless the undoing was broken off or the server did not take the
\* request.
FailedCallsLeaveNothing ==
  \A o \in Ops : stage[o] = "failed" =>
    /\ o \in transceivers => o \in broken
    /\ o \in known /\ server[o] # "gone" => o \in broken \cup refused

\* Every call returns, unless the channel is closed under it or it waits for
\* the last track of a subscription.
CallEnds ==
  \A o \in Ops :
    stage[o] = "chain" ~>
      stage[o] \in {"done", "failed"} \/ Ended \/ (ShortOfTracks(o) /\ promise[o] = "pending")

\* close(): once called it gets to its end, whoever waits for it and for whom
\* it waits, or a failing stop() ends it.
CloseEnds == Ended ~> Over
=============================================================================
