--------------------------------- MODULE Quic ---------------------------------
(***************************************************************************)
(* QuicChannel (quic.py): the data publications and subscriptions of one   *)
(* session.  The server answers a subscribe request over the signaling and *)
(* opens the data stream of the subscription over QUIC: whichever comes    *)
(* first leaves something for the other to find, the stream in             *)
(* _sub_streams or a promise in _sub_promises.  close() undoes all of it.  *)
(*                                                                         *)
(* An action is what a coroutine runs between two suspensions; the         *)
(* sections under _lock do not suspend.  A call is its own id.  The client *)
(* makes a channel per session, so init() runs once; it makes no call      *)
(* before join() has returned nor after leave() has begun.                 *)
(***************************************************************************)
EXTENDS FiniteSets

CONSTANTS
  Pubs,   \* calls of publish
  Subs,   \* calls of subscribe
  Faults  \* what may go wrong, by the guards that name it

ASSUME CallsAssumption == Pubs \cap Subs = {} /\ "none" \notin Pubs \cup Subs

Calls == Pubs \cup Subs

VARIABLES
  ready,          \* _ready is set
  joined,         \* the client is joined
  closer,         \* how far close() is
  rest,           \* what it has still to stop
  call,           \* where each call is suspended, or how it ended
  future,         \* the future of each subscribe call
  subPromises,    \* keys of _sub_promises
  subStreams,     \* keys of _sub_streams
  subscriptions,  \* keys of _subscriptions
  publications,   \* keys of _publications
  stream,         \* the data stream of each subscription
  server,         \* what the server knows of each call
  owed            \* what the tables held when close() began (history)

vars == << ready, joined, closer, rest, call, future, subPromises, subStreams, subscriptions,
           publications, stream, server, owed >>
closeVars == << ready, joined, closer, rest, owed >>
subVars == << future, subPromises, subStreams, subscriptions >>

TypeOK ==
  /\ ready \in BOOLEAN /\ joined \in BOOLEAN
  /\ closer \in {"none", "pubs", "subs", "stack", "done"}
  /\ rest \subseteq Calls /\ owed \subseteq Calls
  /\ call \in [Calls -> {"idle", "asked", "waiting", "sending", "returned", "stopped",
                         "failing", "raised"}]
  /\ future \in [Subs -> {"none", "pending", "set", "cancelled"}]
  /\ subPromises \subseteq Subs /\ subStreams \subseteq Subs
  /\ subscriptions \subseteq Subs /\ publications \subseteq Pubs
  /\ stream \in [Subs -> {"none", "opened", "bound", "lost"}]
  /\ server \in [Calls -> {"none", "asked", "made", "answered", "told", "refused"}]

Init ==
  /\ ready = FALSE /\ joined = FALSE /\ closer = "none" /\ rest = {} /\ owed = {}
  /\ call = [c \in Calls |-> "idle"] /\ server = [c \in Calls |-> "none"]
  /\ future = [s \in Subs |-> "none"] /\ stream = [s \in Subs |-> "none"]
  /\ subPromises = {} /\ subStreams = {} /\ subscriptions = {} /\ publications = {}

-----------------------------------------------------------------------------
(* init                                                                    *)

\* The signaling stream is accepted; join() returns without another await.
InitEnds ==
  /\ ~ready /\ closer = "none"
  /\ ready' = TRUE /\ joined' = TRUE
  /\ UNCHANGED << closer, rest, call, subVars, publications, stream, server, owed >>

\* join() fails with it: close() finds _ready not set and returns.
InitFails ==
  /\ ~ready /\ closer = "none"
  /\ closer' = "done"
  /\ UNCHANGED << ready, joined, rest, call, subVars, publications, stream, server, owed >>

-----------------------------------------------------------------------------
(* publish and subscribe                                                   *)

Goes(c, place) == call' = [call EXCEPT ![c] = place]
ServerIs(c, s) == server' = [server EXCEPT ![c] = s]

\* A remote stream that the client made has no quic_stream, and subscribe()
\* asserts one: the call goes on only with a stream the caller has changed.
Request(c) ==
  /\ joined /\ call[c] = "idle"
  /\ \/ Goes(c, "asked") /\ ServerIs(c, "asked")
     \/ c \in Subs /\ Goes(c, "raised") /\ UNCHANGED server
  /\ UNCHANGED << closeVars, subVars, publications, stream >>

\* The request is refused, or its caller is cancelled: what the server makes of
\* it then is not known here.
RequestFails(c) ==
  /\ call[c] = "asked"
  /\ Goes(c, "raised")
  /\ \/ "nack" \in Faults /\ server[c] = "asked" /\ ServerIs(c, "none")
     \/ "cancel" \in Faults /\ UNCHANGED server
  /\ UNCHANGED << closeVars, subVars, publications, stream >>

\* The request to end a session at the server.  When it fails, in the gate, on
\* the way or with a nack, and also when it is cancelled, the error is logged:
\* the session goes on at the server, and nobody asks again.
RequestEnd(c) ==
  \/ ServerIs(c, "told")
  \/ "refuse" \in Faults /\ server[c] # "told" /\ ServerIs(c, "refused")

\* _unpublish and _unsubscribe: the tables, then the request to the server.
FutureCancelled(s) == IF future[s] = "pending" THEN "cancelled" ELSE future[s]

Unpublish(p) ==
  /\ publications' = publications \ {p}
  /\ RequestEnd(p)
  /\ UNCHANGED << subVars, stream >>

UnsubscribeKeepsPromise(s) ==
  /\ subscriptions' = subscriptions \ {s}
  /\ RequestEnd(s)
  /\ UNCHANGED << publications, subPromises, subStreams, future, stream >>
Unsubscribe(s) ==
  /\ subPromises' = subPromises \ {s}
  /\ future' = IF s \in subPromises THEN [future EXCEPT ![s] = FutureCancelled(s)] ELSE future
  /\ subscriptions' = subscriptions \ {s}
  /\ RequestEnd(s)
  /\ UNCHANGED << publications, subStreams, stream >>

Undo(c) == (c \in Pubs /\ Unpublish(c)) \/ (c \in Subs /\ Unsubscribe(c))

\* The call fails, and asks the server to take back what it made.
Fails(c) == Goes(c, "failing") /\ Undo(c)

\* self._subscriptions[sub_id] = subscription
RegisteredByStream(s) == subscriptions' = subscriptions \cup {stream[s]}
Registered(s) == subscriptions' = subscriptions \cup {s}

\* The answer to subscribe: its stream may be there already.
Subscribed(s) ==
  /\ IF s \in subStreams
     THEN /\ Goes(s, "returned")
          /\ Registered(s)
          /\ UNCHANGED << future, subPromises >>
     ELSE /\ Goes(s, "waiting")
          /\ future' = [future EXCEPT ![s] = "pending"]
          /\ subPromises' = subPromises \cup {s}
          /\ UNCHANGED subscriptions
  /\ UNCHANGED << subStreams, publications >>

\* The answer to publish: the id is written to the data stream.
Published(p) == Goes(p, "sending") /\ UNCHANGED << subVars, publications >>

Answer(c) ==
  /\ call[c] = "asked" /\ server[c] = "made"
  /\ \/ /\ ServerIs(c, "answered")
        /\ (c \in Pubs /\ Published(c)) \/ (c \in Subs /\ Subscribed(c))
        /\ UNCHANGED stream
     \/ "mismatch" \in Faults /\ Fails(c)
  /\ UNCHANGED closeVars

\* The id is written, or writing it fails.
Sent(p) ==
  /\ call[p] = "sending"
  /\ \/ /\ Goes(p, "returned")
        /\ publications' = publications \cup {p}
        /\ UNCHANGED << subVars, stream, server >>
     \/ /\ "cancel" \in Faults \/ closer \in {"stack", "done"}
        /\ Fails(p)
  /\ UNCHANGED closeVars

\* The caller of a subscribe call wakes.
Wake(s) ==
  /\ call[s] = "waiting"
  /\ \/ /\ future[s] = "set"
        /\ Goes(s, "returned")
        /\ UNCHANGED << subVars, publications, stream, server >>
     \/ future[s] = "cancelled" /\ Fails(s)
  /\ UNCHANGED closeVars

\* The caller is cancelled, and with it the future it awaits.  A result that
\* it has not been given yet is lost.
Cancel(s) ==
  /\ "cancel" \in Faults
  /\ call[s] = "waiting" /\ future[s] # "cancelled"
  /\ future' = [future EXCEPT ![s] = "cancelled"]
  /\ UNCHANGED << closeVars, call, subPromises, subStreams, subscriptions, publications, stream,
                  server >>

FailureTold(c) ==
  /\ call[c] = "failing"
  /\ Goes(c, "raised")
  /\ UNCHANGED << closeVars, subVars, publications, stream, server >>

\* stop() of a publication or subscription, by its owner.
Stop(c) ==
  /\ call[c] = "returned"
  /\ Goes(c, "stopped")
  /\ Undo(c)
  /\ UNCHANGED closeVars

-----------------------------------------------------------------------------
(* bind_subscription                                                       *)

\* The first bytes of a stream name its subscription.  One whose future has
\* been cancelled takes no subscription.
BindWaitingOnly(s) ==
  /\ subStreams' = IF s \in subPromises THEN subStreams \cup {s} ELSE subStreams
  /\ IF s \in subPromises /\ future[s] = "pending"
     THEN /\ subPromises' = subPromises \ {s}
          /\ Registered(s)
          /\ future' = [future EXCEPT ![s] = "set"]
     ELSE UNCHANGED << subPromises, subscriptions, future >>
Bind(s) ==
  /\ subStreams' = subStreams \cup {s}
  /\ IF s \in subPromises /\ future[s] = "pending"
     THEN /\ subPromises' = subPromises \ {s}
          /\ Registered(s)
          /\ future' = [future EXCEPT ![s] = "set"]
     ELSE UNCHANGED << subPromises, subscriptions, future >>

StreamBinds(s) ==
  /\ stream[s] = "opened"
  /\ s \notin subscriptions \cup subStreams
  /\ stream' = [stream EXCEPT ![s] = "bound"]
  /\ Bind(s)
  /\ UNCHANGED << closeVars, call, publications, server >>

\* The stream ends before it has named its subscription; nobody is told.
StreamBreaks(s) ==
  /\ "break" \in Faults \/ closer \in {"stack", "done"}
  /\ stream[s] = "opened"
  /\ stream' = [stream EXCEPT ![s] = "lost"]
  /\ UNCHANGED << closeVars, call, subVars, publications, server >>

-----------------------------------------------------------------------------
(* close                                                                   *)

\* After the last one: the promises are cancelled and the connection closed.
CancelledNone == future
CancelledPromises == [s \in Subs |-> IF s \in subPromises THEN FutureCancelled(s) ELSE future[s]]

CloseStack ==
  /\ closer' = "stack" /\ rest' = {}
  /\ future' = CancelledPromises
  /\ subPromises' = {} /\ subStreams' = {}
  /\ UNCHANGED << subscriptions, publications, stream, server >>

StopsOne(phase, left) ==
  /\ closer' = phase
  /\ \E c \in left : rest' = left \ {c} /\ Undo(c)

\* The subscriptions are read when the publications have been stopped.
CloseSubs(left) == StopsOne("subs", left) \/ (left = {} /\ CloseStack)
ClosePubsOnly(left) == StopsOne("pubs", left) \/ (left = {} /\ CloseStack)
ClosePubs(left) == StopsOne("pubs", left) \/ (left = {} /\ CloseSubs(subscriptions))

Leave ==
  /\ joined
  /\ joined' = FALSE
  /\ UNCHANGED << ready, closer, rest, owed, call, subVars, publications, stream, server >>

CloseBegins ==
  /\ ready /\ ~joined /\ closer = "none"
  /\ owed' = publications \cup subscriptions
  /\ ClosePubs(publications)
  /\ UNCHANGED << ready, joined, call >>

\* The request of the one being stopped has been answered.
CloseNext ==
  /\ \/ closer = "pubs" /\ ClosePubs(rest)
     \/ closer = "subs" /\ CloseSubs(rest)
  /\ UNCHANGED << ready, joined, owed, call >>

CloseEnds ==
  /\ closer = "stack"
  /\ closer' = "done" /\ ready' = FALSE
  /\ UNCHANGED << joined, rest, owed, call, subVars, publications, stream, server >>

-----------------------------------------------------------------------------
(* The server                                                              *)

ServerMakes(c) ==
  /\ server[c] = "asked"
  /\ ServerIs(c, "made")
  /\ UNCHANGED << closeVars, call, subVars, publications, stream >>

\* The data stream of a subscription, before or after the answer to it; also of
\* one that it was asked to end and did not.
StreamOpens(s) ==
  /\ ready /\ closer # "stack"
  /\ server[s] \in {"made", "answered", "refused"} /\ stream[s] = "none"
  /\ stream' = [stream EXCEPT ![s] = "opened"]
  /\ UNCHANGED << closeVars, call, subVars, publications, server >>

-----------------------------------------------------------------------------
ServerStep == (\E c \in Calls : ServerMakes(c)) \/ (\E s \in Subs : StreamOpens(s))
CallStep(c) == Answer(c) \/ FailureTold(c) \/ (c \in Pubs /\ Sent(c)) \/ (c \in Subs /\ Wake(c))
CloseStep == CloseBegins \/ CloseNext \/ CloseEnds

Next ==
  \/ InitEnds \/ InitFails \/ Leave \/ CloseStep \/ ServerStep
  \/ \E c \in Calls : CallStep(c) \/ Request(c) \/ RequestFails(c) \/ Stop(c)
  \/ \E s \in Subs : StreamBinds(s) \/ StreamBreaks(s) \/ Cancel(s)

Spec == Init /\ [][Next]_vars

\* The event loop runs what can run; the server does what it was asked, and a
\* stream that it opens names its subscription.
FairSpec ==
  /\ Spec
  /\ WF_vars(ServerStep) /\ WF_vars(CloseStep)
  /\ \A c \in Calls : WF_vars(CallStep(c))
  /\ \A s \in Subs : WF_vars(StreamBinds(s))

-----------------------------------------------------------------------------
(* Properties                                                              *)

\* subscribe and bind_subscription: while a caller waits its promise can be
\* found and its stream has not been bound; the assertions at the top of
\* bind_subscription hold, whatever was stopped or closed before.
PendingReachable ==
  \A s \in Subs :
    /\ call[s] = "waiting" /\ future[s] = "pending" => s \in subPromises \ subStreams
    /\ stream[s] = "opened" => s \notin subscriptions \cup subStreams

\* _unpublish, _unsubscribe: what has been stopped is in no table any more,
\* whether the server heard of it or not, and nothing that comes later puts it
\* back: not its answer, its stream or the close.
Ended == {"told", "refused"}

StoppedStaysGone ==
  \A c \in Calls : server[c] \in Ended => c \notin publications \cup subscriptions \cup subPromises

\* The server is asked to end all that ends here: what a call had made when it
\* failed after its answer, and what there was when close() began, also what
\* its owner stops meanwhile.  It is asked once: a request that fails or is
\* cancelled is logged and not repeated.
EndRequested ==
  /\ \A c \in Calls : call[c] = "raised" => server[c] # "answered"
  /\ closer = "done" => \A c \in owed : server[c] \in Ended

\* A caller that waits for its stream is given it, or fails, whether the stream
\* or the answer came first; unless the stream broke, or the answer came after
\* close() had cancelled the promises.
SubscribeEnds ==
  \A s \in Subs :
    call[s] = "waiting" ~> call[s] # "waiting" \/ stream[s] = "lost" \/ closer \in {"stack", "done"}
=============================================================================
