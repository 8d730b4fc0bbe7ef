-------------------------------- MODULE Client --------------------------------
(***************************************************************************)
(* The tables of ConferenceClient (client.py): who and what is in the      *)
(* conference, and the channels of the client's own calls, under messages  *)
(* of the server, publish and subscribe, leave, and the end of a session.  *)
(*                                                                         *)
(* Messages pass through the EventDispatcher of the signaling (common.py), *)
(* whose lock is FIFO and held until every listener has returned: queue is *)
(* the event being dispatched and the ones that wait.  The events          *)
(* 'connected' and 'disconnect' pass through the same lock, the latter     *)
(* when the socket it is about has been closed.                            *)
(*                                                                         *)
(* Participants and streams are members alike.  A channel is what Channel  *)
(* says of it: up, closing, ended, or aborted when close() broke off; it   *)
(* belongs to one call.  The join is one step here, what happens within it *)
(* is in Session.  Audio and video updates of a channel's session are      *)
(* "mute"; other updates change no table.                                  *)
(***************************************************************************)
EXTENDS Integers, Sequences, FiniteSets, SequencesExt

CONSTANTS
  Calls,     \* calls of publish and subscribe
  Members,   \* participants and streams of others
  Faults,    \* what may go wrong, by the guards that name it
  MaxJoins,  \* bound: calls of join
  MaxQueue   \* bound: messages sent and not yet handled

ASSUME BoundsAssumption == MaxJoins \in Nat /\ MaxQueue \in Nat
ASSUME NamesAssumption == "none" \notin Calls \cup Members
ASSUME CallsAssumption == IsFiniteSet(Calls)

VARIABLES
  session,  \* the number of joins
  joined,   \* __ready is set
  portal,   \* the signaling has a socket
  ending,   \* sessions whose socket was given up and is being closed
  roster,   \* members of the conference, at the server
  members,  \* keys of participants and remoteStreams
  queue,    \* events of the signaling, from the one being dispatched on
  run,      \* how far the dispatch of the first one is
  size,     \* size of the channel table when it began
  table,    \* keys of channels, in the order they were made
  call,     \* where each call is
  chan,     \* its channel
  born,     \* the session it was made in
  leave,    \* how far the _try_leave in progress is
  rest,     \* channels it has still to close
  owed      \* sessions the callers had when it began (history)

vars == << session, joined, portal, ending, roster, members, queue, run, size, table, call, chan,
           born, leave, rest, owed >>
tableVars == << table, call, chan, born >>
leaveVars == << leave, rest, owed >>
dispatchVars == << queue, run, size >>
sessionVars == << session, joined, portal, ending >>

Disconnect(k) == << "disconnect", k >>

TypeOK ==
  /\ session \in 0..MaxJoins /\ joined \in BOOLEAN /\ portal \in BOOLEAN
  /\ ending \subseteq 1..session
  /\ roster \subseteq Members /\ members \subseteq Members
  /\ queue \in Seq({"disconnect"} \X (1..MaxJoins)
                    \cup {"add", "remove"} \X Members
                    \cup {"ready", "mute"} \X Calls)
  /\ run \in {"none", "on", "postponed", "leaving"}
  /\ size \in 0..Cardinality(Calls)
  /\ table \in Seq(Calls) /\ IsInjective(table)
  /\ call \in [Calls -> {"idle", "requested", "announced", "answered", "settled", "open"}]
  /\ chan \in [Calls -> {"none", "up", "closing", "ended", "aborted"}]
  /\ born \in [Calls -> 0..session]
  /\ leave \in {"none", "closing", "waiting", "cleared", "event"}
  /\ rest \in Seq(Calls) /\ owed \subseteq Calls

Init ==
  /\ session = 0 /\ joined = FALSE /\ portal = FALSE /\ ending = {}
  /\ roster = {} /\ members = {}
  /\ queue = << >> /\ run = "none" /\ size = 0
  /\ table = << >>
  /\ call = [c \in Calls |-> "idle"] /\ chan = [c \in Calls |-> "none"]
  /\ born = [c \in Calls |-> 0]
  /\ leave = "none" /\ rest = << >> /\ owed = {}

\* An aborted close() has let go of nothing: its session is still there.
Live == {"up", "aborted"}
Sessions == {c \in Calls : call[c] = "open" /\ chan[c] \in Live /\ born[c] = session}

-----------------------------------------------------------------------------
(* join                                                                    *)

\* connect() dispatches 'connected' before it logs in: it waits its turn.
DrainedAlways == TRUE
Drained == queue = << >>

\* The answer to the login, with whoever is there by now, fills the tables.
Join ==
  /\ ~joined /\ leave = "none" /\ ~portal
  /\ session < MaxJoins
  /\ Drained
  /\ session' = session + 1
  /\ joined' = TRUE /\ portal' = TRUE
  /\ roster' \in SUBSET Members
  /\ members' = members \cup roster'
  /\ owed' = {}
  /\ UNCHANGED << ending, dispatchVars, tableVars, leave, rest >>

-----------------------------------------------------------------------------
(* The server                                                              *)

\* Each message has a task of its own; the lock keeps their order.
Send(msg) ==
  /\ Len(queue) < MaxQueue
  /\ queue' = Append(queue, msg)

\* Somebody comes or goes, and the client is told.  Who does while it has no
\* socket is seen at the next join.
RosterChanges(m) ==
  /\ portal
  /\ roster' = IF m \in roster THEN roster \ {m} ELSE roster \cup {m}
  /\ Send(<< IF m \in roster THEN "remove" ELSE "add", m >>)
  /\ UNCHANGED << sessionVars, members, run, size, tableVars, leaveVars >>

ServerReady(c) ==
  /\ portal /\ born[c] = session
  /\ call[c] = "announced"
  /\ Send(<< "ready", c >>)
  /\ call' = [call EXCEPT ![c] = "answered"]
  /\ UNCHANGED << sessionVars, roster, members, run, size, table, chan, born, leaveVars >>

ServerMutes(c) ==
  /\ "mute" \in Faults
  /\ portal /\ born[c] = session
  /\ call[c] = "open" /\ chan[c] \in Live
  /\ Send(<< "mute", c >>)
  /\ UNCHANGED << sessionVars, roster, members, run, size, tableVars, leaveVars >>

-----------------------------------------------------------------------------
(* Channels                                                                *)

\* close() of c is called: during an onMessage of c it is postponed to its end.
InHandler(c) == run = "on" /\ Head(queue) \in {<< "ready", c >>, << "mute", c >>}

Close(c) ==
  /\ chan' = [chan EXCEPT ![c] = "closing"]
  /\ run' = IF InHandler(c) THEN "postponed" ELSE run

\* The session has ended, by stop() or an error message, or the connection.
ChannelEnds(c) ==
  /\ chan[c] = "up"
  /\ call[c] \in {"announced", "answered", "settled", "open"}
  /\ Close(c)
  /\ UNCHANGED << sessionVars, roster, members, queue, size, table, call, born, leaveVars >>

\* close() is over: its 'ended' listener deletes the key that has the channel.
WithoutFirst(c) == IF table = << >> THEN table ELSE Tail(table)
Without(c) == RemoveFirst(table, c)

Closed(c) ==
  /\ chan[c] = "closing"
  /\ chan' = [chan EXCEPT ![c] = "ended"]
  /\ table' = Without(c)
  /\ UNCHANGED << sessionVars, roster, members, dispatchVars, call, born, leaveVars >>

\* stop() of the session raises: close() swallows that and returns, nobody is
\* told that the channel has ended, and the next close() returns at once.
CloseBreaks(c) ==
  /\ "abort" \in Faults
  /\ chan[c] = "closing"
  /\ chan' = [chan EXCEPT ![c] = "aborted"]
  /\ UNCHANGED << sessionVars, roster, members, dispatchVars, table, call, born, leaveVars >>

Over(c) == chan[c] \in {"ended", "aborted"}

-----------------------------------------------------------------------------
(* publish and subscribe.  A call that raises leaves its channel where it  *)
(* is, in the table or not: it is one that goes no further.                *)

Request(c) ==
  /\ call[c] = "idle"
  /\ joined
  /\ call' = [call EXCEPT ![c] = "requested"]
  /\ chan' = [chan EXCEPT ![c] = "up"]
  /\ born' = [born EXCEPT ![c] = session]
  /\ UNCHANGED << sessionVars, roster, members, dispatchVars, table, leaveVars >>

\* The response: the channel's 'id' listener puts it into the table, under
\* the id of the session.
AnnounceUnderBothIds(c) ==
  /\ call[c] = "requested"
  /\ portal /\ born[c] = session
  /\ call' = [call EXCEPT ![c] = "announced"]
  /\ table' = table \o << c, c >>
  /\ UNCHANGED << sessionVars, roster, members, dispatchVars, chan, born, leaveVars >>
Announce(c) ==
  /\ call[c] = "requested"
  /\ portal /\ born[c] = session
  /\ call' = [call EXCEPT ![c] = "announced"]
  /\ table' = Append(table, c)
  /\ UNCHANGED << sessionVars, roster, members, dispatchVars, chan, born, leaveVars >>

Return(c) ==
  /\ call[c] = "settled"
  /\ call' = [call EXCEPT ![c] = "open"]
  /\ UNCHANGED << sessionVars, roster, members, dispatchVars, table, chan, born, leaveVars >>

-----------------------------------------------------------------------------
(* leave: _try_leave                                                       *)

LeaveBegins ==
  /\ joined' = FALSE
  /\ leave' = "closing" /\ rest' = table
  /\ owed' = Sessions

Leave ==
  /\ joined
  /\ LeaveBegins
  /\ UNCHANGED << session, portal, ending, roster, members, dispatchVars, tableVars >>

\* The next channel of the list taken at the beginning.  close() returns at
\* once when the channel is closing already, or when it is postponed.
ClosesOnlyFirst(c) == chan[c] = "up" /\ rest = table
Closes(c) == chan[c] = "up"

LeaveNext ==
  /\ leave = "closing" /\ rest # << >>
  /\ LET c == Head(rest)
     IN  \/ /\ Closes(c)
            /\ Close(c)
            /\ \/ InHandler(c) /\ leave' = "closing" /\ rest' = Tail(rest)
               \/ ~InHandler(c) /\ leave' = "waiting" /\ UNCHANGED rest
         \/ /\ ~Closes(c)
            /\ rest' = Tail(rest)
            /\ UNCHANGED << leave, chan, run >>
  /\ UNCHANGED << sessionVars, roster, members, queue, size, table, call, born, owed >>

LeaveWaited ==
  /\ leave = "waiting"
  /\ Over(Head(rest))
  /\ leave' = "closing" /\ rest' = Tail(rest)
  /\ UNCHANGED << sessionVars, roster, members, dispatchVars, tableVars, owed >>

\* disconnect() gives up the socket, unless another one has.
GiveUp ==
  /\ portal' = FALSE
  /\ ending' = IF portal THEN ending \cup {session} ELSE ending

SocketClosed(k) ==
  /\ k \in ending
  /\ ending' = ending \ {k}
  /\ queue' = Append(queue, Disconnect(k))
  /\ UNCHANGED << session, joined, portal, roster, members, run, size, tableVars, leaveVars >>

\* The table is cleared, the QUIC channel is closed, then the client
\* disconnects.  It waits until the event has been dispatched, or for nothing
\* when another one gave up the socket; at the end clean().
MustWaitAlways == TRUE
MustWait == portal

LeaveCleared ==
  /\ leave = "closing" /\ rest = << >>
  /\ table' = << >>
  /\ leave' = "cleared"
  /\ UNCHANGED << sessionVars, roster, members, dispatchVars, call, chan, born, rest, owed >>

LeaveDisconnects ==
  /\ leave = "cleared"
  /\ GiveUp
  /\ leave' = IF MustWait THEN "event" ELSE "none"
  /\ members' = IF MustWait THEN members ELSE {}
  /\ UNCHANGED << session, joined, roster, dispatchVars, tableVars, rest, owed >>

LeaveEnd ==
  /\ leave = "event"
  /\ session \notin ending /\ ~Contains(queue, Disconnect(session))
  /\ leave' = "none"
  /\ members' = {}
  /\ UNCHANGED << sessionVars, roster, dispatchVars, tableVars, rest, owed >>

-----------------------------------------------------------------------------
(* Dispatch: one event at a time, to its end.                              *)

\* The server's drop.
Drop ==
  /\ "drop" \in Faults
  /\ portal
  /\ GiveUp
  /\ UNCHANGED << session, joined, roster, members, dispatchVars, tableVars, leaveVars >>

\* The listeners of the first event have something to wait for, or not.
Goes(on) ==
  IF on THEN run' = "on" /\ UNCHANGED queue ELSE queue' = Tail(queue) /\ UNCHANGED run

Added(m) ==
  /\ Head(queue) = << "add", m >>
  /\ members' = members \cup {m}
  /\ Goes(TRUE)

Removed(m) ==
  /\ Head(queue) = << "remove", m >>
  /\ members' = members \ {m}
  /\ Goes(m \in members)

HandleMember(m) ==
  /\ Added(m) \/ Removed(m)
  /\ UNCHANGED << sessionVars, size, call, leaveVars >>

\* onSignalingMessage: a message of a channel that is not in the table is
\* dropped; an update goes to every channel, the loop waits at the one that
\* has the session.
HandleChannel(c) ==
  /\ \/ /\ Head(queue) = << "ready", c >>
        /\ call' = [call EXCEPT ![c] =
             IF Contains(table, c) /\ chan[c] \in Live /\ @ = "answered" THEN "settled" ELSE @]
     \/ /\ Head(queue) = << "mute", c >>
        /\ UNCHANGED call
  /\ Goes(Contains(table, c))
  /\ size' = IF Contains(table, c) THEN Len(table) ELSE 0
  /\ UNCHANGED << sessionVars, members, leaveVars >>

\* The client's listener of 'disconnect' leaves, if it is still joined.
HandleDisconnect ==
  /\ \E k \in 1..session : Head(queue) = Disconnect(k)
  /\ \/ joined /\ LeaveBegins /\ run' = "leaving" /\ UNCHANGED queue
     \/ ~joined /\ Goes(FALSE) /\ UNCHANGED << joined, leaveVars >>
  /\ UNCHANGED << session, portal, ending, size, members, call >>

Handle ==
  /\ run = "none" /\ queue # << >>
  /\ \/ \E m \in Members : HandleMember(m)
     \/ \E c \in Calls : HandleChannel(c)
     \/ HandleDisconnect
  /\ UNCHANGED << roster, table, chan, born >>

\* A listener of the user's leaves, and waits until that is done.
ListenerLeaves ==
  /\ "listenerLeaves" \in Faults
  /\ run = "on" /\ \E m \in Members : Head(queue) = << "add", m >>
  /\ joined
  /\ LeaveBegins
  /\ run' = "leaving"
  /\ UNCHANGED << session, portal, ending, roster, members, queue, size, tableVars >>

\* The listeners have returned.  A table that changed its size under the loop
\* of an update is an error: the collector's listener gives up the socket.
Handled ==
  /\ \/ run = "on"
     \/ run = "postponed" /\ Over(Head(queue)[2])
     \/ run = "leaving" /\ leave = "none"
  /\ run' = "none" /\ size' = 0
  /\ queue' = Tail(queue)
  /\ IF Head(queue)[1] = "mute" /\ Len(table) # size THEN GiveUp ELSE UNCHANGED << portal, ending >>
  /\ UNCHANGED << session, joined, roster, members, tableVars, leaveVars >>

-----------------------------------------------------------------------------
SocketStep == \E k \in 1..session : SocketClosed(k)
LeaveStep == LeaveNext \/ LeaveWaited \/ LeaveCleared \/ LeaveDisconnects \/ LeaveEnd
CallStep(c) == Announce(c) \/ Return(c) \/ Closed(c) \/ CloseBreaks(c)

Next ==
  \/ Join \/ Leave \/ Drop \/ ListenerLeaves
  \/ LeaveStep \/ Handle \/ Handled \/ SocketStep
  \/ \E m \in Members : RosterChanges(m)
  \/ \E c \in Calls : \/ CallStep(c) \/ Request(c) \/ ChannelEnds(c)
                      \/ ServerReady(c) \/ ServerMutes(c)

Spec == Init /\ [][Next]_vars

\* The event loop runs what can run, listeners return, sockets close, and a
\* close() that was called ends or breaks off (Channel's CloseEnds).
Fairness ==
  /\ WF_vars(LeaveStep) /\ WF_vars(Handle) /\ WF_vars(Handled) /\ WF_vars(SocketStep)
  /\ \A c \in Calls : WF_vars(Closed(c) \/ CloseBreaks(c))
FairSpec == Spec /\ Fairness

-----------------------------------------------------------------------------
(* Properties                                                              *)

\* createPeerConnectionChannel: while the client is joined the server's
\* messages reach the channel of every session a caller has, one whose close()
\* broke off included, and no key leads to a channel that closed to the end.
TableAgrees ==
  /\ joined => \A c \in Sessions : Contains(table, c)
  /\ \A c \in Calls : Contains(table, c) => chan[c] # "ended"

\* leave(): when it is over, close() has been called on the channel of every
\* session that a caller had when it began, and no key leads to one of them any
\* more.  It need not have ended: somebody else is closing it, a handler of its
\* own postpones the close, or it broke off and left the session up.  A call in
\* progress may escape leave(), which closes the channels it saw and then
\* forgets the others.
LeaveClosesSessions ==
  leave = "none" =>
    \A c \in owed : chan[c] \in {"closing", "ended", "aborted"} /\ ~Contains(table, c)

\* fireStreamAdded, fireParticipantEvent, join: when every message has been
\* handled, nobody who is in the conference is missing, however the sessions
\* before ended.
NobodyMissing == joined /\ portal /\ queue = << >> => roster \subseteq members

\* README.md:94 "leave the conference will automatically close all the related
\* publications and subscribations", at the end of a program: leave() ends,
\* whatever messages are on the way and whoever ends the session meanwhile.
LeaveEnds == leave # "none" ~> leave = "none"

\* leave() within a listener waits for the dispatch that waits for the listener:
\* a listener of the user's, or the client's own, told of the end of a session
\* when the next one has begun.
WaitsForItself == run = "leaving" /\ Head(queue) # Disconnect(session)

\* disconnect(): with that exception, leave() ends.
LeaveEndsUnlessWithin == leave # "none" ~> leave = "none" \/ WaitsForItself
=============================================================================
