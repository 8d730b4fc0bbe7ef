----------------------------- MODULE ClientProofs -----------------------------
(***************************************************************************)
(* Proofs about Client, for any number of calls, members and joins.        *)
(*                                                                         *)
(* Three inductive invariants, each on top of the one before: TInv and     *)
(* Dispatching, the types; CInv, what the channel table and the list of a  *)
(* leave() in progress say of the calls; Rosters, that whoever is in the   *)
(* conference is in the tables once the messages under way are handled.    *)
(***************************************************************************)
EXTENDS Client, FiniteSetTheorems, ListLemmas

Messages ==
  {"disconnect"} \X (1..MaxJoins) \cup {"add", "remove"} \X Members \cup {"ready", "mute"} \X Calls
Stages == {"idle", "requested", "announced", "answered", "settled", "open"}

\* The call was answered with the id of its session.
Under(c) == call[c] \notin {"idle", "requested"}

\* TypeOK by parts, and what keeps it: a call is put into the table once, a
\* socket is that of a join, leave() waits for a channel of its list.
SessionTypes ==
  /\ session \in 0..MaxJoins /\ joined \in BOOLEAN /\ portal \in BOOLEAN
  /\ ending \subseteq 1..session
  /\ portal => session # 0
MemberTypes == roster \subseteq Members /\ members \subseteq Members
DispatchTypes ==
  /\ queue \in Seq(Messages)
  /\ run \in {"none", "on", "postponed", "leaving"}
  /\ size \in 0..Cardinality(Calls)
TableTypes ==
  /\ table \in Seq(Calls) /\ IsInjective(table)
  /\ call \in [Calls -> Stages]
  /\ chan \in [Calls -> {"none", "up", "closing", "ended", "aborted"}]
  /\ born \in [Calls -> 0..session]
  /\ \A c \in Calls : Contains(table, c) => Under(c)
LeaveTypes ==
  /\ leave \in {"none", "closing", "waiting", "cleared", "event"}
  /\ rest \in Seq(Calls) /\ owed \subseteq Calls
  /\ leave = "waiting" => rest # << >>

TInv == SessionTypes /\ MemberTypes /\ DispatchTypes /\ TableTypes /\ LeaveTypes

\* TypeOK is the part of TInv that the runs check.
LEMMA Typed == TInv => TypeOK
  BY DEF TInv, SessionTypes, MemberTypes, DispatchTypes, TableTypes, LeaveTypes, TypeOK, Messages,
         Stages

\* What an action leaves alone keeps its types.
LEMMA Kept ==
  ASSUME TInv
  PROVE  /\ UNCHANGED sessionVars => SessionTypes'
         /\ UNCHANGED << roster, members >> => MemberTypes'
         /\ UNCHANGED dispatchVars => DispatchTypes'
         /\ UNCHANGED << tableVars, session >> => TableTypes'
         /\ UNCHANGED leaveVars => LeaveTypes'
  <1>1. /\ UNCHANGED << roster, members >> => MemberTypes'
        /\ UNCHANGED dispatchVars => DispatchTypes'
    BY DEF TInv, dispatchVars, MemberTypes, DispatchTypes
  <1>5. UNCHANGED sessionVars => SessionTypes'
    BY DEF TInv, sessionVars, SessionTypes
  <1>2. UNCHANGED << tableVars, session >> => TableTypes'
    BY DEF TInv, tableVars, TableTypes, Under, Contains, IsInjective
  <1>3. UNCHANGED leaveVars => LeaveTypes'
    BY DEF TInv, leaveVars, LeaveTypes
  <1>4. QED
    BY <1>1, <1>2, <1>3, <1>5

\* Messages that come and go.
LEMMA Queues ==
  ASSUME DispatchTypes
  PROVE  /\ \A m \in Messages : Append(queue, m) \in Seq(Messages)
         /\ queue # << >> => Tail(queue) \in Seq(Messages) /\ Head(queue) \in Messages
  BY DEF DispatchTypes

\* No channel is twice in the table, so a loop over it has a bound.
LEMMA Sizes ==
  ASSUME TableTypes
  PROVE  Len(table) \in 0..Cardinality(Calls) /\ 0 \in 0..Cardinality(Calls)
  <1>1. Len(table) <= Cardinality(Calls) /\ Len(table) \in Nat /\ Cardinality(Calls) \in Nat
    BY CallsAssumption, InjectiveLength, FS_CardinalityType DEF TableTypes
  <1>2. QED
    BY <1>1

\* The actions of the server.
LEMMA TServer ==
  ASSUME TInv,
         \/ \E m \in Members : RosterChanges(m)
         \/ \E c \in Calls : ServerReady(c) \/ ServerMutes(c)
  PROVE  TInv'
  <1>1. CASE \E m \in Members : RosterChanges(m)
    <2>1. PICK m \in Members : RosterChanges(m)
      BY <1>1
    <2>2. << "add", m >> \in Messages /\ << "remove", m >> \in Messages
      BY DEF Messages
    <2>3. DispatchTypes'
      BY <2>1, <2>2, Queues DEF TInv, RosterChanges, Send, DispatchTypes
    <2>4. MemberTypes'
      BY <2>1 DEF TInv, RosterChanges, MemberTypes
    <2>5. QED
      BY <2>1, <2>3, <2>4, Kept DEF TInv, RosterChanges, sessionVars
  <1>2. CASE \E c \in Calls : ServerReady(c) \/ ServerMutes(c)
    <2>1. PICK c \in Calls : ServerReady(c) \/ ServerMutes(c)
      BY <1>2
    <2>2. << "ready", c >> \in Messages /\ << "mute", c >> \in Messages
      BY DEF Messages
    <2>3. DispatchTypes'
      BY <2>1, <2>2, Queues DEF TInv, ServerReady, ServerMutes, Send, DispatchTypes
    <2>4. TableTypes'
      BY <2>1 DEF TInv, ServerReady, ServerMutes, TableTypes, Under, Stages, tableVars, sessionVars
    <2>5. QED
      BY <2>1, <2>3, <2>4, Kept DEF TInv, ServerReady, ServerMutes
  <1>3. QED
    BY <1>1, <1>2

\* The actions of publish, subscribe and of a channel.
LEMMA TCalls ==
  ASSUME TInv, NEW c \in Calls, CallStep(c) \/ Request(c) \/ ChannelEnds(c)
  PROVE  TInv'
  <1>1. DispatchTypes'
    <2>1. queue' = queue /\ size' = size /\ run' \in {run, "postponed"}
      BY DEF CallStep, Announce, Return, Closed, CloseBreaks, Request, ChannelEnds, Close, dispatchVars
    <2>2. QED
      BY <2>1 DEF TInv, DispatchTypes
  <1>2. UNCHANGED << sessionVars, roster, members, leaveVars >>
    BY DEF CallStep, Announce, Return, Closed, CloseBreaks, Request, ChannelEnds
  <1>3. session \in 0..MaxJoins /\ session' = session
    BY <1>2 DEF TInv, SessionTypes, sessionVars
  <1>4. CASE Announce(c)
    <2>1. /\ call[c] = "requested" /\ call' = [call EXCEPT ![c] = "announced"]
          /\ table' = Append(table, c) /\ chan' = chan /\ born' = born
      BY <1>4 DEF Announce
    <2>2. /\ Len(table') = Len(table) + 1 /\ table' \in Seq(Calls)
          /\ \A i \in 1..Len(table) : table'[i] = table[i] /\ table[i] # c /\ table[i] \in Calls
          /\ table'[Len(table) + 1] = c
      BY <2>1 DEF TInv, TableTypes, Contains, Under
    <2>3. \A i \in 1..Len(table') : i \in 1..Len(table) \/ i = Len(table) + 1
      BY <2>2 DEF TInv, TableTypes
    <2>4. \A i, j \in 1..Len(table') : table'[i] = table'[j] => i = j
      <3>1. \A i, j \in 1..Len(table) : table[i] = table[j] => i = j
        BY DEF TInv, TableTypes, IsInjective
      <3>2. QED
        BY <2>2, <2>3, <3>1
    <2>5. IsInjective(table')
      BY <2>2, <2>4 DEF IsInjective
    <2>6. \A x \in Calls : Contains(table', x) => x = c \/ Contains(table, x)
      BY <2>2, <2>3 DEF Contains
    <2>7. \A x \in Calls : Contains(table', x) => Under(x)'
      BY <2>1, <2>6 DEF TInv, TableTypes, Under
    <2>8. TableTypes'
      BY <1>3, <2>1, <2>2, <2>5, <2>7 DEF TInv, TableTypes, Stages
    <2>9. QED
      BY <1>1, <1>2, <2>8, Kept DEF TInv
  <1>5. CASE Closed(c)
    <2>1. table' = RemoveFirst(table, c) /\ chan' = [chan EXCEPT ![c] = "ended"] /\ call' = call
          /\ born' = born
      BY <1>5 DEF Closed, Without
    <2>2. TableTypes'
      BY <1>3, <2>1, RemoveFirstKeeps DEF TInv, TableTypes, Under
    <2>3. QED
      BY <1>1, <1>2, <2>2, Kept DEF TInv
  <1>6. CASE Return(c) \/ Request(c) \/ ChannelEnds(c) \/ CloseBreaks(c)
    <2>1. table' = table
      BY <1>6 DEF Return, Request, ChannelEnds, CloseBreaks
    <2>2. call' \in [Calls -> Stages] /\ chan' \in [Calls -> {"none", "up", "closing", "ended", "aborted"}]
          /\ born' \in [Calls -> 0..session]
      <3>1. call' \in [Calls -> Stages]
        BY <1>6 DEF Return, Request, ChannelEnds, CloseBreaks, TInv, TableTypes, Stages
      <3>2. chan' \in [Calls -> {"none", "up", "closing", "ended", "aborted"}]
        BY <1>6 DEF Return, Request, ChannelEnds, CloseBreaks, Close, TInv, TableTypes
      <3>3. session \in 0..session
        BY <1>3
      <3>4. born' \in [Calls -> 0..session]
        BY <1>6, <3>3 DEF Return, Request, ChannelEnds, CloseBreaks, TInv, TableTypes
      <3>5. QED
        BY <3>1, <3>2, <3>4
    <2>3. \A x \in Calls : Contains(table, x) => Under(x)'
      BY <1>6 DEF Return, Request, ChannelEnds, CloseBreaks, TInv, TableTypes, Under
    <2>4. QED
      BY <1>1, <1>2, <1>3, <2>1, <2>2, <2>3, Kept DEF TInv, TableTypes
  <1>7. QED
    BY <1>4, <1>5, <1>6 DEF CallStep

\* How a session begins and ends.
LEMMA TSession ==
  ASSUME TInv, Join \/ Leave \/ Drop \/ ListenerLeaves \/ LeaveStep \/ SocketStep
  PROVE  TInv'
  <1>1. CASE Join
    <2>1. /\ session' = session + 1 /\ session' \in 0..MaxJoins
          /\ joined' \in BOOLEAN /\ portal' \in BOOLEAN /\ ending' = ending
      BY <1>1, BoundsAssumption DEF Join, TInv, SessionTypes
    <2>2. SessionTypes' /\ 0..session \subseteq 0..session'
      BY <2>1 DEF TInv, SessionTypes
    <2>3. TableTypes'
      BY <1>1, <2>2 DEF Join, tableVars, TInv, TableTypes, Under
    <2>4. MemberTypes'
      BY <1>1 DEF Join, TInv, MemberTypes
    <2>5. LeaveTypes'
      BY <1>1 DEF Join, TInv, LeaveTypes
    <2>6. QED
      BY <1>1, <2>2, <2>3, <2>4, <2>5, Kept DEF Join, TInv
  <1>2. CASE Leave \/ ListenerLeaves
    <2>1. LeaveTypes'
      BY <1>2 DEF Leave, ListenerLeaves, LeaveBegins, Sessions, TInv, LeaveTypes, TableTypes
    <2>2. SessionTypes'
      <3>1. joined' = FALSE /\ UNCHANGED << session, portal, ending >>
        BY <1>2 DEF Leave, ListenerLeaves, LeaveBegins
      <3>2. QED
        BY <3>1 DEF TInv, SessionTypes
    <2>3. DispatchTypes'
      BY <1>2 DEF Leave, ListenerLeaves, TInv, DispatchTypes, dispatchVars
    <2>4. QED
      BY <1>2, <2>1, <2>2, <2>3, Kept DEF Leave, ListenerLeaves, TInv
  <1>3. CASE Drop
    <2>1. SessionTypes'
      <3>1. portal => session \in 1..session
        BY DEF TInv, SessionTypes
      <3>2. QED
        BY <1>3, <3>1 DEF Drop, GiveUp, TInv, SessionTypes
    <2>2. QED
      BY <1>3, <2>1, Kept DEF Drop, TInv
  <1>4. CASE SocketStep
    <2>1. PICK k \in 1..session : SocketClosed(k)
      BY <1>4 DEF SocketStep
    <2>2. Disconnect(k) \in Messages
      <3>1. k \in 1..MaxJoins
        BY <2>1, BoundsAssumption DEF TInv, SessionTypes
      <3>2. QED
        BY <3>1 DEF Disconnect, Messages
    <2>3. DispatchTypes'
      BY <2>1, <2>2, Queues DEF SocketClosed, TInv, DispatchTypes
    <2>4. SessionTypes'
      BY <2>1 DEF SocketClosed, TInv, SessionTypes
    <2>5. QED
      BY <2>1, <2>3, <2>4, Kept DEF SocketClosed, TInv
  <1>5. CASE LeaveNext
    <2>1. LeaveTypes'
      BY <1>5 DEF LeaveNext, TInv, LeaveTypes
    <2>2. DispatchTypes'
      BY <1>5 DEF LeaveNext, Close, TInv, DispatchTypes
    <2>3. chan' \in [Calls -> {"none", "up", "closing", "ended", "aborted"}]
      BY <1>5 DEF LeaveNext, Close, TInv, TableTypes
    <2>4. TableTypes'
      BY <1>5, <2>3 DEF LeaveNext, TInv, TableTypes, Under, sessionVars
    <2>5. QED
      BY <1>5, <2>1, <2>2, <2>4, Kept DEF LeaveNext, TInv
  <1>6. CASE LeaveWaited
    <2>1. LeaveTypes'
      BY <1>6 DEF LeaveWaited, TInv, LeaveTypes
    <2>2. QED
      BY <1>6, <2>1, Kept DEF LeaveWaited, TInv, sessionVars
  <1>7. CASE LeaveCleared
    <2>1. TableTypes'
      <3>1. << >> \in Seq(Calls) /\ IsInjective(<< >>) /\ \A x : ~Contains(<< >>, x)
        BY DEF IsInjective, Contains
      <3>2. QED
        BY <1>7, <3>1 DEF LeaveCleared, sessionVars, TInv, TableTypes
    <2>2. LeaveTypes'
      BY <1>7 DEF LeaveCleared, TInv, LeaveTypes
    <2>3. QED
      BY <1>7, <2>1, <2>2, Kept DEF LeaveCleared, TInv
  <1>10. CASE LeaveDisconnects
    <2>1. LeaveTypes' /\ MemberTypes'
      BY <1>10 DEF LeaveDisconnects, TInv, LeaveTypes, MemberTypes
    <2>2. SessionTypes'
      <3>1. portal => session \in 1..session
        BY DEF TInv, SessionTypes
      <3>2. QED
        BY <1>10, <3>1 DEF LeaveDisconnects, GiveUp, TInv, SessionTypes
    <2>3. QED
      BY <1>10, <2>1, <2>2, Kept DEF LeaveDisconnects, TInv
  <1>8. CASE LeaveEnd
    <2>1. LeaveTypes' /\ MemberTypes'
      BY <1>8 DEF LeaveEnd, TInv, LeaveTypes, MemberTypes
    <2>2. QED
      BY <1>8, <2>1, Kept DEF LeaveEnd, TInv, sessionVars
  <1>9. QED
    BY <1>1, <1>2, <1>3, <1>4, <1>5, <1>6, <1>7, <1>8, <1>10 DEF LeaveStep

\* The dispatch of an event begins.
LEMMA THandle ==
  ASSUME TInv, Handle
  PROVE  TInv'
  <1>1. queue # << >> /\ UNCHANGED << roster, table, chan, born >>
    BY DEF Handle
  <1>2. ASSUME \/ run' = "on" /\ UNCHANGED queue
               \/ queue' = Tail(queue) /\ UNCHANGED run
        PROVE  queue' \in Seq(Messages) /\ run' \in {"none", "on", "postponed", "leaving"}
    BY <1>1, <1>2, Queues DEF TInv, DispatchTypes
  <1>3. ASSUME NEW m \in Members, HandleMember(m)
        PROVE  TInv'
    <2>1. MemberTypes'
      BY <1>1, <1>3 DEF HandleMember, Added, Removed, TInv, MemberTypes
    <2>2. \/ run' = "on" /\ UNCHANGED queue
          \/ queue' = Tail(queue) /\ UNCHANGED run
      BY <1>3 DEF HandleMember, Added, Removed, Goes
    <2>3. DispatchTypes'
      BY <1>2, <1>3, <2>2 DEF HandleMember, TInv, DispatchTypes
    <2>4. QED
      BY <1>1, <1>3, <2>1, <2>3, Kept DEF HandleMember, TInv, tableVars, sessionVars
  <1>4. ASSUME NEW c \in Calls, HandleChannel(c)
        PROVE  TInv'
    <2>1. queue' \in Seq(Messages) /\ run' \in {"none", "on", "postponed", "leaving"}
      BY <1>2, <1>4 DEF HandleChannel, Goes
    <2>2. size' \in 0..Cardinality(Calls)
      BY <1>4, Sizes DEF HandleChannel, TInv
    <2>3. DispatchTypes'
      BY <2>1, <2>2 DEF DispatchTypes
    <2>4. \E s : (s = call[c] \/ s = "settled") /\ call' = [call EXCEPT ![c] = s]
      BY <1>4 DEF HandleChannel, TInv, TableTypes
    <2>5. call' \in [Calls -> Stages] /\ \A x \in Calls : Under(x) => Under(x)'
      BY <2>4 DEF TInv, TableTypes, Stages, Under
    <2>6. TableTypes'
      BY <1>1, <1>4, <2>5 DEF HandleChannel, sessionVars, TInv, TableTypes
    <2>7. QED
      BY <1>1, <1>4, <2>3, <2>6, Kept DEF HandleChannel, TInv
  <1>5. CASE HandleDisconnect
    <2>1. LeaveTypes'
      <3>1. \/ leave' = "closing" /\ rest' = table /\ owed' = Sessions
            \/ UNCHANGED leaveVars
        BY <1>5 DEF HandleDisconnect, LeaveBegins
      <3>2. CASE leave' = "closing" /\ rest' = table /\ owed' = Sessions
        BY <3>2 DEF Sessions, TInv, LeaveTypes, TableTypes
      <3>3. QED
        BY <3>1, <3>2, Kept
    <2>2. SessionTypes'
      <3>1. joined' \in {joined, FALSE} /\ UNCHANGED << session, portal, ending >>
        BY <1>5 DEF HandleDisconnect, LeaveBegins
      <3>2. QED
        BY <3>1 DEF TInv, SessionTypes
    <2>3. DispatchTypes'
      BY <1>1, <1>5, Queues DEF HandleDisconnect, Goes, TInv, DispatchTypes
    <2>4. QED
      BY <1>1, <1>5, <2>1, <2>2, <2>3, Kept DEF HandleDisconnect, TInv, tableVars
  <1>6. QED
    BY <1>3, <1>4, <1>5 DEF Handle

\* While an event is being dispatched it is in the queue.
Dispatching == run # "none" => queue # << >>

\* The dispatch of an event ends.
LEMMA THandled ==
  ASSUME TInv, Dispatching, Handled
  PROVE  TInv'
  <1>1. queue # << >>
    BY DEF Handled, Dispatching
  <1>2. DispatchTypes'
    BY <1>1, Queues, Sizes DEF Handled, TInv, DispatchTypes
  <1>3. SessionTypes'
    <2>1. portal => session \in 1..session
      BY DEF TInv, SessionTypes
    <2>2. QED
      BY <2>1 DEF Handled, GiveUp, TInv, SessionTypes
  <1>4. QED
    BY <1>2, <1>3, Kept DEF Handled, TInv

\* Before the first join.
LEMMA TInit == Init => TInv /\ Dispatching
  <1> SUFFICES ASSUME Init PROVE TInv /\ Dispatching
    OBVIOUS
  <1>1. << >> \in Seq(Messages) /\ << >> \in Seq(Calls)
    OBVIOUS
  <1>2. SessionTypes
    <2>1. 0 \in 0..MaxJoins /\ {} \subseteq 1..0
      BY BoundsAssumption
    <2>2. QED
      BY <2>1 DEF Init, SessionTypes
  <1>7. MemberTypes /\ Dispatching
    BY DEF Init, MemberTypes, Dispatching
  <1>3. LeaveTypes
    BY <1>1 DEF Init, LeaveTypes
  <1>4. TableTypes
    BY <1>1 DEF Init, TableTypes, Stages, IsInjective, Contains
  <1>5. DispatchTypes
    BY <1>1, <1>4, Sizes DEF Init, DispatchTypes
  <1>6. QED
    BY <1>2, <1>3, <1>4, <1>5, <1>7 DEF TInv

\* Only the end of a dispatch takes an event out of the queue.
LEMMA DispatchingStep ==
  ASSUME TInv, Dispatching, [Next]_vars
  PROVE  Dispatching'
  <1>1. queue \in Seq(Messages)
    BY DEF TInv, DispatchTypes
  <1>2. CASE Handle
    BY <1>2 DEF Handle, HandleMember, Added, Removed, HandleChannel, HandleDisconnect, Goes,
                Dispatching
  <1>3. CASE Handled
    BY <1>3 DEF Handled, Dispatching
  <1>4. CASE \/ \E m \in Members : RosterChanges(m)
             \/ \E c \in Calls : ServerReady(c) \/ ServerMutes(c)
             \/ SocketStep
    <2>1. run' = run /\ \E m : queue' = Append(queue, m)
      BY <1>4 DEF RosterChanges, ServerReady, ServerMutes, Send, SocketStep, SocketClosed
    <2>2. QED
      BY <1>1, <2>1 DEF Dispatching
  <1>5. CASE \/ Join \/ Leave \/ Drop \/ ListenerLeaves \/ LeaveStep \/ UNCHANGED vars
             \/ \E c \in Calls : CallStep(c) \/ Request(c) \/ ChannelEnds(c)
    <2>1. queue' = queue
      BY <1>5 DEF Join, Leave, Drop, ListenerLeaves, LeaveStep, LeaveNext, LeaveWaited,
                  LeaveCleared, LeaveDisconnects, LeaveEnd, CallStep, Announce, Return, Closed, CloseBreaks, Request, ChannelEnds,
                  vars, dispatchVars
    <2>2. run' = run \/ run = "on"
      BY <1>5 DEF Join, Leave, Drop, ListenerLeaves, LeaveStep, LeaveNext, LeaveWaited,
                  LeaveCleared, LeaveDisconnects, LeaveEnd, CallStep, Announce, Return, Closed, CloseBreaks, Request, ChannelEnds,
                  vars, dispatchVars, Close, InHandler
    <2>3. QED
      BY <2>1, <2>2 DEF Dispatching
  <1>6. QED
    BY <1>2, <1>3, <1>4, <1>5 DEF Next

\* Every step keeps the types.
LEMMA TStep == TInv /\ Dispatching /\ [Next]_vars => TInv' /\ Dispatching'
  <1> SUFFICES ASSUME TInv, Dispatching, [Next]_vars PROVE TInv'
    BY DispatchingStep
  <1>1. CASE UNCHANGED vars
    BY <1>1, Kept DEF vars, TInv, sessionVars, dispatchVars, tableVars, leaveVars
  <1>2. CASE Next
    <2>1. CASE Handle \/ Handled
      BY <2>1, THandle, THandled
    <2>2. CASE \E c \in Calls : CallStep(c) \/ Request(c) \/ ChannelEnds(c)
      BY <2>2, TCalls
    <2>3. CASE \/ \E m \in Members : RosterChanges(m)
               \/ \E c \in Calls : ServerReady(c) \/ ServerMutes(c)
      BY <2>3, TServer
    <2>4. CASE Join \/ Leave \/ Drop \/ ListenerLeaves \/ LeaveStep \/ SocketStep
      BY <2>4, TSession
    <2>5. QED
      BY <1>2, <2>1, <2>2, <2>3, <2>4 DEF Next
  <1>3. QED
    BY <1>1, <1>2

\* The tables, calls and channels of ConferenceClient keep their types; no channel
\* is in the table twice (createPeerConnectionChannel).
THEOREM ClientTypes == Spec => []TypeOK
  BY Typed, TInit, TStep, PTL DEF Spec

-----------------------------------------------------------------------------
\* While the client is joined the channel of every answered call of this
\* session is in the table until it has ended; a channel leaves the table when
\* it ends, and nothing but the call's own answer puts it there.
Channels ==
  /\ \A c \in Calls : call[c] = "requested" => chan[c] = "up"
  /\ \A c \in Calls : Under(c) => chan[c] # "none"
  /\ joined => \A c \in Calls :
                 Under(c) /\ born[c] = session /\ chan[c] # "ended" => Contains(table, c)
  /\ \A c \in Calls : Contains(table, c) => chan[c] # "ended"

\* leave() stands at a channel that is no longer up, and those of the callers
\* that are up are on the rest of its list; once the table has been cleared,
\* none of them comes back.
Leaving ==
  /\ leave # "none" => ~joined
  /\ leave = "waiting" => chan[Head(rest)] # "up"
  /\ \A c \in Calls : Contains(rest, c) => Under(c)
  /\ \A c \in owed : Under(c)
  /\ \A c \in owed : chan[c] = "up" => leave \in {"closing", "waiting"} /\ Contains(rest, c)
  /\ \A c \in owed : leave \in {"closing", "waiting"} \/ ~Contains(table, c)

\* A step that changes no table and answers no call.
LEMMA ChannelsKept ==
  ASSUME TInv, Channels, UNCHANGED << table, chan, born, session >>,
         joined' => joined,
         \A c \in Calls : /\ call'[c] = "requested" => call[c] = "requested"
                          /\ Under(c)' => Under(c)
  PROVE  Channels'
  BY DEF Channels

\* A step during which a leave() does not get on, and no call gets a new channel.
LEMMA LeavingKept ==
  ASSUME TInv, Leaving, UNCHANGED leaveVars, joined' => joined \/ leave = "none",
         \A c \in Calls : Under(c) => Under(c)' /\ (chan'[c] = "up" => chan[c] = "up"),
         \A c \in Calls : Under(c) /\ Contains(table', c) => Contains(table, c)
  PROVE  Leaving'
  <1>1. leave = "waiting" => Contains(rest, Head(rest)) /\ Head(rest) \in Calls
    BY TailContains DEF TInv, LeaveTypes
  <1>2. \A c \in owed : c \in Calls
    BY DEF TInv, LeaveTypes
  <1>3. (leave # "none" => ~joined)'
    BY DEF Leaving, leaveVars
  <1>4. (leave = "waiting" => chan[Head(rest)] # "up")'
    BY <1>1 DEF Leaving, leaveVars
  <1>5. (\A c \in Calls : Contains(rest, c) => Under(c))'
    BY DEF Leaving, leaveVars
  <1>6. (\A c \in owed : Under(c))'
    BY <1>2 DEF Leaving, leaveVars
  <1>7. (\A c \in owed : chan[c] = "up" => leave \in {"closing", "waiting"} /\ Contains(rest, c))'
    BY <1>2 DEF Leaving, leaveVars
  <1>8. (\A c \in owed : leave \in {"closing", "waiting"} \/ ~Contains(table, c))'
    BY <1>2 DEF Leaving, leaveVars
  <1>9. QED
    BY <1>3, <1>4, <1>5, <1>6, <1>7, <1>8 DEF Leaving

\* A leave() that begins has the callers' sessions on its list.
LEMMA LeavingBegins ==
  ASSUME TInv, Channels, joined, LeaveBegins, UNCHANGED << session, table, chan, born >>,
         UNCHANGED call
  PROVE  Channels' /\ Leaving'
  <1>1. joined' = FALSE /\ leave' = "closing" /\ rest' = table /\ owed' = Sessions
    BY DEF LeaveBegins
  <1>2. \A c \in Sessions : c \in Calls /\ Under(c) /\ Contains(table, c)
    BY DEF Sessions, Channels, Under, Live
  <1>3. \A c \in Calls : Under(c)' <=> Under(c)
    BY DEF Under
  <1>4. Channels'
    BY <1>1, <1>3, ChannelsKept
  <1>5. QED
    BY <1>1, <1>2, <1>3, <1>4 DEF Leaving, TInv, TableTypes

\* A join, and the leave() of the user.
LEMMA CSession ==
  ASSUME TInv, Channels, Leaving, Join \/ Leave \/ ListenerLeaves
  PROVE  Channels' /\ Leaving'
  <1>1. CASE Join
    <2>1. /\ ~joined /\ leave = "none" /\ leave' = "none" /\ session' = session + 1 /\ rest' = rest
          /\ owed' = {} /\ UNCHANGED << table, call, chan, born >>
      BY <1>1 DEF Join, tableVars
    <2>2. \A c \in Calls : born[c] # session'
      BY <2>1 DEF TInv, SessionTypes, TableTypes
    <2>3. \A c \in Calls : Under(c)' <=> Under(c)
      BY <2>1 DEF Under
    <2>4. Channels'
      BY <2>1, <2>2, <2>3 DEF Channels
    <2>5. QED
      BY <2>1, <2>3, <2>4 DEF Leaving
  <1>2. CASE Leave \/ ListenerLeaves
    BY <1>2, LeavingBegins DEF Leave, ListenerLeaves, tableVars
  <1>3. QED
    BY <1>1, <1>2

\* A channel that goes from up to closing.
LEMMA ChannelsClose ==
  ASSUME TInv, Channels, NEW c \in Calls, Under(c), chan[c] = "up", Close(c), joined' => joined,
         UNCHANGED << session, table, call, born >>
  PROVE  /\ Channels'
         /\ \A x \in Calls : Under(x)' <=> Under(x)
         /\ \A x \in Calls : chan'[x] = IF x = c THEN "closing" ELSE chan[x]
  <1>1. \A x \in Calls : chan'[x] = IF x = c THEN "closing" ELSE chan[x]
    BY DEF Close, TInv, TableTypes
  <1>2. \A x \in Calls : Under(x)' <=> Under(x)
    BY DEF Under
  <1>3. QED
    BY <1>1, <1>2 DEF Channels, Under

\* The steps of a leave().
LEMMA CLeave ==
  ASSUME TInv, Channels, Leaving, LeaveStep
  PROVE  Channels' /\ Leaving'
  <1> DEFINE c == Head(rest)
  <1>1. rest # << >> => /\ c \in Calls /\ Under(c) /\ Tail(rest) \in Seq(Calls)
                        /\ \A x : Contains(rest, x) <=> x = c \/ Contains(Tail(rest), x)
    BY TailContains DEF TInv, LeaveTypes, Leaving
  <1> HIDE DEF c
  <1>2. CASE LeaveNext
    <2>1. /\ leave = "closing" /\ rest # << >> /\ ~joined /\ joined' = joined /\ owed' = owed
          /\ UNCHANGED << session, table, call, born >>
      BY <1>2 DEF LeaveNext, sessionVars, Leaving
    <2>2. \A x \in Calls : Under(x)' <=> Under(x)
      BY <2>1 DEF Under
    <2>3. \A x \in owed : x \in Calls
      BY DEF TInv, LeaveTypes
    <2>4. \/ /\ Close(c)
             /\ (leave' = "closing" /\ rest' = Tail(rest)) \/ (leave' = "waiting" /\ rest' = rest)
             /\ chan[c] = "up"
          \/ chan[c] # "up" /\ chan' = chan /\ leave' = "closing" /\ rest' = Tail(rest)
      BY <1>2 DEF LeaveNext, Closes, c
    <2>5. CASE Close(c) /\ chan[c] = "up"
      <3>1. Channels' /\ \A x \in Calls : chan'[x] = IF x = c THEN "closing" ELSE chan[x]
        BY <1>1, <2>1, <2>5, ChannelsClose
      <3>2. (leave' = "closing" /\ rest' = Tail(rest)) \/ (leave' = "waiting" /\ rest' = rest)
        BY <1>2, <2>4, <2>5 DEF LeaveNext
      <3>3. (leave = "waiting" => chan[Head(rest)] # "up")'
        BY <1>1, <2>1, <3>1, <3>2 DEF c
      <3>4. (\A x \in Calls : Contains(rest, x) => Under(x))'
        BY <1>1, <2>1, <2>2, <3>2 DEF Leaving
      <3>5. (\A x \in owed : Under(x))'
        BY <2>1, <2>2, <2>3 DEF Leaving
      <3>6. \A x \in owed :
              chan'[x] = "up" => leave' \in {"closing", "waiting"} /\ Contains(rest', x)
        BY <1>1, <2>1, <2>3, <3>1, <3>2 DEF Leaving
      <3>7. leave' \in {"closing", "waiting"}
        BY <3>2
      <3>8. QED
        BY <2>1, <3>1, <3>3, <3>4, <3>5, <3>6, <3>7 DEF Leaving
    <2>6. CASE chan[c] # "up" /\ chan' = chan /\ leave' = "closing" /\ rest' = Tail(rest)
      <3>1. Channels'
        BY <2>1, <2>2, <2>6, ChannelsKept
      <3>2. (\A x \in Calls : Contains(rest, x) => Under(x))'
        BY <1>1, <2>1, <2>2, <2>6 DEF Leaving
      <3>3. (\A x \in owed : Under(x))'
        BY <2>1, <2>2, <2>3 DEF Leaving
      <3>4. \A x \in owed :
              chan'[x] = "up" => leave' \in {"closing", "waiting"} /\ Contains(rest', x)
        BY <1>1, <2>1, <2>3, <2>6 DEF Leaving
      <3>5. QED
        BY <2>1, <2>6, <3>1, <3>2, <3>3, <3>4 DEF Leaving
    <2>7. QED
      BY <2>4, <2>5, <2>6
  <1>3. CASE LeaveWaited
    <2>1. /\ leave = "waiting" /\ chan[c] # "up" /\ leave' = "closing" /\ rest' = Tail(rest)
          /\ ~joined /\ joined' = joined /\ UNCHANGED << session, table, call, chan, born, owed >>
      BY <1>3 DEF LeaveWaited, Over, sessionVars, tableVars, Leaving, c
    <2>2. rest # << >>
      BY <2>1 DEF TInv, LeaveTypes
    <2>3. \A x \in Calls : Under(x)' <=> Under(x)
      BY <2>1 DEF Under
    <2>4. \A x \in owed : x \in Calls
      BY DEF TInv, LeaveTypes
    <2>5. Channels'
      BY <2>1, <2>3, ChannelsKept
    <2>6. (\A x \in Calls : Contains(rest, x) => Under(x))' /\ (\A x \in owed : Under(x))'
      BY <1>1, <2>1, <2>2, <2>3, <2>4 DEF Leaving
    <2>7. \A x \in owed : chan'[x] = "up" => leave' \in {"closing", "waiting"} /\ Contains(rest', x)
      BY <1>1, <2>1, <2>2, <2>4 DEF Leaving
    <2>8. QED
      BY <2>1, <2>5, <2>6, <2>7 DEF Leaving
  <1>4. CASE LeaveCleared \/ LeaveDisconnects \/ LeaveEnd
    <2>1. /\ leave # "none" /\ leave' \in {"none", "cleared", "event"} /\ ~joined /\ joined' = joined
          /\ UNCHANGED << session, call, chan, born, rest, owed >>
          /\ leave = "closing" => rest = << >> /\ table' = << >>
          /\ leave # "waiting" /\ table' \in {table, << >>}
      BY <1>4 DEF LeaveCleared, LeaveDisconnects, LeaveEnd, MustWait, sessionVars, tableVars, Leaving
    <2>2. \A x \in Calls : Under(x)' <=> Under(x)
      BY <2>1 DEF Under
    <2>3. \A x \in owed : x \in Calls
      BY DEF TInv, LeaveTypes
    <2>4. \A x : ~Contains(<< >>, x)
      BY DEF Contains
    <2>5. Channels'
      BY <2>1, <2>2, <2>4 DEF Channels
    <2>6. (\A x \in Calls : Contains(rest, x) => Under(x))' /\ (\A x \in owed : Under(x))'
      BY <2>1, <2>2, <2>3 DEF Leaving
    <2>7. \A x \in owed : chan'[x] # "up" /\ ~Contains(table', x)
      BY <2>1, <2>3, <2>4 DEF Leaving
    <2>8. QED
      BY <2>1, <2>5, <2>6, <2>7 DEF Leaving
  <1>5. QED
    BY <1>2, <1>3, <1>4 DEF LeaveStep

\* The steps of a call and of its channel.
LEMMA CCalls ==
  ASSUME TInv, Channels, Leaving, NEW c \in Calls, CallStep(c) \/ Request(c) \/ ChannelEnds(c)
  PROVE  Channels' /\ Leaving'
  <1>1. UNCHANGED << joined, session, leaveVars >>
    BY DEF CallStep, Announce, Return, Closed, CloseBreaks, Request, ChannelEnds, sessionVars
  <1>2. CASE Request(c)
    <2>1. /\ \A x \in Calls : call'[x] = IF x = c THEN "requested" ELSE call[x]
          /\ \A x \in Calls : chan'[x] = IF x = c THEN "up" ELSE chan[x]
          /\ \A x \in Calls : x # c => born'[x] = born[x]
          /\ call[c] = "idle" /\ table' = table
      BY <1>2 DEF Request, TInv, TableTypes
    <2>2. \A x \in Calls : (Under(x)' <=> Under(x)) /\ (Under(x) => x # c)
      BY <2>1 DEF Under
    <2>3. Channels'
      BY <1>1, <2>1, <2>2 DEF Channels, TInv, TableTypes
    <2>4. Leaving'
      BY <1>1, <2>1, <2>2, LeavingKept
    <2>5. QED
      BY <2>3, <2>4
  <1>3. CASE ChannelEnds(c)
    <2>1. Under(c) /\ chan[c] = "up" /\ Close(c) /\ UNCHANGED << table, call, born >>
      BY <1>3 DEF ChannelEnds, Under
    <2>2. /\ Channels'
          /\ \A x \in Calls : Under(x)' <=> Under(x)
          /\ \A x \in Calls : chan'[x] = IF x = c THEN "closing" ELSE chan[x]
      BY <1>1, <2>1, ChannelsClose
    <2>3. QED
      BY <1>1, <2>1, <2>2, LeavingKept
  <1>4. CASE Closed(c)
    <2>1. /\ chan[c] = "closing" /\ \A x \in Calls : chan'[x] = IF x = c THEN "ended" ELSE chan[x]
          /\ table' = RemoveFirst(table, c) /\ UNCHANGED << call, born >>
      BY <1>4 DEF Closed, Without, TInv, TableTypes
    <2>2. \A x \in Calls : Under(x)' <=> Under(x)
      BY <2>1 DEF Under
    <2>3. \A x : Contains(table', x) <=> Contains(table, x) /\ x # c
      BY <2>1, RemoveFirstKeeps DEF TInv, TableTypes
    <2>4. Channels'
      BY <1>1, <2>1, <2>2, <2>3 DEF Channels
    <2>5. QED
      BY <1>1, <2>1, <2>2, <2>3, <2>4, LeavingKept
  <1>8. CASE CloseBreaks(c)
    <2>1. /\ chan[c] = "closing" /\ \A x \in Calls : chan'[x] = IF x = c THEN "aborted" ELSE chan[x]
          /\ UNCHANGED << table, call, born >>
      BY <1>8 DEF CloseBreaks, TInv, TableTypes
    <2>2. \A x \in Calls : Under(x)' <=> Under(x)
      BY <2>1 DEF Under
    <2>3. Channels'
      BY <1>1, <2>1, <2>2 DEF Channels
    <2>4. QED
      BY <1>1, <2>1, <2>2, <2>3, LeavingKept
  <1>5. CASE Announce(c)
    <2>1. /\ call[c] = "requested"
          /\ \A x \in Calls : call'[x] = IF x = c THEN "announced" ELSE call[x]
          /\ table' = Append(table, c) /\ UNCHANGED << chan, born >>
      BY <1>5 DEF Announce, TInv, TableTypes
    <2>2. \A x \in Calls : Under(x)' <=> Under(x) \/ x = c
      BY <2>1 DEF Under
    <2>3. \A x : Contains(table', x) <=> Contains(table, x) \/ x = c
      BY <2>1, AppendContains DEF TInv, TableTypes
    <2>4. Channels'
      BY <1>1, <2>1, <2>2, <2>3 DEF Channels
    <2>5. Leaving'
      BY <1>1, <2>1, <2>2, <2>3, LeavingKept DEF Under
    <2>6. QED
      BY <2>4, <2>5
  <1>6. CASE Return(c)
    <2>1. /\ call[c] = "settled" /\ \A x \in Calls : call'[x] = IF x = c THEN "open" ELSE call[x]
          /\ UNCHANGED << table, chan, born >>
      BY <1>6 DEF Return, TInv, TableTypes
    <2>2. \A x \in Calls : /\ Under(x)' <=> Under(x)
                           /\ call'[x] = "requested" => call[x] = "requested"
      BY <2>1 DEF Under
    <2>3. QED
      BY <1>1, <2>1, <2>2, ChannelsKept, LeavingKept
  <1>7. QED
    BY <1>2, <1>3, <1>4, <1>5, <1>6, <1>8 DEF CallStep

\* A message is acted upon; the end of a session begins a leave().
LEMMA CHandle ==
  ASSUME TInv, Channels, Leaving, Handle
  PROVE  Channels' /\ Leaving'
  <1>1. UNCHANGED << table, chan, born >>
    BY DEF Handle
  <1>2. CASE HandleDisconnect
    <2>1. UNCHANGED << session, call >>
      BY <1>2 DEF HandleDisconnect
    <2>2. \A x \in Calls : Under(x)' <=> Under(x)
      BY <2>1 DEF Under
    <2>3. (joined /\ LeaveBegins) \/ UNCHANGED << joined, leaveVars >>
      BY <1>2 DEF HandleDisconnect
    <2>4. QED
      BY <1>1, <2>1, <2>2, <2>3, ChannelsKept, LeavingKept, LeavingBegins
  <1>3. ASSUME NEW c \in Calls, HandleChannel(c)
        PROVE  Channels' /\ Leaving'
    <2>1. UNCHANGED << session, joined, leaveVars >>
      BY <1>3 DEF HandleChannel, sessionVars
    <2>2. \A x \in Calls : call'[x] = call[x] \/ (call[x] = "answered" /\ call'[x] = "settled")
      BY <1>3 DEF HandleChannel, TInv, TableTypes
    <2>3. \A x \in Calls : /\ Under(x)' <=> Under(x)
                           /\ call'[x] = "requested" => call[x] = "requested"
      BY <2>2 DEF Under
    <2>4. QED
      BY <1>1, <2>1, <2>3, ChannelsKept, LeavingKept
  <1>4. ASSUME NEW m \in Members, HandleMember(m)
        PROVE  Channels' /\ Leaving'
    <2>1. UNCHANGED << session, joined, leaveVars, call >>
      BY <1>4 DEF HandleMember, sessionVars
    <2>2. \A x \in Calls : Under(x)' <=> Under(x)
      BY <2>1 DEF Under
    <2>3. QED
      BY <1>1, <2>1, <2>2, ChannelsKept, LeavingKept
  <1>5. QED
    BY <1>2, <1>3, <1>4 DEF Handle

\* The server, the sockets, and the end of a dispatch.
LEMMA CRest ==
  ASSUME TInv, Channels, Leaving,
         \/ Drop \/ Handled \/ SocketStep \/ UNCHANGED vars
         \/ \E m \in Members : RosterChanges(m)
         \/ \E c \in Calls : ServerReady(c) \/ ServerMutes(c)
  PROVE  Channels' /\ Leaving'
  <1>1. UNCHANGED << session, joined, table, chan, born, leaveVars >>
    BY DEF Drop, Handled, SocketStep, SocketClosed, vars, RosterChanges, ServerReady, ServerMutes,
           sessionVars, tableVars, leaveVars
  <1>2. \A x \in Calls : call'[x] = call[x] \/ (call[x] = "announced" /\ call'[x] = "answered")
    BY DEF Drop, Handled, SocketStep, SocketClosed, vars, RosterChanges, ServerReady, ServerMutes,
           tableVars, TInv, TableTypes
  <1>3. \A x \in Calls : /\ Under(x)' <=> Under(x)
                         /\ call'[x] = "requested" => call[x] = "requested"
    BY <1>2 DEF Under
  <1>4. QED
    BY <1>1, <1>3, ChannelsKept, LeavingKept

CInv == TInv /\ Dispatching /\ Channels /\ Leaving

\* Before the first join.
LEMMA CInit == Init => CInv
  <1> SUFFICES ASSUME Init PROVE Channels /\ Leaving
    BY TInit DEF CInv
  <1>1. \A x : ~Contains(<< >>, x)
    BY DEF Contains
  <1>2. QED
    BY <1>1 DEF Init, Channels, Leaving, Under

\* Every step keeps them.
LEMMA CStep == CInv /\ [Next]_vars => CInv'
  <1> SUFFICES ASSUME CInv, [Next]_vars PROVE Channels' /\ Leaving'
    BY TStep DEF CInv
  <1>1. TInv /\ Channels /\ Leaving
    BY DEF CInv
  <1>2. CASE Join \/ Leave \/ ListenerLeaves
    BY <1>1, <1>2, CSession
  <1>3. CASE LeaveStep
    BY <1>1, <1>3, CLeave
  <1>4. CASE \E c \in Calls : CallStep(c) \/ Request(c) \/ ChannelEnds(c)
    BY <1>1, <1>4, CCalls
  <1>5. CASE Handle
    BY <1>1, <1>5, CHandle
  <1>6. CASE \/ Drop \/ Handled \/ SocketStep \/ UNCHANGED vars
             \/ \E m \in Members : RosterChanges(m)
             \/ \E c \in Calls : ServerReady(c) \/ ServerMutes(c)
    BY <1>1, <1>6, CRest
  <1>7. QED
    BY <1>2, <1>3, <1>4, <1>5, <1>6 DEF Next

\* The server's messages find the channel of every session a caller has, also
\* when its close() broke off, and no key leads to a channel that closed to the
\* end, whatever closes channels meanwhile.
THEOREM TableHolds == Spec => []TableAgrees
  <1>1. CInv => TableAgrees
    BY DEF CInv, Channels, TableAgrees, Sessions, Under, Live
  <1>2. QED
    BY <1>1, CInit, CStep, PTL DEF Spec

\* _try_leave: when it is over, close() has been called on the channel of every
\* session that a caller had when it began, although it goes through the list it
\* took then, and the client has no key of one any more; it waits neither for a
\* close() of somebody else nor for one that broke off.
THEOREM LeaveCloses == Spec => []LeaveClosesSessions
  <1>1. CInv => LeaveClosesSessions
    BY DEF CInv, TInv, TableTypes, LeaveTypes, Channels, Leaving, LeaveClosesSessions
  <1>2. QED
    BY <1>1, CInit, CStep, PTL DEF Spec

-----------------------------------------------------------------------------
\* Messages the client has not acted upon: the one being dispatched it has.
Waiting == IF run = "none" THEN queue ELSE Tail(queue)

\* When the messages w have been handled the member is among the known.
Expected(m, w, known) ==
  \/ m \in known /\ \A j \in 1..Len(w) : w[j] # << "remove", m >>
  \/ \E i \in 1..Len(w) : /\ w[i] = << "add", m >>
                          /\ \A j \in 1..Len(w) : i < j => w[j] # << "remove", m >>

\* Whoever is in the conference is in the tables, or about to be.
Rosters == joined /\ portal => \A m \in roster : Expected(m, Waiting, members)

\* A message more does not change that, unless it says that the member left.
LEMMA ExpectedAppend ==
  ASSUME NEW w \in Seq(Messages), NEW known, NEW m, NEW msg \in Messages
  PROVE  /\ Expected(m, w, known) /\ msg # << "remove", m >> => Expected(m, Append(w, msg), known)
         /\ msg = << "add", m >> => Expected(m, Append(w, msg), known)
  <1> DEFINE v == Append(w, msg)
  <1>1. /\ Len(v) = Len(w) + 1 /\ v[Len(w) + 1] = msg /\ Len(w) \in Nat
        /\ \A i \in 1..Len(w) : v[i] = w[i]
    OBVIOUS
  <1>2. \A i \in 1..Len(v) : i \in 1..Len(w) \/ i = Len(w) + 1
    BY <1>1
  <1>3. \A i \in 1..Len(w) : i \in 1..Len(v)
    BY <1>1
  <1>4. Len(v) \in 1..Len(v) /\ v[Len(v)] = msg /\ \A i \in 1..Len(v) : ~(Len(v) < i)
    BY <1>1
  <1> HIDE DEF v
  <1>5. ASSUME msg = << "add", m >>
        PROVE  Expected(m, v, known)
    BY <1>4, <1>5 DEF Expected
  <1>6. ASSUME Expected(m, w, known), msg # << "remove", m >>
        PROVE  Expected(m, v, known)
    <2>1. CASE m \in known /\ \A j \in 1..Len(w) : w[j] # << "remove", m >>
      BY <1>1, <1>2, <1>6, <2>1 DEF Expected
    <2>2. CASE \E i \in 1..Len(w) : /\ w[i] = << "add", m >>
                                    /\ \A j \in 1..Len(w) : i < j => w[j] # << "remove", m >>
      BY <1>1, <1>2, <1>3, <1>6, <2>2 DEF Expected
    <2>3. QED
      BY <1>6, <2>1, <2>2 DEF Expected
  <1>7. QED
    BY <1>5, <1>6 DEF v

\* The first message is acted upon: one that says the member came makes it
\* known, one that says it left comes before another that says it came.
LEMMA ExpectedTail ==
  ASSUME NEW w \in Seq(Messages), w # << >>, NEW known, NEW known2, NEW m,
         Expected(m, w, known),
         Head(w) = << "add", m >> => m \in known2,
         m \in known /\ Head(w) # << "remove", m >> => m \in known2
  PROVE  Expected(m, Tail(w), known2)
  <1> DEFINE v == Tail(w)
  <1>1. /\ Len(w) = Len(v) + 1 /\ Len(v) \in Nat /\ Head(w) = w[1] /\ 1 \in 1..Len(w)
        /\ \A i \in 1..Len(v) : v[i] = w[i + 1]
    OBVIOUS
  <1> HIDE DEF v
  <1>2. \A i \in 1..Len(v) : i + 1 \in 1..Len(w) /\ 1 < i + 1
    BY <1>1
  <1>3. CASE m \in known /\ \A j \in 1..Len(w) : w[j] # << "remove", m >>
    <2>1. m \in known2 /\ \A j \in 1..Len(v) : v[j] # << "remove", m >>
      BY <1>1, <1>2, <1>3
    <2>2. QED
      BY <2>1 DEF Expected, v
  <1>4. ASSUME NEW i \in 1..Len(w), w[i] = << "add", m >>,
               \A j \in 1..Len(w) : i < j => w[j] # << "remove", m >>
        PROVE  Expected(m, v, known2)
    <2>1. CASE i = 1
      <3>1. m \in known2 /\ \A j \in 1..Len(v) : v[j] # << "remove", m >>
        BY <1>1, <1>2, <1>4, <2>1
      <3>2. QED
        BY <3>1 DEF Expected
    <2>2. CASE i # 1
      <3>1. i - 1 \in 1..Len(v) /\ v[i - 1] = << "add", m >>
        BY <1>1, <1>4, <2>2
      <3>2. \A j \in 1..Len(v) : i - 1 < j => v[j] # << "remove", m >>
        BY <1>1, <1>2, <1>4
      <3>3. QED
        BY <3>1, <3>2 DEF Expected
    <2>3. QED
      BY <2>1, <2>2
  <1>5. QED
    BY <1>3, <1>4 DEF Expected, v

\* A step that changes neither the queue nor the tables.
LEMMA RostersKept ==
  ASSUME Rosters, Dispatching, UNCHANGED << queue, members, roster >>,
         joined' => joined, portal' => portal, run' = "none" <=> run = "none"
  PROVE  Rosters'
  <1>1. Waiting' = Waiting
    BY DEF Waiting
  <1>2. QED
    BY <1>1 DEF Rosters

\* A new message is the last of those that wait.
LEMMA WaitingTypes ==
  ASSUME TInv, Dispatching
  PROVE  /\ Waiting \in Seq(Messages)
         /\ \A m : queue' = Append(queue, m) /\ run' = run => Waiting' = Append(Waiting, m)
  <1>1. queue \in Seq(Messages) /\ (run # "none" => queue # << >>)
    BY DEF TInv, DispatchTypes, Dispatching
  <1>2. Waiting \in Seq(Messages)
    BY <1>1 DEF Waiting
  <1>3. ASSUME NEW m, queue' = Append(queue, m), run' = run
        PROVE  Waiting' = Append(Waiting, m)
    <2>1. CASE run = "none"
      BY <1>3, <2>1 DEF Waiting
    <2>2. CASE run # "none"
      <3>1. Tail(Append(queue, m)) = Append(Tail(queue), m)
        BY <1>1, <2>2
      <3>2. QED
        BY <1>3, <2>2, <3>1 DEF Waiting
    <2>3. QED
      BY <2>1, <2>2
  <1>4. QED
    BY <1>2, <1>3

\* Whoever comes or goes, the client is sent a message about it.
LEMMA RServer ==
  ASSUME TInv, Dispatching, Rosters,
         \/ \E m \in Members : RosterChanges(m)
         \/ \E c \in Calls : ServerReady(c) \/ ServerMutes(c)
         \/ SocketStep
  PROVE  Rosters'
  <1>1. ASSUME NEW m \in Members, RosterChanges(m)
        PROVE  Rosters'
    <2> DEFINE msg == << IF m \in roster THEN "remove" ELSE "add", m >>
    <2>1. msg \in Messages
      BY DEF Messages
    <2>2. Waiting' = Append(Waiting, msg) /\ UNCHANGED << members, joined, portal >>
      BY <1>1, WaitingTypes DEF RosterChanges, Send, sessionVars
    <2>3. ASSUME NEW x \in roster', joined, portal
          PROVE  Expected(x, Append(Waiting, msg), members)
      <3>1. x = m => msg = << "add", x >>
        BY <1>1, <2>3 DEF RosterChanges
      <3>2. x # m => x \in roster /\ msg # << "remove", x >>
        BY <1>1, <2>3 DEF RosterChanges
      <3>3. x # m => Expected(x, Waiting, members)
        BY <2>3, <3>2 DEF Rosters
      <3> HIDE DEF msg
      <3>4. QED
        BY <2>1, <3>1, <3>2, <3>3, WaitingTypes, ExpectedAppend
    <2> HIDE DEF msg
    <2>4. QED
      BY <2>2, <2>3 DEF Rosters
  <1>2. ASSUME NEW msg \in Messages, \A m : msg # << "remove", m >>,
               queue' = Append(queue, msg), UNCHANGED << run, members, roster, joined, portal >>
        PROVE  Rosters'
    <2>1. Waiting' = Append(Waiting, msg) /\ Waiting \in Seq(Messages)
      BY <1>2, WaitingTypes
    <2>2. \A x \in roster : joined /\ portal => Expected(x, Append(Waiting, msg), members)
      BY <1>2, <2>1, ExpectedAppend DEF Rosters
    <2>3. QED
      BY <1>2, <2>1, <2>2 DEF Rosters
  <1>3. ASSUME NEW c \in Calls, ServerReady(c) \/ ServerMutes(c)
        PROVE  Rosters'
    <2>1. PICK s \in {"ready", "mute"} : queue' = Append(queue, << s, c >>)
      BY <1>3 DEF ServerReady, ServerMutes, Send
    <2>2. << s, c >> \in Messages /\ \A m : << s, c >> # << "remove", m >>
      BY DEF Messages
    <2>3. UNCHANGED << run, members, roster, joined, portal >>
      BY <1>3 DEF ServerReady, ServerMutes, sessionVars
    <2>4. QED
      BY <1>2, <2>1, <2>2, <2>3
  <1>4. CASE SocketStep
    <2>1. PICK k \in 1..session : SocketClosed(k)
      BY <1>4 DEF SocketStep
    <2>2. k \in 1..MaxJoins
      BY BoundsAssumption DEF TInv, SessionTypes
    <2>3. Disconnect(k) \in Messages /\ \A m : Disconnect(k) # << "remove", m >>
      BY <2>2 DEF Disconnect, Messages
    <2>4. /\ queue' = Append(queue, Disconnect(k))
          /\ UNCHANGED << run, members, roster, joined, portal >>
      BY <2>1 DEF SocketClosed
    <2>5. QED
      BY <1>2, <2>3, <2>4
  <1>5. QED
    BY <1>1, <1>3, <1>4

\* A message is acted upon when its dispatch begins.
LEMMA RHandle ==
  ASSUME TInv, Rosters, Handle
  PROVE  Rosters'
  <1>1. /\ run = "none" /\ queue # << >> /\ queue \in Seq(Messages)
        /\ Waiting = queue /\ roster' = roster
    BY DEF Handle, TInv, DispatchTypes, Waiting
  <1>2. ASSUME \/ run' = "on" /\ UNCHANGED queue
               \/ queue' = Tail(queue) /\ UNCHANGED run
        PROVE  Waiting' = Tail(Waiting)
    BY <1>1, <1>2 DEF Waiting
  <1>3. ASSUME joined' => joined, portal' => portal, Waiting' = Tail(Waiting),
               \A x \in roster : Head(queue) = << "add", x >> => x \in members',
               \A x \in roster :
                 x \in members /\ Head(queue) # << "remove", x >> => x \in members'
        PROVE  Rosters'
    <2>1. ASSUME NEW x \in roster, joined, portal
          PROVE  Expected(x, Tail(queue), members')
      <3>1. Expected(x, queue, members)
        BY <1>1, <2>1 DEF Rosters
      <3>2. QED
        BY <1>1, <1>3, <3>1, ExpectedTail
    <2>2. QED
      BY <1>1, <1>3, <2>1 DEF Rosters
  <1>4. ASSUME NEW m \in Members, HandleMember(m)
        PROVE  Rosters'
    <2>1. joined' = joined /\ portal' = portal
      BY <1>4 DEF HandleMember, sessionVars
    <2>2. Waiting' = Tail(Waiting)
      <3>1. \/ run' = "on" /\ UNCHANGED queue
            \/ queue' = Tail(queue) /\ UNCHANGED run
        BY <1>4 DEF HandleMember, Added, Removed, Goes
      <3>2. QED
        BY <1>2, <3>1
    <2>3. \/ Head(queue) = << "add", m >> /\ members' = members \cup {m}
          \/ Head(queue) = << "remove", m >> /\ members' = members \ {m}
      BY <1>4 DEF HandleMember, Added, Removed
    <2>4. \A x \in roster : Head(queue) = << "add", x >> => x \in members'
      BY <2>3
    <2>5. \A x \in roster : x \in members /\ Head(queue) # << "remove", x >> => x \in members'
      BY <2>3
    <2>6. QED
      BY <1>3, <2>1, <2>2, <2>4, <2>5
  <1>5. ASSUME NEW c \in Calls, HandleChannel(c)
        PROVE  Rosters'
    <2>1. joined' = joined /\ portal' = portal /\ members' = members
      BY <1>5 DEF HandleChannel, sessionVars
    <2>2. Waiting' = Tail(Waiting)
      <3>1. \/ run' = "on" /\ UNCHANGED queue
            \/ queue' = Tail(queue) /\ UNCHANGED run
        BY <1>5 DEF HandleChannel, Goes
      <3>2. QED
        BY <1>2, <3>1
    <2>3. \A x : Head(queue) # << "add", x >>
      BY <1>5 DEF HandleChannel
    <2>4. QED
      BY <1>3, <2>1, <2>2, <2>3
  <1>6. CASE HandleDisconnect
    <2>1. joined' = FALSE
      BY <1>6 DEF HandleDisconnect, LeaveBegins, TInv, SessionTypes
    <2>2. QED
      BY <2>1 DEF Rosters
  <1>7. QED
    BY <1>4, <1>5, <1>6 DEF Handle

\* The other steps; while the client leaves there is nothing to show.
LEMMA RSession ==
  ASSUME TInv, Dispatching, Leaving, Rosters,
         \/ Join \/ Leave \/ Drop \/ ListenerLeaves \/ LeaveStep \/ Handled \/ UNCHANGED vars
         \/ \E c \in Calls : CallStep(c) \/ Request(c) \/ ChannelEnds(c)
  PROVE  Rosters'
  <1>1. CASE Join
    <2>1. queue = << >> /\ queue' = << >> /\ run' = run /\ members' = members \cup roster'
      BY <1>1 DEF Join, Drained, dispatchVars
    <2>2. Waiting' = << >>
      BY <2>1 DEF Waiting, Dispatching
    <2>3. \A x \in roster' : Expected(x, << >>, members')
      BY <2>1 DEF Expected
    <2>4. QED
      BY <2>2, <2>3 DEF Rosters
  <1>2. CASE Leave \/ Drop \/ ListenerLeaves
    <2>1. joined' = FALSE \/ portal' = FALSE
      BY <1>2 DEF Leave, Drop, ListenerLeaves, LeaveBegins, GiveUp
    <2>2. QED
      BY <2>1 DEF Rosters
  <1>3. CASE LeaveStep
    <2>1. ~joined /\ joined' = joined
      BY <1>3 DEF LeaveStep, LeaveNext, LeaveWaited, LeaveCleared, LeaveDisconnects, LeaveEnd, sessionVars, Leaving
    <2>2. QED
      BY <2>1 DEF Rosters
  <1>4. CASE Handled
    <2>1. /\ run # "none" /\ run' = "none" /\ queue' = Tail(queue)
          /\ UNCHANGED << roster, members, joined >>
      BY <1>4 DEF Handled
    <2>2. portal' => portal
      BY <1>4 DEF Handled, GiveUp
    <2>3. Waiting' = Waiting
      BY <2>1 DEF Waiting
    <2>4. QED
      BY <2>1, <2>2, <2>3 DEF Rosters
  <1>5. CASE \/ UNCHANGED vars
             \/ \E c \in Calls : CallStep(c) \/ Request(c) \/ ChannelEnds(c)
    <2>1. UNCHANGED << queue, members, roster, joined, portal >>
      BY <1>5 DEF vars, CallStep, Announce, Return, Closed, CloseBreaks, Request, ChannelEnds, sessionVars,
                  dispatchVars
    <2>2. run' = "none" <=> run = "none"
      BY <1>5 DEF vars, CallStep, Announce, Return, Closed, CloseBreaks, Request, ChannelEnds, dispatchVars,
                  Close, InHandler
    <2>3. QED
      BY <2>1, <2>2, RostersKept
  <1>6. QED
    BY <1>1, <1>2, <1>3, <1>4, <1>5

\* join and the handlers of participants and streams: when all messages are handled,
\* those of an earlier session among them, nobody in the conference is missing.
THEOREM NobodyForgotten == Spec => []NobodyMissing
  <1> DEFINE I == CInv /\ Rosters
  <1>1. Init => I
    <2>1. Init => Rosters
      BY DEF Init, Rosters
    <2>2. QED
      BY <2>1, CInit
  <1>2. I /\ [Next]_vars => I'
    <2>1. SUFFICES ASSUME CInv, Rosters, [Next]_vars PROVE Rosters'
      BY CStep
    <2>2. TInv /\ Dispatching /\ Leaving
      BY <2>1 DEF CInv
    <2>3. QED
      BY <2>1, <2>2, RServer, RHandle, RSession DEF Next
  <1>3. I => NobodyMissing
    <2>1. queue = << >> /\ Dispatching => Waiting = << >>
      BY DEF Dispatching, Waiting
    <2>2. \A m : Expected(m, << >>, members) => m \in members
      BY DEF Expected
    <2>3. QED
      BY <2>1, <2>2 DEF CInv, Rosters, NobodyMissing
  <1>4. QED
    BY <1>1, <1>2, <1>3, PTL DEF Spec
=============================================================================
