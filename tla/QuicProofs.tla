------------------------------ MODULE QuicProofs ------------------------------
(***************************************************************************)
(* The safety properties of Quic, for any calls and any faults.            *)
(***************************************************************************)
EXTENDS Quic, TLAPS

USE DEF Ended

\* What is in a table has been answered, and not been stopped.
Kept ==
  \A c \in publications \cup subscriptions \cup subPromises : server[c] = "answered"

\* What is in a table, or waits to be stopped by close(), has its answer
\* behind it: its call is past the point where it enters a table.
Past ==
  \A c \in publications \cup subscriptions \cup subPromises \cup rest :
    call[c] \notin {"idle", "asked", "sending"}

\* How far the server is, by how far the call is.
Known ==
  \A c \in Calls :
    /\ call[c] = "idle" => server[c] = "none"
    /\ call[c] = "asked" => server[c] \in {"asked", "made"}
    /\ call[c] = "sending" => server[c] = "answered"
    /\ call[c] = "failing" => server[c] \in Ended
    /\ call[c] = "raised" => server[c] # "answered"

Promised == \A s \in Subs : future[s] = "pending" => s \in subPromises \ subStreams
Bound == \A s \in subStreams \cup subscriptions : stream[s] = "bound"

\* Where close() will still find what it has to stop.
Left ==
  {c \in rest : closer \in {"pubs", "subs"}} \cup {c \in subscriptions : closer = "pubs"}
Stopped ==
  /\ closer = "none" => owed = {}
  /\ \A c \in owed : server[c] \in Ended \/ c \in Left

QInv == TypeOK /\ Kept /\ Past /\ Known /\ Promised /\ Bound /\ Stopped

-----------------------------------------------------------------------------
(* _unpublish and _unsubscribe                                             *)

\* What stopping c does to the tables, whatever c is: c is in none of them
\* afterwards, its promise is settled, and the others are as they were.
Gone(c) ==
  /\ publications' = publications \ {c}
  /\ subscriptions' = subscriptions \ {c}
  /\ subPromises' = subPromises \ {c}
  /\ \E e \in Ended : server' = [server EXCEPT ![c] = e]
  /\ future' \in [Subs -> {"none", "pending", "set", "cancelled"}]
  /\ \A s \in Subs : future'[s] = "pending" => future[s] = "pending" /\ (s = c => s \notin subPromises)
  /\ UNCHANGED << subStreams, stream >>

LEMMA UndoGone ==
  ASSUME TypeOK, NEW c \in Calls, Undo(c)
  PROVE  Gone(c)
  <1>1. CASE c \in Pubs /\ Unpublish(c)
    <2>1. c \notin Subs
      BY <1>1, CallsAssumption
    <2>2. subscriptions = subscriptions \ {c} /\ subPromises = subPromises \ {c}
      BY <2>1 DEF TypeOK
    <2>3. \E e \in Ended : server' = [server EXCEPT ![c] = e]
      BY <1>1 DEF Unpublish, RequestEnd, ServerIs
    <2>4. QED
      BY <1>1, <2>1, <2>2, <2>3 DEF Gone, Unpublish, TypeOK, subVars
  <1>2. CASE c \in Subs /\ Unsubscribe(c)
    <2>1. publications = publications \ {c}
      BY <1>2, CallsAssumption DEF TypeOK
    <2>2. /\ future' \in [Subs -> {"none", "pending", "set", "cancelled"}]
          /\ \A s \in Subs :
               future'[s] = "pending" => future[s] = "pending" /\ (s = c => s \notin subPromises)
      BY <1>2 DEF Unsubscribe, FutureCancelled, TypeOK
    <2>3. \E e \in Ended : server' = [server EXCEPT ![c] = e]
      BY <1>2 DEF Unsubscribe, RequestEnd, ServerIs
    <2>4. QED
      BY <1>2, <2>1, <2>2, <2>3 DEF Gone, Unsubscribe
  <1>3. QED
    BY <1>1, <1>2 DEF Undo

\* Stopping one that is past its answer keeps the tables' part of the
\* invariant, where its call goes to one of the places behind the answer.
Tables == Kept /\ Promised /\ Bound

LEMMA GoneTables ==
  ASSUME QInv, NEW c \in Calls, Gone(c)
  PROVE  Tables'
  <1>1. Kept'
    BY DEF QInv, TypeOK, Kept, Gone, Calls
  <1>2. Promised'
    <2>1. ASSUME NEW s \in Subs, future'[s] = "pending"
          PROVE  s \in subPromises' \ subStreams'
      BY <2>1 DEF QInv, Promised, Gone
    <2>2. QED
      BY <2>1 DEF Promised
  <1>3. Bound'
    BY DEF QInv, Bound, Gone
  <1>4. QED
    BY <1>1, <1>2, <1>3 DEF Tables

LEMMA GoneTypes ==
  ASSUME TypeOK, NEW c \in Calls, Gone(c)
  PROVE  /\ server' \in [Calls -> {"none", "asked", "made", "answered", "told", "refused"}]
         /\ future' \in [Subs -> {"none", "pending", "set", "cancelled"}]
         /\ subPromises' \subseteq Subs /\ subStreams' \subseteq Subs
         /\ subscriptions' \subseteq Subs /\ publications' \subseteq Pubs
         /\ stream' \in [Subs -> {"none", "opened", "bound", "lost"}]
         /\ server'[c] \in Ended
         /\ \A d \in Calls \ {c} : server'[d] = server[d]
  BY DEF TypeOK, Gone

\* A call stopped by its owner, or by its own failure.
LEMMA OwnUndo ==
  ASSUME QInv, NEW c \in Calls, Undo(c), UNCHANGED closeVars,
         NEW place \in {"failing", "stopped"}, Goes(c, place)
  PROVE  QInv'
  <1>1. Gone(c)
    BY UndoGone DEF QInv
  <1>2. Tables'
    BY <1>1, GoneTables
  <1>3. TypeOK'
    BY <1>1, GoneTypes DEF QInv, TypeOK, Goes, closeVars
  <1>4. Past'
    BY <1>1 DEF QInv, TypeOK, Past, Gone, Goes, closeVars, Calls
  <1>5. Known'
    BY <1>1, GoneTypes DEF QInv, TypeOK, Known, Goes
  <1>6. Stopped'
    <2>1. \A d \in owed : d # c => server'[d] \in Ended \/ d \in Left'
      BY <1>1, GoneTypes DEF QInv, TypeOK, Stopped, Left, Gone, closeVars
    <2>2. server'[c] \in Ended
      BY <1>1, GoneTypes DEF QInv
    <2>3. QED
      BY <2>1, <2>2 DEF QInv, Stopped, closeVars
  <1>7. QED
    BY <1>2, <1>3, <1>4, <1>5, <1>6 DEF QInv, Tables

-----------------------------------------------------------------------------
(* close                                                                   *)

\* close() may go on with a list: its elements are past their answers.
Behind(left) ==
  /\ left \subseteq Calls
  /\ \A c \in left : call[c] \notin {"idle", "asked", "sending"}

LEMMA StopsOneInv ==
  ASSUME QInv, NEW left, Behind(left), NEW phase \in {"pubs", "subs"}, StopsOne(phase, left),
         UNCHANGED << ready, joined, call >>,
         owed' \subseteq Calls,
         \A d \in owed' : server[d] \in Ended \/ d \in left
                            \/ (phase = "pubs" /\ d \in subscriptions)
  PROVE  QInv'
  <1>1. PICK c \in left : rest' = left \ {c} /\ Undo(c)
    BY DEF StopsOne
  <1>2. c \in Calls /\ call[c] \notin {"idle", "asked", "sending"} /\ closer' = phase
    BY DEF Behind, StopsOne
  <1>3. Gone(c)
    BY <1>1, <1>2, UndoGone DEF QInv
  <1>4. Tables'
    BY <1>2, <1>3, GoneTables
  <1>5. TypeOK'
    BY <1>1, <1>2, <1>3, GoneTypes DEF QInv, TypeOK, Behind
  <1>6. Past'
    BY <1>1, <1>2, <1>3 DEF QInv, Past, Gone, Behind
  <1>7. Known'
    BY <1>2, <1>3, GoneTypes DEF QInv, TypeOK, Known
  <1>8. Stopped'
    <2>1. server'[c] \in Ended /\ \A d \in Calls \ {c} : server'[d] = server[d]
      BY <1>2, <1>3, GoneTypes DEF QInv
    <2>2. Left' = rest' \cup {d \in subscriptions' : phase = "pubs"}
      BY <1>2 DEF Left
    <2>3. QED
      BY <1>1, <1>2, <1>3, <2>1, <2>2 DEF Stopped, Gone
  <1>9. QED
    BY <1>4, <1>5, <1>6, <1>7, <1>8 DEF QInv, Tables

LEMMA CloseStackInv ==
  ASSUME QInv, CloseStack, UNCHANGED << ready, joined, call >>, owed' \subseteq Calls,
         \A d \in owed' : server[d] \in Ended
  PROVE  QInv'
  <1>1. \A s \in Subs : future'[s] # "pending"
    BY DEF QInv, Promised, CloseStack, CancelledPromises, FutureCancelled
  <1>2. future' \in [Subs -> {"none", "pending", "set", "cancelled"}]
    BY DEF QInv, TypeOK, CloseStack, CancelledPromises, FutureCancelled
  <1>3. TypeOK'
    BY <1>2 DEF QInv, TypeOK, CloseStack
  <1>4. Kept' /\ Past' /\ Known' /\ Promised' /\ Bound'
    BY <1>1 DEF QInv, Kept, Past, Known, Promised, Bound, CloseStack
  <1>5. Stopped'
    BY DEF Stopped, CloseStack
  <1>6. QED
    BY <1>3, <1>4, <1>5 DEF QInv

LEMMA CloseSubsInv ==
  ASSUME QInv, NEW left, Behind(left), CloseSubs(left), UNCHANGED << ready, joined, call >>,
         owed' \subseteq Calls, \A d \in owed' : server[d] \in Ended \/ d \in left
  PROVE  QInv'
  <1>1. CASE StopsOne("subs", left)
    BY <1>1, StopsOneInv
  <1>2. CASE left = {} /\ CloseStack
    BY <1>2, CloseStackInv
  <1>3. QED
    BY <1>1, <1>2 DEF CloseSubs

LEMMA ClosePubsInv ==
  ASSUME QInv, NEW left, Behind(left), ClosePubs(left), UNCHANGED << ready, joined, call >>,
         owed' \subseteq Calls,
         \A d \in owed' : server[d] \in Ended \/ d \in left \/ d \in subscriptions
  PROVE  QInv'
  <1>1. CASE StopsOne("pubs", left)
    BY <1>1, StopsOneInv
  <1>2. CASE left = {} /\ CloseSubs(subscriptions)
    <2>1. Behind(subscriptions)
      BY DEF QInv, TypeOK, Past, Behind, Calls
    <2>2. QED
      BY <1>2, <2>1, CloseSubsInv
  <1>3. QED
    BY <1>1, <1>2 DEF ClosePubs

LEMMA CloseInv ==
  ASSUME QInv, CloseStep
  PROVE  QInv'
  <1>1. CASE CloseBegins
    <2>1. Behind(publications)
      BY DEF QInv, TypeOK, Past, Behind, Calls
    <2>2. owed' = publications \cup subscriptions /\ owed' \subseteq Calls
      BY <1>1 DEF CloseBegins, QInv, TypeOK, Calls
    <2>3. QED
      BY <1>1, <2>1, <2>2, ClosePubsInv DEF CloseBegins
  <1>2. CASE CloseNext
    <2>1. Behind(rest) /\ owed' = owed /\ owed \subseteq Calls
      BY <1>2 DEF QInv, TypeOK, Past, Behind, CloseNext
    <2>2. CASE closer = "pubs" /\ ClosePubs(rest)
      <3>1. \A d \in owed : server[d] \in Ended \/ d \in rest \/ d \in subscriptions
        BY <2>2 DEF QInv, Stopped, Left
      <3>2. QED
        BY <1>2, <2>1, <2>2, <3>1, ClosePubsInv DEF CloseNext
    <2>3. CASE closer = "subs" /\ CloseSubs(rest)
      <3>1. \A d \in owed : server[d] \in Ended \/ d \in rest
        BY <2>3 DEF QInv, Stopped, Left
      <3>2. QED
        BY <1>2, <2>1, <2>3, <3>1, CloseSubsInv DEF CloseNext
    <2>4. QED
      BY <1>2, <2>2, <2>3 DEF CloseNext
  <1>3. CASE CloseEnds
    <2>1. TypeOK' /\ Kept' /\ Past' /\ Known' /\ Promised' /\ Bound'
      BY <1>3 DEF CloseEnds, QInv, TypeOK, Kept, Past, Known, Promised, Bound, subVars
    <2>2. Stopped'
      BY <1>3 DEF CloseEnds, QInv, Stopped, Left
    <2>3. QED
      BY <2>1, <2>2 DEF QInv
  <1>4. QED
    BY <1>1, <1>2, <1>3 DEF CloseStep
-----------------------------------------------------------------------------
(* Calls                                                                   *)

\* A step that touches no table, and nothing of what close() has to stop.
LEMMA Quiet ==
  ASSUME QInv, TypeOK', Known',
         UNCHANGED << rest, owed, future, subPromises, subStreams, subscriptions, publications >>,
         \A c \in publications \cup subscriptions \cup subPromises \cup rest :
           call[c] \notin {"idle", "asked", "sending"} =>
             call'[c] \notin {"idle", "asked", "sending"},
         \A c \in Calls : server[c] \in {"answered"} \cup Ended => server'[c] = server[c],
         \A s \in Subs : stream[s] = "bound" => stream'[s] = "bound",
         closer' = closer \/ (closer = "none" /\ closer' = "done")
  PROVE  QInv'
  <1>1. Kept'
    BY DEF QInv, TypeOK, Kept, Calls
  <1>2. Past' /\ Promised' /\ Bound'
    BY DEF QInv, TypeOK, Past, Promised, Bound
  <1>3. Stopped'
    BY DEF QInv, TypeOK, Stopped, Left
  <1>4. QED
    BY <1>1, <1>2, <1>3 DEF QInv

\* An answered call enters a table, or leaves a promise.
LEMMA AnswerInv ==
  ASSUME QInv, NEW c \in Calls, Answer(c)
  PROVE  QInv'
  <1>1. CASE Fails(c)
    BY <1>1, OwnUndo DEF Fails, Answer
  <1> SUFFICES ASSUME ServerIs(c, "answered"),
                      (c \in Pubs /\ Published(c)) \/ (c \in Subs /\ Subscribed(c)),
                      UNCHANGED stream
               PROVE  QInv'
    BY <1>1 DEF Answer
  <1>2. /\ server'[c] = "answered" /\ server[c] = "made" /\ call[c] = "asked"
        /\ \A d \in Calls \ {c} : server'[d] = server[d] /\ call'[d] = call[d]
        /\ server' \in [Calls -> {"none", "asked", "made", "answered", "told", "refused"}]
        /\ UNCHANGED closeVars
    BY DEF Answer, ServerIs, QInv, TypeOK, Published, Subscribed, Goes
  <1>3. Stopped'
    BY <1>2 DEF QInv, TypeOK, Stopped, Left, closeVars, Published, Subscribed, Registered, subVars
  <1>4. CASE c \in Pubs /\ Published(c)
    <2>1. call'[c] = "sending" /\ TypeOK'
      BY <1>2, <1>4 DEF QInv, TypeOK, Published, Goes, closeVars, subVars
    <2>2. Kept' /\ Known'
      BY <1>2, <1>4, <2>1 DEF QInv, TypeOK, Kept, Known, Published, subVars, Calls
    <2>3. Past'
      BY <1>2, <1>4, <2>1 DEF QInv, TypeOK, Past, Published, subVars, closeVars, Calls
    <2>4. Promised' /\ Bound'
      BY <1>4 DEF QInv, Promised, Bound, Published, subVars
    <2>5. QED
      BY <1>3, <2>1, <2>2, <2>3, <2>4 DEF QInv
  <1>5. CASE c \in Subs /\ Subscribed(c)
    <2>1. call'[c] \in {"returned", "waiting"} /\ TypeOK'
      BY <1>2, <1>5 DEF QInv, TypeOK, Subscribed, Registered, Goes, closeVars
    <2>2. Kept' /\ Known'
      BY <1>2, <1>5, <2>1 DEF QInv, TypeOK, Kept, Known, Subscribed, Registered, Calls
    <2>3. Past'
      BY <1>2, <1>5, <2>1 DEF QInv, TypeOK, Past, Subscribed, Registered, closeVars, Calls
    <2>4. Promised' /\ Bound'
      BY <1>5 DEF QInv, TypeOK, Promised, Bound, Subscribed, Registered
    <2>5. QED
      BY <1>3, <2>1, <2>2, <2>3, <2>4 DEF QInv
  <1>6. QED
    BY <1>4, <1>5

LEMMA SentInv ==
  ASSUME QInv, NEW p \in Pubs, Sent(p)
  PROVE  QInv'
  <1>1. p \in Calls /\ UNCHANGED closeVars
    BY DEF Sent, Calls
  <1>2. CASE Fails(p)
    BY <1>1, <1>2, OwnUndo DEF Fails
  <1>3. CASE /\ Goes(p, "returned") /\ publications' = publications \cup {p}
             /\ UNCHANGED << subVars, stream, server >>
    <2>1. server[p] = "answered"
      BY <1>1 DEF Sent, QInv, Known
    <2>2. TypeOK' /\ Known'
      BY <1>1, <1>3, <2>1 DEF QInv, TypeOK, Known, Goes, closeVars, subVars
    <2>3. Kept' /\ Past'
      BY <1>1, <1>3, <2>1 DEF QInv, TypeOK, Kept, Past, Goes, closeVars, subVars, Calls
    <2>4. Promised' /\ Bound' /\ Stopped'
      BY <1>1, <1>3 DEF QInv, Promised, Bound, Stopped, Left, closeVars, subVars
    <2>5. QED
      BY <2>2, <2>3, <2>4 DEF QInv
  <1>4. QED
    BY <1>2, <1>3 DEF Sent

LEMMA WakeInv ==
  ASSUME QInv, NEW s \in Subs, Wake(s)
  PROVE  QInv'
  <1>1. s \in Calls /\ UNCHANGED closeVars
    BY DEF Wake, Calls
  <1>2. CASE Fails(s)
    BY <1>1, <1>2, OwnUndo DEF Fails
  <1>3. CASE Goes(s, "returned") /\ UNCHANGED << subVars, publications, stream, server >>
    <2>1. TypeOK' /\ Known'
      BY <1>1, <1>3 DEF QInv, TypeOK, Known, Goes, closeVars, subVars
    <2>2. QED
      BY <1>1, <1>3, <2>1, Quiet DEF QInv, TypeOK, Goes, closeVars, subVars, Calls
  <1>4. QED
    BY <1>2, <1>3 DEF Wake

LEMMA StopInv ==
  ASSUME QInv, NEW c \in Calls, Stop(c)
  PROVE  QInv'
  BY OwnUndo DEF Stop

LEMMA CancelInv ==
  ASSUME QInv, NEW s \in Subs, Cancel(s)
  PROVE  QInv'
  <1>1. TypeOK' /\ Kept' /\ Past' /\ Known' /\ Bound'
    BY DEF QInv, TypeOK, Kept, Past, Known, Bound, Cancel, closeVars
  <1>2. Promised' /\ Stopped'
    BY DEF QInv, TypeOK, Promised, Stopped, Left, Cancel, closeVars
  <1>3. QED
    BY <1>1, <1>2 DEF QInv

\* A stream names its subscription: a promise that can be found is kept.
LEMMA BindInv ==
  ASSUME QInv, NEW s \in Subs, StreamBinds(s)
  PROVE  QInv'
  <1>1. UNCHANGED << closeVars, call, publications, server >>
    BY DEF StreamBinds
  <1>2. CASE s \in subPromises /\ future[s] = "pending"
    <2>1. /\ subPromises' = subPromises \ {s} /\ subStreams' = subStreams \cup {s}
          /\ subscriptions' = subscriptions \cup {s} /\ future' = [future EXCEPT ![s] = "set"]
          /\ stream' = [stream EXCEPT ![s] = "bound"]
      BY <1>2 DEF StreamBinds, Bind, Registered
    <2>2. TypeOK' /\ Known'
      BY <1>1, <2>1 DEF QInv, TypeOK, Known, closeVars
    <2>3. Kept' /\ Past'
      BY <1>1, <1>2, <2>1 DEF QInv, TypeOK, Kept, Past, closeVars
    <2>4. Promised' /\ Bound'
      BY <2>1 DEF QInv, TypeOK, Promised, Bound
    <2>5. Stopped'
      BY <1>1, <2>1 DEF QInv, Stopped, Left, closeVars
    <2>6. QED
      BY <2>2, <2>3, <2>4, <2>5 DEF QInv
  <1>3. CASE ~(s \in subPromises /\ future[s] = "pending")
    <2>1. /\ subStreams' = subStreams \cup {s} /\ UNCHANGED << subPromises, subscriptions, future >>
          /\ stream' = [stream EXCEPT ![s] = "bound"]
      BY <1>3 DEF StreamBinds, Bind
    <2>2. TypeOK' /\ Known' /\ Kept' /\ Past'
      BY <1>1, <2>1 DEF QInv, TypeOK, Known, Kept, Past, closeVars
    <2>3. Promised' /\ Bound' /\ Stopped'
      BY <1>1, <1>3, <2>1 DEF QInv, TypeOK, Promised, Bound, Stopped, Left, closeVars
    <2>4. QED
      BY <2>2, <2>3 DEF QInv
  <1>4. QED
    BY <1>2, <1>3

-----------------------------------------------------------------------------
(* Every step                                                              *)

LEMMA QInit == Init => QInv
  BY DEF Init, QInv, TypeOK, Kept, Past, Known, Promised, Bound, Stopped, Left, Calls

LEMMA QStep == QInv /\ [Next]_vars => QInv'
  <1> SUFFICES ASSUME QInv, [Next]_vars
               PROVE  QInv'
    OBVIOUS
  <1> USE DEF subVars, closeVars
  <1>1. CASE InitEnds \/ InitFails \/ Leave
    <2>1. TypeOK' /\ Known'
      BY <1>1 DEF InitEnds, InitFails, Leave, QInv, TypeOK, Known
    <2>2. QED
      BY <1>1, <2>1, Quiet DEF InitEnds, InitFails, Leave
  <1>2. ASSUME NEW c \in Calls, Request(c)
        PROVE  QInv'
    <2>1. TypeOK' /\ Known'
      BY <1>2 DEF Request, Goes, ServerIs, QInv, TypeOK, Known
    <2>2. QED
      BY <1>2, <2>1, Quiet DEF Request, Goes, ServerIs, QInv, TypeOK, Known, Calls
  <1>3. ASSUME NEW c \in Calls, RequestFails(c)
        PROVE  QInv'
    <2>1. TypeOK' /\ Known'
      BY <1>3 DEF RequestFails, Goes, ServerIs, QInv, TypeOK, Known
    <2>2. QED
      BY <1>3, <2>1, Quiet DEF RequestFails, Goes, ServerIs, QInv, TypeOK, Known, Calls
  <1>4. ASSUME NEW c \in Calls, FailureTold(c)
        PROVE  QInv'
    <2>1. TypeOK' /\ Known'
      BY <1>4 DEF FailureTold, Goes, QInv, TypeOK, Known
    <2>2. QED
      BY <1>4, <2>1, Quiet DEF FailureTold, Goes, QInv, TypeOK, Calls
  <1>5. ASSUME NEW c \in Calls, ServerMakes(c)
        PROVE  QInv'
    <2>1. TypeOK' /\ Known'
      BY <1>5 DEF ServerMakes, ServerIs, QInv, TypeOK, Known
    <2>2. QED
      BY <1>5, <2>1, Quiet DEF ServerMakes, ServerIs, QInv, TypeOK
  <1>6. ASSUME NEW s \in Subs, StreamOpens(s) \/ StreamBreaks(s)
        PROVE  QInv'
    <2>1. TypeOK' /\ Known'
      BY <1>6 DEF StreamOpens, StreamBreaks, QInv, TypeOK, Known
    <2>2. QED
      BY <1>6, <2>1, Quiet DEF StreamOpens, StreamBreaks, QInv, TypeOK
  <1>7. CASE UNCHANGED vars
    BY <1>7 DEF vars, QInv, TypeOK, Kept, Past, Known, Promised, Bound, Stopped, Left
  <1>8. QED
    BY <1>1, <1>2, <1>3, <1>4, <1>5, <1>6, <1>7,
       AnswerInv, SentInv, WakeInv, StopInv, CancelInv, BindInv, CloseInv
    DEF Next, CallStep, ServerStep

-----------------------------------------------------------------------------
(* Theorems                                                                *)

\* The variables of QuicChannel keep their types.
THEOREM QTyping == Spec => []TypeOK
  <1>1. QInv => TypeOK
    BY DEF QInv
  <1>2. QED
    BY <1>1, QInit, QStep, PTL DEF Spec

\* subscribe, bind_subscription: a promise that somebody waits for can be found
\* by the stream, whichever of the two comes first, for any number of calls.
THEOREM PromisesReachable == Spec => []PendingReachable
  <1>1. QInv => PendingReachable
    BY DEF QInv, Promised, Bound, PendingReachable
  <1>2. QED
    BY <1>1, QInit, QStep, PTL DEF Spec

\* _unpublish, _unsubscribe: nothing that comes later puts back into a table
\* what was stopped, whether the server heard of it or not.
THEOREM NothingComesBack == Spec => []StoppedStaysGone
  <1>1. QInv => StoppedStaysGone
    BY DEF QInv, Kept, StoppedStaysGone
  <1>2. QED
    BY <1>1, QInit, QStep, PTL DEF Spec

\* For a call that failed after its answer, and for all that there was when a
\* close() that is over began, the server was asked to end the session, whoever
\* else stopped part of it meanwhile.  That it did so is not claimed: a request
\* that fails is logged and not repeated.
THEOREM AllAsked == Spec => []EndRequested
  <1>1. QInv => EndRequested
    BY DEF QInv, TypeOK, Known, Stopped, Left, EndRequested, Ended
  <1>2. QED
    BY <1>1, QInit, QStep, PTL DEF Spec
=============================================================================
