------------------------- MODULE CollectorProofs ---------------------------
(***************************************************************************)
(* The two groups of the exception collector exclude each other, and the   *)
(* listeners do not grow under a notification, for any finite number of    *)
(* calls: the invariant IInv ties each counter to the calls that hold it.  *)
(* The collector implements ExceptionSink and loses no exception: SInv     *)
(* adds where each exception is, nowhere before its call ends, somewhere   *)
(* afterwards.                                                             *)
(***************************************************************************)
EXTENDS Collector, FiniteSetTheorems, SequenceTheorems, TLAPS

Holders(h, v) == {c \in Calls : h[c] = v}

\* Each counter counts the calls that have incremented it.
Counts(l, h) ==
  /\ l.lc = Cardinality(Holders(h, "listeners"))
  /\ l.ec = Cardinality(Holders(h, "exceptions"))

Excludes(l) == l.lc = 0 \/ l.ec = 0

\* A call holds a counter while it awaits a listener, and none before.
Stages(p, h) ==
  \A c \in Calls :
    /\ p[c] = "notify" => h[c] # "none"
    /\ p[c] = "replay" => h[c] = "listeners"
    /\ p[c] \in {"idle", "waitExceptions", "waitListeners"} => h[c] = "none"

IInv ==
  /\ TypeOK
  /\ Counts(lk, hold)
  /\ Excludes(lk)
  /\ Stages(pc, hold)

\* The part of the state the lock's operators change.
LockTyped(l, p, h) ==
  /\ l \in Locks
  /\ p \in [Calls -> ExceptionPcs \cup RegistrationPcs]
  /\ h \in [Calls -> {"none", "listeners", "exceptions"}]

LockInv(l, p, h) == LockTyped(l, p, h) /\ Counts(l, h) /\ Excludes(l) /\ Stages(p, h)

-----------------------------------------------------------------------------
(* Counting                                                                *)

LEMMA CallsAreFinite == IsFiniteSet(Calls)
  <1>1. /\ IsFiniteSet(Exceptions) /\ IsFiniteSet(Registrations)
    BY CallsFinite
  <1>2. QED
    BY <1>1, FS_Union DEF Calls

\* Giving call c the hold v adds c to one set of holders and takes it from
\* the one it was in.
LEMMA SetHold ==
  ASSUME NEW h \in [Calls -> {"none", "listeners", "exceptions"}],
         NEW c \in Calls,
         NEW v \in {"none", "listeners", "exceptions"},
         NEW w \in {"none", "listeners", "exceptions"}
  PROVE  /\ Cardinality(Holders(h, w)) \in Nat
         /\ h[c] = w => Cardinality(Holders(h, w)) > 0
         /\ Cardinality(Holders([h EXCEPT ![c] = v], w)) =
              Cardinality(Holders(h, w))
                + (IF v = w /\ h[c] # w THEN 1 ELSE 0)
                - (IF v # w /\ h[c] = w THEN 1 ELSE 0)
  <1> DEFINE S == Holders(h, w)
             T == Holders([h EXCEPT ![c] = v], w)
  <1>1. IsFiniteSet(S)
    BY CallsAreFinite, FS_Subset DEF Holders
  <1>2. Cardinality(S) \in Nat
    BY <1>1, FS_CardinalityType
  <1>3. h[c] = w => Cardinality(S) > 0
    <2>1. h[c] = w => S # {}
      BY DEF Holders
    <2>2. QED
      BY <2>1, <1>1, <1>2, FS_EmptySet
  <1>4. CASE v = w
    <2>1. T = S \cup {c}
      BY <1>4 DEF Holders
    <2>2. c \in S <=> h[c] = w
      BY DEF Holders
    <2>3. Cardinality(T) = IF c \in S THEN Cardinality(S) ELSE Cardinality(S) + 1
      BY <1>1, <2>1, FS_AddElement
    <2>4. QED
      BY <1>2, <1>3, <1>4, <2>2, <2>3
  <1>5. CASE v # w
    <2>1. T = S \ {c}
      BY <1>5 DEF Holders
    <2>2. c \in S <=> h[c] = w
      BY DEF Holders
    <2>3. Cardinality(T) = IF c \in S THEN Cardinality(S) - 1 ELSE Cardinality(S)
      BY <1>1, <2>1, FS_RemoveElement
    <2>4. QED
      BY <1>2, <1>3, <1>5, <2>2, <2>3
  <1>6. QED
    BY <1>4, <1>5

COROLLARY GainHold ==
  ASSUME NEW h \in [Calls -> {"none", "listeners", "exceptions"}], NEW c \in Calls,
         NEW w \in {"listeners", "exceptions"}, NEW u \in {"listeners", "exceptions"},
         h[c] = "none"
  PROVE  Cardinality(Holders([h EXCEPT ![c] = w], u)) =
           IF u = w THEN Cardinality(Holders(h, u)) + 1 ELSE Cardinality(Holders(h, u))
  <1>1. /\ Cardinality(Holders([h EXCEPT ![c] = w], u)) =
             Cardinality(Holders(h, u))
               + (IF w = u /\ h[c] # u THEN 1 ELSE 0)
               - (IF w # u /\ h[c] = u THEN 1 ELSE 0)
        /\ Cardinality(Holders(h, u)) \in Nat
    BY SetHold
  <1>2. h[c] # u
    OBVIOUS
  <1>3. QED
    BY <1>1, <1>2

COROLLARY LoseHold ==
  ASSUME NEW h \in [Calls -> {"none", "listeners", "exceptions"}], NEW c \in Calls,
         NEW w \in {"listeners", "exceptions"}, NEW u \in {"listeners", "exceptions"},
         h[c] = w
  PROVE  Cardinality(Holders([h EXCEPT ![c] = "none"], u)) =
           IF u = w THEN Cardinality(Holders(h, u)) - 1 ELSE Cardinality(Holders(h, u))
  <1>1. /\ Cardinality(Holders([h EXCEPT ![c] = "none"], u)) =
             Cardinality(Holders(h, u))
               + (IF "none" = u /\ h[c] # u THEN 1 ELSE 0)
               - (IF "none" # u /\ h[c] = u THEN 1 ELSE 0)
        /\ Cardinality(Holders(h, u)) \in Nat
    BY SetHold
  <1>2. u # "none"
    OBVIOUS
  <1>3. QED
    BY <1>1, <1>2

\* A release never makes a counter negative, and changes it by one or not.
LEMMA ReleaseEffect ==
  ASSUME NEW count \in Nat, NEW own \in WaiterStates, NEW other \in WaiterStates
  PROVE  /\ Release(count, own, other)[1] \in {"done"} \cup Failures
         /\ Release(count, own, other)[2] \in Nat
         /\ Release(count, own, other)[3] \in WaiterStates
         /\ \/ Release(count, own, other)[2] = count
            \/ count > 0 /\ Release(count, own, other)[2] = count - 1
  <1>1. CASE count = 0
    BY <1>1 DEF Release, WaiterStates, Failures
  <1>2. CASE count > 0 /\ own # "none"
    BY <1>2 DEF Release, WaiterStates, Failures
  <1>3. CASE count > 0 /\ own = "none"
    BY <1>3 DEF Release, WaiterStates, Failures
  <1>4. QED
    BY <1>1, <1>2, <1>3

-----------------------------------------------------------------------------
(* The lock's operators.  l is the lock while the call is inside, with the *)
(* hold it has there.                                                      *)

Inside(l, c, held) ==
  /\ l \in Locks
  /\ held \in {"listeners", "exceptions"}
  /\ Counts(l, [hold EXCEPT ![c] = held])
  /\ Excludes(l)

LEMMA EnterListeners ==
  ASSUME LockInv(lk, pc, hold), NEW c \in Calls, hold[c] = "none", ListenersMayEnter(lk)
  PROVE  Inside([lk EXCEPT !.lc = @ + 1], c, "listeners")
  <1>1. hold \in [Calls -> {"none", "listeners", "exceptions"}] /\ lk \in Locks
    BY DEF LockInv, LockTyped
  <1>2. lk.lc \in Nat /\ lk.ec \in Nat
    BY <1>1 DEF Locks
  <1>3. Counts([lk EXCEPT !.lc = @ + 1], [hold EXCEPT ![c] = "listeners"])
    <2>1. Cardinality(Holders([hold EXCEPT ![c] = "listeners"], "listeners"))
            = Cardinality(Holders(hold, "listeners")) + 1
      BY <1>1, GainHold
    <2>2. Cardinality(Holders([hold EXCEPT ![c] = "listeners"], "exceptions"))
            = Cardinality(Holders(hold, "exceptions"))
      BY <1>1, GainHold
    <2>3. QED
      BY <1>1, <2>1, <2>2 DEF Counts, LockInv, Locks
  <1>4. Excludes([lk EXCEPT !.lc = @ + 1])
    BY <1>1, <1>2 DEF Excludes, LockInv, ListenersMayEnter, Locks
  <1>5. QED
    BY <1>1, <1>2, <1>3, <1>4 DEF Inside, Locks

LEMMA EnterExceptions ==
  ASSUME LockInv(lk, pc, hold), NEW c \in Calls, hold[c] = "none", ExceptionsMayEnter(lk)
  PROVE  Inside([lk EXCEPT !.ec = @ + 1], c, "exceptions")
  <1>1. hold \in [Calls -> {"none", "listeners", "exceptions"}] /\ lk \in Locks
    BY DEF LockInv, LockTyped
  <1>2. lk.lc \in Nat /\ lk.ec \in Nat
    BY <1>1 DEF Locks
  <1>3. Counts([lk EXCEPT !.ec = @ + 1], [hold EXCEPT ![c] = "exceptions"])
    <2>1. Cardinality(Holders([hold EXCEPT ![c] = "exceptions"], "exceptions"))
            = Cardinality(Holders(hold, "exceptions")) + 1
      BY <1>1, GainHold
    <2>2. Cardinality(Holders([hold EXCEPT ![c] = "exceptions"], "listeners"))
            = Cardinality(Holders(hold, "listeners"))
      BY <1>1, GainHold
    <2>3. QED
      BY <1>1, <2>1, <2>2 DEF Counts, LockInv, Locks
  <1>4. Excludes([lk EXCEPT !.ec = @ + 1])
    BY <1>1, <1>2 DEF Excludes, LockInv, ExceptionsMayEnter, Locks
  <1>5. QED
    BY <1>1, <1>2, <1>3, <1>4 DEF Inside, Locks

\* A call that suspends inside.
LEMMA SuspendInside ==
  ASSUME LockInv(lk, pc, hold), NEW c \in Calls, NEW l, NEW held, Inside(l, c, held),
         NEW s \in {"notify", "replay", "duplicate", "malformed"},
         s = "replay" => held = "listeners",
         lk' = l, pc' = [pc EXCEPT ![c] = s], hold' = [hold EXCEPT ![c] = held]
  PROVE  LockInv(lk', pc', hold')
  <1>1. LockTyped(lk', pc', hold')
    BY DEF LockInv, LockTyped, Inside, ExceptionPcs, RegistrationPcs
  <1>2. Stages(pc', hold')
    BY DEF LockInv, LockTyped, Inside, Stages
  <1>3. QED
    BY <1>1, <1>2 DEF LockInv, Inside

LEMMA UnlockListenersInv ==
  ASSUME LockInv(lk, pc, hold), NEW c \in Calls, NEW l, Inside(l, c, "listeners"),
         NEW result \in {"done", "refused"}, UnlockListeners(c, l, result)
  PROVE  LockInv(lk', pc', hold')
  <1> DEFINE r == Release(l.lc, l.lw, l.ew)
             h == [hold EXCEPT ![c] = "listeners"]
             v == IF r[2] < l.lc THEN "none" ELSE "listeners"
  <1>1. /\ l \in Locks /\ l.lc \in Nat /\ l.ec \in Nat
        /\ l.lw \in WaiterStates /\ l.ew \in WaiterStates
    BY DEF Inside, Locks
  <1>2. /\ r[1] \in {"done"} \cup Failures /\ r[2] \in Nat /\ r[3] \in WaiterStates
        /\ r[2] = l.lc \/ (l.lc > 0 /\ r[2] = l.lc - 1)
    BY <1>1, ReleaseEffect
  <1>3. /\ pc' = [pc EXCEPT ![c] = IF r[1] = "done" THEN result ELSE r[1]]
        /\ lk' = [l EXCEPT !.lc = r[2], !.ew = r[3]]
        /\ hold' = [hold EXCEPT ![c] = v]
    BY DEF UnlockListeners
  <1>4. h \in [Calls -> {"none", "listeners", "exceptions"}]
    BY DEF LockInv, LockTyped
  <1>5. hold' = [h EXCEPT ![c] = v] /\ h[c] = "listeners"
    BY <1>3 DEF LockInv, LockTyped
  <1>6. Counts(lk', hold')
    <2>1. CASE v = "listeners"
      <3>1. r[2] = l.lc
        BY <1>1, <1>2, <2>1
      <3>2. hold' = h
        BY <1>4, <1>5, <2>1
      <3>3. QED
        BY <1>1, <1>3, <3>1, <3>2 DEF Counts, Inside, Locks
    <2>2. CASE v = "none"
      <3>1. r[2] = l.lc - 1
        BY <1>1, <1>2, <2>2
      <3>2. /\ Cardinality(Holders(hold', "listeners")) =
                 Cardinality(Holders(h, "listeners")) - 1
            /\ Cardinality(Holders(hold', "exceptions")) = Cardinality(Holders(h, "exceptions"))
        BY <1>4, <1>5, <2>2, LoseHold
      <3>3. lk'.lc = r[2] /\ lk'.ec = l.ec
        BY <1>1, <1>3 DEF Locks
      <3>4. QED
        BY <1>1, <3>1, <3>2, <3>3 DEF Counts, Inside
    <2>3. QED
      BY <2>1, <2>2
  <1>7. Excludes(lk') /\ lk' \in Locks
    <2>1. l.lc = 0 \/ l.ec = 0
      BY DEF Inside, Excludes
    <2>2. lk' \in Locks
      BY <1>1, <1>2, <1>3 DEF Locks
    <2>3. lk'.lc = r[2] /\ lk'.ec = l.ec
      BY <1>1, <1>3 DEF Locks
    <2>4. QED
      BY <1>1, <1>2, <2>1, <2>2, <2>3 DEF Excludes
  <1>8. LockTyped(lk', pc', hold')
    BY <1>2, <1>3, <1>7 DEF LockInv, LockTyped, ExceptionPcs, RegistrationPcs
  <1>9. Stages(pc', hold')
    BY <1>2, <1>3 DEF LockInv, LockTyped, Stages, Failures
  <1>10. QED
    BY <1>6, <1>7, <1>8, <1>9 DEF LockInv

\* A call that holds the wrong counter finds its own group's at zero, because
\* the groups exclude each other: its failed release changes no counter.
LEMMA UnlockExceptionsInv ==
  ASSUME LockInv(lk, pc, hold), NEW c \in Calls, NEW l, NEW held, Inside(l, c, held),
         UnlockExceptions(c, l, held)
  PROVE  LockInv(lk', pc', hold')
  <1> DEFINE r == Release(l.ec, l.ew, l.lw)
             h == [hold EXCEPT ![c] = held]
             v == IF r[2] < l.ec THEN "none" ELSE held
  <1>1. /\ l \in Locks /\ l.lc \in Nat /\ l.ec \in Nat
        /\ l.lw \in WaiterStates /\ l.ew \in WaiterStates
    BY DEF Inside, Locks
  <1>2. /\ r[1] \in {"done"} \cup Failures /\ r[2] \in Nat /\ r[3] \in WaiterStates
        /\ r[2] = l.ec \/ (l.ec > 0 /\ r[2] = l.ec - 1)
    BY <1>1, ReleaseEffect
  <1>3. /\ pc' = [pc EXCEPT ![c] = r[1]]
        /\ lk' = [l EXCEPT !.ec = r[2], !.lw = r[3]]
        /\ hold' = [hold EXCEPT ![c] = v]
    BY DEF UnlockExceptions
  <1>4. h \in [Calls -> {"none", "listeners", "exceptions"}]
    BY DEF LockInv, LockTyped, Inside
  <1>5. hold' = [h EXCEPT ![c] = v] /\ h[c] = held
    BY <1>3 DEF LockInv, LockTyped
  <1>6. held = "listeners" => l.ec = 0
    <2>1. held = "listeners" => Cardinality(Holders(h, "listeners")) > 0
      BY <1>4, <1>5, SetHold
    <2>2. QED
      BY <1>1, <2>1 DEF Inside, Counts, Excludes
  <1>7. Counts(lk', hold')
    <2>1. CASE v = held
      <3>1. hold' = h
        BY <1>4, <1>5, <2>1
      <3>2. r[2] = l.ec
        BY <1>1, <1>2, <2>1 DEF Inside
      <3>3. QED
        BY <1>1, <1>3, <3>1, <3>2 DEF Counts, Inside, Locks
    <2>2. CASE v # held
      <3>1. held = "exceptions" /\ v = "none" /\ r[2] = l.ec - 1
        BY <1>1, <1>2, <1>6, <2>2 DEF Inside
      <3>2. /\ Cardinality(Holders(hold', "exceptions")) =
                 Cardinality(Holders(h, "exceptions")) - 1
            /\ Cardinality(Holders(hold', "listeners")) = Cardinality(Holders(h, "listeners"))
        BY <1>4, <1>5, <3>1, LoseHold
      <3>3. lk'.ec = r[2] /\ lk'.lc = l.lc
        BY <1>1, <1>3 DEF Locks
      <3>4. QED
        BY <1>1, <3>1, <3>2, <3>3 DEF Counts, Inside
    <2>3. QED
      BY <2>1, <2>2
  <1>8. Excludes(lk') /\ lk' \in Locks
    <2>1. l.lc = 0 \/ l.ec = 0
      BY DEF Inside, Excludes
    <2>2. lk' \in Locks
      BY <1>1, <1>2, <1>3 DEF Locks
    <2>3. lk'.ec = r[2] /\ lk'.lc = l.lc
      BY <1>1, <1>3 DEF Locks
    <2>4. QED
      BY <1>1, <1>2, <2>1, <2>2, <2>3 DEF Excludes
  <1>9. LockTyped(lk', pc', hold')
    BY <1>2, <1>3, <1>8 DEF LockInv, LockTyped, Inside, ExceptionPcs, RegistrationPcs
  <1>10. Stages(pc', hold')
    BY <1>2, <1>3 DEF LockInv, LockTyped, Stages, Failures
  <1>11. QED
    BY <1>7, <1>8, <1>9, <1>10 DEF LockInv

\* A call that has no hold waits, or ends.
LEMMA StayOutside ==
  ASSUME LockInv(lk, pc, hold), NEW c \in Calls, hold[c] = "none",
         NEW s \in {"recursion", "cancelled", "waitListeners", "waitExceptions"},
         pc' = [pc EXCEPT ![c] = s], hold' = hold,
         lk' \in Locks, lk'.lc = lk.lc, lk'.ec = lk.ec
  PROVE  LockInv(lk', pc', hold')
  <1>1. LockTyped(lk', pc', hold')
    BY DEF LockInv, LockTyped, ExceptionPcs, RegistrationPcs, Failures
  <1>2. Stages(pc', hold')
    BY DEF LockInv, LockTyped, Stages
  <1>3. QED
    BY <1>1, <1>2 DEF LockInv, Counts, Excludes

LEMMA BlockInv ==
  ASSUME LockInv(lk, pc, hold), NEW c \in Calls, hold[c] = "none", BlockOnListeners(c)
  PROVE  LockInv(lk', pc', hold')
  <1>1. PICK s \in {"recursion", "cancelled", "waitListeners"} : pc' = [pc EXCEPT ![c] = s]
    <2>1. CASE lk.lw = "done"
      BY <2>1 DEF BlockOnListeners
    <2>2. CASE lk.lw = "cancelled"
      BY <2>2 DEF BlockOnListeners
    <2>3. CASE lk.lw \notin {"done", "cancelled"}
      BY <2>3 DEF BlockOnListeners
    <2>4. QED
      BY <2>1, <2>2, <2>3
  <1>2. /\ lk' = IF lk.lw = "none" THEN [lk EXCEPT !.lw = "pending"] ELSE lk
        /\ hold' = hold
    BY DEF BlockOnListeners
  <1>3. lk' \in Locks /\ lk'.lc = lk.lc /\ lk'.ec = lk.ec
    BY <1>2 DEF LockInv, LockTyped, Locks, WaiterStates
  <1>4. QED
    BY <1>1, <1>2, <1>3, StayOutside

LEMMA CancelledInv ==
  ASSUME LockInv(lk, pc, hold), NEW c \in Calls, Cancelled(c)
  PROVE  LockInv(lk', pc', hold')
  <1>1. /\ lk' \in {lk, [lk EXCEPT !.ew = "cancelled"], [lk EXCEPT !.lw = "cancelled"]}
        /\ pc' = [pc EXCEPT ![c] = "cancelled"]
        /\ hold' = hold
        /\ pc[c] \in {"waitExceptions", "waitListeners"}
    BY DEF Cancelled
  <1>2. lk' \in Locks /\ lk'.lc = lk.lc /\ lk'.ec = lk.ec
    BY <1>1 DEF LockInv, LockTyped, Locks, WaiterStates
  <1>3. hold[c] = "none"
    BY <1>1 DEF LockInv, Stages
  <1>4. QED
    BY <1>1, <1>2, <1>3, StayOutside

-----------------------------------------------------------------------------
(* The actions                                                             *)

\* The types of what the lock's operators leave alone.
Rest ==
  /\ cursor \in [Exceptions -> Nat]
  /\ target \in [Registrations -> Listeners]
  /\ listeners \in Seq(Listeners)
  /\ future \in Outcomes
  /\ pending \subseteq Exceptions \cup {ListenerError}
  /\ consumed \subseteq Exceptions
  /\ watcher \in [Watchers -> {"idle", "watching", "timedout"} \cup Outcomes]

LEMMA Parts == IInv <=> LockInv(lk, pc, hold) /\ Rest
  BY DEF IInv, LockInv, LockTyped, TypeOK, Rest

LEMMA PrimedParts == IInv' <=> LockInv(lk', pc', hold') /\ Rest'
  BY DEF IInv, LockInv, LockTyped, TypeOK, Rest, Counts, Excludes, Stages, Holders

LEMMA NotifyInv ==
  ASSUME IInv, NEW e \in Exceptions, NEW i \in Nat, NEW l, NEW held, Inside(l, e, held),
         NEW kept \in SUBSET (Exceptions \cup {ListenerError}), Notify(e, i, l, held, kept),
         UNCHANGED << target, watcher >>
  PROVE  IInv'
  <1>1. LockInv(lk, pc, hold) /\ Rest /\ e \in Calls
    BY Parts DEF Calls
  <1>2. CASE i <= Len(listeners)
    <2>1. /\ pc' = [pc EXCEPT ![e] = "notify"] /\ hold' = [hold EXCEPT ![e] = held] /\ lk' = l
          /\ cursor' = [cursor EXCEPT ![e] = i] /\ pending' = kept
          /\ UNCHANGED << listeners, future, consumed >>
      <3>1. listeners \in Seq(Listeners)
        BY <1>1 DEF Rest
      <3>2. ~(i > Len(listeners))
        BY <1>2, <3>1
      <3>3. QED
        BY <3>2 DEF Notify
    <2>2. LockInv(lk', pc', hold')
      BY <1>1, <2>1, SuspendInside
    <2>3. Rest'
      BY <1>1, <2>1 DEF Rest
    <2>4. QED
      BY <2>2, <2>3, PrimedParts
  <1>3. CASE i > Len(listeners)
    <2>1. /\ Settle(e, kept) /\ UnlockExceptions(e, l, held)
          /\ UNCHANGED << cursor, listeners >>
      <3>1. listeners \in Seq(Listeners)
        BY <1>1 DEF Rest
      <3>2. ~(i <= Len(listeners))
        BY <1>3, <3>1
      <3>3. QED
        BY <3>2 DEF Notify
    <2>2. LockInv(lk', pc', hold')
      BY <1>1, <2>1, UnlockExceptionsInv
    <2>3. Rest'
      BY <1>1, <2>1 DEF Rest, Settle, Outcomes
    <2>4. QED
      BY <2>2, <2>3, PrimedParts
  <1>4. Len(listeners) \in Nat
    BY <1>1 DEF Rest
  <1>5. QED
    BY <1>2, <1>3, <1>4

LEMMA EnterByListenersInv ==
  ASSUME IInv, NEW e \in Exceptions, hold[e] = "none", EnterByListeners(e),
         UNCHANGED << target, watcher >>
  PROVE  IInv'
  <1>1. LockInv(lk, pc, hold) /\ Rest /\ e \in Calls
    BY Parts DEF Calls
  <1>2. CASE ListenersMayEnter(lk)
    <2>1. Inside([lk EXCEPT !.lc = @ + 1], e, "listeners")
      BY <1>1, <1>2, EnterListeners
    <2>2. Notify(e, 1, [lk EXCEPT !.lc = @ + 1], "listeners", pending)
      BY <1>2 DEF EnterByListeners
    <2>3. pending \in SUBSET (Exceptions \cup {ListenerError})
      BY <1>1 DEF Rest
    <2>4. QED
      BY <2>1, <2>2, <2>3, NotifyInv
  <1>3. CASE ~ListenersMayEnter(lk)
    <2>1. BlockOnListeners(e)
      BY <1>3 DEF EnterByListeners
    <2>2. LockInv(lk', pc', hold')
      BY <1>1, <2>1, BlockInv
    <2>3. Rest'
      BY <1>1, <2>1 DEF Rest, BlockOnListeners
    <2>4. QED
      BY <2>2, <2>3, PrimedParts
  <1>4. QED
    BY <1>2, <1>3

LEMMA EnterByExceptionsInv ==
  ASSUME IInv, NEW e \in Exceptions, hold[e] = "none", EnterByExceptions(e),
         UNCHANGED << target, watcher >>
  PROVE  IInv'
  <1>1. LockInv(lk, pc, hold) /\ Rest /\ e \in Calls
    BY Parts DEF Calls
  <1>2. CASE ExceptionsMayEnter(lk)
    <2>1. Inside([lk EXCEPT !.ec = @ + 1], e, "exceptions")
      BY <1>1, <1>2, EnterExceptions
    <2>2. Notify(e, 1, [lk EXCEPT !.ec = @ + 1], "exceptions", pending)
      BY <1>2 DEF EnterByExceptions
    <2>3. pending \in SUBSET (Exceptions \cup {ListenerError})
      BY <1>1 DEF Rest
    <2>4. QED
      BY <2>1, <2>2, <2>3, NotifyInv
  <1>3. CASE ~ExceptionsMayEnter(lk) /\ lk.ew # "done"
    <2>1. /\ lk' \in {lk, [lk EXCEPT !.ew = "pending"]}
          /\ UNCHANGED << hold, cursor, listeners, future, pending, consumed >>
      BY <1>3 DEF EnterByExceptions
    <2>2. PICK s \in {"cancelled", "waitExceptions"} : pc' = [pc EXCEPT ![e] = s]
      BY <1>3 DEF EnterByExceptions
    <2>3. lk' \in Locks /\ lk'.lc = lk.lc /\ lk'.ec = lk.ec
      BY <1>1, <2>1 DEF LockInv, LockTyped, Locks, WaiterStates
    <2>4. LockInv(lk', pc', hold')
      BY <1>1, <2>1, <2>2, <2>3, StayOutside
    <2>5. Rest'
      BY <1>1, <2>1 DEF Rest
    <2>6. QED
      BY <2>4, <2>5, PrimedParts
  <1>4. CASE ~ExceptionsMayEnter(lk) /\ lk.ew = "done"
    <2>1. EnterByListeners(e)
      BY <1>4 DEF EnterByExceptions
    <2>2. QED
      BY <2>1, EnterByListenersInv
  <1>5. QED
    BY <1>2, <1>3, <1>4

\* A call that is inside when a listener answers.
LEMMA StillInside ==
  ASSUME IInv, NEW c \in Calls, pc[c] \in {"notify", "replay"}
  PROVE  Inside(lk, c, hold[c])
  <1>1. /\ hold \in [Calls -> {"none", "listeners", "exceptions"}] /\ lk \in Locks
        /\ hold[c] # "none"
    BY DEF IInv, TypeOK, Stages
  <1>2. hold = [hold EXCEPT ![c] = hold[c]]
    BY <1>1
  <1>3. QED
    BY <1>1, <1>2 DEF IInv, Inside

LEMMA EnterInv ==
  ASSUME IInv, NEW r \in Registrations, NEW t \in Listeners, hold[r] = "none", Enter(r, t),
         target' \in [Registrations -> Listeners], watcher' = watcher
  PROVE  IInv'
  <1>1. LockInv(lk, pc, hold) /\ Rest /\ r \in Calls
    BY Parts DEF Calls
  <1>2. CASE ListenersMayEnter(lk)
    <2> DEFINE l == [lk EXCEPT !.lc = @ + 1]
    <2>1. Inside(l, r, "listeners")
      BY <1>1, <1>2, EnterListeners
    <2>2. Register(r, t, l) /\ UNCHANGED << cursor, future, pending, consumed >>
      BY <1>2 DEF Enter
    <2> HIDE DEF l
    <2>3. listeners' \in Seq(Listeners)
      <3>1. listeners' \in {listeners, Append(listeners, t)}
        BY <2>2 DEF Register
      <3>2. listeners \in Seq(Listeners)
        BY <1>1 DEF Rest
      <3>3. QED
        BY <3>1, <3>2
    <2>4. Rest'
      BY <1>1, <2>2, <2>3 DEF Rest
    <2>5. LockInv(lk', pc', hold')
      <3>1. CASE Registered(t)
        BY <1>1, <2>1, <2>2, <3>1, SuspendInside DEF Register
      <3>2. CASE ~Registered(t) /\ t \in Malformed
        BY <1>1, <2>1, <2>2, <3>2, SuspendInside DEF Register
      <3>3. CASE ~Registered(t) /\ t \notin Malformed /\ future \in Exceptions
        BY <1>1, <2>1, <2>2, <3>3, SuspendInside DEF Register
      <3>4. CASE ~Registered(t) /\ t \notin Malformed /\ future \notin Exceptions
        BY <1>1, <2>1, <2>2, <3>4, UnlockListenersInv DEF Register
      <3>5. QED
        BY <3>1, <3>2, <3>3, <3>4
    <2>6. QED
      BY <2>4, <2>5, PrimedParts
  <1>3. CASE ~ListenersMayEnter(lk)
    <2>1. BlockOnListeners(r)
      BY <1>3 DEF Enter
    <2>2. LockInv(lk', pc', hold')
      BY <1>1, <2>1, BlockInv
    <2>3. Rest'
      BY <1>1, <2>1 DEF Rest, BlockOnListeners
    <2>4. QED
      BY <2>2, <2>3, PrimedParts
  <1>4. QED
    BY <1>2, <1>3

LEMMA StepInv == IInv /\ [Next]_vars => IInv'
  <1> SUFFICES ASSUME IInv, [Next]_vars
               PROVE  IInv'
    OBVIOUS
  <1>0. LockInv(lk, pc, hold) /\ Rest
    BY Parts
  <1>1. ASSUME NEW e \in Exceptions, AddException(e)
        PROVE  IInv'
    <2>1. hold[e] = "none"
      BY <1>1 DEF IInv, Stages, AddException, Calls
    <2>2. QED
      BY <1>1, <2>1, EnterByExceptionsInv DEF AddException
  <1>2. ASSUME NEW e \in Exceptions, WakeException(e)
        PROVE  IInv'
    <2>1. hold[e] = "none"
      BY <1>2 DEF IInv, Stages, WakeException, Calls
    <2>2. QED
      BY <1>2, <2>1, EnterByListenersInv DEF WakeException
  <1>3. ASSUME NEW e \in Exceptions, ListenerConsumes(e)
        PROVE  IInv'
    <2>1. e \in Calls /\ Inside(lk, e, hold[e])
      BY <1>3, StillInside DEF ListenerConsumes, Calls
    <2>2. LockInv(lk', pc', hold')
      BY <1>0, <1>3, <2>1, UnlockExceptionsInv DEF ListenerConsumes
    <2>3. Rest'
      BY <1>0, <1>3 DEF Rest, ListenerConsumes
    <2>4. QED
      BY <2>2, <2>3, PrimedParts
  <1>4. ASSUME NEW e \in Exceptions, ListenerDeclines(e)
        PROVE  IInv'
    <2>1. e \in Calls /\ Inside(lk, e, hold[e])
      BY <1>4, StillInside DEF ListenerDeclines, Calls
    <2>2. PICK kept \in {pending, pending \cup {ListenerError}} :
            Notify(e, cursor[e] + 1, lk, hold[e], kept)
      BY <1>4 DEF ListenerDeclines
    <2>3. kept \in SUBSET (Exceptions \cup {ListenerError}) /\ cursor[e] + 1 \in Nat
      BY <1>0 DEF Rest
    <2>4. UNCHANGED << target, watcher >>
      BY <1>4 DEF ListenerDeclines
    <2>5. QED
      BY <2>1, <2>2, <2>3, <2>4, NotifyInv
  <1>5. ASSUME NEW r \in Registrations, AddListener(r)
        PROVE  IInv'
    <2>1. hold[r] = "none"
      BY <1>5 DEF IInv, Stages, AddListener, Calls
    <2>2. target[r] \in Listeners
      BY <1>0 DEF Rest
    <2>3. QED
      BY <1>0, <1>5, <2>1, <2>2, EnterInv DEF AddListener, Rest
  <1>6. ASSUME NEW r \in Registrations, WakeListener(r)
        PROVE  IInv'
    <2>1. hold[r] = "none"
      BY <1>6 DEF IInv, Stages, WakeListener, Calls
    <2>2. target[r] \in Listeners
      BY <1>0 DEF Rest
    <2>3. QED
      BY <1>0, <1>6, <2>1, <2>2, EnterInv DEF WakeListener, Rest
  <1>7. ASSUME NEW r \in Registrations, Replay(r)
        PROVE  IInv'
    <2>1. r \in Calls /\ Inside(lk, r, "listeners")
      BY <1>7, StillInside DEF Replay, Calls, IInv, Stages
    <2>2. LockInv(lk', pc', hold')
      BY <1>0, <1>7, <2>1, UnlockListenersInv DEF Replay
    <2>3. Rest'
      <3>1. listeners' \in {listeners, Append(listeners, target[r])}
        BY <1>7 DEF Replay
      <3>2. listeners' \in Seq(Listeners)
        BY <1>0, <3>1 DEF Rest
      <3>3. pending' \subseteq Exceptions \cup {ListenerError}
        BY <1>0, <1>7 DEF Rest, Replay
      <3>4. UNCHANGED << cursor, target, future, consumed, watcher >>
        BY <1>7 DEF Replay
      <3>5. QED
        BY <1>0, <3>2, <3>3, <3>4 DEF Rest
    <2>4. QED
      BY <2>2, <2>3, PrimedParts
  <1>8. ASSUME NEW i \in 1..Len(listeners), RemoveListener(i)
        PROVE  IInv'
    <2>1. listeners' \in Seq(Listeners)
      BY <1>0, <1>8 DEF Rest, RemoveListener
    <2>2. QED
      BY <1>0, <1>8, <2>1, PrimedParts DEF Rest, RemoveListener
  <1>9. CASE OutcomeStep
    <2>1. UNCHANGED << lk, pc, hold >>
      BY <1>9 DEF OutcomeStep, Complete, CancelFuture, Error, Watch, Watched
    <2>2. Rest'
      BY <1>0, <1>9 DEF Rest, Outcomes, OutcomeStep, Complete, CancelFuture, Error, Watch, Watched
    <2>3. QED
      BY <1>0, <2>1, <2>2, PrimedParts
  <1>10. CASE UNCHANGED vars
    BY <1>0, <1>10, PrimedParts DEF vars, Rest
  <1>11. ASSUME NEW c \in Calls, Cancelled(c)
         PROVE  IInv'
    <2>1. LockInv(lk', pc', hold')
      BY <1>0, <1>11, CancelledInv
    <2>2. Rest'
      BY <1>0, <1>11 DEF Rest, Cancelled
    <2>3. QED
      BY <2>1, <2>2, PrimedParts
  <1>12. QED
    BY <1>1, <1>2, <1>3, <1>4, <1>5, <1>6, <1>7, <1>8, <1>9, <1>10, <1>11
    DEF Next, ExceptionStep, RegistrationStep

LEMMA InitInv == Init => IInv
  <1> SUFFICES ASSUME Init
               PROVE  IInv
    OBVIOUS
  <1>1. Rest
    BY DEF Init, Rest, Outcomes
  <1>2. LockTyped(lk, pc, hold) /\ Excludes(lk) /\ Stages(pc, hold)
    BY DEF Init, LockTyped, Locks, WaiterStates, ExceptionPcs, RegistrationPcs, Excludes, Stages
  <1>3. Counts(lk, hold)
    <2>1. Holders(hold, "listeners") = {} /\ Holders(hold, "exceptions") = {}
      BY DEF Init, Holders
    <2>2. QED
      BY <2>1, FS_EmptySet DEF Counts, Init
  <1>4. QED
    BY <1>1, <1>2, <1>3, Parts DEF LockInv

\* Every variable keeps its type, for any finite set of calls.
THEOREM Typing == Spec => []TypeOK
  <1>1. IInv => TypeOK
    BY DEF IInv
  <1>2. QED
    BY <1>1, InitInv, StepInv, PTL DEF Spec

\* lock_listeners / lock_exceptions: registrations and notifications are never
\* inside together, whatever number of calls leaked, failed or woke in the
\* wrong group before.
THEOREM GroupsExclude == Spec => []Exclusion
  <1>1. IInv => Exclusion
    BY DEF IInv, Excludes, Exclusion
  <1>2. QED
    BY <1>1, InitInv, StepInv, PTL DEF Spec

-----------------------------------------------------------------------------
\* The counter of a hold is not zero, so the other one is.
LEMMA HoldExcludes ==
  ASSUME IInv, NEW c \in Calls, hold[c] = "exceptions"
  PROVE  /\ ~ListenersMayEnter(lk)
         /\ \A r \in Calls : hold[r] # "listeners"
  <1>1. /\ hold \in [Calls -> {"none", "listeners", "exceptions"}]
        /\ lk.lc \in Nat /\ lk.ec \in Nat
    BY DEF IInv, TypeOK, Locks
  <1>2. lk.ec > 0
    BY <1>1, SetHold DEF IInv, Counts
  <1>3. lk.lc = 0
    BY <1>1, <1>2 DEF IInv, Excludes
  <1>4. ASSUME NEW r \in Calls, hold[r] = "listeners"
        PROVE  FALSE
    <2>1. lk.lc > 0
      BY <1>1, <1>4, SetHold DEF IInv, Counts
    <2>2. QED
      BY <1>3, <2>1
  <1>5. QED
    BY <1>1, <1>2, <1>3, <1>4 DEF ListenersMayEnter

\* add_exception iterates self.listeners across its awaits: no registration
\* makes the list longer under a notification that holds its own group's lock.
THEOREM NotificationsUndisturbed == Spec => NoneJoinsDuringNotification
  <1>1. ASSUME IInv, [Next]_vars, NEW c \in Exceptions, hold[c] = "exceptions"
        PROVE  Len(listeners') <= Len(listeners)
    <2>1. /\ listeners \in Seq(Listeners) /\ Len(listeners) \in Nat /\ c \in Calls
      BY <1>1 DEF IInv, TypeOK, Calls
    <2>2. ~ListenersMayEnter(lk) /\ \A r \in Calls : hold[r] # "listeners"
      BY <1>1, <2>1, HoldExcludes
    <2>3. CASE \E e \in Exceptions : ExceptionStep(e)
      <3>1. listeners' = listeners
        BY <2>3 DEF ExceptionStep, AddException, WakeException, ListenerConsumes,
             ListenerDeclines, EnterByExceptions, EnterByListeners, Notify, BlockOnListeners
      <3>2. QED
        BY <2>1, <3>1
    <2>4. ASSUME NEW r \in Registrations, RegistrationStep(r)
          PROVE  Len(listeners') <= Len(listeners)
      <3>1. ~Replay(r)
        BY <1>1, <2>2 DEF Replay, IInv, Stages, Calls
      <3>2. listeners' = listeners
        BY <2>2, <2>4, <3>1 DEF RegistrationStep, AddListener, WakeListener, Enter, BlockOnListeners
      <3>3. QED
        BY <2>1, <3>2
    <2>5. ASSUME NEW i \in 1..Len(listeners), RemoveListener(i)
          PROVE  Len(listeners') <= Len(listeners)
      <3>1. i \in Nat /\ i - 1 \in Nat /\ i >= 1 /\ i <= Len(listeners)
        BY <2>1
      <3> DEFINE front == SubSeq(listeners, 1, i - 1)
                 back == SubSeq(listeners, i + 1, Len(listeners))
      <3>2. front \in Seq(Listeners) /\ Len(front) = i - 1
        <4>1. \A j \in 1..(i - 1) : listeners[j] \in Listeners
          BY <2>1, <3>1
        <4>2. Len(front) = IF 1 <= i - 1 THEN (i - 1) - 1 + 1 ELSE 0
          BY <3>1, <4>1, SubSeqProperties
        <4>3. front \in Seq(Listeners)
          BY <3>1, <4>1, SubSeqProperties
        <4>4. QED
          BY <3>1, <4>2, <4>3
      <3>3. back \in Seq(Listeners) /\ Len(back) = Len(listeners) - i
        <4>1. \A j \in (i + 1)..Len(listeners) : listeners[j] \in Listeners
          BY <2>1, <3>1
        <4>2. Len(back) = IF i + 1 <= Len(listeners) THEN Len(listeners) - (i + 1) + 1 ELSE 0
          BY <2>1, <3>1, <4>1, SubSeqProperties
        <4>3. back \in Seq(Listeners)
          BY <2>1, <3>1, <4>1, SubSeqProperties
        <4>4. QED
          BY <2>1, <3>1, <4>2, <4>3
      <3>4. listeners' = front \o back
        BY <2>5 DEF RemoveListener
      <3> HIDE DEF front, back
      <3>5. Len(front \o back) = Len(front) + Len(back)
        BY <3>2, <3>3, ConcatProperties
      <3>6. QED
        BY <2>1, <3>1, <3>2, <3>3, <3>4, <3>5
    <2>6. CASE OutcomeStep \/ (\E d \in Calls : Cancelled(d)) \/ UNCHANGED vars
      <3>1. listeners' = listeners
        BY <2>6 DEF OutcomeStep, Complete, CancelFuture, Error, Watch, Watched, Cancelled, vars
      <3>2. QED
        BY <2>1, <3>1
    <2>7. QED
      BY <1>1, <2>3, <2>4, <2>5, <2>6 DEF Next
  <1>2. IInv /\ [Next]_vars =>
          [\A e \in Exceptions : hold[e] = "exceptions" => Len(listeners') <= Len(listeners)]_vars
    BY <1>1
  <1>3. QED
    BY <1>2, InitInv, StepInv, PTL DEF Spec, NoneJoinsDuringNotification

-----------------------------------------------------------------------------
(* Where the exceptions are                                                *)

Under == {"idle", "waitExceptions", "waitListeners", "notify"}
Over == {"done", "valueError", "assertion", "invalidState"}

\* An exception is not filed while its call is under way.
Unfiled == \A e \in Exceptions : pc[e] \in Under => e \notin consumed \cup pending

SInv == IInv /\ Unfiled /\ NoExceptionLost

\* What a step of add_exception for e may do, where w is where e is filed.
Places == {"nowhere", "consumed", "outcome", "kept"}

Filed(e, w) ==
  /\ consumed' = IF w = "consumed" THEN consumed \cup {e} ELSE consumed
  /\ future' = IF w = "outcome" THEN e ELSE future
  /\ w = "outcome" => future = "pending"
  /\ w = "kept" => future # "pending"
  /\ pending' \ {ListenerError} =
       (IF w = "kept" THEN pending \cup {e} ELSE pending) \ {ListenerError}
  /\ pending \subseteq pending'

Moved(e, held) ==
  /\ hold[e] \in {"none", held}
  /\ \A d \in Calls \ {e} : hold[d] \in {"none", held}
  /\ held \in {"listeners", "exceptions"}
  /\ hold' \in {[hold EXCEPT ![e] = held], [hold EXCEPT ![e] = "none"]}

-----------------------------------------------------------------------------
(* The lock                                                                *)

\* Whoever else is inside is inside with the same group.
LEMMA OthersInside ==
  ASSUME IInv, NEW c \in Calls, NEW l, NEW held, Inside(l, c, held)
  PROVE  \A d \in Calls \ {c} : hold[d] \in {"none", held}
  <1> DEFINE h == [hold EXCEPT ![c] = held]
  <1>1. /\ h \in [Calls -> {"none", "listeners", "exceptions"}]
        /\ hold \in [Calls -> {"none", "listeners", "exceptions"}]
        /\ h[c] = held /\ held \in {"listeners", "exceptions"}
        /\ l.lc \in Nat /\ l.ec \in Nat
        /\ l.lc = 0 \/ l.ec = 0
    BY DEF IInv, TypeOK, Inside, Locks, Excludes
  <1>2. /\ l.lc = Cardinality(Holders(h, "listeners"))
        /\ l.ec = Cardinality(Holders(h, "exceptions"))
    BY DEF Inside, Counts
  <1>3. ASSUME NEW d \in Calls, NEW v \in {"listeners", "exceptions"}, h[d] = v
        PROVE  Cardinality(Holders(h, v)) > 0
    BY <1>1, <1>3, SetHold
  <1>4. ASSUME NEW d \in Calls \ {c}, hold[d] \notin {"none", held}
        PROVE  FALSE
    <2>1. h[d] = hold[d] /\ d \in Calls
      BY <1>1
    <2>2. CASE held = "listeners"
      <3>1. h[d] = "exceptions"
        BY <1>1, <1>4, <2>1, <2>2
      <3>2. l.ec > 0 /\ l.lc > 0
        BY <1>1, <1>2, <1>3, <2>1, <2>2, <3>1
      <3>3. QED
        BY <1>1, <3>2
    <2>3. CASE held = "exceptions"
      <3>1. h[d] = "listeners"
        BY <1>1, <1>4, <2>1, <2>3
      <3>2. l.ec > 0 /\ l.lc > 0
        BY <1>1, <1>2, <1>3, <2>1, <2>3, <3>1
      <3>3. QED
        BY <1>1, <3>2
    <2>4. QED
      BY <1>1, <2>2, <2>3
  <1>5. QED
    BY <1>4

\* A release of the exceptions' lock moves its call and ends it.
LEMMA UnlockMoves ==
  ASSUME IInv, NEW e \in Exceptions, NEW l, NEW held, Inside(l, e, held),
         hold[e] \in {"none", held}, UnlockExceptions(e, l, held)
  PROVE  /\ Moved(e, held)
         /\ pc' = [pc EXCEPT ![e] = pc'[e]]
         /\ pc'[e] \in {"done"} \cup Failures
  <1> DEFINE r == Release(l.ec, l.ew, l.lw)
  <1>1. /\ l.ec \in Nat /\ l.ew \in WaiterStates /\ l.lw \in WaiterStates
        /\ held \in {"listeners", "exceptions"} /\ e \in Calls
    BY DEF Inside, Locks, Calls
  <1>2. r[1] \in {"done"} \cup Failures
    BY <1>1, ReleaseEffect
  <1>3. /\ pc' = [pc EXCEPT ![e] = r[1]]
        /\ hold' = [hold EXCEPT ![e] = IF r[2] < l.ec THEN "none" ELSE held]
    BY DEF UnlockExceptions
  <1>4. pc'[e] = r[1]
    BY <1>1, <1>3 DEF IInv, TypeOK
  <1>5. hold' \in {[hold EXCEPT ![e] = held], [hold EXCEPT ![e] = "none"]}
    BY <1>3
  <1>6. QED
    BY <1>1, <1>2, <1>3, <1>4, <1>5, OthersInside DEF Moved

-----------------------------------------------------------------------------
(* Where an exception goes                                                 *)

LEMMA NotifyFiles ==
  ASSUME SInv, NEW e \in Exceptions, NEW i \in Nat, NEW l, NEW held, Inside(l, e, held),
         hold[e] \in {"none", held},
         NEW kept \in {pending, pending \cup {ListenerError}}, Notify(e, i, l, held, kept)
  PROVE  /\ Moved(e, held)
         /\ pc' = [pc EXCEPT ![e] = pc'[e]]
         /\ \/ pc'[e] = "notify" /\ Filed(e, "nowhere")
            \/ pc'[e] \in {"done"} \cup Failures /\ \E w \in {"outcome", "kept"} : Filed(e, w)
  <1>1. e \in Calls /\ held \in {"listeners", "exceptions"} /\ IInv
    BY DEF Calls, Inside, SInv
  <1>2. /\ pending \subseteq kept
        /\ kept \ {ListenerError} = pending \ {ListenerError}
    OBVIOUS
  <1>3. CASE /\ pc' = [pc EXCEPT ![e] = "notify"]
             /\ hold' = [hold EXCEPT ![e] = held]
             /\ pending' = kept
             /\ UNCHANGED << future, consumed >>
    <2>1. Moved(e, held)
      BY <1>1, <1>3, OthersInside DEF Moved
    <2>2. pc'[e] = "notify"
      BY <1>1, <1>3 DEF IInv, TypeOK
    <2>3. Filed(e, "nowhere")
      BY <1>2, <1>3 DEF Filed
    <2>4. QED
      BY <1>3, <2>1, <2>2, <2>3
  <1>4. CASE Settle(e, kept) /\ UnlockExceptions(e, l, held)
    <2>1. /\ Moved(e, held)
          /\ pc' = [pc EXCEPT ![e] = pc'[e]]
          /\ pc'[e] \in {"done"} \cup Failures
      BY <1>1, <1>4, UnlockMoves
    <2>2. CASE future = "pending"
      <3>1. Filed(e, "outcome")
        BY <1>2, <1>4, <2>2 DEF Filed, Settle
      <3>2. QED
        BY <2>1, <3>1
    <2>3. CASE future # "pending"
      <3>1. Filed(e, "kept")
        BY <1>2, <1>4, <2>3 DEF Filed, Settle
      <3>2. QED
        BY <2>1, <3>1
    <2>4. QED
      BY <2>2, <2>3
  <1>5. QED
    BY <1>3, <1>4 DEF Notify

\* A step of add_exception that files e, or leaves it under way.
LEMMA FilingKeeps ==
  ASSUME SInv, NEW e \in Exceptions, NEW w \in Places, Filed(e, w),
         pc' = [pc EXCEPT ![e] = pc'[e]],
         w = "nowhere" => pc[e] \in Under /\ pc'[e] \notin Over,
         w # "nowhere" => pc'[e] \notin Under
  PROVE  Unfiled' /\ NoExceptionLost'
  <1>1. ListenerError \notin Exceptions
    BY OutcomesDistinct
  <1>2. ASSUME NEW x \in Exceptions, pc'[x] \in Under
        PROVE  x \notin consumed' \cup pending'
    <2>1. pc[x] \in Under /\ (x = e => w = "nowhere")
      BY <1>2 DEF SInv, IInv, TypeOK, Calls
    <2>2. x \notin consumed \cup pending
      BY <2>1 DEF SInv, Unfiled
    <2>3. x \notin consumed'
      BY <2>1, <2>2 DEF Filed
    <2>4. x \notin pending'
      BY <1>1, <2>1, <2>2 DEF Filed
    <2>5. QED
      BY <2>3, <2>4
  <1>3. ASSUME NEW x \in Exceptions, pc'[x] \in Over
        PROVE  x \in consumed' \/ future' = x \/ x \in pending'
    <2>1. CASE x = e
      <3>1. w # "nowhere"
        BY <1>3, <2>1
      <3>2. CASE w = "consumed"
        BY <2>1, <3>2 DEF Filed
      <3>3. CASE w = "outcome"
        BY <2>1, <3>3 DEF Filed
      <3>4. CASE w = "kept"
        BY <1>1, <2>1, <3>4 DEF Filed
      <3>5. QED
        BY <3>1, <3>2, <3>3, <3>4 DEF Places
    <2>2. CASE x # e
      <3>1. pc[x] = pc'[x]
        BY <2>2 DEF SInv, IInv, TypeOK, Calls
      <3>2. x \in consumed \/ future = x \/ x \in pending
        BY <1>3, <3>1 DEF SInv, NoExceptionLost, Over
      <3>3. x # "pending"
        BY OutcomesDistinct
      <3>4. future = x => future' = x
        BY <3>3 DEF Filed
      <3>5. consumed \subseteq consumed' /\ pending \subseteq pending'
        BY DEF Filed
      <3>6. QED
        BY <3>2, <3>4, <3>5
    <2>3. QED
      BY <2>1, <2>2
  <1>4. QED
    BY <1>2, <1>3 DEF Unfiled, NoExceptionLost, Over

\* The same step, seen by the users of the collector.
LEMMA FilingRefines ==
  ASSUME SInv, NEW e \in Exceptions, NEW w \in Places, NEW held,
         Filed(e, w), Moved(e, held), pc[e] \in Under
  PROVE  Sink!Next
  <1>1. e \in Calls /\ held \in Sink!Groups
    BY DEF Calls, Moved, Sink!Groups
  <1>2. Sink!Move(e)
    BY <1>1 DEF Moved, Sink!Move, Sink!Enter, Sink!Leave
  <1>3. e \notin consumed \cup (pending \ {ListenerError})
    BY DEF SInv, Unfiled
  <1>4. CASE w = "nowhere"
    <2>1. Sink!Pass(e)
      BY <1>2, <1>4 DEF Filed, Sink!Pass
    <2>2. QED
      BY <1>1, <2>1 DEF Sink!Next
  <1>5. CASE w # "nowhere"
    <2>1. CASE w = "consumed"
      <3>1. /\ consumed' = consumed \cup {e} /\ future' = future
            /\ (pending \ {ListenerError})' = pending \ {ListenerError}
        BY <2>1 DEF Filed
      <3>2. Sink!HandOver(e)
        BY <1>2, <1>3, <3>1 DEF Sink!HandOver
      <3>3. QED
        BY <3>2 DEF Sink!Next
    <2>2. CASE w = "outcome"
      <3>1. /\ consumed' = consumed /\ future = "pending" /\ future' = e
            /\ (pending \ {ListenerError})' = pending \ {ListenerError}
        BY <2>2 DEF Filed
      <3>2. Sink!HandOver(e)
        BY <1>2, <1>3, <3>1 DEF Sink!HandOver
      <3>3. QED
        BY <3>2 DEF Sink!Next
    <2>3. CASE w = "kept"
      <3>1. ListenerError \notin Exceptions
        BY OutcomesDistinct
      <3>2. /\ consumed' = consumed /\ future # "pending" /\ future' = future
            /\ (pending \ {ListenerError})' = (pending \ {ListenerError}) \cup {e}
        BY <2>3, <3>1 DEF Filed
      <3>3. Sink!HandOver(e)
        BY <1>2, <1>3, <3>2 DEF Sink!HandOver
      <3>4. QED
        BY <3>3 DEF Sink!Next
    <2>4. QED
      BY <1>5, <2>1, <2>2, <2>3 DEF Places
  <1>6. QED
    BY <1>4, <1>5

-----------------------------------------------------------------------------
(* The actions                                                             *)

\* What each step has to keep and to show.
Good == Unfiled' /\ NoExceptionLost' /\ [Sink!Next]_(Sink!sinkVars)

\* A step that files nothing and leaves every call of add_exception where it
\* was, or still under way.
LEMMA NothingFiled ==
  ASSUME SInv, UNCHANGED << future, consumed >>, pending \subseteq pending',
         pending' \ {ListenerError} = pending \ {ListenerError},
         \A e \in Exceptions :
           /\ pc'[e] \in Under => pc[e] \in Under
           /\ pc'[e] \in Over => pc[e] \in Over
  PROVE  Unfiled' /\ NoExceptionLost'
  <1>1. ListenerError \notin Exceptions
    BY OutcomesDistinct
  <1>2. Unfiled'
    BY <1>1 DEF SInv, Unfiled
  <1>3. NoExceptionLost'
    BY DEF SInv, NoExceptionLost, Over
  <1>4. QED
    BY <1>2, <1>3

\* A call that stays outside waits, or ends with nothing offered.
LEMMA OutsideGood ==
  ASSUME SInv, NEW c \in Calls, c \in Exceptions => pc[c] \in Under,
         NEW s \in {"recursion", "cancelled", "waitListeners", "waitExceptions"},
         pc' = [pc EXCEPT ![c] = s], UNCHANGED << hold, future, pending, consumed >>
  PROVE  Good
  <1>1. /\ UNCHANGED << hold, future, pending, consumed >>
        /\ pc' = [pc EXCEPT ![c] = s]
    OBVIOUS
  <1>2. Unfiled' /\ NoExceptionLost'
    <2>1. \A e \in Exceptions :
            /\ pc'[e] \in Under => pc[e] \in Under
            /\ pc'[e] \in Over => pc[e] \in Over
      BY <1>1 DEF Under, Over, SInv, IInv, TypeOK, Calls
    <2>2. QED
      BY <1>1, <2>1, NothingFiled
  <1>3. UNCHANGED Sink!sinkVars
    BY <1>1 DEF Sink!sinkVars
  <1>4. QED
    BY <1>2, <1>3 DEF Good

LEMMA BlockGood ==
  ASSUME SInv, NEW c \in Calls, BlockOnListeners(c), c \in Exceptions => pc[c] \in Under
  PROVE  Good
  <1>1. PICK s \in {"recursion", "cancelled", "waitListeners"} : pc' = [pc EXCEPT ![c] = s]
    <2>1. CASE lk.lw = "done"
      BY <2>1 DEF BlockOnListeners
    <2>2. CASE lk.lw = "cancelled"
      BY <2>2 DEF BlockOnListeners
    <2>3. CASE lk.lw \notin {"done", "cancelled"}
      BY <2>3 DEF BlockOnListeners
    <2>4. QED
      BY <2>1, <2>2, <2>3
  <1>2. UNCHANGED << hold, future, pending, consumed >>
    BY DEF BlockOnListeners
  <1>3. QED
    BY <1>1, <1>2, OutsideGood

LEMMA NotifyGood ==
  ASSUME SInv, NEW e \in Exceptions, NEW i \in Nat, NEW l, NEW held, Inside(l, e, held),
         hold[e] \in {"none", held}, pc[e] \in Under,
         NEW kept \in {pending, pending \cup {ListenerError}}, Notify(e, i, l, held, kept)
  PROVE  Good
  <1>1. /\ Moved(e, held)
        /\ pc' = [pc EXCEPT ![e] = pc'[e]]
        /\ \/ pc'[e] = "notify" /\ Filed(e, "nowhere")
           \/ pc'[e] \in {"done"} \cup Failures /\ \E w \in {"outcome", "kept"} : Filed(e, w)
    BY NotifyFiles
  <1>2. PICK w \in Places :
          /\ Filed(e, w)
          /\ w = "nowhere" => pc[e] \in Under /\ pc'[e] \notin Over
          /\ w # "nowhere" => pc'[e] \notin Under
    <2>1. CASE pc'[e] = "notify" /\ Filed(e, "nowhere")
      BY <2>1 DEF Places, Over
    <2>2. CASE pc'[e] \in {"done"} \cup Failures /\ \E w \in {"outcome", "kept"} : Filed(e, w)
      BY <2>2 DEF Places, Under, Failures
    <2>3. QED
      BY <1>1, <2>1, <2>2
  <1>3. Unfiled' /\ NoExceptionLost'
    BY <1>1, <1>2, FilingKeeps
  <1>4. Sink!Next
    BY <1>1, <1>2, FilingRefines
  <1>5. QED
    BY <1>3, <1>4 DEF Good

LEMMA EnterByListenersGood ==
  ASSUME SInv, NEW e \in Exceptions, hold[e] = "none", pc[e] \in Under, EnterByListeners(e)
  PROVE  Good
  <1>1. LockInv(lk, pc, hold) /\ e \in Calls
    BY Parts DEF Calls, SInv
  <1>2. CASE ListenersMayEnter(lk)
    <2>1. Inside([lk EXCEPT !.lc = @ + 1], e, "listeners")
      BY <1>1, <1>2, EnterListeners
    <2>2. Notify(e, 1, [lk EXCEPT !.lc = @ + 1], "listeners", pending)
      BY <1>2 DEF EnterByListeners
    <2>3. QED
      BY <2>1, <2>2, NotifyGood
  <1>3. CASE ~ListenersMayEnter(lk)
    BY <1>1, <1>3, BlockGood DEF EnterByListeners
  <1>4. QED
    BY <1>2, <1>3

LEMMA EnterByExceptionsGood ==
  ASSUME SInv, NEW e \in Exceptions, hold[e] = "none", pc[e] \in Under, EnterByExceptions(e)
  PROVE  Good
  <1>1. LockInv(lk, pc, hold) /\ e \in Calls
    BY Parts DEF Calls, SInv
  <1>2. CASE ExceptionsMayEnter(lk)
    <2>1. Inside([lk EXCEPT !.ec = @ + 1], e, "exceptions")
      BY <1>1, <1>2, EnterExceptions
    <2>2. Notify(e, 1, [lk EXCEPT !.ec = @ + 1], "exceptions", pending)
      BY <1>2 DEF EnterByExceptions
    <2>3. QED
      BY <2>1, <2>2, NotifyGood
  <1>3. CASE ~ExceptionsMayEnter(lk) /\ lk.ew # "done"
    <2>1. PICK s \in {"cancelled", "waitExceptions"} : pc' = [pc EXCEPT ![e] = s]
      BY <1>3 DEF EnterByExceptions
    <2>2. UNCHANGED << hold, future, pending, consumed >>
      BY <1>3 DEF EnterByExceptions
    <2>3. QED
      BY <1>1, <2>1, <2>2, OutsideGood
  <1>4. CASE ~ExceptionsMayEnter(lk) /\ lk.ew = "done"
    BY <1>4, EnterByListenersGood DEF EnterByExceptions
  <1>5. QED
    BY <1>2, <1>3, <1>4

\* A registration files nothing, whatever it does to the lock.
LEMMA RegistrationGood ==
  ASSUME SInv, NEW r \in Registrations, NEW l, Inside(l, r, "listeners"),
         hold[r] \in {"none", "listeners"},
         hold' \in {[hold EXCEPT ![r] = "listeners"], [hold EXCEPT ![r] = "none"]},
         pc' = [pc EXCEPT ![r] = pc'[r]],
         pending' \in {pending, pending \cup {ListenerError}},
         UNCHANGED << future, consumed >>
  PROVE  Good
  <1>1. r \in Calls /\ r \notin Exceptions
    BY CallsFinite DEF Calls
  <1>2. \A d \in Calls \ {r} : hold[d] \in {"none", "listeners"}
    BY <1>1, OthersInside DEF SInv
  <1>3. Sink!Move(r)
    BY <1>1, <1>2 DEF Sink!Move, Sink!Enter, Sink!Leave, Sink!Groups
  <1>4. (pending \ {ListenerError})' = pending \ {ListenerError}
    OBVIOUS
  <1>5. Sink!Pass(r)
    BY <1>3, <1>4 DEF Sink!Pass
  <1>6. Sink!Next
    BY <1>1, <1>5 DEF Sink!Next
  <1>7. Unfiled' /\ NoExceptionLost'
    <2>1. \A e \in Exceptions :
            /\ pc'[e] \in Under => pc[e] \in Under
            /\ pc'[e] \in Over => pc[e] \in Over
      BY <1>1 DEF SInv, IInv, TypeOK, Calls
    <2>2. QED
      BY <2>1, NothingFiled
  <1>8. QED
    BY <1>6, <1>7 DEF Good

LEMMA UnlockListenersShape ==
  ASSUME IInv, NEW r \in Calls, NEW l, NEW result, UnlockListeners(r, l, result)
  PROVE  /\ pc' = [pc EXCEPT ![r] = pc'[r]]
         /\ hold' \in {[hold EXCEPT ![r] = "listeners"], [hold EXCEPT ![r] = "none"]}
  BY DEF UnlockListeners, IInv, TypeOK

LEMMA EnterGood ==
  ASSUME SInv, NEW r \in Registrations, hold[r] = "none", Enter(r, target[r])
  PROVE  Good
  <1>1. LockInv(lk, pc, hold) /\ r \in Calls /\ r \notin Exceptions
    BY Parts, CallsFinite DEF Calls, SInv
  <1>2. CASE ListenersMayEnter(lk)
    <2> DEFINE l == [lk EXCEPT !.lc = @ + 1]
    <2>1. Inside(l, r, "listeners")
      BY <1>1, <1>2, EnterListeners
    <2>2. Register(r, target[r], l) /\ UNCHANGED << cursor, future, pending, consumed >>
      BY <1>2 DEF Enter
    <2> HIDE DEF l
    <2>3. /\ pc' = [pc EXCEPT ![r] = pc'[r]]
          /\ hold' \in {[hold EXCEPT ![r] = "listeners"], [hold EXCEPT ![r] = "none"]}
      <3>1. CASE UnlockListeners(r, l, "done")
        BY <1>1, <3>1, UnlockListenersShape DEF SInv
      <3>2. CASE pc' \in {[pc EXCEPT ![r] = s] : s \in {"duplicate", "malformed", "replay"}}
                 /\ hold' = [hold EXCEPT ![r] = "listeners"]
        BY <1>1, <3>2 DEF SInv, IInv, TypeOK
      <3>3. QED
        BY <2>2, <3>1, <3>2 DEF Register
    <2>4. QED
      BY <2>1, <2>2, <2>3, RegistrationGood
  <1>3. CASE ~ListenersMayEnter(lk)
    BY <1>1, <1>3, BlockGood DEF Enter
  <1>4. QED
    BY <1>2, <1>3

\* Whoever ends the collection does it once.
LEMMA OutcomeGood ==
  ASSUME SInv, OutcomeStep
  PROVE  Good
  <1>1. UNCHANGED << pc, hold, pending, consumed >>
    BY DEF OutcomeStep, Complete, CancelFuture, Error, Watch, Watched
  <1>2. \/ future' = future
        \/ /\ future = "pending"
           /\ future' \in {"ok", "cancelled"} \cup Exceptions
    <2>1. CASE Complete \/ CancelFuture \/ \E e \in Exceptions : Error(e)
      BY <2>1 DEF Complete, CancelFuture, Error, Settled
    <2>2. CASE \E w \in Watchers : Watch(w) \/ Watched(w)
      BY <2>2 DEF Watch, Watched
    <2>3. QED
      BY <2>1, <2>2 DEF OutcomeStep
  <1>3. Unfiled'
    BY <1>1 DEF SInv, Unfiled
  <1>4. NoExceptionLost'
    <2>1. \A e \in Exceptions : future = e => future' = e
      BY <1>2, OutcomesDistinct
    <2>2. QED
      BY <1>1, <2>1 DEF SInv, NoExceptionLost
  <1>5. [Sink!Next]_(Sink!sinkVars)
    <2>1. CASE future' = future
      <3>1. UNCHANGED Sink!sinkVars
        BY <1>1, <2>1 DEF Sink!sinkVars
      <3>2. QED
        BY <3>1
    <2>2. CASE future = "pending" /\ future' \in {"ok", "cancelled"} \cup Exceptions
      <3>1. Sink!Settle(future')
        BY <1>1, <2>2 DEF Sink!Settle
      <3>2. QED
        BY <2>2, <3>1 DEF Sink!Next
    <2>3. QED
      BY <1>2, <2>1, <2>2
  <1>6. QED
    BY <1>3, <1>4, <1>5 DEF Good

LEMMA StepGood == SInv /\ [Next]_vars => Good
  <1> SUFFICES ASSUME SInv, [Next]_vars
               PROVE  Good
    OBVIOUS
  <1>1. IInv
    BY DEF SInv
  <1>2. ASSUME NEW e \in Exceptions, AddException(e)
        PROVE  Good
    <2>1. hold[e] = "none" /\ pc[e] \in Under /\ EnterByExceptions(e)
      BY <1>1, <1>2 DEF IInv, Stages, AddException, Calls, Under
    <2>2. QED
      BY <2>1, EnterByExceptionsGood
  <1>3. ASSUME NEW e \in Exceptions, WakeException(e)
        PROVE  Good
    <2>1. hold[e] = "none" /\ pc[e] \in Under /\ EnterByListeners(e)
      BY <1>1, <1>3 DEF IInv, Stages, WakeException, Calls, Under
    <2>2. QED
      BY <2>1, EnterByListenersGood
  <1>4. ASSUME NEW e \in Exceptions, ListenerConsumes(e)
        PROVE  Good
    <2>1. e \in Calls /\ Inside(lk, e, hold[e]) /\ pc[e] \in Under
      BY <1>1, <1>4, StillInside DEF ListenerConsumes, Calls, Under
    <2>2. /\ Moved(e, hold[e])
          /\ pc' = [pc EXCEPT ![e] = pc'[e]]
          /\ pc'[e] \in {"done"} \cup Failures
      BY <1>1, <1>4, <2>1, UnlockMoves DEF ListenerConsumes
    <2>3. Filed(e, "consumed")
      BY <1>4 DEF ListenerConsumes, Filed
    <2>4. "consumed" \in Places /\ pc'[e] \notin Under
      BY <2>2 DEF Places, Under, Failures
    <2>5. Unfiled' /\ NoExceptionLost'
      BY <2>2, <2>3, <2>4, FilingKeeps
    <2>6. Sink!Next
      BY <2>1, <2>2, <2>3, <2>4, FilingRefines
    <2>7. QED
      BY <2>5, <2>6 DEF Good
  <1>5. ASSUME NEW e \in Exceptions, ListenerDeclines(e)
        PROVE  Good
    <2>1. e \in Calls /\ Inside(lk, e, hold[e]) /\ pc[e] \in Under /\ cursor[e] + 1 \in Nat
      BY <1>1, <1>5, StillInside DEF ListenerDeclines, Calls, Under, IInv, TypeOK
    <2>2. PICK kept \in {pending, pending \cup {ListenerError}} :
            Notify(e, cursor[e] + 1, lk, hold[e], kept)
      BY <1>5 DEF ListenerDeclines
    <2>3. QED
      BY <2>1, <2>2, NotifyGood
  <1>6. ASSUME NEW r \in Registrations, AddListener(r) \/ WakeListener(r)
        PROVE  Good
    <2>1. hold[r] = "none" /\ Enter(r, target[r])
      BY <1>1, <1>6 DEF IInv, Stages, AddListener, WakeListener, Calls
    <2>2. QED
      BY <2>1, EnterGood
  <1>7. ASSUME NEW r \in Registrations, Replay(r)
        PROVE  Good
    <2>1. r \in Calls /\ hold[r] = "listeners" /\ Inside(lk, r, "listeners")
      BY <1>1, <1>7, StillInside DEF Replay, Calls, IInv, Stages
    <2>2. /\ pc' = [pc EXCEPT ![r] = pc'[r]]
          /\ hold' \in {[hold EXCEPT ![r] = "listeners"], [hold EXCEPT ![r] = "none"]}
      BY <1>1, <1>7, <2>1, UnlockListenersShape DEF Replay
    <2>3. /\ pending' \in {pending, pending \cup {ListenerError}}
          /\ UNCHANGED << future, consumed >>
      BY <1>7 DEF Replay
    <2>4. QED
      BY <2>1, <2>2, <2>3, RegistrationGood
  <1>8. CASE UNCHANGED << pc, hold, pending, consumed, future >>
    <2>1. Unfiled' /\ NoExceptionLost'
      BY <1>8 DEF SInv, Unfiled, NoExceptionLost
    <2>2. UNCHANGED Sink!sinkVars
      BY <1>8 DEF Sink!sinkVars
    <2>3. QED
      BY <2>1, <2>2 DEF Good
  <1>9. ASSUME NEW i \in 1..Len(listeners), RemoveListener(i)
        PROVE  Good
    BY <1>8, <1>9 DEF RemoveListener
  <1>10. CASE UNCHANGED vars
    BY <1>8, <1>10 DEF vars
  <1>11. CASE OutcomeStep
    BY <1>11, OutcomeGood
  <1>12. ASSUME NEW c \in Calls, Cancelled(c)
         PROVE  Good
    <2>1. /\ pc' = [pc EXCEPT ![c] = "cancelled"]
          /\ UNCHANGED << hold, future, pending, consumed >>
          /\ pc[c] \in Under
      BY <1>12 DEF Cancelled, Under
    <2>2. QED
      BY <1>12, <2>1, OutsideGood
  <1>13. QED
    BY <1>2, <1>3, <1>4, <1>5, <1>6, <1>7, <1>9, <1>10, <1>11, <1>12
    DEF Next, ExceptionStep, RegistrationStep

LEMMA SInit == Init => SInv
  <1> SUFFICES ASSUME Init
               PROVE  SInv
    OBVIOUS
  <1>1. IInv
    BY InitInv
  <1>2. Unfiled /\ NoExceptionLost
    BY DEF Init, Unfiled, NoExceptionLost, Calls
  <1>3. QED
    BY <1>1, <1>2 DEF SInv

LEMMA SStep == SInv /\ [Next]_vars => SInv'
  <1> SUFFICES ASSUME SInv, [Next]_vars
               PROVE  SInv'
    OBVIOUS
  <1>1. IInv'
    BY StepInv DEF SInv
  <1>2. Unfiled' /\ NoExceptionLost'
    BY StepGood DEF Good
  <1>3. QED
    BY <1>1, <1>2 DEF SInv

\* add_exception: once a call has offered its exception, the exception is with
\* a listener that consumed it, is the outcome, or is among the pending ones,
\* for any number of calls, leaks and failed releases.
THEOREM NothingLost == Spec => []NoExceptionLost
  <1>1. SInv => NoExceptionLost
    BY DEF SInv
  <1>2. QED
    BY <1>1, SInit, SStep, PTL DEF Spec

\* AsyncExceptionCollector behaves, for its users, as the sink: exclusive
\* groups, an outcome settled once, each exception filed at most once.
THEOREM Implementation == Spec => ImplementsSink
  <1>1. Init => Sink!Init
    <2> SUFFICES ASSUME Init
                 PROVE  Sink!Init
      OBVIOUS
    <2>1. pending \ {ListenerError} = {}
      BY DEF Init
    <2>2. QED
      BY <2>1 DEF Init, Sink!Init
  <1>2. SInv /\ [Next]_vars => [Sink!Next]_(Sink!sinkVars)
    BY StepGood DEF Good
  <1>3. QED
    BY <1>1, <1>2, SInit, SStep, PTL DEF Spec, ImplementsSink, Sink!Spec
=============================================================================
