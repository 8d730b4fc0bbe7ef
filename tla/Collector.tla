------------------------------ MODULE Collector ------------------------------
(***************************************************************************)
(* AsyncExceptionCollector (src/owt/utils.py): exceptions raised anywhere  *)
(* in a session are offered to the registered listeners and, when none     *)
(* consumes them, kept in a future or in a list.  Callers that add a       *)
(* listener and callers that add an exception exclude each other, as two   *)
(* groups: a counter per group, and one future per group to wait on.       *)
(*                                                                         *)
(* An action is what a coroutine runs between two suspensions, so taking   *)
(* the group lock, the body and the release are one action unless a        *)
(* listener is awaited in between.  The threading locks of the class never *)
(* block (asyncio callers only) and the timeout argument is never passed   *)
(* by a caller: both are left out.                                         *)
(***************************************************************************)
EXTENDS Integers, Sequences, FiniteSets

CONSTANTS
  Exceptions,     \* one add_exception call each
  Registrations,  \* add_listener calls
  Listeners,      \* the callables handed to add_listener
  Malformed,      \* those of them whose signature the wrapper refuses
  Watchers,       \* wait_until_error calls
  ListenerError   \* what a listener itself raises

ASSUME CallsFinite ==
  /\ IsFiniteSet(Exceptions)
  /\ IsFiniteSet(Registrations)
  /\ Exceptions \cap Registrations = {}

ASSUME OutcomesDistinct ==
  /\ Exceptions \cap {"pending", "ok", "cancelled", "idle", "watching", "timedout"} = {}
  /\ ListenerError \notin Exceptions

VARIABLES
  lk,         \* the group lock: both counters and both waiter futures
  pc,         \* where each call is suspended, or how it ended
  hold,       \* which counter a call has incremented and not decremented
  cursor,     \* index of the listener an add_exception call awaits
  target,     \* the listener each registration adds
  listeners,  \* self.listeners
  future,     \* self.future: "pending", "ok", "cancelled" or its exception
  pending,    \* self.pending_exceptions
  consumed,   \* exceptions some listener answered True to
  watcher     \* state of each wait_until_error call

vars == << lk, pc, hold, cursor, target, listeners, future, pending, consumed, watcher >>

Calls == Exceptions \cup Registrations

WaiterStates == {"none", "pending", "done", "cancelled"}
Locks == [lc: Nat, ec: Nat, lw: WaiterStates, ew: WaiterStates]

Failures == {"valueError", "assertion", "invalidState", "recursion", "cancelled"}
ExceptionPcs == {"idle", "waitExceptions", "waitListeners", "notify", "done"} \cup Failures
RegistrationPcs ==
  {"idle", "waitListeners", "replay", "done", "duplicate", "malformed", "refused"} \cup Failures

\* Outcomes of self.future.
Outcomes == {"pending", "ok", "cancelled"} \cup Exceptions

TypeOK ==
  /\ lk \in Locks
  /\ pc \in [Calls -> ExceptionPcs \cup RegistrationPcs]
  /\ hold \in [Calls -> {"none", "listeners", "exceptions"}]
  /\ cursor \in [Exceptions -> Nat]
  /\ target \in [Registrations -> Listeners]
  /\ listeners \in Seq(Listeners)
  /\ future \in Outcomes
  /\ pending \subseteq Exceptions \cup {ListenerError}
  /\ consumed \subseteq Exceptions
  /\ watcher \in [Watchers -> {"idle", "watching", "timedout"} \cup Outcomes]

Init ==
  /\ lk = [lc |-> 0, ec |-> 0, lw |-> "none", ew |-> "none"]
  /\ pc = [c \in Calls |-> "idle"]
  /\ hold = [c \in Calls |-> "none"]
  /\ cursor = [e \in Exceptions |-> 0]
  /\ target \in [Registrations -> Listeners]
  /\ listeners = << >>
  /\ future = "pending"
  /\ pending = {}
  /\ consumed = {}
  /\ watcher = [w \in Watchers |-> "idle"]

-----------------------------------------------------------------------------
(* The group lock.  A waiter future, once created, is never replaced.      *)

\* Who may enter at once.
ListenersMayEnterAlways(l) == TRUE
ListenersMayEnter(l) == l.lc > 0 \/ l.ec = 0

ExceptionsMayEnterAlways(l) == TRUE
ExceptionsMayEnter(l) == l.ec > 0 \/ l.lc = 0

\* lock_listeners finds its group excluded: it waits on the future of its
\* group.  One that is already done does not suspend the caller, which calls
\* itself again in the same state until Python gives up; one that was cancelled
\* cancels it.
BlockOnListeners(c) ==
  /\ lk' = IF lk.lw = "none" THEN [lk EXCEPT !.lw = "pending"] ELSE lk
  /\ pc' = [pc EXCEPT ![c] = CASE lk.lw = "done" -> "recursion"
                                [] lk.lw = "cancelled" -> "cancelled"
                                [] OTHER -> "waitListeners"]
  /\ UNCHANGED << hold, cursor, listeners, future, pending, consumed >>

\* The release of a group, given its counter, its waiter and the other
\* group's waiter: how the call ends, the counter, the other waiter.
ReleaseUnchecked(count, own, other) ==
  << IF count = 1 /\ other \in {"done", "cancelled"} THEN "invalidState" ELSE "done",
     count - 1,
     IF count = 1 /\ other = "pending" THEN "done" ELSE other >>
Release(count, own, other) ==
  IF count <= 0 THEN << "valueError", count, other >>
  ELSE IF own # "none" THEN << "assertion", count, other >>
  ELSE << IF count = 1 /\ other \in {"done", "cancelled"} THEN "invalidState" ELSE "done",
          count - 1,
          IF count = 1 /\ other = "pending" THEN "done" ELSE other >>

\* unlock_listeners as the last thing call c does, in lock state l; an error
\* raised by it replaces the result of the call.
UnlockListeners(c, l, result) ==
  LET r == Release(l.lc, l.lw, l.ew)
  IN  /\ pc' = [pc EXCEPT ![c] = IF r[1] = "done" THEN result ELSE r[1]]
      /\ lk' = [l EXCEPT !.lc = r[2], !.ew = r[3]]
      /\ hold' = [hold EXCEPT ![c] = IF r[2] < l.lc THEN "none" ELSE "listeners"]

UnlockExceptions(e, l, held) ==
  LET r == Release(l.ec, l.ew, l.lw)
  IN  /\ pc' = [pc EXCEPT ![e] = r[1]]
      /\ lk' = [l EXCEPT !.ec = r[2], !.lw = r[3]]
      /\ hold' = [hold EXCEPT ![e] = IF r[2] < l.ec THEN "none" ELSE held]

-----------------------------------------------------------------------------
(* add_exception                                                           *)

\* No listener consumed e: it becomes the collector's outcome, or joins the
\* pending ones when there is an outcome already.
SettleOnlyFirst(e, kept) ==
  /\ future' = IF future = "pending" THEN e ELSE future
  /\ pending' = kept
  /\ UNCHANGED consumed
SettleUnlessFailed(e, kept) ==
  /\ future' = IF future \notin Exceptions THEN e ELSE future
  /\ pending' = IF future \notin Exceptions THEN kept ELSE kept \cup {e}
  /\ UNCHANGED consumed
Settle(e, kept) ==
  /\ future' = IF future = "pending" THEN e ELSE future
  /\ pending' = IF future = "pending" THEN kept ELSE kept \cup {e}
  /\ UNCHANGED consumed

\* Offer e to listener number i and to the ones after it, in lock state l
\* with counter held; kept is pending_exceptions so far.
Notify(e, i, l, held, kept) ==
  \/ /\ i <= Len(listeners)
     /\ pc' = [pc EXCEPT ![e] = "notify"]
     /\ cursor' = [cursor EXCEPT ![e] = i]
     /\ hold' = [hold EXCEPT ![e] = held]
     /\ lk' = l
     /\ pending' = kept
     /\ UNCHANGED << listeners, future, consumed >>
  \/ /\ i > Len(listeners)
     /\ Settle(e, kept)
     /\ UnlockExceptions(e, l, held)
     /\ UNCHANGED << cursor, listeners >>

\* lock_listeners called by add_exception: on waking, lock_exceptions calls
\* lock_listeners instead of itself.
EnterByListeners(e) ==
  \/ /\ ListenersMayEnter(lk)
     /\ Notify(e, 1, [lk EXCEPT !.lc = @ + 1], "listeners", pending)
  \/ /\ ~ListenersMayEnter(lk)
     /\ BlockOnListeners(e)

EnterByExceptions(e) ==
  \/ /\ ExceptionsMayEnter(lk)
     /\ Notify(e, 1, [lk EXCEPT !.ec = @ + 1], "exceptions", pending)
  \/ /\ ~ExceptionsMayEnter(lk)
     /\ lk.ew # "done"
     /\ lk' = IF lk.ew = "none" THEN [lk EXCEPT !.ew = "pending"] ELSE lk
     /\ pc' = [pc EXCEPT ![e] = IF lk.ew = "cancelled" THEN "cancelled" ELSE "waitExceptions"]
     /\ UNCHANGED << hold, cursor, listeners, future, pending, consumed >>
  \/ /\ ~ExceptionsMayEnter(lk)
     /\ lk.ew = "done"
     /\ EnterByListeners(e)

AddException(e) ==
  /\ pc[e] = "idle"
  /\ EnterByExceptions(e)
  /\ UNCHANGED << target, watcher >>

WakeException(e) ==
  /\ \/ pc[e] = "waitExceptions" /\ lk.ew = "done"
     \/ pc[e] = "waitListeners" /\ lk.lw = "done"
  /\ EnterByListeners(e)
  /\ UNCHANGED << target, watcher >>

\* A call is cancelled while it waits, or the future it waits on was: the future
\* is the group's, so that whoever waits on it is cancelled with it, and whoever
\* comes to wait on it later.
Cancelled(c) ==
  /\ \/ /\ pc[c] = "waitExceptions"
        /\ lk' = IF lk.ew = "pending" THEN [lk EXCEPT !.ew = "cancelled"] ELSE lk
     \/ /\ pc[c] = "waitListeners"
        /\ lk' = IF lk.lw = "pending" THEN [lk EXCEPT !.lw = "cancelled"] ELSE lk
  /\ pc' = [pc EXCEPT ![c] = "cancelled"]
  /\ UNCHANGED << hold, cursor, target, listeners, future, pending, consumed, watcher >>

\* The awaited listener answers: it consumed e, it did not, or it raised.
ListenerConsumes(e) ==
  /\ pc[e] = "notify"
  /\ consumed' = consumed \cup {e}
  /\ UnlockExceptions(e, lk, hold[e])
  /\ UNCHANGED << cursor, target, listeners, future, pending, watcher >>

ListenerDeclines(e) ==
  /\ pc[e] = "notify"
  /\ \E kept \in {pending, pending \cup {ListenerError}} :
       Notify(e, cursor[e] + 1, lk, hold[e], kept)
  /\ UNCHANGED << target, watcher >>

-----------------------------------------------------------------------------
(* add_listener and remove_listener                                        *)

Registered(l) == \E i \in 1..Len(listeners) : listeners[i] = l

\* add_listener, in lock state l.  A listener already there returns without
\* the release, and one that the wrapper refuses raises without it; a collector
\* that has an exception offers it first.
Register(r, t, l) ==
  \/ /\ Registered(t)
     /\ pc' = [pc EXCEPT ![r] = "duplicate"]
     /\ lk' = l
     /\ hold' = [hold EXCEPT ![r] = "listeners"]
     /\ UNCHANGED listeners
  \/ /\ ~Registered(t) /\ t \in Malformed
     /\ pc' = [pc EXCEPT ![r] = "malformed"]
     /\ lk' = l
     /\ hold' = [hold EXCEPT ![r] = "listeners"]
     /\ UNCHANGED listeners
  \/ /\ ~Registered(t) /\ t \notin Malformed
     /\ future \in Exceptions
     /\ pc' = [pc EXCEPT ![r] = "replay"]
     /\ lk' = l
     /\ hold' = [hold EXCEPT ![r] = "listeners"]
     /\ UNCHANGED listeners
  \/ /\ ~Registered(t) /\ t \notin Malformed
     /\ future \notin Exceptions
     /\ listeners' = Append(listeners, t)
     /\ UnlockListeners(r, l, "done")

Enter(r, t) ==
  \/ /\ ListenersMayEnter(lk)
     /\ Register(r, t, [lk EXCEPT !.lc = @ + 1])
     /\ UNCHANGED << cursor, future, pending, consumed >>
  \/ /\ ~ListenersMayEnter(lk)
     /\ BlockOnListeners(r)

AddListener(r) ==
  /\ pc[r] = "idle"
  /\ Enter(r, target[r])
  /\ UNCHANGED << target, watcher >>

WakeListener(r) ==
  /\ pc[r] = "waitListeners"
  /\ lk.lw = "done"
  /\ Enter(r, target[r])
  /\ UNCHANGED << target, watcher >>

\* invoke_listenr returned: True refuses the listener, False admits it; an
\* awaited listener that raises fails add_listener, one that raises at the
\* call is recorded and admitted.
Replay(r) ==
  /\ pc[r] = "replay"
  /\ \/ /\ UnlockListeners(r, lk, "refused")
        /\ UNCHANGED << listeners, pending >>
     \/ /\ listeners' = Append(listeners, target[r])
        /\ pending' \in {pending, pending \cup {ListenerError}}
        /\ UnlockListeners(r, lk, "done")
  /\ UNCHANGED << cursor, target, future, consumed, watcher >>

\* remove_listener takes no lock.
RemoveListener(i) ==
  /\ i <= Len(listeners)
  /\ listeners' = SubSeq(listeners, 1, i - 1) \o SubSeq(listeners, i + 1, Len(listeners))
  /\ UNCHANGED << lk, pc, hold, cursor, target, future, pending, consumed, watcher >>

-----------------------------------------------------------------------------
(* The outcome                                                             *)

Settled == future # "pending"

Complete ==
  /\ ~Settled
  /\ future' = "ok"
  /\ UNCHANGED << lk, pc, hold, cursor, target, listeners, pending, consumed, watcher >>

CancelFuture ==
  /\ ~Settled
  /\ future' = "cancelled"
  /\ UNCHANGED << lk, pc, hold, cursor, target, listeners, pending, consumed, watcher >>

\* error(e) sets the exception without offering it to the listeners.
Error(e) ==
  /\ ~Settled
  /\ pc[e] = "idle"
  /\ future' = e
  /\ UNCHANGED << lk, pc, hold, cursor, target, listeners, pending, consumed, watcher >>

\* wait_until_error: at once when the collector has stopped, otherwise by a
\* callback of self.future, unless its timeout comes first.
Watch(w) ==
  /\ watcher[w] = "idle"
  /\ watcher' = [watcher EXCEPT ![w] = IF Settled THEN future ELSE "watching"]
  /\ UNCHANGED << lk, pc, hold, cursor, target, listeners, future, pending, consumed >>

Watched(w) ==
  /\ watcher[w] = "watching"
  /\ \/ Settled /\ watcher' = [watcher EXCEPT ![w] = future]
     \/ watcher' = [watcher EXCEPT ![w] = "timedout"]
  /\ UNCHANGED << lk, pc, hold, cursor, target, listeners, future, pending, consumed >>

-----------------------------------------------------------------------------
ExceptionStep(e) ==
  AddException(e) \/ WakeException(e) \/ ListenerConsumes(e) \/ ListenerDeclines(e)

RegistrationStep(r) == AddListener(r) \/ WakeListener(r) \/ Replay(r)

OutcomeStep ==
  \/ Complete
  \/ CancelFuture
  \/ \E e \in Exceptions : Error(e)
  \/ \E w \in Watchers : Watch(w) \/ Watched(w)

Next ==
  \/ \E e \in Exceptions : ExceptionStep(e)
  \/ \E r \in Registrations : RegistrationStep(r)
  \/ \E c \in Calls : Cancelled(c)
  \/ \E i \in 1..Len(listeners) : RemoveListener(i)
  \/ OutcomeStep

Spec == Init /\ [][Next]_vars

-----------------------------------------------------------------------------
(* Properties                                                              *)

\* lock_listeners / lock_exceptions: whatever leaks, wakes wrongly or fails,
\* the two groups are never inside together.
Exclusion == lk.lc = 0 \/ lk.ec = 0

\* add_exception iterates self.listeners across awaits: while it does so under
\* its own group's lock, no registration changes the list ahead of it.
\* (Removal needs no lock and may.)
NoneJoinsDuringNotification ==
  [][\A e \in Exceptions : hold[e] = "exceptions" => Len(listeners') <= Len(listeners)]_vars

\* A call of add_exception that got to offer its exception leaves it
\* somewhere: with a listener that consumed it, as the outcome, or pending,
\* even when its release of the lock fails afterwards.
NoExceptionLost ==
  \A e \in Exceptions :
    pc[e] \in {"done", "valueError", "assertion", "invalidState"} =>
      e \in consumed \/ future = e \/ e \in pending

\* What the class is for: counters, waiters, leaks and failed releases
\* included, the collector behaves as a sink whose two groups exclude each
\* other, whose outcome is settled once and which files each exception once.
Sink == INSTANCE ExceptionSink
          WITH group <- hold, outcome <- future, kept <- pending \ {ListenerError}

ImplementsSink == Sink!Spec
=============================================================================
