---------------------------- MODULE ExceptionSink ----------------------------
(***************************************************************************)
(* What AsyncExceptionCollector promises to its users, without counters,   *)
(* waiters, listeners or an order of suspensions: two groups of calls that *)
(* are never inside together, an outcome that is settled once, and one     *)
(* place for each exception that was handed over.                          *)
(***************************************************************************)
CONSTANTS
  Calls,      \* whoever may be inside
  Exceptions  \* the calls that hand an exception over

VARIABLES
  group,     \* the group each call is inside with
  outcome,   \* "pending", "ok", "cancelled" or an exception
  consumed,  \* exceptions some listener took
  kept       \* exceptions that came after the outcome

sinkVars == << group, outcome, consumed, kept >>

Groups == {"listeners", "exceptions"}

Init ==
  /\ group = [c \in Calls |-> "none"]
  /\ outcome = "pending"
  /\ consumed = {}
  /\ kept = {}

\* Call c enters group g, which nobody of the other group is inside with,
\* stays in it, or leaves.
Enter(c, g) ==
  /\ group[c] \in {"none", g}
  /\ \A d \in Calls \ {c} : group[d] \in {"none", g}
  /\ group' = [group EXCEPT ![c] = g]

Leave(c) == group' = [group EXCEPT ![c] = "none"]

Move(c) == Leave(c) \/ \E g \in Groups : Enter(c, g)

Pass(c) == Move(c) /\ UNCHANGED << outcome, consumed, kept >>

\* Exception e finds its place; its call may move in the same step.
HandOver(e) ==
  /\ Move(e)
  /\ e \notin consumed \cup kept
  /\ \/ consumed' = consumed \cup {e} /\ UNCHANGED << outcome, kept >>
     \/ outcome = "pending" /\ outcome' = e /\ UNCHANGED << consumed, kept >>
     \/ outcome # "pending" /\ kept' = kept \cup {e} /\ UNCHANGED << outcome, consumed >>

\* The owner ends the collection.
Settle(v) ==
  /\ outcome = "pending"
  /\ outcome' = v
  /\ UNCHANGED << group, consumed, kept >>

Next ==
  \/ \E c \in Calls : Pass(c)
  \/ \E e \in Exceptions : HandOver(e)
  \/ \E v \in {"ok", "cancelled"} \cup Exceptions : Settle(v)

Spec == Init /\ [][Next]_sinkVars
=============================================================================
