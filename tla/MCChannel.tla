------------------------------ MODULE MCChannel ------------------------------
EXTENDS Channel

\* A bound for the runs with fairness: from outside, the connection is closed
\* or fails only when one call is made on it, whatever else may go wrong when
\* both are.  Neither such a step nor a call is a fair one.
OneCall == Len(order) < Cardinality(Ops)
Undisturbed ==
  /\ handler # Failing
  /\ \A i \in DOMAIN inbox : inbox[i] # TransportError
  /\ \A w \in PeerTasks : errors[w][1] = "none"

MCNext ==
  \/ \E o \in Ops : CallStep(o) \/ ServerStep(o) \/ Stop(o) \/ Cancel(o) \/ Timeout(o)
  \/ \E o \in Ops : \/ OneCall /\ ServerFails(o)
                    \/ Start(o) /\ (~OneCall' => Undisturbed)
  \/ \E w \in PeerTasks : OneCall /\ PeerFails(w)
  \/ OneCall /\ CloseCalled
  \/ UndoStep \/ UndoFails \/ HandlerStep \/ CloseStep
MCSpec == Init /\ [][MCNext]_vars /\ Fairness
=============================================================================
