------------------------------ MODULE MCSession ------------------------------
EXTENDS Session

\* Bounds: the ticket is refreshed while no request is under way, with which it
\* shares nothing but the link, and the refresh begins on the first socket while
\* nobody ends the session.  No such step is a fair one.
Resting == \A r \in Requests : at[r] \in {"idle", "over"}
Quiet == \A t \in Enders \ {"relogin"} : at[t] = "idle"
Refreshing == refresh.stage \in {"asked", "hung", "refused"}

MCNext ==
  \/ \E t \in Tasks : TaskStep(t)
  \/ \E r \in Requests : CancelRequest(r) \/ (~Refreshing /\ Request(r))
  \/ \E t \in {"drop", "handler"} : Fatal(t)
  \/ Join \/ Leave \/ LinkLost \/ LinkBack \/ Refreshed
  \/ SendOutcome = "refused" /\ RefreshWakes
  \/ SendOutcome # "refused" /\ Resting /\ Quiet /\ last = 1 /\ RefreshWakes
MCSpec == Init /\ [][MCNext]_vars /\ Fairness
=============================================================================
