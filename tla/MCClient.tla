------------------------------- MODULE MCClient -------------------------------
EXTENDS Client

\* Bounds: the calls, which are alike, begin in one order; the second session has
\* one call of its own and no updates; one close() breaks off, in the first
\* session, and then the second has no call.
First == CHOOSE c \in Calls : TRUE
Begun(c) == call[c] = "idle" /\ call'[c] # "idle"
Updated == \E c \in Calls : queue' = Append(queue, << "mute", c >>)
Aborted == {c \in Calls : chan[c] = "aborted"}

MCNext ==
  /\ Next
  /\ \A c \in Calls \ {First} : Begun(c) => call[First] # "idle"
  /\ \A c, d \in Calls : Begun(c) /\ session = 2 => born[d] # 2 /\ Aborted = {}
  /\ Updated => session = 1
  /\ Aborted' = Aborted \/ (Aborted = {} /\ session = 1)
MCSpec == Init /\ [][MCNext]_vars /\ Fairness
=============================================================================
