CONSTANTS
  Pubs = {p1}
  Subs = {s1, s2}
  Faults = {"nack", "mismatch", "cancel", "break", "refuse"}
SPECIFICATION FairSpec
INVARIANTS TypeOK PendingReachable StoppedStaysGone EndRequested
PROPERTY SubscribeEnds
CHECK_DEADLOCK FALSE
