CONSTANTS
  Calls = {c1}
  Members = {m1}
  Faults = {"listenerLeaves"}
  MaxJoins = 1
  MaxQueue = 2
SPECIFICATION FairSpec
PROPERTY LeaveEnds
CHECK_DEADLOCK FALSE
