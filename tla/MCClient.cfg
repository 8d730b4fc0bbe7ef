CONSTANTS
  Calls = {c1, c2}
  Members = {m1}
  Faults = {"mute", "drop", "listenerLeaves", "abort"}
  MaxJoins = 2
  MaxQueue = 1
SPECIFICATION MCSpec
INVARIANTS TypeOK TableAgrees LeaveClosesSessions NobodyMissing
PROPERTY LeaveEndsUnlessWithin
CHECK_DEADLOCK FALSE
