CONSTANTS
  Requests = {r1}
  Texts = {}
  Faults = {"outage"}
  MaxJoins = 1
SPECIFICATION FairSpec
PROPERTY LeaveEnds
CHECK_DEADLOCK FALSE
