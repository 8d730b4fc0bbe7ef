CONSTANTS
  Requests = {r1}
  Texts = {}
  Faults = {"outage"}
  MaxJoins = 2
SPECIFICATION Spec
INVARIANT JoinedIsUsable
CHECK_DEADLOCK FALSE
