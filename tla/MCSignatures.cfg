CONSTANTS
  Others = {"a", "b"}
  MaxParams = 3
SPECIFICATION Spec
INVARIANTS CallBinds ArgumentsFit
CHECK_DEADLOCK FALSE
