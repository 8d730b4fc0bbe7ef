CONSTANTS
  StreamIds = {s1, s2}
  Finders = {f1, f2}
  Listeners = {f1, f2, "tasks"}
  Retries = 1
  Timed = TRUE
  Uses = {"renew", "cancel", "close", "error", "raise", "timeoutError", "leave", "findTimeout", "filter", "join"}
  MaxTimers = 2
SPECIFICATION MCSpec
INVARIANTS TypeOK StateAgrees NoneMissesStream SpinsOnlyWhenCancelled
PROPERTIES WaitEnds ListenersStay
CHECK_DEADLOCK FALSE
