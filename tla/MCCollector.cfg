CONSTANTS
  Exceptions = {e1, e2, e3}
  Registrations = {r1, r2}
  Listeners = {l1, l2, l3}
  Malformed = {l3}
  Watchers = {w1}
  ListenerError = ListenerError
SPECIFICATION Spec
SYMMETRY Interchangeable
INVARIANTS TypeOK Exclusion NoExceptionLost
PROPERTIES NoneJoinsDuringNotification ImplementsSink
CHECK_DEADLOCK FALSE
