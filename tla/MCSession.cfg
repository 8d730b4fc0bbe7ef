CONSTANTS
  Requests = {r1, r2}
  Texts = {r2}
  Faults = {"outage", "drop", "handler", "refuse", "cancel"}
  MaxJoins = 2
SPECIFICATION MCSpec
INVARIANTS TypeOK PortalFree JoinedHasPortal RequestsFollowLogin TicketFresh
PROPERTY EndersEnd
CHECK_DEADLOCK FALSE
