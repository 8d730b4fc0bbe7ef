CONSTANTS
  Ops = {p, s}
  Pubs = {p}
  MediaTracks = 2
  CloseOnEnd = TRUE
  PeerTasks = {"ice", "connection"}
  Faults = {"timeout", "cancel", "nack", "conflict", "badAnswer", "short", "transportError", "close", "refuse", "broken"}
  MaxInbox = 2
SPECIFICATION MCSpec
INVARIANTS NegotiationSerialized FailedCallsLeaveNothing
PROPERTIES CallEnds CloseEnds
CHECK_DEADLOCK FALSE
