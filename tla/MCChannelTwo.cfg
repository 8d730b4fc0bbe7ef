CONSTANTS
  Ops = {p, s}
  Pubs = {p}
  MediaTracks = 2
  CloseOnEnd = FALSE
  PeerTasks = {}
  Faults = {"cancel", "close", "error", "badAnswer", "short", "broken"}
  MaxInbox = 1
SPECIFICATION Spec
INVARIANTS TypeOK EndedOnce MapsAgree PendingCallReachable
CHECK_DEADLOCK FALSE
