SPECIFICATION Spec
CONSTANTS
  Conns = {c1}
  NoConn = NoConn
  InspectBrk <- Either
  CloseWakes <- Either
  Frames = {"enable", "run", "go", "empty", "ping", "bye"}
  MaxInbox = 1
PROPERTIES
  DepartureReleases
  ProcessExits
CHECK_DEADLOCK FALSE
