SPECIFICATION Spec
CONSTANTS
  Conns = {c1, c2}
  NoConn = NoConn
  InspectBrk <- Either
  CloseWakes <- Either
  Frames = {"enable", "run", "go", "empty", "ping", "bye"}
  MaxInbox = 1
INVARIANTS
  TypeOK
  BrkFrameWhole
  ProbesDoNotStart
  ServerInvariant
CHECK_DEADLOCK FALSE
