SPECIFICATION Spec
CONSTANTS
  Conns = {c1, c2}
  NoConn = NoConn
  InspectBrk <- Never
  CloseWakes <- Never
  Frames = {"enable", "run", "go", "empty", "ping", "bye"}
  MaxInbox = 1
INVARIANT FrameWhole
CHECK_DEADLOCK FALSE
