SPECIFICATION RetrySpec
CONSTANTS
  InspectBrk <- Either
  Commands = {"resume", "stepOver", "pause", "enable", "evaluate", "runIfWaiting"}
  Locals = {local}
  Code = {}
  NoExpr = NoExpr
  Getters = FALSE
  Disciplines <- Never
PROPERTIES
  RepeatedCommandsRelease
  PauseRequestTaken
  ParkedEvalAnswered
CHECK_DEADLOCK FALSE
