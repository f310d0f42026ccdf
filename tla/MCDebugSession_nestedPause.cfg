SPECIFICATION Spec
CONSTANTS
  InspectBrk <- Never
  Commands = {"enable", "evaluate"}
  Locals = {local}
  Code = {code}
  NoExpr = NoExpr
  Getters = FALSE
  Disciplines <- Always
INVARIANT PauseGetsToWait
CHECK_DEADLOCK FALSE
