SPECIFICATION FairSpec
CONSTANTS
  InspectBrk <- Never
  Commands = {"enable", "resume", "close"}
  Locals = {}
  Code = {}
  NoExpr = NoExpr
  Getters = FALSE
  Disciplines <- Always
PROPERTY ResumeUnblocks
CHECK_DEADLOCK FALSE
