SPECIFICATION Spec
CONSTANTS
  InspectBrk <- Either
  Commands = {"resume", "stepOver", "pause", "enable", "disable", "evaluate", "getProperties", "runIfWaiting", "close"}
  Locals = {local}
  Code = {code}
  NoExpr = NoExpr
  Getters = TRUE
  Disciplines <- Either
INVARIANTS
  TypeOK
  RequestAlive
  EventsAlternate
  StepHonoured
  NoDataRace
  PauseInvariant
  ClientInvariant
PROPERTY ImplementsContract
CHECK_DEADLOCK FALSE
