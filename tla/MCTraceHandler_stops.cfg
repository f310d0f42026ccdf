SPECIFICATION Spec
CONSTANTS
  Places = {p1, p2}
  Injected = Injected
  Nowhere = Nowhere
  BpPlaces = {p1}
  Conditions <- Either
  Commands = {"Continue", "Into", "Over", "Out", "pause", "active", "remove", "evaluate", "enable"}
  Getters = TRUE
  MaxDepth = 3
  MaxBps = 2
  MaxNest = 1
INVARIANTS
  TypeOK
  FramesAreReal
  StepOverStays
  StepOutLeavesUndisturbed
PROPERTIES
  StepTaken
  BreakpointsStop
VIEW LiveState
CHECK_DEADLOCK FALSE
