SPECIFICATION Spec
CONSTANTS
  Places = {p1, p2}
  Injected = Injected
  Nowhere = Nowhere
  BpPlaces = {}
  Conditions <- Never
  Commands = {"Continue", "Out", "evaluate"}
  Getters = FALSE
  MaxDepth = 3
  MaxBps = 0
  MaxNest = 1
INVARIANT StepOutLeaves
CHECK_DEADLOCK FALSE
