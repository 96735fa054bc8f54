SPECIFICATION Spec
CONSTANTS
  p1 = p1  p2 = p2  w = w  o = o
  Jobs = {p1}
  Executor <- Containers
  ModuleEnds = {}
CHECK_DEADLOCK FALSE
INVARIANTS StopKillsContainers
