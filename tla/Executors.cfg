SPECIFICATION FairSpec
CONSTANTS
  p1 = p1  p2 = p2  w = w  o = o
  Jobs = {p1, p2, w, o}
  Executor <- MCExecutor
  ModuleEnds = {"exits", "fails", "traps", "loops"}
CHECK_DEADLOCK FALSE
INVARIANTS ExecutorsTypeOK RunningIsRegistered ResultOfEnded PanicsExplained
PROPERTIES ReturnsUnlessHeldUp
