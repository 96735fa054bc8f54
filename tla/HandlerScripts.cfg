SPECIFICATION FairSpec
CONSTANTS
  s1 = s1  s2 = s2  r1 = r1  r2 = r2  r3 = r3  r4 = r4
  Scripts = {s1, s2}
  Idle = Idle
  Requests <- ScriptRequests
  Outcomes <- Failing
  Endless = {s2}
CHECK_DEADLOCK FALSE
INVARIANTS TypeOK ResultsComplete ReplyProtocol AckBeforeRun
PROPERTIES Answered Quiesces
