SPECIFICATION Spec
CONSTANTS
  s1 = s1  s2 = s2  a = a  j1 = j1  j2 = j2  j3 = j3
  Servers = {s1, s2}
  Jobs = {j1, j2, j3}
  NoJob = NoJob
  Names = {a}  Server <- TwinServer  Path <- SamePath  LockKey <- PlainLockKey  Faults = {"rpc", "lapse", "crash"}
CHECK_DEADLOCK FALSE
INVARIANTS TypeOK MutualExclusion ReleasesOwnLock LockInv
PROPERTIES ImplementsService
