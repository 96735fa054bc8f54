SPECIFICATION ClusterSpec
CONSTANTS
  job = job
  Servers = {s1, s2}
  Messages = {m1, m2, m3}
  Names = {job}
  NoJob = NoJob  NoMessage = NoMessage
  Jobs <- MCJobs  Server <- MCServer  Message <- MCMessage  Path <- MCPath  LockKey <- MCLockKey
  Mortal = {}
  Faults = {}
CHECK_DEADLOCK FALSE
INVARIANTS EveryMessageRuns
