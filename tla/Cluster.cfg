SPECIFICATION ClusterFairSpec
CONSTANTS
  job = job
  Servers = {s1, s2}
  Messages = {m1, m2}
  Names = {job}
  NoJob = NoJob  NoMessage = NoMessage
  Jobs <- MCJobs  Server <- MCServer  Message <- MCMessage  Path <- MCPath  LockKey <- MCLockKey
  Mortal = {s1}
  Faults = {"crash"}
CHECK_DEADLOCK FALSE
INVARIANTS QuietMessageRuns SomeoneWins
PROPERTIES EachServerAnswers KeyLeaves
