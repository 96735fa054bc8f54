SPECIFICATION FairSpec
CONSTANTS
  s1 = s1  s2 = s2  j1 = j1  j2 = j2  j3 = j3
  Servers = {s1, s2}
  Start = Start
  Server <- MCServer  Method <- MCMethod
  Jobs = {j1, j2, j3}  Name <- MCName  HTML <- MCHTML  Locking = TRUE
CHECK_DEADLOCK FALSE
INVARIANTS TypeOK RunsInside OneStatePerName CleanReturn RunsInOwnDirectory
PROPERTIES Returns
