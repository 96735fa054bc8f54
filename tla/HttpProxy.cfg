SPECIFICATION FairSpec
CONSTANTS
  s1 = s1  s2 = s2  out = out  in1 = in1  in2 = in2  now = now  page = page  job = job
  Servers = {s1, s2}  Nobody = Nobody
  Requests = {out, in1, in2, now}  NoRequest = NoRequest
  Scripts = {page, job}  Endless = {job}
  Kind <- MCKind  ScriptsOf <- MCScriptsOf  Ends <- MCEnds  Calls <- MCCalls  Timeout <- MCTimeout
  WriteTimeout = 2
CHECK_DEADLOCK FALSE
INVARIANTS ProxyTypeOK InnerAnsweredElsewhere
PROPERTIES EveryRequestEnds ComesToRest
