SPECIFICATION FairSpec
CONSTANTS
  c1 = c1
  d1 = d1
  d2 = d2
  k1 = k1
  r1 = r1
  r2 = r2
  NoCase = NoCase
  NoRequest = NoRequest
  Cases = {c1}
  Dirs = {d1, d2}
  Requests = {r1, r2}
  CaseOf <- MCCaseOf
  DirOf <- MCDirOf
  Killers = {k1}
  FaultLimit = 0
  CrashLimit = 0
INVARIANTS KillReachesChild
CHECK_DEADLOCK FALSE
