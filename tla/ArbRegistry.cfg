SPECIFICATION FairSpec
CONSTANTS
  Clients = {c1}
  c1 = c1
  CrashLimit = 2
INVARIANTS OutcomeBacked ActiveHasOwner
PROPERTIES DecidedIsFinal CancelSettles
CHECK_DEADLOCK FALSE
