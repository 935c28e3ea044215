SPECIFICATION FairSpec
CONSTANTS
  m1 = m1
  Panel <- One
  AutoLawyers = {"plaintiff", "defendant"}
  Rounds = 2
  Faults = {"case", "mcp", "agent", "rm", "start", "interrupt"}
INVARIANTS NothingLeftBehind BlamedAgentsAreGone
PROPERTIES OpportunitiesAreServed RunReturns
CHECK_DEADLOCK FALSE
