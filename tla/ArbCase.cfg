SPECIFICATION FairSpec
CONSTANTS
  m1 = m1
  m2 = m2
  m3 = m3
  NoMember = NoMember
  MemberIds = {m1, m2, m3}
  EvidenceIds = {"e1", "e2"}
  Policies <- AllPolicies
  Rosters <- AllRosters
  Chars = {0, 1, 2}
  Amounts = {0, 1, 2}
  Sizes = {1, 2}
INVARIANTS MeritsShape MaterialLimits NeverStranded VoteIntegrity DecisionSound
PROPERTIES FailureIsCurrent FixedFrameProgress Termination ImplementsBallot
CHECK_DEADLOCK FALSE
