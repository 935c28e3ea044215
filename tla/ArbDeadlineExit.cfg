SPECIFICATION Spec
CONSTANTS
  m1 = m1
  m2 = m2
  NoMember = NoMember
  MemberIds = {m1, m2}
  EvidenceIds = {"e1"}
  ThePolicy <- MCPolicy
  Roster <- MCRoster
  AttemptLimit = 2
  Machines <- MCFaultless
INVARIANT ParticipantsNeverAbort
CHECK_DEADLOCK FALSE
