SPECIFICATION FairSpec
CONSTANTS
  m1 = m1
  m2 = m2
  NoMember = NoMember
  MemberIds = {m1, m2}
  EvidenceIds = {"e1"}
  ThePolicy <- MCPolicy
  Roster <- MCRoster
  AttemptLimit = 2
  Machines <- MCMachines
INVARIANTS PunctualRunsSucceed CertificateKeepsUp AnswersCurrent TurnIsolation
PROPERTIES ImplementsCase VotesNeverLost RunEnds
CHECK_DEADLOCK FALSE
