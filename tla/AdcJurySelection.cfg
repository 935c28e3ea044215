SPECIFICATION FairSpec
CONSTANTS
  SmallestJury = 1
  LargestJury = 2
  Policies <- MCPolicies
  MaxReplaced = 1
INVARIANTS JuryIsVetted BothSidesHeard
PROPERTIES SelectionEnds
