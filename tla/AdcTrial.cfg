SPECIFICATION FairSpec
CONSTANTS
  f1 = f1
  Courts <- MCCourts
  Files = {f1}
  Damages = {1}
INVARIANTS VerdictSound OutcomeIsLawful
PROPERTIES NoSideSkipped TrialEnds
