SPECIFICATION FairRunnerSpec
CONSTANTS
  f1 = f1
  f2 = f2
  Courts <- MCCourts
  Files = {f1, f2}
  Damages = {1}
  AttemptLimit = 2
  Faults = {"engine", "record", "interrupt", "listener"}
PROPERTIES ImplementsTrial RunEnds
CHECK_DEADLOCK FALSE
