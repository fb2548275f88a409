SPECIFICATION Spec
CONSTANTS
  EXAMPLES <- MCEXAMPLES
  GENERATORS <- MCGENERATORS
  Builds = {1, 2}
  MaxRuns = 3
  Crashes = TRUE
  StagesFail = TRUE
  WritesFail = TRUE
INVARIANTS
  TypeOK
  CleanExitMeansComplete
  EachRunTearsOne
PROPERTIES
  GoldenFollowsText
CHECK_DEADLOCK FALSE
