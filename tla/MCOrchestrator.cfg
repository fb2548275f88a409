SPECIFICATION FairSpec
CONSTANTS
  Procs = {"p1"}
  TestsOf <- ThreeTests
  Counts = {1, 2}
  Batch = 2
  MaxStarts = 2
  Bugs = {TRUE, FALSE}
  Crashes = TRUE
  StagesFail = TRUE
  WritesFail = TRUE
INVARIANTS
  TypeOK
  PassMeansSame
  FailMeansDiffers
  ExposedAfterPass
  CleanExitMeansVerified
PROPERTIES
  GoldenNeverReplaced
  EveryRunEnds
CHECK_DEADLOCK FALSE
