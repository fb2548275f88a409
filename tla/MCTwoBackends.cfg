SPECIFICATION Spec
CONSTANTS
  Procs = {"p1", "p2"}
  TestsOf <- TwoBackends
  Counts = {1}
  Batch = 2
  MaxStarts = 2
  Bugs = {TRUE, FALSE}
  Crashes = FALSE
  StagesFail = FALSE
  WritesFail = FALSE
INVARIANTS
  NoFalseFailure
  ExposedIsTriggered
CHECK_DEADLOCK FALSE
