SPECIFICATION Spec
CONSTANTS
  Procs = {"p1"}
  TestsOf <- OneTest
  Counts = {1, 2}
  Batch = 1
  MaxStarts = 2
  Bugs = {FALSE}
  Crashes = FALSE
  StagesFail = FALSE
  WritesFail = FALSE
INVARIANTS
  NoFalseFailure
CHECK_DEADLOCK FALSE
