\* Every bug set, every strategy.
SPECIFICATION DiffFairSpec
CONSTANTS
  Gprs <- MCGprs
  ScratchReg = 20
  SigPointer = 21
  ScratchPointer = 22
  ScratchSize = 16
  AluOps = {"SUB"}
  Imms = {0, 3}
  SplitOffset = 4
  AllocFails = FALSE
  Backends = {"cpp"}
  Strategies = {"random", "forwarding_stress", "load_use_stress", "store_to_load_forwarding", "branch_dense", "cache_line_split"}
  BootstrapCount = 1
  Count = 3
  DumpRegs <- MCDumpRegs
  WordValues = 2
  BugSets = {{}, {"load_use"}, {"store_to_load"}, {"load_use", "store_to_load"}}
INVARIANTS
  CleanIssMatchesQemu
  ExposedNeedsHazard
PROPERTIES
  IssTerminates
  CleanIssImplementsMachine
  OnlyForward
CHECK_DEADLOCK FALSE
