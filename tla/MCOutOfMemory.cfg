\* The Zig port when any allocation of a line may fail.
SPECIFICATION FairSpec
CONSTANTS
  Gprs <- MCGprs
  ScratchReg = 20
  SigPointer = 21
  ScratchPointer = 22
  ScratchSize = 16
  AluOps = {"SUB"}
  Imms = {1}
  SplitOffset = 4
  AllocFails = TRUE
  Backends = {"zig"}
  Strategies = {"random", "forwarding_stress", "load_use_stress", "store_to_load_forwarding", "branch_dense", "cache_line_split"}
  BootstrapCount = 1
  Count = 2
  DumpRegs <- MCDumpRegs
INVARIANTS
  ReservedUntouched
  AccessesInBounds
  BranchesSkipOneNop
PROPERTIES
  Termination
CHECK_DEADLOCK FALSE
