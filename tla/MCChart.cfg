SPECIFICATION Spec
CONSTANTS
  STRATEGIES <- MCSTRATEGIES
  ALL_HAZARDS = {"RawChain", "BranchDense"}
  N_TESTS = 3
  MaxHits = 1
INVARIANTS
  RowIsAverageOfOwnTexts
  NormalizedKeepsOrder
CHECK_DEADLOCK FALSE
