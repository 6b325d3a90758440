SPECIFICATION Spec
CONSTANTS
  MaxCalls = 1
  MaxRequests = 1
  MaxTokens = 2
  MaxBatch = 1
  Usages <- MCUsages
  Actions <- MCActions
INVARIANT
  HardTripIsDecided
CHECK_DEADLOCK FALSE
