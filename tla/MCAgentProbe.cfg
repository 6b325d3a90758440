SPECIFICATION Spec
CONSTANTS
  MaxCalls = 2
  MaxRequests = 2
  MaxTokens = 2
  MaxBatch = 2
  Usages <- MCUsages
  Actions <- MCActions
INVARIANTS
  ReceiptIsEarned
  ReceiptNeverRefused
  EgressCutBeforeTripTold
  FirstTripDecidesGate
PROPERTIES
  NoModelCallAfterTrip
  RunEnds
CHECK_DEADLOCK FALSE
