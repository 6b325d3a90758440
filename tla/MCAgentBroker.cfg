SPECIFICATION BrokerSpec
CONSTANTS
  MaxCalls = 2
  MaxEvents = 4
  SeqNos <- MCSeqNos
  Actions <- MCActions
INVARIANTS
  FirstTripDecides
PROPERTY
  AuthorityKept
CHECK_DEADLOCK FALSE
