SPECIFICATION Spec
CONSTANTS
  MaxChunk = 3 MaxTarget = 4 MaxRecord = 4 Overhead = 1
  Budgets = {6, 12} MaxFrame = 40 MaxRecords = 5 MaxChunks = 6
INVARIANTS AcceptedOpens HonestAccepted QuarantineHolds
