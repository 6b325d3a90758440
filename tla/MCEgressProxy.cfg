SPECIFICATION Spec
CONSTANTS
  c1 = c1
  c2 = c2
  c3 = c3
  Clients <- MCThree
  MaxEvents = 2
  MaxConnections = 2
  MaxConcurrent = 2
  MaxBytes = 1
  Chunk = 1
SYMMETRY MCSymmetryThree
INVARIANTS
  CanonicalHonest LimitsHold CompleteIsWhole StopNeverStuck
PROPERTIES
 ShutdownIsFinal
CHECK_DEADLOCK FALSE
