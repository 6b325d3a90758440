SPECIFICATION Spec
CONSTANTS
  j1 = j1
  j2 = j2
  NoJob = NoJob
  Jobs <- MCTwo
INVARIANTS JobsKeptApart VerifiedIsFinal
PROPERTIES OrphanVmmDies
CHECK_DEADLOCK FALSE
