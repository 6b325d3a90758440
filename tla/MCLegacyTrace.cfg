SPECIFICATION FairSpec
CONSTANTS
  p1 = p1 p2 = p2
  Procs <- MCTwo
  Root <- p1
  Modes <- MCBothModes
INVARIANTS NothingUnobserved VerifiedIsDead
PROPERTIES RunEnds
