SPECIFICATION Spec
CONSTANTS
  Runs = {r1, r2}
  Probes <- MCProbes
  Outcomes <- MCOutcomes
  Hosts <- MCHosts
  MaxDamage = 1
SYMMETRY MCSymmetry
INVARIANTS ExitZeroIsEarned EvidenceStaysHome
PROPERTIES VerifierIsExact
