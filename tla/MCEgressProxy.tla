----------------------------- MODULE MCEgressProxy -----------------------------
(* Three clients on a proxy that serves two at a time, connects two to an      *)
(* origin, records two events and lets one byte pass.                          *)
EXTENDS EgressProxy, TLC

CONSTANTS c1, c2, c3

MCThree == {c1, c2, c3}
MCSymmetryThree == Permutations(MCThree)
===============================================================================
