--------------------------- MODULE MCLegacyAdmission ---------------------------
(* LegacyAdmission has no constants: every mode and policy is an initial state. *)
EXTENDS LegacyAdmission
===============================================================================
