----------------------------- MODULE MCLegacyTrace -----------------------------
(* A sandbox of the artifact's process and one descendant, in either mode.     *)
EXTENDS LegacyTrace

CONSTANTS p1, p2

MCTwo == {p1, p2}
MCBothModes == {"full-root", "degraded-user"}
===============================================================================
