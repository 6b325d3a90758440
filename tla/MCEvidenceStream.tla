--------------------------- MODULE MCEvidenceStream ----------------------------
(* Records around the limits of the stream, the budget and the frame.           *)
EXTENDS EvidenceStream
===============================================================================
