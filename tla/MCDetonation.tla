----------------------------- MODULE MCDetonation ------------------------------
(* Legacy runs of up to four observations, with room in the event budget and   *)
(* in the report for fewer than that; browser guests that deviate from the     *)
(* clean report in up to two ways.                                             *)
EXTENDS Detonation
===============================================================================
