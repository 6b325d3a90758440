----------------------------- MODULE MCMicroVMJobs -----------------------------
(* A job, and the one that comes after it.                                     *)
EXTENDS MicroVMJobs

CONSTANTS j1, j2

MCTwo == {j1, j2}
===============================================================================
