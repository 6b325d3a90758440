---------------------------- MODULE MCEgressWorker ----------------------------
(* One handle, any sequence of start() and stop() calls on it, and one child.  *)
(* The state space is finite without bounds.                                   *)
EXTENDS EgressWorker
===============================================================================
