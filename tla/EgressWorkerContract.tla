------------------------- MODULE EgressWorkerContract -------------------------
(***************************************************************************)
(* What the root-side handle of the egress worker promises its owner       *)
(* (BrowserEgressWorker.start, stop, purge_verified, telemetry_snapshot),  *)
(* without the pipes, frames and signals behind it.  EgressWorker is shown *)
(* to implement this module; AgentProbe owns a worker through it.          *)
(***************************************************************************)
EXTENDS Integers

VARIABLES
  wstate,     \* the handle's _state
  wlive,      \* the worker's proxy may still carry traffic
  wpending,   \* _pending_purge_verified
  wpurge,     \* purge_verified: the group was seen reaped and empty
  wcomplete   \* telemetry_snapshot()["complete"]

contractVars == <<wstate, wlive, wpending, wpurge, wcomplete>>

Init ==
  /\ wstate = "new"
  /\ wlive = FALSE
  /\ wpending = FALSE
  /\ wpurge = FALSE
  /\ wcomplete = FALSE

BeginStart ==
  /\ wstate = "new"
  /\ wstate' = "starting"
  /\ UNCHANGED <<wlive, wpending, wpurge, wcomplete>>

\* The worker's proxy starts to listen, before its owner is told.
Listen ==
  /\ wstate = "starting"
  /\ wlive' = TRUE
  /\ UNCHANGED <<wstate, wpending, wpurge, wcomplete>>

\* The proxy closes: it was told to, its own deadline passed, or it died.
Close ==
  /\ wlive
  /\ wlive' = FALSE
  /\ UNCHANGED <<wstate, wpending, wpurge, wcomplete>>

StartSucceeds ==
  /\ wstate = "starting"
  /\ wstate' = "running"
  /\ UNCHANGED <<wlive, wpending, wpurge, wcomplete>>

\* start() raises.  The verdict on the killed group waits for stop().
StartFails ==
  /\ wstate = "starting"
  /\ wstate' = "failed"
  /\ wpending' \in (IF wlive THEN {FALSE} ELSE BOOLEAN)
  /\ UNCHANGED <<wlive, wpurge, wcomplete>>

BeginStop ==
  /\ wstate \in {"starting", "running"}
  /\ wstate' = "stopping"
  /\ UNCHANGED <<wlive, wpending, wpurge, wcomplete>>

\* stop() returns with the child's own final frame: it exited by itself.
StopClean ==
  /\ wstate = "stopping"
  /\ ~wlive
  /\ wstate' = "stopped"
  /\ wcomplete' \in BOOLEAN
  /\ wpurge' \in BOOLEAN
  /\ wpending' = wpurge'
  /\ UNCHANGED wlive

\* stop() returns without one: the telemetry is the failure record.
StopDirty ==
  /\ wstate = "stopping"
  /\ wstate' = "failed"
  /\ wcomplete' = FALSE
  /\ wpurge' \in (IF wlive THEN {FALSE} ELSE BOOLEAN)
  /\ wpending' = wpurge'
  /\ UNCHANGED wlive

\* stop() on a handle that has nothing to stop, or not any more.
StopUnstarted ==
  /\ wstate \in {"new", "stopped", "failed"}
  /\ wstate' = IF wstate = "new" THEN "stopped" ELSE wstate
  /\ wpurge' = IF wstate = "failed" THEN wpending ELSE wpurge
  /\ UNCHANGED <<wlive, wpending, wcomplete>>

Next ==
  \/ BeginStart \/ Listen \/ Close \/ StartSucceeds \/ StartFails
  \/ BeginStop \/ StopClean \/ StopDirty \/ StopUnstarted

Spec == Init /\ [][Next]_contractVars
===============================================================================
