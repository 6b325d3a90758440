----------------------------- MODULE EgressWorker -----------------------------
(***************************************************************************)
(* The egress worker (broker/browser_egress_worker.py): the root-side      *)
(* handle BrowserEgressWorker and the unprivileged child that runs the     *)
(* proxy, joined by a control pipe and a status pipe.                      *)
(*                                                                         *)
(* start() and stop() hold the handle's lifecycle lock from beginning to   *)
(* end, so one call at a time is under way, whoever makes it; its steps    *)
(* interleave with the child's.  Every wait of either side has a deadline, *)
(* and time is not modelled: a deadline may pass at any step of a wait.    *)
(* A killed child runs no further code, but takes its time to go.          *)
(***************************************************************************)
EXTENDS Integers, Sequences

VARIABLES
  state,       \* _state
  op,          \* where the lifecycle call under way stands, or "idle"
  valid,       \* valid_final of the stop() under way
  final,       \* the completeness claim of the final frame it has read
  pending,     \* _pending_purge_verified
  purge,       \* _purge_verified
  complete,    \* _telemetry["complete"]
  open,        \* the handle holds its ends of the two pipes
  control,     \* the frame in the control pipe, or "empty"
  status,      \* the frames in the status pipe
  child,       \* the child process
  listening,   \* its proxy's listener or handlers are up
  killed,      \* the process group has been sent SIGKILL
  descendant,  \* a live process of the group besides the child
  parent       \* the handle's own process is alive

handleVars == <<state, op, valid, final, pending, purge, complete, parent>>
pipeVars == <<open, control, status>>
childVars == <<child, listening, descendant>>
vars == <<handleVars, pipeVars, childVars, killed>>

NoChild == [pc |-> "none", failed |-> FALSE, ready |-> FALSE, cause |-> "none", exit |-> "none"]

Init ==
  /\ state = "new" /\ op = "idle" /\ valid = FALSE /\ final = FALSE
  /\ pending = FALSE /\ purge = FALSE /\ complete = FALSE /\ parent = TRUE
  /\ open = FALSE /\ control = "empty" /\ status = <<>>
  /\ child = NoChild /\ listening = FALSE /\ killed = FALSE /\ descendant = FALSE

Exited == child.pc = "exited"
Goto(next) == op' = next

-------------------------------------------------------------------------------
(* start()                                                                     *)

\* A start() whose identity check fails, or that is not the first, raises and
\* leaves no trace; such calls are stuttering steps.
StartBegins ==
  /\ parent /\ op = "idle" /\ state = "new"
  /\ state' = "starting"
  /\ Goto("spawn")
  /\ UNCHANGED <<valid, final, pending, purge, complete, parent, pipeVars, childVars, killed>>

\* The pipes are made outside the try block: if they fail, start() raises and
\* leaves the state "starting".
StartHasNoPipes ==
  /\ parent /\ op = "spawn"
  /\ Goto("idle")
  /\ UNCHANGED <<state, valid, final, pending, purge, complete, parent, pipeVars, childVars, killed>>

StartHasNoProcess ==
  /\ parent /\ op = "spawn"
  /\ Goto("idle")
  /\ state' = "failed" /\ pending' = FALSE
  /\ UNCHANGED <<valid, final, purge, complete, parent, pipeVars, childVars, killed>>

\* Popen, and the start frame.
StartSpawns ==
  /\ parent /\ op = "spawn"
  /\ open' = TRUE /\ control' = "start"
  /\ child' = [child EXCEPT !.pc = "boot"]
  /\ Goto("await_ready")
  /\ UNCHANGED <<state, valid, final, pending, purge, complete, parent, status,
                 listening, descendant, killed>>

\* A ready frame, and poll() finds the child alive.
StartReady ==
  /\ parent /\ op = "await_ready"
  /\ status # <<>> /\ Head(status).type = "ready" /\ ~Exited
  /\ status' = Tail(status)
  /\ state' = "running"
  /\ Goto("idle")
  /\ UNCHANGED <<valid, final, pending, purge, complete, parent, open, control, childVars, killed>>

\* An error frame, end of file, a child that is gone, or the ready timeout.
StartFails ==
  /\ parent /\ op = "await_ready"
  /\ open' = FALSE
  /\ Goto("start_kill")
  /\ UNCHANGED <<state, valid, final, pending, purge, complete, parent, control, status,
                 childVars, killed>>

-------------------------------------------------------------------------------
(* _terminate_process                                                          *)

\* SIGTERM to a running child, then SIGKILL to the group in any case.
KillGroup == killed' = TRUE

\* Mutant: the verdict is the leader's alone.
Mut_LeaderReaped == IF Exited THEN BOOLEAN ELSE {FALSE}

\* Leader reaped and group empty; the waits are bounded and the scan of /proc
\* may fail, so a group that is gone may still be reported as not gone.
GroupPurged == IF Exited /\ ~descendant THEN BOOLEAN ELSE {FALSE}

StartKills ==
  /\ parent /\ op = "start_kill"
  /\ KillGroup
  /\ Goto("start_reap")
  /\ UNCHANGED <<state, valid, final, pending, purge, complete, parent, pipeVars, childVars>>

StartReaps ==
  /\ parent /\ op = "start_reap"
  /\ pending' \in GroupPurged
  /\ state' = "failed"
  /\ Goto("idle")
  /\ UNCHANGED <<valid, final, purge, complete, parent, pipeVars, childVars, killed>>

-------------------------------------------------------------------------------
(* stop()                                                                      *)

\* Nothing to stop: only a failed start's verdict is published.
StopNothing ==
  /\ parent /\ op = "idle" /\ state \in {"new", "stopped", "failed"}
  /\ state' = IF state = "new" THEN "stopped" ELSE state
  /\ purge' = IF state = "failed" THEN pending ELSE purge
  /\ UNCHANGED <<op, valid, final, pending, complete, parent, pipeVars, childVars, killed>>

StopBegins ==
  /\ parent /\ op = "idle" /\ state \in {"starting", "running"}
  /\ state' = "stopping"
  /\ valid' = FALSE /\ final' = FALSE
  /\ Goto(IF child.pc = "none" THEN "stop_reap" ELSE "stop_write")
  /\ UNCHANGED <<pending, purge, complete, parent, pipeVars, childVars, killed>>

\* The stop frame is written, or the pipe is broken or full until the deadline.
StopWrites ==
  /\ parent /\ op = "stop_write"
  /\ \/ ~Exited /\ control' = "stop" /\ Goto("stop_read")
     \/ UNCHANGED control /\ Goto("stop_kill")
  /\ UNCHANGED <<state, valid, final, pending, purge, complete, parent, open, status,
                 childVars, killed>>

\* Mutant: the final frame is awaited without a deadline.
Mut_StopReadsForever ==
  /\ parent /\ op = "stop_read"
  /\ status # <<>> /\ Head(status).type = "final"
  /\ status' = Tail(status) /\ final' = Head(status).complete
  /\ Goto("stop_wait")
  /\ UNCHANGED <<state, valid, pending, purge, complete, parent, open, control,
                 childVars, killed>>

StopReads ==
  /\ parent /\ op = "stop_read"
  /\ \/ /\ status # <<>> /\ Head(status).type = "final"
        /\ status' = Tail(status) /\ final' = Head(status).complete
        /\ Goto("stop_wait")
     \/ Goto("stop_kill") /\ UNCHANGED <<status, final>>
  /\ UNCHANGED <<state, valid, pending, purge, complete, parent, open, control,
                 childVars, killed>>

\* The child exits 0 before the deadline and leaves nobody behind.
StopWaits ==
  /\ parent /\ op = "stop_wait"
  /\ \/ Exited /\ child.exit = "0" /\ ~descendant /\ valid' = TRUE
     \/ UNCHANGED valid
  /\ Goto("stop_kill")
  /\ UNCHANGED <<state, final, pending, purge, complete, parent, pipeVars, childVars, killed>>

\* The finally block: a clean final frame does not spare the group.
StopKills ==
  /\ parent /\ op = "stop_kill"
  /\ KillGroup
  /\ open' = FALSE
  /\ Goto("stop_reap")
  /\ UNCHANGED <<state, valid, final, pending, purge, complete, parent, control, status, childVars>>

\* Mutant: a final frame is kept although the child did not end cleanly.
Mut_KeepsInvalidFinal ==
  /\ parent /\ op = "stop_reap"
  /\ purge' \in GroupPurged
  /\ pending' = purge'
  /\ complete' = final
  /\ state' = IF valid THEN "stopped" ELSE "failed"
  /\ Goto("idle")
  /\ UNCHANGED <<valid, final, parent, pipeVars, childVars, killed>>

\* The verdict and the telemetry are published together.
StopPublishes ==
  /\ parent /\ op = "stop_reap"
  /\ purge' \in GroupPurged
  /\ pending' = purge'
  /\ complete' = (valid /\ final)
  /\ state' = IF valid THEN "stopped" ELSE "failed"
  /\ Goto("idle")
  /\ UNCHANGED <<valid, final, parent, pipeVars, childVars, killed>>

-------------------------------------------------------------------------------
(* The child: _child_entry and _child_proxy_loop.                              *)

Runs(pc) == child.pc = pc /\ ~killed

\* The parent is compared with the one expected, privileges are dropped and
\* PR_SET_PDEATHSIG is armed last, since a change of identity clears it.
ChildArms ==
  /\ Runs("boot")
  /\ child' = [child EXCEPT !.pc = "armed"]
  /\ UNCHANGED <<handleVars, pipeVars, listening, descendant, killed>>

\* Mutant: the parent is not looked at again once the signal is armed.
Mut_NoRecheck ==
  /\ Runs("armed")
  /\ child' = [child EXCEPT !.pc = "config"]
  /\ UNCHANGED <<handleVars, pipeVars, listening, descendant, killed>>

\* The parent is looked at again: it may have gone before the signal was armed.
ChildRechecksParent ==
  /\ Runs("armed")
  /\ parent
  /\ child' = [child EXCEPT !.pc = "config"]
  /\ UNCHANGED <<handleVars, pipeVars, listening, descendant, killed>>

\* The error frame of a child that cannot begin; nobody may be there to read it.
ChildFailsEntry ==
  /\ Runs("boot") \/ Runs("armed")
  /\ status' = IF open THEN Append(status, [type |-> "error"]) ELSE status
  /\ child' = [child EXCEPT !.pc = "exiting", !.exit = "1"]
  /\ UNCHANGED <<handleVars, open, control, listening, descendant, killed>>

Gives(c) == [c EXCEPT !.pc = "closing", !.failed = TRUE, !.cause = "failed"]

\* The start frame is read and the proxy listens; or one of the two fails.
ChildOpens ==
  /\ Runs("config")
  /\ \/ /\ control = "start" /\ control' = "empty"
        /\ listening' = TRUE
        /\ child' = [child EXCEPT !.pc = "announce"]
     \/ child' = Gives(child) /\ UNCHANGED <<control, listening>>
  /\ UNCHANGED <<handleVars, open, status, descendant, killed>>

ChildAnnounces ==
  /\ Runs("announce")
  /\ \/ /\ open
        /\ status' = Append(status, [type |-> "ready"])
        /\ child' = [child EXCEPT !.pc = "serving", !.ready = TRUE]
     \/ child' = Gives(child) /\ UNCHANGED status
  /\ UNCHANGED <<handleVars, open, control, listening, descendant, killed>>

ChildToldToStop ==
  /\ Runs("serving") /\ control = "stop"
  /\ control' = "empty"
  /\ child' = [child EXCEPT !.pc = "closing", !.cause = "told"]
  /\ UNCHANGED <<handleVars, open, status, listening, descendant, killed>>

\* The run's wall clock and three seconds pass without a stop frame, or the
\* control pipe ends.
ChildGivesUp ==
  /\ Runs("serving")
  /\ child' = Gives(child)
  /\ UNCHANGED <<handleVars, pipeVars, listening, descendant, killed>>

\* proxy.stop(); if it raises, a handler may still be at work.
ChildCloses ==
  /\ Runs("closing")
  /\ \/ listening' = FALSE /\ child' = [child EXCEPT !.pc = "report"]
     \/ child' = [child EXCEPT !.pc = "report", !.failed = TRUE] /\ UNCHANGED listening
  /\ UNCHANGED <<handleVars, pipeVars, descendant, killed>>

\* The error or the final frame.  A snapshot that does not pass the parent's
\* own validation is replaced by the failure record.
ChildReports ==
  /\ Runs("report")
  /\ \E failed \in (IF child.failed THEN {TRUE} ELSE BOOLEAN),
        claim \in BOOLEAN, sent \in (IF open THEN BOOLEAN ELSE {FALSE}) :
        /\ status' = IF ~sent THEN status
                     ELSE Append(status, IF child.ready
                                         THEN [type |-> "final", complete |-> claim /\ ~failed]
                                         ELSE [type |-> "error"])
        /\ child' = [child EXCEPT
             !.pc = "exiting", !.exit = IF child.ready /\ sent /\ ~failed THEN "0" ELSE "1"]
  /\ UNCHANGED <<handleVars, open, control, listening, descendant, killed>>

ChildExits ==
  /\ Runs("exiting")
  /\ child' = [child EXCEPT !.pc = "exited"]
  /\ listening' = FALSE
  /\ UNCHANGED <<handleVars, pipeVars, descendant, killed>>

\* The parser forks a process of its own group.
ChildForks ==
  /\ ~killed /\ child.pc \in {"config", "announce", "serving", "closing"}
  /\ descendant' = TRUE
  /\ UNCHANGED <<handleVars, pipeVars, child, listening, killed>>

\* A signal takes effect: a kill of the group, or a crash of the child.
ChildDies ==
  /\ child.pc \notin {"none", "exited"}
  /\ child' = [child EXCEPT !.pc = "exited", !.exit = "signal"]
  /\ listening' = FALSE
  /\ UNCHANGED <<handleVars, pipeVars, descendant, killed>>

DescendantDies ==
  /\ descendant
  /\ descendant' = FALSE
  /\ UNCHANGED <<handleVars, pipeVars, child, listening, killed>>

\* The process that holds the handle dies: its pipe ends close, and the kernel
\* kills a child that has armed the signal.
ParentDies ==
  /\ parent
  /\ parent' = FALSE /\ Goto("gone")
  /\ open' = FALSE
  /\ killed' = (killed \/ child.pc \notin {"none", "boot", "exited"})
  /\ UNCHANGED <<state, valid, final, pending, purge, complete, control, status, childVars>>

-------------------------------------------------------------------------------
CallStep ==
  \/ StartHasNoPipes \/ StartHasNoProcess \/ StartSpawns \/ StartReady \/ StartFails
  \/ StartKills \/ StartReaps
  \/ StopWrites \/ StopReads \/ StopWaits \/ StopKills \/ StopPublishes

Caller == StartBegins \/ StopNothing \/ StopBegins

ChildStep ==
  \/ ChildArms \/ ChildRechecksParent \/ ChildFailsEntry \/ ChildOpens \/ ChildAnnounces
  \/ ChildToldToStop \/ ChildGivesUp \/ ChildCloses \/ ChildReports \/ ChildExits

KillTakesEffect == killed /\ ChildDies

Next == CallStep \/ Caller \/ ChildStep \/ ChildForks \/ ChildDies \/ DescendantDies \/ ParentDies

\* Every wait of the handle has a deadline, and a killed process goes in the
\* end.  The child owes nothing: it may hang at any point.
Spec == Init /\ [][Next]_vars /\ WF_vars(CallStep) /\ WF_vars(KillTakesEffect)

-------------------------------------------------------------------------------
(* Properties.                                                                 *)

\* What the handle reports is and stays true to the facts.  purge_verified: the
\* child is gone, its group is empty and nothing of it can carry traffic again;
\* the runtime certifies its cleanup by it (_terminate_process, _stop_impl).
\* Complete telemetry comes only from a child that stopped its proxy because it
\* was told to and exited 0, never from one whose own deadline ended the proxy
\* before the run did (browser_egress_worker.py:1113-1160).
ReportIsHonest ==
  /\ purge \/ pending => Exited /\ ~descendant /\ ~listening
  /\ complete => child.cause = "told" /\ child.exit = "0" /\ ~descendant /\ state = "stopped"

\* A child whose parent died never serves: it finds out after arming the death
\* signal, or is killed by it ("close the fork/exec race", 994-997).
OrphanNeverServes == ~parent /\ listening => killed

\* The promise AgentProbe builds on.
Contract == INSTANCE EgressWorkerContract WITH
  wstate <- state, wlive <- listening, wpending <- pending, wpurge <- purge,
  wcomplete <- complete

ContractKept == Contract!Spec

\* Each start() and stop() returns, or dies with its process.
CallReturns == op # "idle" ~> op \in {"idle", "gone"}

===============================================================================
