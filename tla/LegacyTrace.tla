------------------------------ MODULE LegacyTrace ------------------------------
(***************************************************************************)
(* A legacy detonation from the first resume of the sandbox to the verdict *)
(* on its removal: HostTracer (observer/ptracer.py), the trace loop of     *)
(* detonate() and _cleanup_legacy_resources (mote/detonate.py), against a  *)
(* sandbox that forks, leaves its process group, exits and is killed.      *)
(*                                                                         *)
(* The kernel's side is kept to what ptrace promises: every descendant is  *)
(* traced from birth, stops wait until collected, in any order between     *)
(* processes, and a process that dies takes an uncollected stop with it.   *)
(* What a syscall was is not modelled, only whether it was looked at.      *)
(* Time is whether the wall clock budget, and its grace, have run out; the *)
(* loop reads it once a pass.                                              *)
(***************************************************************************)
EXTENDS FiniteSets

CONSTANTS Procs, Root, Modes

ASSUME RootAssumption == Root \in Procs
ASSUME ModesAssumption == Modes \subseteq {"full-root", "degraded-user"}

VARIABLES
  mode,
  pc,         \* loop, cleanup, drain, done
  clock,      \* in_time, over (the budget), late (two seconds more)
  place,      \* in the trace loop: top, drain (of the wait statuses), bottom
  late,       \* whether this pass found the grace over when it read the clock
  \* the kernel's side
  state,      \* each process: none, run, stop, zombie, reaped
  report,     \* the stop it waits in: a kind, and the child of a fork
  inside,     \* processes really inside a syscall
  group,      \* processes in the wrapper's process group
  \* the tracer's side
  active, in_syscall, exec_completed, seccomp_violation, trace_error,
  killed,     \* whether the group has been signalled
  tracked,    \* cleanup_pids
  verified,   \* the purge's verdict
  \* history
  logged,     \* processes whose present syscall has been looked at
  missed,     \* whether a completed syscall never was
  ran         \* processes that ran on after a successful exec

kernelVars == <<state, report, inside, group>>
tracerVars == <<active, in_syscall, exec_completed, seccomp_violation, trace_error>>
purgeVars == <<tracked, verified>>
historyVars == <<logged, missed, ran>>
loopVars == <<place, late>>
vars == <<mode, pc, clock, loopVars, kernelVars, tracerVars, killed, purgeVars, historyVars>>

Nothing == [kind |-> "none", child |-> Root]
Stop(kind) == [kind |-> kind, child |-> Root]
Alive == {p \in Procs : state[p] \in {"run", "stop"}}
Present == {p \in Procs : state[p] \in {"run", "stop", "zombie"}}
FullRoot == mode = "full-root"

\* The sandbox is resumed and registered; or its admission was aborted with
\* a trace error, after the attach, and the group killed.
Init ==
  /\ mode \in Modes /\ pc = "loop" /\ clock = "in_time"
  /\ place = "top" /\ late = FALSE
  /\ report = [p \in Procs |-> Nothing] /\ inside = {} /\ group = {Root}
  /\ active = {Root} /\ in_syscall = [p \in Procs |-> FALSE]
  /\ trace_error \in BOOLEAN
  /\ state = [p \in Procs |-> IF p # Root THEN "none"
                              ELSE IF trace_error THEN "zombie" ELSE "run"]
  /\ exec_completed = {} /\ seccomp_violation = FALSE
  /\ killed = FALSE
  /\ tracked = {Root} /\ verified = FALSE
  /\ logged = {} /\ missed = FALSE /\ ran = {}

-------------------------------------------------------------------------------
(* The sandbox: one process, and the kernel that stops it.                     *)

\* The first process of a pid namespace takes the rest with it.
DeadWith(ps) == IF FullRoot /\ Root \in ps THEN Alive ELSE ps \cap Alive
AfterDeath(ps) ==
  /\ state' = [p \in Procs |-> IF p \in DeadWith(ps) THEN "zombie" ELSE state[p]]
  /\ report' = [p \in Procs |-> IF p \in DeadWith(ps) THEN Nothing ELSE report[p]]
  /\ UNCHANGED <<inside, group>>

StopsAt(p, stop) ==
  /\ state' = [state EXCEPT ![p] = "stop"]
  /\ report' = [report EXCEPT ![p] = stop]

SandboxOnly == UNCHANGED <<mode, pc, clock, loopVars, tracerVars, killed, purgeVars>>

EnterSyscall(p) ==
  /\ state[p] = "run" /\ p \notin inside
  /\ StopsAt(p, Stop("syscall")) /\ inside' = inside \cup {p}
  /\ logged' = logged \ {p}
  /\ SandboxOnly /\ UNCHANGED <<group, missed, ran>>

LeaveSyscall(p) ==
  /\ state[p] = "run" /\ p \in inside
  /\ StopsAt(p, Stop("syscall")) /\ inside' = inside \ {p}
  /\ SandboxOnly /\ UNCHANGED <<group, historyVars>>

\* The child starts stopped and traced, its parent stops with the event.
Fork(p, c) ==
  /\ state[p] = "run" /\ p \in inside /\ state[c] = "none"
  /\ state' = [state EXCEPT ![p] = "stop", ![c] = "stop"]
  /\ report' = [report EXCEPT ![p] = [kind |-> "fork", child |-> c],
                              ![c] = Stop("attach")]
  /\ group' = group \cup (IF p \in group THEN {c} ELSE {})
  /\ SandboxOnly /\ UNCHANGED <<inside, historyVars>>

\* The artifact's exec; later ones look the same to the tracer.
Exec(p) ==
  /\ state[p] = "run" /\ p \in inside /\ p = Root /\ p \notin ran
  /\ StopsAt(p, Stop("exec"))
  /\ SandboxOnly /\ UNCHANGED <<inside, group, historyVars>>

\* setsid(2), refused to a group leader: the degraded sandbox is one.
LeaveGroup(p) ==
  /\ state[p] = "run" /\ p \in inside /\ p \in group
  /\ FullRoot \/ p # Root
  /\ group' = group \ {p}
  /\ SandboxOnly /\ UNCHANGED <<state, report, inside, historyVars>>

\* A syscall the seccomp filter traps.
Trapped(p) ==
  /\ state[p] = "run" /\ p \notin inside /\ ~seccomp_violation
  /\ StopsAt(p, Stop("sigsys"))
  /\ SandboxOnly /\ UNCHANGED <<inside, group, historyVars>>

\* Exit, an rlimit, the OOM killer, a signal from another process.
Dies(p) ==
  /\ p \in Alive /\ AfterDeath({p})
  /\ SandboxOnly /\ UNCHANGED historyVars

-------------------------------------------------------------------------------
(* HostTracer.process_wait_status on the status waitpid(-1) returned.          *)

Resumed(p) ==
  /\ state' = [state EXCEPT ![p] = "run"]
  /\ report' = [report EXCEPT ![p] = Nothing]
  /\ UNCHANGED <<inside, group>>

LoopOnly == UNCHANGED <<mode, pc, clock, loopVars, killed, purgeVars>>
Collecting == pc = "loop" /\ place = "drain"
Pending(p, kind) == Collecting /\ state[p] = "stop" /\ report[p].kind = kind

OnExit(p) ==
  /\ Collecting /\ state[p] = "zombie"
  /\ state' = [state EXCEPT ![p] = "reaped"]
  /\ active' = active \ {p}
  /\ LoopOnly
  /\ UNCHANGED <<report, inside, group, in_syscall, exec_completed,
                 seccomp_violation, trace_error, historyVars>>

OnFork(p) ==
  /\ Pending(p, "fork") /\ Resumed(p)
  /\ active' = active \cup {report[p].child}
  /\ in_syscall' = [in_syscall EXCEPT ![report[p].child] = FALSE]
  /\ LoopOnly
  /\ UNCHANGED <<exec_completed, seccomp_violation, trace_error, historyVars>>

OnExec(p) ==
  /\ Pending(p, "exec") /\ Resumed(p)
  /\ exec_completed' = exec_completed \cup {p}
  /\ ran' = ran \cup {p}
  /\ LoopOnly
  /\ UNCHANGED <<active, in_syscall, seccomp_violation, trace_error, logged, missed>>

\* Mutant: leaving a syscall does not clear the flag.
Mut_OnSyscall(p) ==
  /\ Pending(p, "syscall") /\ Resumed(p)
  /\ in_syscall' = [in_syscall EXCEPT ![p] = TRUE]
  /\ logged' = IF in_syscall[p] THEN logged ELSE logged \cup {p}
  /\ missed' = (missed \/ (p \notin inside /\ p \notin logged'))
  /\ LoopOnly
  /\ UNCHANGED <<active, exec_completed, seccomp_violation, trace_error, ran>>

\* Every other syscall stop of a process is taken for an entry and looked at.
OnSyscall(p) ==
  /\ Pending(p, "syscall") /\ Resumed(p)
  /\ in_syscall' = [in_syscall EXCEPT ![p] = ~@]
  /\ logged' = IF in_syscall[p] THEN logged ELSE logged \cup {p}
  /\ missed' = (missed \/ (p \notin inside /\ p \notin logged'))
  /\ LoopOnly
  /\ UNCHANGED <<active, exec_completed, seccomp_violation, trace_error, ran>>

OnSigsys(p) ==
  /\ Pending(p, "sigsys") /\ Resumed(p)
  /\ seccomp_violation' = TRUE
  /\ LoopOnly
  /\ UNCHANGED <<active, in_syscall, exec_completed, trace_error, historyVars>>

\* The attach stop of a child, and signals passed on.
OnOther(p) ==
  /\ Pending(p, "attach") /\ Resumed(p)
  /\ LoopOnly /\ UNCHANGED <<tracerVars, historyVars>>

\* A ptrace call fails for another reason than the process being gone: the
\* status is consumed and the process stays where it is.
OnPtraceError(p) ==
  /\ Collecting /\ state[p] = "stop" /\ report[p] # Nothing /\ ~trace_error
  /\ report' = [report EXCEPT ![p] = Nothing]
  /\ trace_error' = TRUE
  /\ LoopOnly
  /\ UNCHANGED <<state, inside, group, active, in_syscall, exec_completed,
                 seccomp_violation, historyVars>>

\* The drain ends when waitpid has nothing to report, and only then: it looks
\* neither at the clock nor at what has been asked for.
Waiting == {p \in Procs : state[p] = "zombie" \/ (state[p] = "stop" /\ report[p] # Nothing)}

DrainLeft ==
  /\ Collecting /\ place' = "bottom"
  /\ UNCHANGED <<mode, pc, clock, late, killed, purgeVars, kernelVars, in_syscall,
                 exec_completed, seccomp_violation, trace_error, historyVars>>

NothingWaits == DrainLeft /\ Present # {} /\ Waiting = {} /\ UNCHANGED active

\* ChildProcessError: nothing left to wait for.
NoChildren == DrainLeft /\ Present = {} /\ active' = {}

-------------------------------------------------------------------------------
(* The rest of the trace loop: what is looked at before the drain, and after.  *)

AtTop ==
  /\ pc = "loop" /\ place = "top" /\ active # {}
  /\ place' = "drain" /\ late' = (clock = "late")
  /\ UNCHANGED <<mode, pc, clock, tracerVars, purgeVars, historyVars>>

Signals(dead) == ~killed /\ AfterDeath(dead) /\ killed' = TRUE

OverBudget == AtTop /\ clock # "in_time" /\ Signals(group)

InBudget == AtTop /\ clock = "in_time"

OnViolation == InBudget /\ seccomp_violation /\ Signals(group)

\* An MCP server that has answered every call is sent SIGTERM, which it and
\* its children may ignore; nothing signals them again before the cleanup.
McpDone == InBudget /\ ~seccomp_violation /\ \E dead \in SUBSET group : Signals(dead)

PassesTop ==
  /\ AtTop
  /\ ~killed => clock = "in_time" /\ ~seccomp_violation
  /\ UNCHANGED <<kernelVars, killed>>

OnFailure ==
  /\ pc = "loop" /\ place = "bottom" /\ trace_error /\ Signals(group)
  /\ UNCHANGED <<mode, pc, clock, loopVars, tracerVars, purgeVars, historyVars>>

AtBottom ==
  /\ pc = "loop" /\ place = "bottom" /\ (trace_error => killed)
  /\ place' = "top" /\ late' = FALSE
  /\ UNCHANGED <<mode, pc, clock, kernelVars, in_syscall, exec_completed,
                 seccomp_violation, trace_error, killed, verified, historyVars>>

\* Mutant: the loop waits for the last tracee, however long.
Mut_GraceSpent == killed /\ late /\ Alive = {}

GraceSpent == killed /\ late

GraceOver ==
  AtBottom /\ GraceSpent /\ tracked' = tracked \cup active /\ active' = {}

PassesBottom == AtBottom /\ ~GraceSpent /\ UNCHANGED <<tracked, active>>

LoopEnds ==
  /\ pc = "loop" /\ place = "top" /\ active = {}
  /\ pc' = "cleanup"
  /\ UNCHANGED <<mode, clock, loopVars, kernelVars, tracerVars, killed, purgeVars,
                 historyVars>>

Tick ==
  /\ pc = "loop" /\ clock # "late"
  /\ clock' = IF clock = "in_time" THEN "over" ELSE "late"
  /\ UNCHANGED <<mode, pc, loopVars, kernelVars, tracerVars, killed, purgeVars,
                 historyVars>>

-------------------------------------------------------------------------------
(* _cleanup_legacy_resources: kill, reap, look, decide.                        *)

\* Mutant: only the process group is killed and looked at.
Mut_Reach == group

\* What the cleanup can name: the group, the tracked pids, and the cgroup,
\* which only a full-root run has and no process can leave.
Reach == group \cup tracked \cup (IF FullRoot THEN Procs ELSE {})

CleanupKills ==
  /\ pc = "cleanup" /\ pc' = "drain"
  /\ AfterDeath(Reach)
  /\ UNCHANGED <<mode, clock, loopVars, tracerVars, killed, purgeVars, historyVars>>

\* waitpid(-group): a zombie outside the group is not reaped.
ReapGroup ==
  /\ pc = "drain"
  /\ \E p \in group :
       /\ state[p] = "zombie"
       /\ state' = [state EXCEPT ![p] = "reaped"]
  /\ UNCHANGED <<mode, pc, clock, loopVars, report, inside, group, tracerVars, killed,
                 purgeVars, historyVars>>

\* A zombie still counts for the group and the tracked pids; cgroup.procs does
\* not list it.  With nothing left the purge is verified, unless a mount or the
\* job's directory stays behind.
Remaining == (Present \cap Reach \cap (group \cup tracked)) \cup (Alive \cap Reach)

DrainEnds ==
  /\ pc = "drain"
  /\ pc' = "done" /\ verified' \in {FALSE, Remaining = {}}
  /\ UNCHANGED <<mode, clock, loopVars, kernelVars, tracerVars, killed, tracked,
                 historyVars>>

Done == pc = "done" /\ UNCHANGED vars

Collects(p) == OnExit(p) \/ OnFork(p) \/ OnExec(p) \/ OnSyscall(p) \/ OnSigsys(p)
                 \/ OnOther(p) \/ OnPtraceError(p)

SandboxStep ==
  \E p \in Procs :
    \/ EnterSyscall(p) \/ LeaveSyscall(p) \/ Exec(p) \/ LeaveGroup(p)
    \/ Trapped(p) \/ Dies(p)
    \/ \E c \in Procs : Fork(p, c)

LoopStep ==
  \/ \E p \in Procs : Collects(p)
  \/ NothingWaits \/ NoChildren \/ OverBudget \/ OnViolation \/ McpDone \/ PassesTop
  \/ OnFailure \/ GraceOver \/ PassesBottom \/ LoopEnds

Next ==
  SandboxStep \/ LoopStep \/ Tick \/ CleanupKills \/ ReapGroup \/ DrainEnds \/ Done

Spec == Init /\ [][Next]_vars

\* The loop polls and never blocks, the clock advances; the sandbox may do
\* what it likes, for ever.
FairSpec ==
  Spec /\ WF_vars(Tick) /\ WF_vars(LoopStep) /\ WF_vars(CleanupKills) /\ WF_vars(DrainEnds)

-------------------------------------------------------------------------------
(* Properties.                                                                 *)

\* Every syscall a process of the sandbox completes has been looked at, even
\* where a child's stops are collected before the fork event that announces
\* it resets the child's flag in the middle of a syscall; and code of the
\* artifact does not run before its exec has been recorded, the witness the
\* observation verdict is built on.
NothingUnobserved == ~missed /\ ran \subseteq exec_completed

\* A purge reported as externally verified has left no process of the job
\* alive, registered with the tracer or not.  Without root there is no cgroup
\* to find a process by that left the group unnoticed.
VerifiedIsDead ==
  verified => IF FullRoot THEN Alive = {} ELSE Alive \cap (group \cup tracked) = {}

\* Whatever else the sandbox does, the loop and the cleanup end, with processes
\* alive that left the group or ignore the signal.  One thing can hold the loop:
\* processes that keep the drain supplied with stops, for as long as they do.
RunEnds == []<>~Collecting => <>(pc = "done")
===============================================================================
