------------------------------ MODULE LegacyProofs ------------------------------
(***************************************************************************)
(* Proofs about a legacy detonation: about the handshake that admits its   *)
(* sandbox (LegacyAdmission), in either isolation mode, under every policy *)
(* and with no bound on how often processes die or pids are reused; and    *)
(* about the tracer and the cleanup after it (LegacyTrace), for every      *)
(* number of processes.  The artifact never runs outside a sandbox the     *)
(* host has admitted, no syscall of it is completed unobserved, and a      *)
(* verified purge leaves no process alive that the cleanup can name.       *)
(*                                                                         *)
(* The tracer tells entries from exits by a flag it toggles, and the flag  *)
(* of a child may be reset in the middle of a syscall by a fork event that *)
(* is collected late.  ToggleInv says how far the flag can be trusted: once *)
(* the entry stop has been collected, a flag that is set means that the    *)
(* syscall was looked at.  BornInv says that nothing the host names is a   *)
(* process yet to be born.                                                 *)
(*                                                                         *)
(* PayloadOnlyAdmitted speaks of the running artifact only.  AdmissionInv  *)
(* follows the handshake that leads there, one conjunct per thing that the *)
(* host or the sandbox has come to rely on.  CalmInv does the same for a   *)
(* handshake in which nothing goes wrong, which is never left waiting.     *)
(***************************************************************************)
EXTENDS LegacyTrace, LegacyAdmission, TLAPS

-------------------------------------------------------------------------------
(* The tracer and the cleanup.                                                 *)

Kinds == {"none", "syscall", "attach", "fork", "exec", "sigsys"}
States == {"none", "run", "stop", "zombie", "reaped"}

TraceTypeOK ==
  /\ state \in [Procs -> States] /\ report \in [Procs -> [kind : Kinds, child : Procs]]
  /\ in_syscall \in [Procs -> BOOLEAN]
  /\ inside \subseteq Procs /\ group \subseteq Procs /\ active \subseteq Procs
  /\ tracked \subseteq Procs /\ missed \in BOOLEAN /\ verified \in BOOLEAN

\* The process has an entry stop behind it and its exit has not been collected.
InSyscall(p) ==
  \/ p \in inside /\ (state[p] = "run" \/ report[p].kind \in {"fork", "exec"})
  \/ p \notin inside /\ report[p].kind = "syscall"

ToggleInv ==
  \A p \in Procs :
    /\ InSyscall(p) /\ in_syscall[p] => p \in logged
    /\ state[p] = "none" \/ report[p].kind \in {"attach", "sigsys"} => p \notin inside
    /\ report[p].kind \in {"fork", "exec"} => p \in inside

BornInv ==
  /\ \A p \in group \cup tracked \cup active : state[p] # "none"
  /\ \A p \in Procs : report[p].kind = "fork" => state[report[p].child] # "none"

\* Only the end of the cleanup reports a purge.
VerdictInv == (verified => pc = "done") /\ VerifiedIsDead

TraceInv == TraceTypeOK /\ ToggleInv /\ NothingUnobserved /\ BornInv /\ VerdictInv

-------------------------------------------------------------------------------
\* Deaths keep everything the tracer knows true: the dead report nothing.
LEMMA DeathKeepsInv ==
  ASSUME TraceInv, NEW ps, AfterDeath(ps),
         UNCHANGED <<mode, in_syscall, exec_completed, active, tracked, verified, logged,
                     missed, ran>>,
         verified => pc' = pc
  PROVE  TraceInv'
<1>1. TraceTypeOK'
  BY Zenon, RootAssumption DEF TraceInv, TraceTypeOK, AfterDeath, Nothing, Kinds, States
<1>2. ToggleInv'
  BY Zenon, <1>1 DEF TraceInv, TraceTypeOK, ToggleInv, InSyscall, AfterDeath, DeadWith, Alive,
     Nothing
<1>3. BornInv'
  BY Zenon DEF TraceInv, TraceTypeOK, BornInv, AfterDeath, DeadWith, Alive, Nothing
<1>4. VerdictInv' /\ NothingUnobserved'
  BY Zenon DEF TraceInv, TraceTypeOK, VerdictInv, VerifiedIsDead, NothingUnobserved, AfterDeath,
         DeadWith, Alive, FullRoot
<1>5. QED
  BY Zenon, <1>1, <1>2, <1>3, <1>4 DEF TraceInv

\* Whatever a process of the sandbox does keeps the invariant.
LEMMA SandboxKeepsInv ==
  ASSUME TraceInv, SandboxStep
  PROVE  TraceInv'
<1> USE RootAssumption DEF TraceInv, TraceTypeOK, ToggleInv, InSyscall, NothingUnobserved,
            BornInv, VerdictInv, VerifiedIsDead, SandboxOnly, StopsAt, Stop, Kinds, States,
            FullRoot, Alive, tracerVars, purgeVars, historyVars
<1>1. ASSUME NEW p \in Procs, EnterSyscall(p) PROVE TraceInv'
  BY Zenon, <1>1 DEF EnterSyscall
<1>2. ASSUME NEW p \in Procs, LeaveSyscall(p) PROVE TraceInv'
  BY Zenon, <1>2 DEF LeaveSyscall
<1>3. ASSUME NEW p \in Procs, NEW c \in Procs, Fork(p, c) PROVE TraceInv'
  BY <1>3, SMTT(30) DEF Fork
<1>4. ASSUME NEW p \in Procs, Exec(p) PROVE TraceInv'
  BY Zenon, <1>4 DEF Exec
<1>5. ASSUME NEW p \in Procs, LeaveGroup(p) PROVE TraceInv'
  BY Zenon, <1>5 DEF LeaveGroup
<1>6. ASSUME NEW p \in Procs, Trapped(p) PROVE TraceInv'
  BY Zenon, <1>6 DEF Trapped
<1>7. ASSUME NEW p \in Procs, Dies(p) PROVE TraceInv'
  BY Zenon, <1>7, DeathKeepsInv DEF Dies
<1>8. QED
  BY Zenon, <1>1, <1>2, <1>3, <1>4, <1>5, <1>6, <1>7 DEF SandboxStep

\* Every status that process_wait_status handles keeps the invariant.
LEMMA TracerKeepsInv ==
  ASSUME TraceInv, NEW p \in Procs, Collects(p)
  PROVE  TraceInv'
<1> USE RootAssumption DEF TraceInv, TraceTypeOK, ToggleInv, InSyscall, NothingUnobserved,
            BornInv, VerdictInv, VerifiedIsDead, LoopOnly, Collecting, Pending, Resumed, Nothing,
            Kinds, States, FullRoot, Alive, tracerVars, purgeVars, historyVars
<1>1. CASE OnExit(p)
  BY Zenon, <1>1 DEF OnExit
<1>2. CASE OnFork(p)
  BY <1>2 DEF OnFork
<1>3. CASE OnExec(p)
  BY Zenon, <1>3 DEF OnExec
<1>4. CASE OnSyscall(p)
  BY Zenon, <1>4 DEF OnSyscall
<1>5. CASE OnSigsys(p) \/ OnOther(p)
  BY <1>5 DEF OnSigsys, OnOther
<1>6. CASE OnPtraceError(p)
  BY Zenon, <1>6 DEF OnPtraceError
<1>7. QED
  BY Zenon, <1>1, <1>2, <1>3, <1>4, <1>5, <1>6 DEF Collects

\* The rest of the loop and the cleanup keep the invariant.
LEMMA HostKeepsInv ==
  ASSUME TraceInv,
         \/ NothingWaits \/ NoChildren \/ OverBudget \/ OnViolation \/ McpDone \/ PassesTop
         \/ OnFailure \/ GraceOver \/ PassesBottom \/ LoopEnds \/ Tick
         \/ CleanupKills \/ ReapGroup \/ DrainEnds
  PROVE  TraceInv'
<1> USE DEF tracerVars, purgeVars, historyVars, kernelVars
<1>1. CASE OverBudget \/ OnViolation \/ McpDone \/ OnFailure
  <2>1. /\ \E ps : AfterDeath(ps)
        /\ UNCHANGED <<mode, pc, tracerVars, purgeVars, historyVars>>
    BY Zenon, <1>1 DEF OverBudget, OnViolation, InBudget, McpDone, OnFailure, AtTop, Signals
  <2>2. QED
    BY Zenon, <2>1, DeathKeepsInv
<1>2. CASE CleanupKills
  <2>1. ~verified
    BY Zenon, <1>2 DEF CleanupKills, TraceInv, VerdictInv
  <2>2. QED
    BY Zenon, <1>2, <2>1, DeathKeepsInv DEF CleanupKills
<1>3. CASE NothingWaits \/ NoChildren \/ PassesTop \/ GraceOver \/ PassesBottom
  <2>1. /\ ~verified /\ UNCHANGED <<verified, state, report, inside, group, in_syscall>>
        /\ UNCHANGED <<exec_completed, logged, missed, ran>>
        /\ active' \subseteq active /\ tracked' \subseteq tracked \cup active
    BY Zenon, <1>3 DEF NothingWaits, NoChildren, DrainLeft, Collecting, PassesTop, AtTop,
       GraceOver, PassesBottom, AtBottom, TraceInv, TraceTypeOK, VerdictInv
  <2>2. TraceTypeOK' /\ ToggleInv' /\ NothingUnobserved'
    BY Zenon, <2>1 DEF TraceInv, TraceTypeOK, ToggleInv, InSyscall, NothingUnobserved
  <2>3. BornInv'
    BY Zenon, <2>1 DEF TraceInv, BornInv
  <2>4. VerdictInv'
    BY Zenon, <2>1 DEF VerdictInv, VerifiedIsDead
  <2>5. QED
    BY Zenon, <2>2, <2>3, <2>4 DEF TraceInv
<1>4. CASE LoopEnds \/ Tick
  <2>1. CASE LoopEnds
    BY Zenon, <2>1 DEF LoopEnds, TraceInv, TraceTypeOK, ToggleInv, InSyscall, NothingUnobserved,
         BornInv, VerdictInv, VerifiedIsDead, FullRoot, Alive
  <2>2. CASE Tick
    BY Zenon, <2>2 DEF Tick, TraceInv, TraceTypeOK, ToggleInv, InSyscall, NothingUnobserved,
         BornInv, VerdictInv, VerifiedIsDead, FullRoot, Alive
  <2> QED BY Zenon, <1>4, <2>1, <2>2
<1>5. CASE ReapGroup
  BY <1>5 DEF ReapGroup, TraceInv, TraceTypeOK, States, ToggleInv, InSyscall,
       NothingUnobserved, BornInv, VerdictInv, VerifiedIsDead, FullRoot, Alive
<1>6. CASE DrainEnds
  <2>1. Remaining = {} => IF FullRoot THEN Alive = {} ELSE Alive \cap (group \cup tracked) = {}
    BY Zenon DEF Remaining, Reach, Alive
  <2>2. VerdictInv'
    BY Zenon, <1>6, <2>1 DEF DrainEnds, VerdictInv, VerifiedIsDead, FullRoot, Alive
  <2>3. QED
    BY Zenon, <1>6, <2>2 DEF DrainEnds, TraceInv, TraceTypeOK, ToggleInv, InSyscall,
         NothingUnobserved, BornInv
<1>7. QED
  BY Zenon, <1>1, <1>2, <1>3, <1>4, <1>5, <1>6

\* The inductive invariant holds throughout a traced run.
THEOREM TraceInvariant == Spec => []TraceInv
<1>1. Init => TraceInv
  <2> SUFFICES ASSUME Init PROVE TraceInv
    BY Zenon
  <2>1. state \in [Procs -> States] /\ state[Root] # "none"
    BY Zenon, RootAssumption DEF Init, States
  <2>2. TraceTypeOK
    BY Zenon, <2>1, RootAssumption DEF Init, Nothing, TraceTypeOK, Kinds
  <2>3. ToggleInv
    BY Zenon, RootAssumption DEF Init, Nothing, ToggleInv, InSyscall
  <2>4. BornInv /\ VerdictInv /\ NothingUnobserved
    BY Zenon, <2>1, RootAssumption DEF Init, Nothing, BornInv, VerdictInv, VerifiedIsDead,
       NothingUnobserved
  <2>5. QED
    BY Zenon, <2>2, <2>3, <2>4 DEF TraceInv
<1>2. TraceInv /\ [Next]_vars => TraceInv'
  <2> SUFFICES ASSUME TraceInv, [Next]_vars PROVE TraceInv'
    BY Zenon
  <2>1. CASE UNCHANGED vars
    BY Zenon, <2>1 DEF vars, tracerVars, purgeVars, historyVars, kernelVars, TraceInv, TraceTypeOK,
       ToggleInv, InSyscall, NothingUnobserved, BornInv, VerdictInv, VerifiedIsDead,
       FullRoot, Alive
  <2>2. QED
    BY Zenon, <2>1, SandboxKeepsInv, TracerKeepsInv, HostKeepsInv DEF Next, LoopStep, Done
<1>3. QED
  BY <1>1, <1>2, PTL DEF Spec

\* Every completed syscall was looked at, and no code of the artifact ran before
\* its exec was recorded (HostTracer.process_wait_status).
THEOREM EverySyscallObserved == Spec => []NothingUnobserved
<1>1. TraceInv => NothingUnobserved
  BY Zenon DEF TraceInv
<1>2. QED
  BY <1>1, TraceInvariant, PTL

\* A purge reported as externally verified left nothing alive within its reach, which
\* is everything in full-root mode (_cleanup_legacy_resources).
THEOREM VerifiedPurgeIsReal == Spec => []VerifiedIsDead
<1>1. TraceInv => VerifiedIsDead
  BY Zenon DEF TraceInv, VerdictInv
<1>2. QED
  BY <1>1, TraceInvariant, PTL

-------------------------------------------------------------------------------
(* The handshake.                                                              *)

\* The stages of the sandbox from the load of its filter on.
Confined == {"confined", "ready", "barrier", "payload"}

\* Where the host stands once it has identified the sandbox, and once the
\* controls have been admitted.
Admitting == {"admit", "validate", "attach", "revalidate", "token", "resume"}
Admitted == {"validate", "attach", "revalidate", "token", "resume", "tracing"}

\* There is no sandbox before the wrapper was spawned, nor, with a wrapper,
\* before it has forked; the host never gets to admission without one.
BirthInv ==
  /\ host \in {"cgroup", "channels", "spawn"} => sandbox = "none" /\ wrapper = "none"
  /\ IsFullRoot /\ wrapper \in {"none", "gated", "unshare"} => sandbox = "none" /\ pid = "none"
  /\ ~IsFullRoot => wrapper = "none"
  /\ host \in Admitting \cup {"tracing"} => sandbox # "none"
  /\ sandbox = "none" => loaded = {} /\ control = "none"

\* The launch gate: no wrapper passes it outside the cgroup, so none of its
\* children is born outside.
CgroupInv ==
  IsFullRoot =>
    /\ host = "cgroup" => gate # "token"
    /\ host \in {"check", "release"} \/ gate = "token" \/ wrapper \in {"unshare", "parent"}
         => "wrapper" \in cgroup
    /\ Lives(sandbox) => "sandbox" \in cgroup

\* What is in force on the sandbox at each stage, and that the status the host
\* has read tells the truth about it.
ControlInv ==
  /\ sandbox = "prepared" => "namespace" \in loaded
  /\ sandbox \in Confined => {"namespace", "seccomp"} \subseteq loaded
  /\ IsFullRoot /\ sandbox \in Confined \cup {"prepared"} => "cgroups" \in loaded
  /\ control # "none" => sandbox \in {"ready", "barrier", "payload", "dead"}
  /\ control = "locked" => "mlock" \in loaded
  /\ heard \in {"none", "eof"} \/ heard = control
  /\ host \in Admitted => IsolationFailures = {}

\* From the barrier to the resume the sandbox is stopped; without root it stops
\* itself before the artifact and only the resume lets it go on.
StopInv ==
  /\ host \in Admitting => stop = "stopped"
  /\ sandbox = "barrier" => ~IsFullRoot
  /\ sandbox = "barrier" /\ host # "tracing" => stop = "stopped"
  /\ host \in {"sigstop", "barrier", "attach", "revalidate", "token"} => IsFullRoot

\* Whom the host traces.  A stranger that was attached by pid number still holds
\* the number, so the second validation finds it out.
TracerInv ==
  /\ tracer \in {"none", "sandbox", "stranger"}
  /\ tracer = "stranger" => IsFullRoot /\ pid = "stranger"
  /\ host = "revalidate" => tracer # "none"
  /\ ~IsFullRoot /\ sandbox \in Confined => tracer = "sandbox"

\* The admission token is only there for a traced sandbox.
TokenInv ==
  /\ token = "token" => IsFullRoot /\ (host \in {"resume", "tracing"} \/ sandbox = "dead")
  /\ ~IsFullRoot => token \in {"none", "closed"}

AdmissionInv ==
  /\ PayloadOnlyAdmitted
  /\ BirthInv /\ CgroupInv /\ ControlInv /\ StopInv /\ TracerInv /\ TokenInv
-------------------------------------------------------------------------------
(* Every action keeps the invariant.                                           *)

\* The host's steps, from the cgroup to the decision.
LEMMA HandshakeKeepsInv ==
  ASSUME AdmissionInv, HostStep
  PROVE  AdmissionInv'
<1> USE DEF AdmissionInv, PayloadOnlyAdmitted, BirthInv, CgroupInv, ControlInv, StopInv,
            TracerInv, TokenInv, Confined, Admitting, Admitted, IsFullRoot, Lives,
            procVars, chanVars, seenVars, envVars
<1>1. CASE SetupCgroup
  BY Zenon, <1>1 DEF SetupCgroup, Deny, CloseAndGo, Fault, IsolationFailures,
         ReportedControls
<1>2. CASE OpenChannels
  BY <1>2 DEF OpenChannels, Deny, CloseAndGo, Fault, IsolationFailures,
         ReportedControls
<1>3. CASE SpawnWrapper
  BY SMTT(20), <1>3 DEF SpawnWrapper, Deny, CloseAndGo, Fault, IsolationFailures,
         ReportedControls
<1>4. CASE JoinCgroup
  BY <1>4 DEF JoinCgroup, Deny, CloseAndGo, Fault, IsolationFailures,
         ReportedControls
<1>5. CASE CheckWrapper
  BY <1>5 DEF CheckWrapper, Deny, CloseAndGo, Goto, IsolationFailures,
         ReportedControls
<1>6. CASE ReleaseWrapper
  BY <1>6 DEF ReleaseWrapper, Deny, CloseAndGo, IsolationFailures,
         ReportedControls
<1>7. CASE AwaitFullRoot
  <2>1. /\ IsFullRoot /\ host = "await" /\ host' \in {"identify", "refusing"}
        /\ heard' \in {heard, "eof", control}
        /\ gate' \in {gate, "closed"} /\ token' \in {token, "closed"}
        /\ UNCHANGED <<procVars, control, tracer, envVars>>
    BY Zenon, <1>7 DEF AwaitFullRoot, ActOn, Refuse, CloseAndGo, Received
  <2>2. QED
    BY SMTT(20), <2>1
<1>8. CASE AwaitDegraded
  BY SMTT(20), <1>8 DEF AwaitDegraded, Received, IsolationFailures, ReportedControls
<1>9. CASE LeaveDegraded
  BY SMTT(20), <1>9 DEF LeaveDegraded, ActOn, Refuse, CloseAndGo, IsolationFailures,
         ReportedControls
<1>10. CASE IdentifySandbox
  BY <1>10 DEF IdentifySandbox, Identified, Goto, Refuse, CloseAndGo,
         IsolationFailures, ReportedControls
<1>11. CASE SendStop
  BY <1>11 DEF SendStop, Refuse, CloseAndGo, IsolationFailures,
         ReportedControls
<1>12. CASE PollBarrier
  BY SMTT(20), <1>12 DEF PollBarrier, Identified, Goto, Refuse, CloseAndGo,
         IsolationFailures, ReportedControls
<1>13. CASE AdmitControls
  BY <1>13 DEF AdmitControls, Goto, Refuse, CloseAndGo, IsolationFailures,
         ReportedControls
<1>14. CASE ValidateStopped
  BY SMTT(20), <1>14 DEF ValidateStopped, Identified, AfterValidation, Goto, Abort,
         CloseAndGo, IsolationFailures, ReportedControls
<1>15. CASE AttachRoot
  <2>1. IsolationFailures' = IsolationFailures
    BY Zenon, <1>15 DEF AttachRoot, Abort, CloseAndGo, IsolationFailures,
         ReportedControls
  <2>2. CASE pid = "stranger" \/ (pid = "sandbox" /\ Lives(sandbox))
    BY <1>15, <2>1, <2>2 DEF AttachRoot
  <2>3. CASE ~(pid = "stranger" \/ (pid = "sandbox" /\ Lives(sandbox)))
    BY SMTT(20), <1>15, <2>1, <2>3 DEF AttachRoot, Abort, CloseAndGo
  <2>4. QED
    BY Zenon, <2>2, <2>3
<1>16. CASE WriteToken
  BY <1>16 DEF WriteToken, Abort, CloseAndGo, IsolationFailures,
         ReportedControls
<1>17. CASE ResumeRoot
  BY <1>17 DEF ResumeRoot, Abort, CloseAndGo, IsolationFailures,
         ReportedControls
<1>18. CASE KillGroup
  BY <1>18 DEF KillGroup, Refusing, Killed, IsolationFailures,
         ReportedControls
<1>19. QED
  BY Zenon, <1>1, <1>2, <1>3, <1>4, <1>5, <1>6, <1>7, <1>8, <1>9, <1>10, <1>11, <1>12,
     <1>13, <1>14, <1>15, <1>16, <1>17, <1>18 DEF HostStep

\* The steps of the wrapper and of the sandbox.
LEMMA JobKeepsInv ==
  ASSUME AdmissionInv, JobStep
  PROVE  AdmissionInv'
<1> USE DEF AdmissionInv, PayloadOnlyAdmitted, BirthInv, CgroupInv, ControlInv, StopInv,
            TracerInv, TokenInv, Confined, Admitting, Admitted, IsFullRoot, Lives,
            procVars, chanVars, seenVars, envVars
<1>1. CASE WrapperReadsGate
  BY Zenon, <1>1 DEF WrapperReadsGate, IsolationFailures, ReportedControls
<1>2. CASE WrapperForks
  BY Zenon, <1>2 DEF WrapperForks, IsolationFailures, ReportedControls
<1>3. CASE ChildPrepares
  <2>1. IsolationFailures' = IsolationFailures
    BY Zenon, <1>3 DEF ChildPrepares, ChildFails, Fault, IsolationFailures,
         ReportedControls
  <2>2. CASE ChildFails
    BY Zenon, <1>3, <2>1, <2>2 DEF ChildPrepares, Runs, ChildFails, Fault
  <2>3. CASE ~ChildFails
    <3>1. /\ sandbox = "setup" /\ sandbox' = "prepared" /\ "namespace" \in loaded'
          /\ "sandbox" \in cgroup => "cgroups" \in loaded'
          /\ UNCHANGED <<host, wrapper, stop, pid, cgroup, chanVars, seenVars, envVars>>
      BY Zenon, <1>3, <2>3 DEF ChildPrepares, Runs
    <3>2. QED
      BY <2>1, <3>1
  <2>4. QED
    BY Zenon, <2>2, <2>3
<1>4. CASE ChildConfines
  BY Zenon, <1>4 DEF ChildConfines, Runs, ChildFails, Fault, IsolationFailures,
         ReportedControls
<1>5. CASE ChildSignalsReady
  BY Zenon, <1>5 DEF ChildSignalsReady, Runs, IsolationFailures, ReportedControls
<1>6. CASE ChildAwaitsHost
  BY SMTT(20), <1>6 DEF ChildAwaitsHost, Runs, IsolationFailures, ReportedControls
<1>7. CASE ChildExecs
  BY Zenon, <1>7 DEF ChildExecs, Runs, IsolationFailures, ReportedControls
<1>8. CASE ChildStops
  BY <1>8 DEF ChildStops, IsolationFailures, ReportedControls
<1>9. QED
  BY Zenon, <1>1, <1>2, <1>3, <1>4, <1>5, <1>6, <1>7, <1>8 DEF JobStep

\* What the environment does: kills, reaps, gives numbers out again, lets time pass.
LEMMA EnvironmentKeepsInv ==
  ASSUME AdmissionInv,
         ProcessDies \/ ParentReaps \/ WrapperExits \/ PidReused \/ DeadlinePasses
  PROVE  AdmissionInv'
<1> USE DEF AdmissionInv, PayloadOnlyAdmitted, BirthInv, CgroupInv, ControlInv, StopInv,
            TracerInv, TokenInv, Confined, Admitting, Admitted, IsFullRoot, Lives,
            procVars, chanVars, seenVars, envVars
<1>1. CASE ProcessDies
  <2>1. IsolationFailures' = IsolationFailures
    BY Zenon, <1>1 DEF ProcessDies, Decided, Refused, Killed, Fault,
         IsolationFailures, ReportedControls
  <2>2. QED
    BY <1>1, <2>1 DEF ProcessDies, Decided, Refused, Killed, Fault
<1>2. CASE ParentReaps
  <2>1. IsolationFailures' = IsolationFailures
    BY Zenon, <1>2 DEF ParentReaps, IsolationFailures, ReportedControls
  <2>2. QED
    BY Zenon, <1>2, <2>1 DEF ParentReaps
<1>3. CASE WrapperExits
  <2>1. IsolationFailures' = IsolationFailures
    BY Zenon, <1>3 DEF WrapperExits, IsolationFailures, ReportedControls
  <2>2. QED
    BY SMTT(20), <1>3, <2>1 DEF WrapperExits
<1>4. CASE PidReused
  <2>1. IsolationFailures' = IsolationFailures
    BY Zenon, <1>4 DEF PidReused, IsolationFailures, ReportedControls
  <2>2. QED
    BY SMTT(20), <1>4, <2>1 DEF PidReused
<1>5. CASE DeadlinePasses
  <2>1. IsolationFailures' = IsolationFailures
    BY Zenon, <1>5 DEF DeadlinePasses, IsolationFailures, ReportedControls
  <2>2. QED
    BY <1>5, <2>1 DEF DeadlinePasses
<1>6. QED
  BY Zenon, <1>1, <1>2, <1>3, <1>4, <1>5

\* Every reachable state of the handshake satisfies the invariant.
LEMMA AdmissionInvariant == AdmissionSpec => []AdmissionInv
<1>1. AdmissionInit => AdmissionInv
  BY Zenon DEF AdmissionInit, AdmissionInv, PayloadOnlyAdmitted, BirthInv, CgroupInv, ControlInv,
     StopInv,
         TracerInv, TokenInv, Confined, Admitting, Admitted, IsFullRoot, Lives
<1>2. AdmissionInv /\ [AdmissionNext]_admissionVars => AdmissionInv'
  <2> SUFFICES ASSUME AdmissionInv, [AdmissionNext]_admissionVars PROVE AdmissionInv'
    BY Zenon
  <2>1. CASE UNCHANGED admissionVars
    <3> USE <2>1 DEF admissionVars, procVars, chanVars, seenVars, envVars, AdmissionInv
    <3>1. PayloadOnlyAdmitted' /\ TokenInv'
      BY Zenon DEF PayloadOnlyAdmitted, TokenInv, IsFullRoot
    <3>2. BirthInv' /\ CgroupInv'
      BY Zenon DEF BirthInv, CgroupInv, IsFullRoot, Lives
    <3>3. ControlInv'
      BY Zenon DEF ControlInv, IsFullRoot, IsolationFailures, ReportedControls
    <3>4. StopInv' /\ TracerInv'
      BY Zenon DEF StopInv, TracerInv, IsFullRoot
    <3>5. QED
      BY Zenon, <3>1, <3>2, <3>3, <3>4
  <2>2. QED
    BY Zenon, <2>1, HandshakeKeepsInv, JobKeepsInv, EnvironmentKeepsInv DEF AdmissionNext, Settled
<1>3. QED
  BY <1>1, <1>2, PTL DEF AdmissionSpec

\* The artifact runs only in an admitted sandbox: traced, under seccomp, with every
\* required control in force (detonate and _sandbox_child_main in mote/detonate.py).
THEOREM ArtifactIsAdmitted == AdmissionSpec => []PayloadOnlyAdmitted
<1>1. AdmissionInv => PayloadOnlyAdmitted
  BY Zenon DEF AdmissionInv
<1>2. QED
  BY <1>1, AdmissionInvariant, PTL

-------------------------------------------------------------------------------
(* The handshake ends.  That it does is checked with TLC, under its fairness;  *)
(* what that rests on is proved here.                                          *)

Early == {"cgroup", "channels", "spawn"}
Launching == Early \cup {"join", "check", "release", "await"}
Checking == {"identify", "pidfd", "sigstop", "barrier"} \cup Admitting \cup {"tracing"}

\* Full-root, with nothing in the way: how far the wrapper and the sandbox are when the
\* host gets to each of its steps, and what it has left for them in the pipes.
CalmRoot ==
  /\ wrapper \in {"none", "gated", "unshare", "parent"}
  /\ wrapper = "none" <=> host \in Early
  /\ sandbox = "none" <=> wrapper # "parent"
  /\ gate # "closed" /\ token # "closed"
  /\ host \in {"join", "check", "release"} => wrapper = "gated"
  /\ gate = "token" <=> host \in Checking \cup {"await"}
  /\ host \in Checking => sandbox \in {"ready", "payload"}
  /\ host = "barrier" => stop = "sent" \/ stop = "stopped"
  /\ host \notin Checking \/ host = "tracing" => stop = "none"
  /\ host \in {"resume", "tracing"} => token = "token"

\* Without root the sandbox stops itself, and is stopped until the host resumes it.
CalmUser ==
  /\ host \notin {"cgroup", "join", "release"}
  /\ sandbox = "none" <=> host \in Early
  /\ stop = IF sandbox = "barrier" /\ host # "tracing" THEN "stopped" ELSE "none"
  /\ waited = "none" \/ (waited = "stopped" /\ sandbox \in {"barrier", "payload"})
  /\ host \in Checking => waited = "stopped"

\* As long as nothing dies, no call fails and the deadline is kept, the host goes from
\* step to step, and the status it hears will do.
CalmInv ==
  ~faulted =>
    /\ host \in Launching \cup Checking /\ ~expired
    /\ sandbox \in {"none", "setup", "prepared"} \cup Confined
    /\ pid = IF sandbox = "none" THEN "none" ELSE "sandbox"
    /\ IsFullRoot => CalmRoot
    /\ ~IsFullRoot => CalmUser
    /\ control \in {"none", "locked", "unlocked"}
    /\ control = "none" <=> sandbox \in {"none", "setup", "prepared", "confined"}
    /\ "mlock" \in required =>
         (sandbox \in {"prepared", "confined"} => "mlock" \in loaded) /\ control # "unlocked"
    /\ required \subseteq {"namespace", "seccomp"} \cup
         (IF IsFullRoot THEN {"mlock", "cgroups"} ELSE {})
    /\ heard = "none" \/ heard = control
    /\ host \in Checking => heard # "none"

\* The guards of the host's steps.
HostCanMove ==
  \/ host \notin Decided \cup {"await", "barrier"}
  \/ host = "await" /\ IsFullRoot /\ (Readable \/ ~WrapperAlive \/ expired)
  \/ /\ host = "await" /\ ~IsFullRoot
     /\ \/ heard = "none" /\ Readable
        \/ waited = "none" /\ (sandbox = "dead" \/ stop = "stopped")
        \/ heard # "none" /\ waited # "none"
        \/ waited = "exited" \/ expired
  \/ host = "barrier" /\ (~Identified \/ stop = "stopped" \/ expired)

\* The guards of the steps of the wrapper and the sandbox.
JobCanMove ==
  \/ wrapper = "gated" /\ gate \in {"token", "closed"}
  \/ wrapper = "unshare"
  \/ \E stage \in {"setup", "prepared", "confined", "barrier"} : Runs(stage)
  \/ Runs("ready") /\ (IsFullRoot => token \in {"token", "closed"})
  \/ stop = "sent" /\ Lives(sandbox)

\* The host's steps as far as the sandbox is concerned: up to the wait for it, where
\* only the launch can fail, and from the wait on, where every check succeeds.
LEMMA LaunchIsCalm ==
  ASSUME AdmissionInv, CalmInv, ~faulted, ~faulted',
         \/ SetupCgroup \/ OpenChannels \/ SpawnWrapper \/ JoinCgroup \/ CheckWrapper
         \/ ReleaseWrapper
  PROVE  CalmInv'
<1> USE DEF CalmInv, CalmRoot, CalmUser, Early, Launching, Checking, Admitting, Confined,
            IsFullRoot, Lives, procVars, chanVars, seenVars, envVars
<1>1. CASE SetupCgroup
  BY Zenon, <1>1 DEF SetupCgroup, Fault
<1>2. CASE OpenChannels
  BY Zenon, <1>2 DEF OpenChannels, Fault
<1>3. CASE SpawnWrapper
  BY Zenon, <1>3 DEF SpawnWrapper, Fault
<1>4. CASE JoinCgroup
  BY Zenon, <1>4 DEF JoinCgroup, Fault
<1>5. CASE CheckWrapper
  <2>1. WrapperAlive
    BY Zenon, <1>5 DEF CheckWrapper, WrapperAlive
  <2> QED
    BY SMTT(20), <1>5, <2>1 DEF CheckWrapper, Goto
<1>6. CASE ReleaseWrapper
  BY Zenon, <1>6 DEF ReleaseWrapper, Deny, CloseAndGo
<1> QED
  BY Zenon, <1>1, <1>2, <1>3, <1>4, <1>5, <1>6

\* The sandbox that spoke is found where it should be.
LEMMA CalmIsIdentified ==
  ASSUME AdmissionInv, CalmInv, ~faulted, host \in Checking \ {"tracing"}
  PROVE  /\ Identified /\ Lives(sandbox) /\ pid = "sandbox" /\ IsolationFailures = {}
         /\ ~IsFullRoot => stop = "stopped"
<1>1. pid = "sandbox" /\ Lives(sandbox) /\ (IsFullRoot => wrapper = "parent")
  BY Zenon DEF CalmInv, CalmRoot, CalmUser, Checking, Admitting, Early, Lives
<1>2. ~IsFullRoot => stop = "stopped"
  <2>1. PayloadOnlyAdmitted
    BY Zenon DEF AdmissionInv
  <2> QED
    BY Zenon, <2>1 DEF CalmInv, CalmUser, PayloadOnlyAdmitted
<1>3. IsFullRoot => {"wrapper", "sandbox"} \subseteq cgroup
  BY Zenon, <1>1 DEF AdmissionInv, CgroupInv
<1>4. Identified
  BY Zenon, <1>1, <1>3 DEF Identified, WrapperAlive, Lives
<1>5. IsolationFailures = {}
  <2>1. heard = control /\ control # "none"
    BY Zenon DEF CalmInv, CalmRoot, CalmUser
  <2>2. "mlock" \in required => heard = "locked"
    BY Zenon, <2>1 DEF CalmInv
  <2>3. required \subseteq {"namespace", "seccomp"} \cup
          (IF IsFullRoot THEN {"mlock", "cgroups"} ELSE {})
    BY Zenon DEF CalmInv
  <2> QED
    BY Zenon, <2>2, <2>3 DEF IsolationFailures, ReportedControls
<1> QED
  BY Zenon, <1>1, <1>2, <1>4, <1>5

LEMMA ChecksAreCalm ==
  ASSUME AdmissionInv, CalmInv, ~faulted, ~faulted',
         \/ AwaitFullRoot \/ AwaitDegraded \/ LeaveDegraded \/ IdentifySandbox \/ SendStop
         \/ PollBarrier \/ AdmitControls \/ ValidateStopped \/ AttachRoot \/ WriteToken
         \/ ResumeRoot \/ KillGroup
  PROVE  CalmInv'
<1> USE DEF CalmInv, CalmRoot, CalmUser, Early, Launching, Checking, Admitting, Confined,
            IsFullRoot, Lives, procVars, chanVars, seenVars, envVars
<1>0. /\ host \in {"sigstop", "barrier", "attach", "revalidate", "token"} => IsFullRoot
      /\ host \in Admitting => stop = "stopped"
      /\ sandbox = "payload" => host = "tracing"
      /\ sandbox = "barrier" => ~IsFullRoot
  BY Zenon DEF AdmissionInv, StopInv, PayloadOnlyAdmitted
<1>1. CASE AwaitFullRoot
  <2>0. IsFullRoot /\ host = "await" /\ ~expired /\ Lives(wrapper) /\ WrapperAlive
    BY Zenon, <1>1 DEF AwaitFullRoot, WrapperAlive
  <2>1. Readable /\ heard' = Received /\ ActOn(Ready(heard'))
    BY Zenon, <1>1, <2>0 DEF AwaitFullRoot
  <2>2. control # "none" /\ heard' = control /\ Ready(heard')
    BY Zenon, <2>0, <2>1 DEF Readable, Received, Ready
  <2>3. /\ IsFullRoot /\ host = "await" /\ host' = "identify"
        /\ UNCHANGED <<procVars, chanVars, waited, tracer, envVars>>
    BY Zenon, <2>0, <2>1, <2>2 DEF ActOn
  <2> QED
    BY Zenon, <1>0, <2>2, <2>3
<1>2. CASE AwaitDegraded
  <2>1. /\ ~IsFullRoot /\ host = "await" /\ heard' \in {heard, control}
        /\ waited' = (IF stop = "stopped" THEN "stopped" ELSE waited) /\ pid' = pid
        /\ UNCHANGED <<host, wrapper, sandbox, stop, loaded, cgroup, chanVars, tracer, envVars>>
    BY Zenon, <1>2 DEF AwaitDegraded, Readable, Received
  <2> QED
    BY Zenon, <2>1
<1>3. CASE LeaveDegraded
  <2>1. ~IsFullRoot /\ host = "await" /\ heard # "none" /\ waited = "stopped" /\ Ready(heard)
    BY Zenon, <1>3 DEF LeaveDegraded, Ready
  <2>2. host' = "identify" /\ UNCHANGED <<procVars, chanVars, seenVars, envVars>>
    BY Zenon, <1>3, <2>1 DEF LeaveDegraded, ActOn
  <2> QED
    BY Zenon, <2>1, <2>2
<1>4. CASE IdentifySandbox
  <2>1. /\ host \in {"identify", "pidfd"} /\ UNCHANGED <<procVars, chanVars, seenVars, envVars>>
        /\ host' = IF host = "identify" THEN "pidfd" ELSE IF IsFullRoot THEN "sigstop" ELSE "admit"
    BY Zenon, <1>4, CalmIsIdentified DEF IdentifySandbox, Goto
  <2> QED
    BY Zenon, <2>1
<1>5. CASE SendStop
  BY Zenon, <1>0, <1>5, CalmIsIdentified DEF SendStop
<1>6. CASE PollBarrier
  <2>1. /\ host = "barrier" /\ host' = "admit"
        /\ UNCHANGED <<procVars, chanVars, seenVars, envVars>>
    BY Zenon, <1>6, CalmIsIdentified DEF PollBarrier, Goto
  <2> QED
    BY Zenon, <1>0, <2>1
<1>7. CASE AdmitControls \/ ValidateStopped
  <2>1. /\ host \in {"admit", "validate", "revalidate"}
        /\ host' = IF host = "admit" THEN "validate" ELSE AfterValidation
        /\ UNCHANGED <<procVars, chanVars, seenVars, envVars>>
    BY Zenon, <1>0, <1>7, CalmIsIdentified DEF AdmitControls, ValidateStopped, Goto
  <2>2. host' \in {"validate", "attach", "resume", "token"} /\ (IsFullRoot => host' # "resume")
    BY Zenon, <1>0, <2>1 DEF AfterValidation
  <2> QED
    BY Zenon, <2>1, <2>2
<1>8. CASE AttachRoot \/ WriteToken
  <2>1. /\ host \in {"attach", "token"}
        /\ UNCHANGED <<procVars, gate, control, heard, waited, envVars>>
        /\ host = "attach" => host' = "revalidate" /\ token' = token
        /\ host = "token" => host' = "resume" /\ token' = "token"
    BY Zenon, <1>8, CalmIsIdentified DEF AttachRoot, WriteToken
  <2> QED
    BY Zenon, <1>0, <2>1
<1>9. CASE ResumeRoot
  <2>1. /\ host = "resume" /\ host' = "tracing" /\ stop' = "none"
        /\ UNCHANGED <<wrapper, sandbox, pid, loaded, cgroup, chanVars, seenVars, envVars>>
    BY Zenon, <1>9, CalmIsIdentified DEF ResumeRoot
  <2> QED
    BY Zenon, <1>0, <2>1
<1>10. CASE KillGroup
  BY Zenon, <1>10 DEF KillGroup, Refusing
<1> QED
  BY Zenon, <1>1, <1>2, <1>3, <1>4, <1>5, <1>6, <1>7, <1>8, <1>9, <1>10

\* The steps of the wrapper and the sandbox, and the faults, which end the calm.
LEMMA JobIsCalm ==
  ASSUME AdmissionInv, CalmInv, ~faulted, ~faulted', JobStep
  PROVE  CalmInv'
<1> USE DEF CalmInv, CalmRoot, CalmUser, Early, Launching, Checking, Admitting, Confined,
            IsFullRoot, Lives, Runs, procVars, chanVars, seenVars, envVars
<1>0. /\ sandbox = "barrier" => ~IsFullRoot
      /\ ~IsFullRoot => wrapper = "none"
      /\ sandbox = "none" => control = "none"
  BY Zenon DEF AdmissionInv, StopInv, BirthInv
<1>1. CASE WrapperReadsGate \/ WrapperForks
  BY Zenon, <1>0, <1>1 DEF WrapperReadsGate, WrapperForks
<1>2. CASE ChildPrepares
  <2>1. ~ChildFails
    BY Zenon DEF ChildFails, Fault
  <2>2. /\ sandbox = "setup" /\ stop # "stopped" /\ sandbox' = "prepared"
        /\ "mlock" \in required => "mlock" \in loaded'
        /\ UNCHANGED <<host, wrapper, stop, pid, cgroup, chanVars, seenVars, envVars>>
    BY Zenon, <1>2, <2>1 DEF ChildPrepares
  <2> QED
    BY Zenon, <2>2
<1>3. CASE ChildConfines
  <2>1. ~ChildFails
    BY Zenon DEF ChildFails, Fault
  <2>2. /\ sandbox = "prepared" /\ stop # "stopped" /\ sandbox' = "confined"
        /\ loaded' = loaded \cup {"seccomp"}
        /\ UNCHANGED <<host, wrapper, stop, pid, cgroup, chanVars, heard, waited, envVars>>
    BY Zenon, <1>3, <2>1 DEF ChildConfines
  <2> QED
    BY Zenon, <2>2
<1>4. CASE ChildSignalsReady
  BY Zenon, <1>4 DEF ChildSignalsReady
<1>5. CASE ChildAwaitsHost
  BY Zenon, <1>0, <1>5 DEF ChildAwaitsHost
<1>6. CASE ChildExecs
  BY Zenon, <1>0, <1>6 DEF ChildExecs
<1>7. CASE ChildStops
  BY Zenon, <1>7 DEF ChildStops
<1> QED
  BY Zenon, <1>1, <1>2, <1>3, <1>4, <1>5, <1>6, <1>7 DEF JobStep

LEMMA CalmInvariant == AdmissionSpec => []CalmInv
<1>1. AdmissionInit => CalmInv
  <2> SUFFICES ASSUME AdmissionInit PROVE CalmInv
    BY Zenon
  <2>1. required \subseteq {"namespace", "seccomp"} \cup
          (IF IsFullRoot THEN {"mlock", "cgroups"} ELSE {})
    BY Zenon DEF AdmissionInit, RequiredControls, Controls, IsFullRoot
  <2> QED
    BY Zenon, <2>1 DEF AdmissionInit, CalmInv, CalmRoot, CalmUser, Early, Launching, Checking,
         Admitting, Confined, IsFullRoot
<1>2. AdmissionInv /\ CalmInv /\ [AdmissionNext]_admissionVars => CalmInv'
  <2> SUFFICES ASSUME AdmissionInv, CalmInv, [AdmissionNext]_admissionVars, ~faulted'
               PROVE  CalmInv'
    BY Zenon DEF CalmInv
  <2>1. CASE UNCHANGED admissionVars
    BY Zenon, <2>1 DEF admissionVars, procVars, chanVars, seenVars, envVars, CalmInv, CalmRoot,
       CalmUser, IsFullRoot
  <2>2. CASE HostStep
    <3>1. ~faulted
      BY Zenon, <2>2 DEF HostStep, SetupCgroup, OpenChannels, SpawnWrapper, JoinCgroup,
         CheckWrapper, ReleaseWrapper, AwaitFullRoot, AwaitDegraded, LeaveDegraded,
         IdentifySandbox, SendStop, PollBarrier, AdmitControls, ValidateStopped, AttachRoot,
         WriteToken, ResumeRoot, KillGroup, ActOn, Goto, Fault, Refuse, Abort, Deny, envVars
    <3> QED
      BY Zenon, <2>2, <3>1, LaunchIsCalm, ChecksAreCalm DEF HostStep
  <2>3. CASE JobStep
    <3>1. ~faulted
      BY Zenon, <2>3 DEF JobStep, WrapperReadsGate, WrapperForks, ChildPrepares, ChildConfines,
         ChildSignalsReady, ChildAwaitsHost, ChildExecs, ChildStops, ChildFails, Fault, envVars
    <3> QED
      BY Zenon, <2>3, <3>1, JobIsCalm
  <2>4. CASE ProcessDies \/ DeadlinePasses
    BY Zenon, <2>4 DEF ProcessDies, DeadlinePasses, Fault
  <2>5. CASE ParentReaps \/ WrapperExits \/ PidReused
    <3>1. ~faulted
      BY Zenon, <2>5 DEF ParentReaps, WrapperExits, PidReused, envVars
    <3>2. sandbox # "dead" /\ pid \notin {"free", "stranger"}
      BY Zenon, <3>1 DEF CalmInv, Confined
    <3> QED
      BY Zenon, <2>5, <3>2 DEF ParentReaps, WrapperExits, PidReused
  <2>6. CASE Settled
    BY Zenon, <2>1, <2>6 DEF Settled
  <2> QED
    BY Zenon, <2>1, <2>2, <2>3, <2>4, <2>5, <2>6 DEF AdmissionNext
<1> QED
  BY <1>1, <1>2, AdmissionInvariant, PTL DEF AdmissionSpec

\* The host, the wrapper and the sandbox never all wait for one another: as long as
\* nothing dies, no call fails and the deadline is kept, one of them can go on until the
\* artifact runs, and the host has not begun to refuse.
HandshakeGoesOn ==
  ~faulted => /\ host \notin Refusing \cup Refused
              /\ HostCanMove \/ JobCanMove \/ sandbox = "payload"

\* For every mode and policy: the launch gate, the control socket, the stop and the
\* admission pipe are a handshake without a deadlock.  This is what the fairness of
\* HandshakeCompletes turns into a decision.
THEOREM HandshakeNeverStuck == AdmissionSpec => []HandshakeGoesOn
<1>1. AdmissionInv /\ CalmInv => HandshakeGoesOn
  <2> SUFFICES ASSUME AdmissionInv, CalmInv, ~faulted PROVE HandshakeGoesOn
    BY Zenon DEF HandshakeGoesOn
  <2> USE DEF CalmInv, CalmRoot, CalmUser, Early, Launching, Checking, Admitting, Confined
  <2>1. host \notin Refusing \cup Refused
    BY Zenon DEF Refusing, Refused
  <2>2. CASE host \notin Decided \cup {"await", "barrier"}
    BY Zenon, <2>1, <2>2 DEF HandshakeGoesOn, HostCanMove
  <2>3. CASE host = "await" /\ IsFullRoot
    <3>1. CASE control # "none"
      BY Zenon, <2>1, <2>3, <3>1 DEF HandshakeGoesOn, HostCanMove, Readable
    <3>2. CASE control = "none"
      <4>1. \/ wrapper = "gated" \/ wrapper = "unshare"
            \/ sandbox \in {"setup", "prepared", "confined"}
        BY Zenon, <2>3, <3>2
      <4>2. stop # "stopped" /\ gate = "token"
        BY Zenon, <2>3
      <4> QED
        BY Zenon, <2>1, <4>1, <4>2 DEF HandshakeGoesOn, JobCanMove, Runs
    <3> QED
      BY Zenon, <3>1, <3>2
  <2>4. CASE host = "await" /\ ~IsFullRoot
    <3>1. CASE sandbox \in {"setup", "prepared", "confined", "ready"}
      <4>1. stop # "stopped"
        BY Zenon, <2>4, <3>1
      <4> QED
        BY Zenon, <2>1, <2>4, <3>1, <4>1 DEF HandshakeGoesOn, JobCanMove, Runs
    <3>2. CASE sandbox = "barrier"
      <4>1. stop = "stopped" /\ control # "none"
        BY Zenon, <2>4, <3>2
      <4> QED
        BY Zenon, <2>1, <2>4, <4>1 DEF HandshakeGoesOn, HostCanMove, Readable
    <3> QED
      BY Zenon, <2>1, <2>4, <3>1, <3>2 DEF HandshakeGoesOn
  <2>5. CASE host = "barrier"
    <3>1. IsFullRoot
      BY Zenon, <2>5 DEF AdmissionInv, StopInv
    <3>2. stop = "sent" \/ stop = "stopped"
      BY Zenon, <2>5, <3>1
    <3>3. Lives(sandbox)
      BY Zenon, <2>5, <3>1 DEF Lives
    <3> QED
      BY Zenon, <2>1, <2>5, <3>2, <3>3 DEF HandshakeGoesOn, HostCanMove, JobCanMove
  <2>6. CASE host = "tracing"
    <3>1. /\ sandbox \in {"ready", "barrier", "payload"} /\ stop = "none"
          /\ (IsFullRoot => token = "token")
      BY Zenon, <2>6
    <3> QED
      BY Zenon, <2>1, <3>1 DEF HandshakeGoesOn, JobCanMove, Runs
  <2> QED
    BY Zenon, <2>1, <2>2, <2>3, <2>4, <2>5, <2>6 DEF Decided
<1> QED
  BY <1>1, AdmissionInvariant, CalmInvariant, PTL

===============================================================================
