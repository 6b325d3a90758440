---------------------------- MODULE LegacyAdmission ----------------------------
(***************************************************************************)
(* The launch handshake of a legacy detonation (mote/detonate.py): the     *)
(* host makes a cgroup, starts a wrapper that waits at a launch gate,      *)
(* lets it go once it is in the cgroup, hears "ready" from the sandbox     *)
(* child on a control socket, checks who spoke, stops and traces it, and   *)
(* only then lets it execute the artifact.                                 *)
(*                                                                         *)
(* The wrapper and the sandbox run beside the host and may be killed at    *)
(* any step, and a pid that has been reaped may be given to a stranger.    *)
(* In degraded-user mode the wrapper becomes the sandbox: one process.     *)
(* Contents of mounts, canaries and messages are not modelled.             *)
(***************************************************************************)
EXTENDS FiniteSets

VARIABLES
  isolation_mode, required,  \* args.isolation_mode, and the controls the policy requires
  host,            \* where detonate() stands
  expired,         \* whether the setup deadline has passed
  wrapper,         \* the namespace wrapper (full-root)
  sandbox,         \* the sandbox child, by the stage it has reached
  stop,            \* its stop: none, a SIGSTOP on its way, stopped
  pid,             \* who holds the pid number the sandbox was given
  loaded,          \* the controls in force on the sandbox
  cgroup,          \* the cgroup's members, or the reason there is none
  gate, token,     \* the launch gate pipe and the admission pipe
  control, heard,  \* the status on the control socket, and the one read
  waited,          \* degraded-user: the wait status collected
  tracer,          \* the process the host traces
  faulted          \* history: whether the environment got in the way

procVars == <<wrapper, sandbox, stop, pid, loaded, cgroup>>
chanVars == <<gate, token, control>>
seenVars == <<heard, waited, tracer>>
envVars == <<isolation_mode, required, expired, faulted>>
admissionVars == <<host, procVars, chanVars, seenVars, envVars>>

Controls == {"namespace", "seccomp", "cgroups", "mlock"}
NoCgroup == {"none"}
IsFullRoot == isolation_mode = "full-root"
Refused == {"denied", "refused", "aborted"}
Refusing == {"denying", "refusing", "aborting"}
Decided == Refused \cup {"tracing"}

\* Only a full-root run can be required to have cgroups and locked memory.
RequiredControls(m, policy) ==
  IF m = "full-root" THEN policy ELSE policy \ {"cgroups", "mlock"}

Lives(stage) == stage \notin {"none", "dead"}
WrapperAlive == IF IsFullRoot THEN Lives(wrapper) ELSE Lives(sandbox)
Killed(stage) == IF stage = "none" THEN "none" ELSE "dead"

AdmissionInit ==
  /\ isolation_mode \in {"full-root", "degraded-user"}
  /\ \E policy \in SUBSET Controls : required = RequiredControls(isolation_mode, policy)
  /\ host = IF IsFullRoot THEN "cgroup" ELSE "channels"
  /\ expired = FALSE /\ faulted = FALSE
  /\ wrapper = "none" /\ sandbox = "none" /\ stop = "none" /\ pid = "none"
  /\ loaded = {} /\ cgroup = NoCgroup
  /\ gate = "none" /\ token = "none" /\ control = "none"
  /\ heard = "none" /\ waited = "none" /\ tracer = "none"

\* A host step that changes nothing but where the host stands.
Goto(pc) == host' = pc /\ UNCHANGED <<procVars, chanVars, seenVars, envVars>>

\* A failure of the host's own calls.
Fault == faulted' = TRUE /\ UNCHANGED <<isolation_mode, required, expired>>

\* Every failure first closes the pipes: a reader sees the end of the file.
CloseAndGo(pc) ==
  /\ host' = pc
  /\ gate' = IF gate = "open" THEN "closed" ELSE gate
  /\ token' = IF token = "open" THEN "closed" ELSE token
  /\ UNCHANGED <<procVars, control, waited, tracer>>

Deny == CloseAndGo("denying") /\ UNCHANGED heard
Refuse == CloseAndGo("refusing") /\ UNCHANGED envVars
Abort == CloseAndGo("aborting") /\ UNCHANGED <<heard, envVars>>

-------------------------------------------------------------------------------
(* Launch: everything up to the release of the wrapper.                        *)

SetupCgroup ==
  /\ host = "cgroup"
  /\ \/ /\ cgroup' = {} /\ host' = "channels"
        /\ UNCHANGED <<wrapper, sandbox, stop, pid, loaded, chanVars, seenVars,
                       envVars>>
     \/ Deny /\ Fault

OpenChannels ==
  /\ host = "channels"
  /\ \/ /\ gate' = IF IsFullRoot THEN "open" ELSE "none"
        /\ token' = gate' /\ host' = "spawn"
        /\ UNCHANGED <<procVars, control, seenVars, envVars>>
     \/ Deny /\ Fault

\* Full-root: the wrapper's first act is to read the launch gate.  Without
\* a gate the wrapper becomes the sandbox child at once.
SpawnWrapper ==
  /\ host = "spawn"
  /\ \/ /\ IF IsFullRoot
             THEN wrapper' = "gated" /\ host' = "join" /\ UNCHANGED <<sandbox, pid>>
             ELSE sandbox' = "setup" /\ pid' = "sandbox" /\ host' = "check"
                  /\ UNCHANGED wrapper
        /\ UNCHANGED <<stop, loaded, cgroup, chanVars, seenVars, envVars>>
     \/ Deny /\ Fault

\* A zombie cannot join; membership is read back from cgroup.procs.
JoinCgroup ==
  /\ host = "join"
  /\ \/ /\ Lives(wrapper)
        /\ cgroup' = cgroup \cup {"wrapper"} /\ host' = "check"
        /\ UNCHANGED <<wrapper, sandbox, stop, pid, loaded, chanVars, seenVars,
                       envVars>>
     \/ Deny /\ Fault

CheckWrapper ==
  /\ host = "check"
  /\ IF WrapperAlive
       THEN Goto(IF IsFullRoot THEN "release" ELSE "await")
       ELSE Deny /\ UNCHANGED envVars

\* The gate's only reader is the wrapper: without it the write is EPIPE.
ReleaseWrapper ==
  /\ host = "release"
  /\ IF Lives(wrapper)
       THEN /\ gate' = "token" /\ host' = "await"
            /\ UNCHANGED <<procVars, token, control, seenVars, envVars>>
       ELSE Deny /\ UNCHANGED envVars

-------------------------------------------------------------------------------
(* The wrapper and the sandbox child.                                          *)

WrapperReadsGate ==
  /\ wrapper = "gated" /\ gate \in {"token", "closed"}
  /\ wrapper' = IF gate = "token" THEN "unshare" ELSE "dead"
  /\ UNCHANGED <<host, sandbox, stop, pid, loaded, cgroup, chanVars, seenVars,
                 envVars>>

\* The child of unshare --fork is born in its parent's cgroup.
WrapperForks ==
  /\ wrapper = "unshare"
  /\ wrapper' = "parent" /\ sandbox' = "setup" /\ pid' = "sandbox"
  /\ cgroup' = cgroup \cup (IF "wrapper" \in cgroup THEN {"sandbox"} ELSE {})
  /\ UNCHANGED <<host, stop, loaded, chanVars, seenVars, envVars>>

Runs(stage) == sandbox = stage /\ stop # "stopped"

\* Any exception of the child's setup: a status that says so, and exit 125.
ChildFails ==
  /\ sandbox' = "dead" /\ control' = "failed"
  /\ UNCHANGED <<loaded, tracer>> /\ Fault

\* Mounts, snapshot, canaries, artifact, devices, chroot, limits; mlockall.
ChildPrepares ==
  /\ Runs("setup")
  /\ \/ \E locked \in IF IsFullRoot THEN BOOLEAN ELSE {FALSE} :
          /\ "mlock" \in required => locked
          /\ loaded' = {"namespace"} \cup (IF locked THEN {"mlock"} ELSE {})
                       \cup (IF "sandbox" \in cgroup THEN {"cgroups"} ELSE {})
          /\ sandbox' = "prepared"
          /\ UNCHANGED <<control, tracer, envVars>>
     \/ ChildFails
  /\ UNCHANGED <<host, wrapper, stop, pid, cgroup, gate, token, heard, waited>>

\* Capabilities dropped, PTRACE_TRACEME without root, seccomp.
ChildConfines ==
  /\ Runs("prepared")
  /\ \/ /\ sandbox' = "confined" /\ loaded' = loaded \cup {"seccomp"}
        /\ tracer' = IF IsFullRoot THEN tracer ELSE "sandbox"
        /\ UNCHANGED <<control, envVars>>
     \/ ChildFails
  /\ UNCHANGED <<host, wrapper, stop, pid, cgroup, gate, token, heard, waited>>

ChildSignalsReady ==
  /\ Runs("confined")
  /\ sandbox' = "ready"
  /\ control' = IF "mlock" \in loaded THEN "locked" ELSE "unlocked"
  /\ UNCHANGED <<host, wrapper, stop, pid, loaded, cgroup, gate, token, seenVars,
                 envVars>>

\* Mutant: the end of the admission pipe is taken for the token.
Mut_ChildAwaitsHost ==
  /\ Runs("ready")
  /\ IF IsFullRoot
       THEN token \in {"token", "closed"} /\ sandbox' = "payload" /\ stop' = stop
       ELSE sandbox' = "barrier" /\ stop' = "stopped"
  /\ UNCHANGED <<host, wrapper, pid, loaded, cgroup, chanVars, seenVars, envVars>>

\* Full-root: read the admission token, or fail at end of file (the control
\* socket is closed by now).  Degraded: stop before the tracer.
ChildAwaitsHost ==
  /\ Runs("ready")
  /\ IF IsFullRoot
       THEN /\ token \in {"token", "closed"}
            /\ sandbox' = IF token = "token" THEN "payload" ELSE "dead"
            /\ stop' = stop
       ELSE sandbox' = "barrier" /\ stop' = "stopped"
  /\ UNCHANGED <<host, wrapper, pid, loaded, cgroup, chanVars, seenVars, envVars>>

ChildExecs ==
  /\ Runs("barrier")
  /\ sandbox' = "payload"
  /\ UNCHANGED <<host, wrapper, stop, pid, loaded, cgroup, chanVars, seenVars,
                 envVars>>

ChildStops ==
  /\ stop = "sent" /\ Lives(sandbox)
  /\ stop' = "stopped"
  /\ UNCHANGED <<host, wrapper, sandbox, pid, loaded, cgroup, chanVars, seenVars,
                 envVars>>

\* The OOM killer, an rlimit, an operator.  unshare --kill-child takes the
\* sandbox along when the wrapper dies.
ProcessDies ==
  /\ host \notin Decided
  /\ \/ Lives(sandbox) /\ sandbox' = "dead" /\ UNCHANGED wrapper
     \/ Lives(wrapper) /\ wrapper' = "dead" /\ sandbox' = Killed(sandbox)
  /\ Fault
  /\ UNCHANGED <<host, stop, pid, loaded, cgroup, chanVars, seenVars>>

\* The dead sandbox's parent, or init after it, reaps it ...
ParentReaps ==
  /\ IsFullRoot /\ sandbox = "dead" /\ pid = "sandbox" /\ tracer # "sandbox"
  /\ pid' = "free" /\ cgroup' = cgroup \ {"sandbox"}
  /\ UNCHANGED <<host, wrapper, sandbox, stop, loaded, chanVars, seenVars, envVars>>

\* ... and unshare exits after its child, while the number may be given out.
WrapperExits ==
  /\ wrapper = "parent" /\ pid \in {"free", "stranger"}
  /\ wrapper' = "dead"
  /\ UNCHANGED <<host, sandbox, stop, pid, loaded, cgroup, chanVars, seenVars,
                 envVars>>

PidReused ==
  /\ pid = "free" /\ pid' = "stranger"
  /\ UNCHANGED <<host, wrapper, sandbox, stop, loaded, cgroup, chanVars, seenVars,
                 envVars>>

-------------------------------------------------------------------------------
(* The wait for a ready sandbox, and its identification.                       *)

\* _validate_sandbox_process: wrapper alive, the pid still the same process
\* (start time, ancestry, group), both in the cgroup, the child not a zombie.
Identified ==
  /\ WrapperAlive
  /\ pid = "sandbox" /\ Lives(sandbox)
  /\ IsFullRoot => {"wrapper", "sandbox"} \subseteq cgroup

\* recvmsg: a status, or end of file once no process holds the other end.
Readable == \/ control # "none"
            \/ ~Lives(sandbox) /\ ~Lives(wrapper)
Received == IF control = "none" THEN "eof" ELSE control
Ready(status) == status \in {"locked", "unlocked"}

\* What the host does with the status in hand: go on, or give up.
ActOn(ok) ==
  IF ok THEN host' = "identify"
             /\ UNCHANGED <<procVars, chanVars, waited, tracer, envVars>>
        ELSE Refuse

\* Mutant: the wait has no deadline.
Mut_AwaitFullRoot ==
  /\ IsFullRoot /\ host = "await"
  /\ \/ Readable /\ heard' = Received /\ ActOn(Ready(heard'))
     \/ ~Readable /\ ~WrapperAlive /\ UNCHANGED heard /\ ActOn(FALSE)

\* One turn of the full-root loop; with nothing to read, it ends when the
\* wrapper is gone or the deadline has passed.
AwaitFullRoot ==
  /\ IsFullRoot /\ host = "await"
  /\ \/ Readable /\ heard' = Received /\ ActOn(Ready(heard'))
     \/ ~Readable /\ ~WrapperAlive /\ UNCHANGED heard /\ ActOn(FALSE)
     \/ expired /\ UNCHANGED heard /\ ActOn(FALSE)

\* One turn of the degraded loop: the status and the wait status are collected
\* separately.  A wait that finds the exit reaps the process.
AwaitDegraded ==
  /\ ~IsFullRoot /\ host = "await"
  /\ heard' = IF heard = "none" /\ Readable THEN Received ELSE heard
  /\ waited' = IF sandbox = "dead" THEN "exited"
               ELSE IF stop = "stopped" THEN "stopped" ELSE waited
  /\ pid' = IF waited' = "exited" /\ pid = "sandbox" THEN "free" ELSE pid
  /\ <<heard', waited', pid'>> # <<heard, waited, pid>>
  /\ UNCHANGED <<host, wrapper, sandbox, stop, loaded, cgroup, chanVars, tracer,
                 envVars>>

\* Both are needed to leave it, short of the deadline or, once the exit has
\* been collected, of the ChildProcessError of the next wait.
LeaveDegraded ==
  /\ ~IsFullRoot /\ host = "await"
  /\ (heard # "none" /\ waited # "none") \/ waited = "exited" \/ expired
  /\ UNCHANGED heard
  /\ ActOn(Ready(heard) /\ waited = "stopped")

\* The identity is checked on both sides of pidfd_open.
IdentifySandbox ==
  /\ host \in {"identify", "pidfd"}
  /\ IF Identified /\ (IsFullRoot \/ stop = "stopped")
       THEN Goto(IF host = "identify" THEN "pidfd"
                 ELSE IF IsFullRoot THEN "sigstop" ELSE "admit")
       ELSE Refuse /\ UNCHANGED heard

\* SIGSTOP through the pidfd reaches this sandbox or nobody.
SendStop ==
  /\ host = "sigstop"
  /\ IF Lives(sandbox)
       THEN /\ stop' = "sent" /\ host' = "barrier"
            /\ UNCHANGED <<wrapper, sandbox, pid, loaded, cgroup, chanVars,
                           seenVars, envVars>>
       ELSE Refuse /\ UNCHANGED heard

\* Only "not stopped yet" keeps the poll going, until the deadline.
PollBarrier ==
  /\ host = "barrier"
  /\ \/ Identified /\ stop = "stopped" /\ Goto("admit")
     \/ (~Identified \/ (stop # "stopped" /\ expired)) /\ Refuse /\ UNCHANGED heard

-------------------------------------------------------------------------------
(* Admission: the controls reported, the tracer, the token.                    *)

\* The controls as the host sees them: from the status, and cgroups from the
\* admission itself.
ReportedControls ==
  {"namespace", "seccomp"} \cup (IF heard = "locked" THEN {"mlock"} ELSE {})
                           \cup (IF IsFullRoot THEN {"cgroups"} ELSE {})

IsolationFailures == required \ ReportedControls

AdmitControls ==
  /\ host = "admit"
  /\ IF IsolationFailures = {}
       THEN Goto("validate")
       ELSE Refuse /\ UNCHANGED heard

AfterValidation == CASE host = "revalidate" -> "token"
                     [] host = "validate" /\ IsFullRoot -> "attach"
                     [] OTHER -> "resume"

\* The identity again, before and after the attach by pid number.
ValidateStopped ==
  /\ host \in {"validate", "revalidate"}
  /\ IF Identified /\ stop = "stopped" THEN Goto(AfterValidation) ELSE Abort

\* PTRACE_ATTACH goes to whoever holds the number now.
AttachRoot ==
  /\ host = "attach"
  /\ IF pid = "stranger" \/ (pid = "sandbox" /\ Lives(sandbox))
       THEN /\ tracer' = pid /\ host' = "revalidate"
            /\ UNCHANGED <<procVars, chanVars, heard, waited, envVars>>
       ELSE Abort

\* Mutant: the pipe is closed without the token in it.
Mut_WriteToken ==
  /\ host = "token" /\ Goto("resume")

\* Wrapper and sandbox both inherit the reading end.
WriteToken ==
  /\ host = "token"
  /\ IF Lives(sandbox) \/ Lives(wrapper)
       THEN /\ token' = "token" /\ host' = "resume"
            /\ UNCHANGED <<procVars, gate, control, seenVars, envVars>>
       ELSE Abort

ResumeRoot ==
  /\ host = "resume"
  /\ IF Lives(sandbox)
       THEN /\ stop' = "none" /\ host' = "tracing"
            /\ UNCHANGED <<wrapper, sandbox, pid, loaded, cgroup, chanVars,
                           seenVars, envVars>>
       ELSE Abort

\* The pipes are closed and the alert written; now SIGKILL to the process
\* group, in which the wrapper and the sandbox are.
KillGroup ==
  /\ host \in Refusing
  /\ host' = CASE host = "denying" -> "denied"
               [] host = "refusing" -> "refused"
               [] OTHER -> "aborted"
  /\ wrapper' = Killed(wrapper) /\ sandbox' = Killed(sandbox)
  /\ UNCHANGED <<stop, pid, loaded, cgroup, chanVars, seenVars, envVars>>

DeadlinePasses ==
  /\ host \in {"await", "barrier"} /\ ~expired
  /\ expired' = TRUE /\ faulted' = TRUE
  /\ UNCHANGED <<isolation_mode, required, host, procVars, chanVars, seenVars>>

Settled == host \in Decided /\ UNCHANGED admissionVars

HostStep ==
  \/ SetupCgroup \/ OpenChannels \/ SpawnWrapper \/ JoinCgroup \/ CheckWrapper
  \/ ReleaseWrapper \/ AwaitFullRoot \/ AwaitDegraded \/ LeaveDegraded
  \/ IdentifySandbox \/ SendStop \/ PollBarrier \/ AdmitControls
  \/ ValidateStopped \/ AttachRoot \/ WriteToken \/ ResumeRoot \/ KillGroup

JobStep ==
  \/ WrapperReadsGate \/ WrapperForks \/ ChildPrepares \/ ChildConfines
  \/ ChildSignalsReady \/ ChildAwaitsHost \/ ChildExecs \/ ChildStops

AdmissionNext ==
  \/ HostStep \/ JobStep \/ ProcessDies \/ ParentReaps \/ WrapperExits \/ PidReused
  \/ DeadlinePasses \/ Settled

AdmissionSpec == AdmissionInit /\ [][AdmissionNext]_admissionVars

\* The host's calls return; nothing is asked of the job, the clock or the faults.
FairAdmissionSpec == AdmissionSpec /\ WF_admissionVars(HostStep)

-------------------------------------------------------------------------------
(* Properties.                                                                 *)

\* The artifact runs only in a sandbox the host has admitted: traced, under
\* seccomp, and with every control the policy requires really in force.  And the
\* admission token goes out only while it is that sandbox the host has attached to,
\* not a stranger that was given its number.
PayloadOnlyAdmitted ==
  /\ sandbox = "payload" =>
       /\ tracer = "sandbox"
       /\ required \cup {"seccomp"} \subseteq loaded
       /\ host = "tracing"
  /\ IsFullRoot /\ host \in {"token", "resume", "tracing"} => tracer = "sandbox"

\* Whatever the wrapper and the sandbox do, setup ends in a decision while the
\* clock runs: no wait of the handshake is unbounded.
HostDecides == WF_admissionVars(DeadlinePasses) => <>(host \in Decided)

\* Left alone, a handshake goes through: host, wrapper and sandbox never all
\* wait for one another.
HandshakeCompletes == WF_admissionVars(JobStep) => <>(faulted \/ sandbox = "payload")
===============================================================================
