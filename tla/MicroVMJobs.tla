------------------------------ MODULE MicroVMJobs ------------------------------
(***************************************************************************)
(* The microVM jobs of one host (mote/firecracker_runtime.py, shared by    *)
(* run_browser_probe and run_agent_probe_microvm): admission under the     *)
(* global lock, reconciliation of what earlier jobs left, staging, network,*)
(* the supervised jailer, teardown and its verdict, and the death of the   *)
(* orchestrator at any of these points.                                    *)
(*                                                                         *)
(* A job is one orchestrator process with its own token.  Its traces on    *)
(* the host are a RAM jail, a cgroup, a network namespace and a veth link. *)
(* Time is not modelled: a deadline may pass at any step of a wait.  What  *)
(* happens between InstanceStart and teardown is AgentProbe's subject.     *)
(***************************************************************************)
EXTENDS Integers, FiniteSets

CONSTANT Jobs, NoJob

ASSUME JobsAssumption == NoJob \notin Jobs

VARIABLES
  lock,      \* who holds the flock on locks/browser.lock
  run,       \* each orchestrator: where it stands and what it has found out
  verdict,   \* the purge summary it returned, without the egress worker's part
  sup,       \* the supervisor of its jailer
  term,      \* jobs whose supervisor has been sent SIGTERM
  vmm,       \* the jailer, and the Firecracker it becomes
  killed,    \* jobs whose jailer or Firecracker has been sent SIGKILL
  jail, cgroup, netns, link   \* jobs whose traces exist

traceVars == <<jail, cgroup, netns, link>>
procVars == <<sup, term, vmm, killed>>
vars == <<lock, run, verdict, procVars, traceVars>>

NewRun == [pc |-> "idle", todo |-> {}, target |-> NoJob, net |-> FALSE,
           clean |-> FALSE, bare |-> FALSE, offline |-> FALSE]

Init ==
  /\ lock = NoJob
  /\ run = [j \in Jobs |-> NewRun]
  /\ verdict = [j \in Jobs |-> "none"]
  /\ sup = [j \in Jobs |-> "none"] /\ term = {}
  /\ vmm = [j \in Jobs |-> "none"] /\ killed = {}
  /\ jail = {} /\ cgroup = {} /\ netns = {} /\ link = {}

At(j, pc) == run[j].pc = pc
Goto(j, pc) == run' = [run EXCEPT ![j].pc = pc]

\* The kernel refuses to remove a cgroup with a process in it.
Populated(t) == vmm[t] \in {"vmm", "guest"}

Ended(j) == run[j].pc \in {"refused", "done", "crashed"}

-------------------------------------------------------------------------------
(* Admission.                                                                  *)

TakeLock(j) ==
  /\ At(j, "idle")
  /\ IF lock = NoJob THEN lock' = j /\ Goto(j, "enumerate")
                     ELSE Goto(j, "refused") /\ UNCHANGED lock
  /\ UNCHANGED <<verdict, procVars, traceVars>>

\* The lock is closed and the exception goes to the caller.
Refuse(j) ==
  /\ lock' = NoJob
  /\ run' = [run EXCEPT ![j] = [NewRun EXCEPT !.pc = "refused"]]

\* The tokens of every job that has left any of the four traces.
Enumerate(j) ==
  /\ At(j, "enumerate")
  /\ \/ Refuse(j)
     \/ /\ run' = [run EXCEPT ![j].pc = "reconcile",
                              ![j].todo = jail \cup cgroup \cup netns \cup link]
        /\ UNCHANGED lock
  /\ UNCHANGED <<verdict, procVars, traceVars>>

Reconcile(j) ==
  /\ At(j, "reconcile")
  /\ IF run[j].todo = {} THEN Goto(j, "stage")
     ELSE \E t \in run[j].todo : run' = [run EXCEPT ![j].pc = "kill", ![j].target = t]
  /\ UNCHANGED <<lock, verdict, procVars, traceVars>>

-------------------------------------------------------------------------------
(* Launch.                                                                     *)

\* Any exception, and the end of the work, lead to the finally block.
Teardown(j) == run' = [run EXCEPT ![j].pc = "term", ![j].target = j]

\* The executables and images are staged in a new jail.
Stage(j) ==
  /\ At(j, "stage")
  /\ \/ jail' = jail \cup {j} /\ Goto(j, "netns")
     \/ jail' \in {jail, jail \cup {j}} /\ Teardown(j)
  /\ UNCHANGED <<lock, verdict, procVars, cgroup, netns, link>>

AddNetns(j) ==
  /\ At(j, "netns")
  /\ \/ netns' = netns \cup {j} /\ run' = [run EXCEPT ![j].pc = "link", ![j].net = TRUE]
     \/ /\ run' = [run EXCEPT ![j].pc = "term", ![j].target = j, ![j].net = TRUE]
        /\ UNCHANGED netns
  /\ UNCHANGED <<lock, verdict, procVars, jail, cgroup, link>>

\* A command fails after the link was made: _setup_network cleans up itself, as
\* well as it can, before the finally block does.
AddLink(j) ==
  /\ At(j, "link")
  /\ \/ link' = link \cup {j} /\ Goto(j, "launch") /\ UNCHANGED netns
     \/ /\ Teardown(j)
        /\ link' \in {link, link \cup {j}}
        /\ netns' \in {netns, netns \ {j}}
  /\ UNCHANGED <<lock, verdict, procVars, jail, cgroup>>

Launch(j) ==
  /\ At(j, "launch")
  /\ \/ sup' = [sup EXCEPT ![j] = "boot"] /\ Goto(j, "api")
     \/ Teardown(j) /\ UNCHANGED sup
  /\ UNCHANGED <<lock, verdict, term, vmm, killed, traceVars>>

\* The API socket answers, the VM is configured and InstanceStart sent.
StartInstance(j) ==
  /\ At(j, "api") /\ vmm[j] = "vmm" /\ j \notin killed
  /\ vmm' = [vmm EXCEPT ![j] = "guest"]
  /\ Goto(j, "guest")
  /\ UNCHANGED <<lock, verdict, sup, term, killed, traceVars>>

Finish(j) ==
  /\ At(j, "api") \/ At(j, "guest")
  /\ Teardown(j)
  /\ UNCHANGED <<lock, verdict, procVars, traceVars>>

-------------------------------------------------------------------------------
(* _terminate, _cleanup_network and the removal of the jail: of the job's own  *)
(* traces in the finally block, of another's during reconciliation.            *)

SendTerm(j) ==
  /\ At(j, "term")
  /\ IF sup[j] \in {"none", "gone"} THEN Goto(j, "kill") /\ UNCHANGED term
     ELSE Goto(j, "term_wait") /\ term' = term \cup {j}
  /\ UNCHANGED <<lock, verdict, sup, vmm, killed, traceVars>>

\* The supervisor ends within two seconds, or its group is killed; the jailer
\* is in a group of its own.
AwaitSupervisor(j) ==
  /\ At(j, "term_wait")
  /\ Goto(j, "kill")
  /\ sup' = [sup EXCEPT ![j] = IF sup[j] = "gone" THEN "gone" ELSE "slain"]
  /\ UNCHANGED <<lock, verdict, term, vmm, killed, traceVars>>

\* cgroup.kill, where the cgroup exists and the write succeeds.
KillCgroup(j) ==
  /\ At(j, "kill")
  /\ LET t == run[j].target IN
     \/ t \in cgroup /\ Populated(t) /\ killed' = killed \cup {t}
     \/ UNCHANGED killed
  /\ Goto(j, "settle")
  /\ UNCHANGED <<lock, verdict, sup, term, vmm, traceVars>>

\* Mutant: what the poll of cgroup.events says decides, not the removal.
Mut_RemovalNotChecked(j) ==
  /\ At(j, "settle")
  /\ LET t == run[j].target IN
     \E populated \in {(t \in cgroup /\ Populated(t)), FALSE},
        reaped \in IF t = j /\ sup[j] = "slain" THEN BOOLEAN ELSE {TRUE} :
        /\ cgroup' \in IF populated \/ Populated(t) THEN {cgroup} ELSE {cgroup, cgroup \ {t}}
        /\ run' = [run EXCEPT ![j].pc = "net", ![j].clean = reaped /\ ~populated,
                              ![j].bare = ~populated]
  /\ UNCHANGED <<lock, verdict, procVars, jail, netns, link>>

\* cgroup.events is polled until it says unpopulated, cannot be read (which
\* counts as unpopulated) or two seconds are over; then the cgroup is removed,
\* which fails for one with a process in it.  A killed supervisor may not have
\* been reaped yet.
SettleCgroup(j) ==
  /\ At(j, "settle")
  /\ LET t == run[j].target IN
     \E populated \in {(t \in cgroup /\ Populated(t)), FALSE},
        reaped \in IF t = j /\ sup[j] = "slain" THEN BOOLEAN ELSE {TRUE} :
        /\ cgroup' \in IF populated \/ Populated(t) THEN {cgroup} ELSE {cgroup, cgroup \ {t}}
        /\ run' = [run EXCEPT ![j].pc = "net", ![j].clean = reaped /\ ~populated,
                              ![j].bare = t \notin cgroup']
  /\ UNCHANGED <<lock, verdict, procVars, jail, netns, link>>

\* Mutant: the deletions are not read back.
Mut_NetworkAssumed(j) ==
  /\ At(j, "net")
  /\ LET t == run[j].target IN
     netns' \in {netns, netns \ {t}} /\ link' \in {link, link \ {t}}
  /\ run' = [run EXCEPT ![j].pc = "jail", ![j].offline = TRUE]
  /\ UNCHANGED <<lock, verdict, procVars, jail, cgroup>>

\* Both deletions may fail; the verdict is read back from the host.  A job that
\* never came to its network has nothing to clean.
CleanNetwork(j) ==
  /\ At(j, "net")
  /\ LET t == run[j].target IN
     IF t = j /\ ~run[j].net
     THEN run' = [run EXCEPT ![j].pc = "jail", ![j].offline = TRUE] /\ UNCHANGED <<netns, link>>
     ELSE /\ netns' \in {netns, netns \ {t}}
          /\ link' \in {link, link \ {t}}
          /\ \E seen \in BOOLEAN :
                run' = [run EXCEPT ![j].pc = "jail",
                                   ![j].offline = seen /\ t \notin netns' \cup link']
  /\ UNCHANGED <<lock, verdict, procVars, jail, cgroup>>

\* A stale job's last step: unless all four are gone, the new job is refused.
RemoveStaleJail(j) ==
  /\ At(j, "jail") /\ run[j].target # j
  /\ LET t == run[j].target IN
     /\ jail' \in {jail, jail \ {t}}
     /\ IF run[j].clean /\ run[j].bare /\ run[j].offline /\ t \notin jail'
        THEN /\ run' = [run EXCEPT ![j] =
                          [NewRun EXCEPT !.pc = "reconcile", !.todo = run[j].todo \ {t}]]
             /\ UNCHANGED lock
        ELSE Refuse(j)
  /\ UNCHANGED <<verdict, procVars, cgroup, netns, link>>

\* The job's own last step, and the verdict.
RemoveOwnJail(j) ==
  /\ At(j, "jail") /\ run[j].target = j
  /\ jail' \in {jail, jail \ {j}}
  /\ lock' = NoJob
  /\ verdict' = [verdict EXCEPT ![j] =
       IF run[j].clean /\ run[j].bare /\ run[j].offline /\ j \notin jail'
       THEN "verified" ELSE "unverified"]
  /\ run' = [run EXCEPT ![j] = [NewRun EXCEPT !.pc = "done"]]
  /\ UNCHANGED <<procVars, cgroup, netns, link>>

RunStep(j) ==
  \/ Enumerate(j) \/ Reconcile(j) \/ Stage(j) \/ AddNetns(j) \/ AddLink(j) \/ Launch(j)
  \/ StartInstance(j) \/ Finish(j) \/ SendTerm(j) \/ AwaitSupervisor(j) \/ KillCgroup(j)
  \/ SettleCgroup(j) \/ CleanNetwork(j) \/ RemoveStaleJail(j) \/ RemoveOwnJail(j)

-------------------------------------------------------------------------------
(* The supervisor (_JAILER_SUPERVISOR_CODE), the jailer and Firecracker.       *)

\* SIGTERM before the handlers are installed.
SupervisorFallsEarly(j) ==
  /\ sup[j] = "boot" /\ j \in term
  /\ sup' = [sup EXCEPT ![j] = "gone"]
  /\ UNCHANGED <<lock, run, verdict, term, vmm, killed, traceVars>>

\* Mutant: the parent is not compared with the one expected.
Mut_ParentNotChecked(j) ==
  /\ sup[j] = "boot"
  /\ sup' = [sup EXCEPT ![j] = "armed"]
  /\ UNCHANGED <<lock, run, verdict, term, vmm, killed, traceVars>>

\* PR_SET_PDEATHSIG, then a look at the parent, which may have died before.
SupervisorArms(j) ==
  /\ sup[j] = "boot"
  /\ sup' = [sup EXCEPT ![j] = IF At(j, "crashed") THEN "gone" ELSE "armed"]
  /\ UNCHANGED <<lock, run, verdict, term, vmm, killed, traceVars>>

\* A signal that came before the fork does not prevent it: the handler finds no
\* child yet, and the child is killed once it has its own group.
SupervisorForks(j) ==
  /\ sup[j] = "armed"
  /\ sup' = [sup EXCEPT ![j] = "watching"]
  /\ vmm' = [vmm EXCEPT ![j] = "jailer"]
  /\ UNCHANGED <<lock, run, verdict, term, killed, traceVars>>

SupervisorKills(j) ==
  /\ sup[j] = "watching" /\ j \in term /\ vmm[j] # "gone" /\ j \notin killed
  /\ killed' = killed \cup {j}
  /\ UNCHANGED <<lock, run, verdict, sup, term, vmm, traceVars>>

SupervisorExits(j) ==
  /\ sup[j] = "watching" /\ vmm[j] = "gone"
  /\ sup' = [sup EXCEPT ![j] = "gone"]
  /\ UNCHANGED <<lock, run, verdict, term, vmm, killed, traceVars>>

\* The jailer makes its cgroup, joins the namespace and becomes Firecracker ...
JailerExecs(j) ==
  /\ vmm[j] = "jailer" /\ j \notin killed
  /\ j \in netns
  /\ cgroup' = cgroup \cup {j} /\ jail' = jail \cup {j}
  /\ vmm' = [vmm EXCEPT ![j] = "vmm"]
  /\ UNCHANGED <<lock, run, verdict, sup, term, killed, netns, link>>

\* ... or fails on the way, leaving what it has made so far.
JailerFails(j) ==
  /\ vmm[j] = "jailer" /\ j \notin killed
  /\ cgroup' \in {cgroup, cgroup \cup {j}} /\ jail' \in {jail, jail \cup {j}}
  /\ vmm' = [vmm EXCEPT ![j] = "gone"]
  /\ UNCHANGED <<lock, run, verdict, sup, term, killed, netns, link>>

\* A kill takes effect, or Firecracker ends by itself.
VmmDies(j) ==
  /\ vmm[j] \notin {"none", "gone"}
  /\ vmm' = [vmm EXCEPT ![j] = "gone"]
  /\ UNCHANGED <<lock, run, verdict, sup, term, killed, traceVars>>

\* The orchestrator dies: the lock goes with it, and a supervisor that has
\* armed its death signal gets it.
Crash(j) ==
  /\ ~At(j, "idle") /\ ~Ended(j)
  /\ run' = [run EXCEPT ![j] = [NewRun EXCEPT !.pc = "crashed"]]
  /\ lock' = IF lock = j THEN NoJob ELSE lock
  /\ term' = IF sup[j] \in {"armed", "watching"} THEN term \cup {j} ELSE term
  /\ UNCHANGED <<verdict, sup, vmm, killed, traceVars>>

SupervisorStep(j) ==
  \/ SupervisorArms(j) \/ SupervisorForks(j) \/ SupervisorKills(j) \/ SupervisorExits(j)

KillTakesEffect(j) == j \in killed /\ VmmDies(j)

-------------------------------------------------------------------------------
Next ==
  \E j \in Jobs :
    \/ TakeLock(j) \/ RunStep(j) \/ SupervisorStep(j) \/ SupervisorFallsEarly(j)
    \/ JailerExecs(j) \/ JailerFails(j) \/ VmmDies(j) \/ Crash(j)

\* Every wait of the orchestrator has a deadline, the supervisor does nothing
\* but wait for its child, and a killed process goes in the end.
Fairness ==
  \A j \in Jobs : WF_vars(RunStep(j)) /\ WF_vars(SupervisorStep(j)) /\ WF_vars(KillTakesEffect(j))

Spec == Init /\ [][Next]_vars /\ Fairness

-------------------------------------------------------------------------------
(* Properties.                                                                 *)

\* Jobs are kept apart although a crash frees the lock while the guest still runs
\* and cgroup.events may be unreadable: a new job first sees the old cgroup
\* removed, or is refused, so that no two guests run at the same time.  Past
\* reconciliation no link or namespace of another job is left (every job uses the
\* same addresses), and only jobs whose orchestrator has ended are purged.
JobsKeptApart ==
  /\ Cardinality({j \in Jobs : vmm[j] = "guest"}) <= 1
  /\ \A j \in Jobs : run[j].pc \in {"stage", "netns", "link", "launch", "api", "guest"} =>
       netns \cup link \subseteq {j}
  /\ \A j, t \in Jobs : run[j].target = t /\ t # j => Ended(t)

\* A verified purge is final: the job's network is gone and no guest runs; and
\* if the supervisor ended by itself, every process and every trace is gone and
\* none will come back.
VerifiedIsFinal ==
  \A j \in Jobs : verdict[j] = "verified" =>
    /\ j \notin netns \cup link /\ vmm[j] # "guest"
    /\ sup[j] # "slain" => vmm[j] \in {"none", "gone"} /\ j \notin jail \cup cgroup

\* "A minimal parent-death supervisor kills the jailer/VMM group if the
\* orchestrator itself dies" (RUNBOOK.md:242), also without a next job, and also
\* when it dies while the supervisor is starting.  A supervisor that a teardown
\* has already killed cannot.
OrphanVmmDies ==
  \A j \in Jobs : At(j, "crashed") /\ sup[j] # "slain" ~>
    vmm[j] \in {"none", "gone"} /\ sup[j] \in {"none", "gone"}

===============================================================================
