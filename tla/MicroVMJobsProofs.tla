--------------------------- MODULE MicroVMJobsProofs ---------------------------
(***************************************************************************)
(* Proofs about MicroVMJobs, for any number of jobs: no two guests run at  *)
(* the same time, and a verified purge is final.                           *)
(*                                                                         *)
(* Neither is inductive.  A guest can outlive its orchestrator and with it *)
(* the lock, so what keeps the next job away from it is not the lock but   *)
(* the cgroup, which cannot be removed under a running process: every      *)
(* guest not yet swept is still on the list the new job took, and it is    *)
(* crossed off only when its cgroup was seen to be gone.                   *)
(***************************************************************************)
EXTENDS MicroVMJobs, FiniteSetTheorems, TLAPS

Sweeping == {"kill", "settle", "net", "jail"}
Working == {"stage", "netns", "link", "launch", "api", "guest"}

\* The job is purging what another has left.
Sweeps(j) == At(j, "reconcile") \/ (run[j].pc \in Sweeping /\ run[j].target # j)

\* The job is purging what it has left itself.
Purges(j) == run[j].pc \in Sweeping /\ run[j].target = j

\* The job has not come to its own work.
Early(j) == run[j].pc \in {"idle", "enumerate", "refused"} \/ Sweeps(j)

RunFields == {"pc", "todo", "target", "net", "clean", "bare", "offline"}

JobsTypeOK ==
  /\ lock \in Jobs \cup {NoJob}
  /\ DOMAIN run = Jobs
  /\ \A j \in Jobs : /\ DOMAIN run[j] = RunFields
                     /\ run[j].todo \subseteq Jobs
                     /\ run[j].target \in Jobs \cup {NoJob}
  /\ DOMAIN verdict = Jobs /\ DOMAIN sup = Jobs /\ DOMAIN vmm = Jobs
  /\ jail \subseteq Jobs /\ cgroup \subseteq Jobs /\ netns \subseteq Jobs /\ link \subseteq Jobs

\* Who holds the lock is between admission and its end, and only they are; and
\* a purge has a target.
LockInv(j) ==
  /\ lock = j <=> ~At(j, "idle") /\ ~Ended(j)
  /\ run[j].pc \in {"idle", "enumerate", "reconcile", "term", "term_wait", "refused", "done",
                    "crashed"} \cup Sweeping \cup Working
  /\ run[j].pc \in {"term", "term_wait"} => run[j].target = j
  /\ run[j].pc \notin {"term", "term_wait"} \cup Sweeping => run[j].target = NoJob
  /\ run[j].pc \in Sweeping => run[j].target \in Jobs
  /\ run[j].target \in Jobs \ {j} => Ended(run[j].target)

\* A job that has not come to its own work has left nothing; a jailer needs its
\* supervisor, and one that was not killed outlives it.
ProcessInv(j) ==
  /\ Early(j) => j \notin jail \cup cgroup \cup netns \cup link
  /\ Early(j) \/ run[j].pc \in {"stage", "netns", "link", "launch"} => sup[j] = "none"
  /\ sup[j] \in {"none", "boot", "armed"} => vmm[j] = "none"
  /\ sup[j] = "gone" => vmm[j] \in {"none", "gone"}
  /\ Purges(j) \/ At(j, "done") => sup[j] \in {"none", "gone", "slain"}
  /\ vmm[j] \in {"vmm", "guest"} => j \in cgroup

\* What others have left is on the list until it was seen to be gone.
SweepInv(j) ==
  /\ Sweeps(j) => /\ \A t \in Jobs : vmm[t] = "guest" => t \in run[j].todo
                  /\ netns \cup link \subseteq run[j].todo
                  /\ \A t \in run[j].todo : t # j /\ Ended(t)
  /\ run[j].pc \in Working => /\ \A t \in Jobs : vmm[t] = "guest" => t = j
                              /\ netns \cup link \subseteq {j}

\* What a purge has found out holds as long as the purge lasts.
PurgeInv(j) ==
  /\ run[j].pc \in {"net", "jail"} /\ run[j].bare => vmm[run[j].target] # "guest"
  /\ run[j].pc = "jail" /\ run[j].offline => run[j].target \notin netns \cup link
  /\ Purges(j) /\ run[j].pc \in {"net", "jail"} /\ run[j].bare /\ sup[j] # "slain"
       => j \notin cgroup
  /\ lock = j /\ ~run[j].net => j \notin netns \cup link
  /\ run[j].pc \in {"link", "launch", "api", "guest"} => run[j].net

\* What a verdict says of a job holds from then on.
VerdictInv(j) ==
  verdict[j] = "verified" =>
    /\ At(j, "done")
    /\ j \notin netns \cup link /\ vmm[j] # "guest"
    /\ sup[j] # "slain" => vmm[j] \in {"none", "gone"} /\ j \notin jail \cup cgroup

JobInv(j) == LockInv(j) /\ ProcessInv(j) /\ SweepInv(j) /\ PurgeInv(j) /\ VerdictInv(j)

OneGuest == \A t, u \in Jobs : vmm[t] = "guest" /\ vmm[u] = "guest" => t = u

JobsInv == JobsTypeOK /\ OneGuest /\ \A j \in Jobs : JobInv(j)

\* A step of the orchestrator that holds the lock: nothing of another job
\* changes, except that its traces may go; only an empty cgroup does.
Own(j) ==
  /\ lock = j /\ lock' \in {j, NoJob}
  /\ DOMAIN run' = Jobs /\ \A i \in Jobs \ {j} : run'[i] = run[i]
  /\ DOMAIN run'[j] = RunFields /\ run'[j].todo \subseteq Jobs
  /\ run'[j].target \in Jobs \cup {NoJob}
  /\ DOMAIN verdict' = Jobs /\ DOMAIN sup' = Jobs /\ DOMAIN vmm' = Jobs
  /\ \A i \in Jobs \ {j} : verdict'[i] = verdict[i] /\ sup'[i] = sup[i] /\ vmm'[i] = vmm[i]
  /\ vmm'[j] = "guest" => vmm[j] = "guest" \/ At(j, "api")
  /\ jail' \subseteq jail \cup {j} /\ cgroup' \subseteq cgroup \cup {j}
  /\ netns' \subseteq netns \cup {j} /\ link' \subseteq link \cup {j}
  /\ \A i \in cgroup : vmm[i] \in {"vmm", "guest"} => i \in cgroup'

\* The jobs that do not hold the lock have not begun or have ended, so only what
\* the step does to its own job is left to prove.
LEMMA OwnKeepsInv ==
  ASSUME NEW j \in Jobs, JobsInv, Own(j), JobInv(j)'
  PROVE  JobsInv'
<1>1. JobsTypeOK'
  BY Zenon DEF JobsInv, JobsTypeOK, Own
<1>2. OneGuest'
  BY DEF JobsInv, OneGuest, Own, JobInv, SweepInv, Working, At
<1>3. ASSUME NEW i \in Jobs \ {j} PROVE JobInv(i)'
  <2>1. /\ run'[i] = run[i] /\ verdict'[i] = verdict[i] /\ sup'[i] = sup[i] /\ vmm'[i] = vmm[i]
        /\ i \in jail' \cup cgroup' \cup netns' \cup link' => i \in jail \cup cgroup \cup netns \cup link
        /\ (i \in cgroup' => i \in cgroup) /\ (i \in jail' => i \in jail)
        /\ i \in netns' \cup link' => i \in netns \cup link
        /\ i \in cgroup /\ vmm[i] \in {"vmm", "guest"} => i \in cgroup'
    BY Zenon, <1>3 DEF Own
  <2>2. lock # i /\ lock' # i /\ run[i].pc \in {"idle", "refused", "done", "crashed"}
    BY <1>3, JobsAssumption DEF Own, JobsInv, JobInv, LockInv, At, Ended
  <2>3. JobInv(i)
    BY Zenon DEF JobsInv
  <2>4. LockInv(i)'
    BY Zenon, <2>1, <2>2, <2>3, JobsAssumption DEF JobInv, LockInv, At, Ended, Sweeping, Working
  <2>5. ProcessInv(i)'
    BY Zenon, <2>1, <2>2, <2>3 DEF JobInv, ProcessInv, At, Early, Sweeps, Purges
  <2>6. SweepInv(i)' /\ PurgeInv(i)'
    BY Zenon, <2>1, <2>2 DEF SweepInv, PurgeInv, At, Sweeps, Purges, Sweeping, Working
  <2>7. VerdictInv(i)'
    BY Zenon, <2>1, <2>3 DEF JobInv, VerdictInv, At
  <2> QED BY Zenon, <2>4, <2>5, <2>6, <2>7 DEF JobInv
<1> QED BY Zenon, <1>1, <1>2, <1>3 DEF JobsInv

\* A step of a supervisor, of its jailer or of what the jailer has become: it
\* makes no guest, and none is taken by a process that is not there.
Host(j) ==
  /\ UNCHANGED <<lock, run, verdict, netns, link>>
  /\ DOMAIN sup' = Jobs /\ DOMAIN vmm' = Jobs
  /\ \A i \in Jobs \ {j} : sup'[i] = sup[i] /\ vmm'[i] = vmm[i]
  /\ sup[j] \notin {"none", "gone"} /\ (sup[j] = "slain" => sup'[j] = "slain")
  /\ sup'[j] \in {"none", "boot", "armed"} => vmm'[j] = "none"
  /\ sup'[j] = "gone" => vmm'[j] \in {"none", "gone"}
  /\ vmm'[j] = "guest" => vmm[j] = "guest"
  /\ jail \subseteq jail' /\ jail' \subseteq jail \cup {j}
  /\ cgroup \subseteq cgroup' /\ cgroup' \subseteq cgroup \cup {j}
  /\ vmm'[j] \in {"vmm", "guest"} => j \in cgroup'

LEMMA HostKeepsInv ==
  ASSUME NEW j \in Jobs, JobsInv, Host(j)
  PROVE  JobsInv'
<1>1. JobsTypeOK'
  BY Zenon DEF JobsInv, JobsTypeOK, Host
<1>2. OneGuest'
  BY Zenon DEF JobsInv, OneGuest, Host
<1>3. ASSUME NEW i \in Jobs PROVE JobInv(i)'
  <2>1. JobInv(i)
    BY Zenon DEF JobsInv
  <2>2. LockInv(i)'
    BY Zenon, <2>1 DEF JobInv, LockInv, Host, At, Ended
  <2>3. SweepInv(i)'
    BY Zenon, <2>1 DEF JobInv, SweepInv, Host, At, Ended, Sweeps
  <2>4. ProcessInv(i)'
    <3>1. CASE i = j
      BY Zenon, <2>1, <3>1 DEF JobInv, ProcessInv, Host, At, Early, Sweeps, Purges
    <3>2. CASE i # j
      BY Zenon, <2>1, <3>2 DEF JobInv, ProcessInv, Host, At, Early, Sweeps, Purges
    <3> QED BY Zenon, <3>1, <3>2
  <2>5. PurgeInv(i)'
    <3>1. run[i].pc \in {"net", "jail"} => run[i].target \in Jobs
      BY Zenon, <2>1 DEF JobInv, LockInv, Sweeping
    <3>2. CASE i = j
      BY Zenon, <2>1, <3>1, <3>2 DEF JobInv, ProcessInv, PurgeInv, Host, Purges
    <3>3. CASE i # j
      BY Zenon, <2>1, <3>1, <3>3 DEF JobInv, PurgeInv, Host, Purges
    <3> QED BY Zenon, <3>2, <3>3
  <2>6. VerdictInv(i)'
    <3>1. CASE i = j
      BY Zenon, <2>1, <3>1 DEF JobInv, ProcessInv, VerdictInv, Host, At
    <3>2. CASE i # j
      BY Zenon, <2>1, <3>2 DEF JobInv, VerdictInv, Host, At
    <3> QED BY Zenon, <3>1, <3>2
  <2> QED BY Zenon, <2>2, <2>3, <2>4, <2>5, <2>6 DEF JobInv
<1> QED BY Zenon, <1>1, <1>2, <1>3 DEF JobsInv

\* The lock, the list of leftovers and the choice of the next of them.
LEMMA AdmissionKeepsInv ==
  ASSUME NEW j \in Jobs, JobsInv, TakeLock(j) \/ Enumerate(j) \/ Reconcile(j)
  PROVE  JobsInv'
<1>0. JobsTypeOK /\ JobInv(j)
  BY Zenon DEF JobsInv
<1> USE <1>0, JobsAssumption
    DEF JobsTypeOK, JobInv, RunFields, At, Ended, Early, Sweeps, Purges, Sweeping, Working,
        procVars, traceVars
<1>1. CASE TakeLock(j)
  <2>1. /\ run[j].pc = "idle" /\ DOMAIN run' = Jobs /\ \A i \in Jobs \ {j} : run'[i] = run[i]
        /\ DOMAIN run'[j] = RunFields /\ run'[j].todo = run[j].todo
        /\ run'[j].target = run[j].target /\ run'[j].net = run[j].net
        /\ \/ lock = NoJob /\ lock' = j /\ run'[j].pc = "enumerate"
           \/ lock # NoJob /\ lock' = lock /\ run'[j].pc = "refused"
        /\ UNCHANGED <<verdict, procVars, traceVars>>
    BY <1>1 DEF TakeLock, Goto
  <2>2. JobsTypeOK' /\ OneGuest'
    BY <2>1 DEF JobsInv, OneGuest
  <2>3. JobInv(j)'
    <3>1. LockInv(j)'
      BY Zenon, <2>1 DEF LockInv
    <3>2. SweepInv(j)'
      BY Zenon, <2>1 DEF SweepInv
    <3>3. ProcessInv(j)'
      BY Zenon, <2>1 DEF ProcessInv
    <3>4. PurgeInv(j)' /\ VerdictInv(j)'
      BY Zenon, <2>1 DEF LockInv, ProcessInv, PurgeInv, VerdictInv
    <3> QED BY Zenon, <3>1, <3>2, <3>3, <3>4
  <2>4. ASSUME NEW i \in Jobs \ {j} PROVE JobInv(i)'
    <3>1. JobInv(i)
      BY Zenon, <2>4 DEF JobsInv
    <3>2. run'[i] = run[i] /\ (lock' = i <=> lock = i)
      BY <2>1, <2>4
    <3>3. \A t \in Jobs : Ended(t) => run'[t] = run[t]
      BY Zenon, <2>1
    <3>4. LockInv(i)'
      BY <3>1, <3>2, <3>3 DEF LockInv
    <3>5. SweepInv(i)'
      BY Zenon, <2>1, <3>1, <3>2, <3>3 DEF SweepInv
    <3>6. ProcessInv(i)'
      BY Zenon, <2>1, <3>1, <3>2 DEF ProcessInv
    <3>7. PurgeInv(i)' /\ VerdictInv(i)'
      BY Zenon, <2>1, <3>1, <3>2 DEF PurgeInv, VerdictInv
    <3> QED BY Zenon, <3>4, <3>5, <3>6, <3>7
  <2> QED BY Zenon, <2>2, <2>3, <2>4 DEF JobsInv
<1>2. CASE Enumerate(j)
  <2>1. Own(j)
    BY <1>2 DEF Enumerate, Refuse, NewRun, LockInv, Own
  <2>2. LockInv(j)'
    BY <1>2 DEF Enumerate, Refuse, NewRun, LockInv, SweepInv
  <2>3. ProcessInv(j)'
    BY Zenon, <1>2 DEF Enumerate, Refuse, NewRun, LockInv, ProcessInv
  <2>4. SweepInv(j)'
    BY <1>2 DEF Enumerate, Refuse, NewRun, JobsInv, LockInv, ProcessInv, SweepInv
  <2>5. PurgeInv(j)' /\ VerdictInv(j)'
    BY <1>2 DEF Enumerate, Refuse, NewRun, LockInv, ProcessInv, PurgeInv, VerdictInv
  <2>6. QED BY Zenon, <2>1, <2>2, <2>3, <2>4, <2>5, OwnKeepsInv DEF JobInv
<1>3. CASE Reconcile(j)
  <2>1. Own(j)
    BY <1>3 DEF Reconcile, Goto, LockInv, Own
  <2>2. LockInv(j)'
    BY <1>3 DEF Reconcile, Goto, LockInv, SweepInv
  <2>3. ProcessInv(j)'
    BY Zenon, <1>3 DEF Reconcile, Goto, LockInv, ProcessInv
  <2>4. SweepInv(j)'
    BY <1>3 DEF Reconcile, Goto, LockInv, ProcessInv, SweepInv
  <2>5. PurgeInv(j)' /\ VerdictInv(j)'
    BY SMTT(20), <1>3 DEF Reconcile, Goto, LockInv, ProcessInv, PurgeInv, VerdictInv
  <2>6. QED BY Zenon, <2>1, <2>2, <2>3, <2>4, <2>5, OwnKeepsInv DEF JobInv
<1> QED BY Zenon, <1>1, <1>2, <1>3

\* The job's own work, from the staging to the guest.
LEMMA LaunchKeepsInv ==
  ASSUME NEW j \in Jobs, JobsInv,
         \/ Stage(j) \/ AddNetns(j) \/ AddLink(j) \/ Launch(j) \/ StartInstance(j)
         \/ Finish(j)
  PROVE  JobsInv'
<1>0. JobsTypeOK /\ JobInv(j)
  BY Zenon DEF JobsInv
<1> USE <1>0, JobsAssumption
    DEF JobsTypeOK, JobInv, RunFields, At, Ended, Early, Sweeps, Purges, Sweeping, Working,
        procVars, traceVars
<1>1. CASE Stage(j)
  <2>1. Own(j)
    BY <1>1 DEF Stage, Goto, Teardown, LockInv, Own
  <2>2. LockInv(j)'
    BY <1>1 DEF Stage, Goto, Teardown, LockInv, SweepInv
  <2>3. ProcessInv(j)'
    BY <1>1 DEF Stage, Goto, Teardown, LockInv, ProcessInv
  <2>4. SweepInv(j)'
    BY <1>1 DEF Stage, Goto, Teardown, LockInv, ProcessInv, SweepInv
  <2>5. PurgeInv(j)' /\ VerdictInv(j)'
    BY <1>1 DEF Stage, Goto, Teardown, LockInv, ProcessInv, PurgeInv, VerdictInv
  <2>6. QED BY Zenon, <2>1, <2>2, <2>3, <2>4, <2>5, OwnKeepsInv DEF JobInv
<1>2. CASE AddNetns(j)
  <2>1. Own(j)
    BY <1>2 DEF AddNetns, LockInv, Own
  <2>2. LockInv(j)'
    BY <1>2 DEF AddNetns, LockInv, SweepInv
  <2>3. ProcessInv(j)'
    BY <1>2 DEF AddNetns, LockInv, ProcessInv
  <2>4. SweepInv(j)'
    BY <1>2 DEF AddNetns, LockInv, ProcessInv, SweepInv
  <2>5. PurgeInv(j)' /\ VerdictInv(j)'
    BY <1>2 DEF AddNetns, LockInv, ProcessInv, PurgeInv, VerdictInv
  <2>6. QED BY Zenon, <2>1, <2>2, <2>3, <2>4, <2>5, OwnKeepsInv DEF JobInv
<1>3. CASE AddLink(j)
  <2>1. Own(j)
    BY <1>3 DEF AddLink, Goto, Teardown, LockInv, Own
  <2>2. LockInv(j)'
    BY <1>3 DEF AddLink, Goto, Teardown, LockInv, SweepInv
  <2>3. ProcessInv(j)'
    BY <1>3 DEF AddLink, Goto, Teardown, LockInv, ProcessInv
  <2>4. SweepInv(j)'
    BY <1>3 DEF AddLink, Goto, Teardown, LockInv, ProcessInv, SweepInv
  <2>5. PurgeInv(j)' /\ VerdictInv(j)'
    BY <1>3 DEF AddLink, Goto, Teardown, LockInv, ProcessInv, PurgeInv, VerdictInv
  <2>6. QED BY Zenon, <2>1, <2>2, <2>3, <2>4, <2>5, OwnKeepsInv DEF JobInv
<1>4. CASE Launch(j)
  <2>1. Own(j)
    BY <1>4 DEF Launch, Goto, Teardown, LockInv, Own
  <2>2. LockInv(j)'
    BY <1>4 DEF Launch, Goto, Teardown, LockInv, SweepInv
  <2>3. ProcessInv(j)'
    BY <1>4 DEF Launch, Goto, Teardown, LockInv, ProcessInv
  <2>4. SweepInv(j)'
    BY <1>4 DEF Launch, Goto, Teardown, LockInv, ProcessInv, SweepInv
  <2>5. PurgeInv(j)' /\ VerdictInv(j)'
    BY <1>4 DEF Launch, Goto, Teardown, LockInv, ProcessInv, PurgeInv, VerdictInv
  <2>6. QED BY Zenon, <2>1, <2>2, <2>3, <2>4, <2>5, OwnKeepsInv DEF JobInv
<1>5. CASE StartInstance(j)
  <2>1. Own(j)
    BY <1>5 DEF StartInstance, Goto, LockInv, Own
  <2>2. LockInv(j)'
    BY <1>5 DEF StartInstance, Goto, LockInv, SweepInv
  <2>3. ProcessInv(j)'
    BY <1>5 DEF StartInstance, Goto, LockInv, ProcessInv
  <2>4. SweepInv(j)'
    BY <1>5 DEF StartInstance, Goto, LockInv, ProcessInv, SweepInv
  <2>5. PurgeInv(j)' /\ VerdictInv(j)'
    BY <1>5 DEF StartInstance, Goto, LockInv, ProcessInv, PurgeInv, VerdictInv
  <2>6. QED BY Zenon, <2>1, <2>2, <2>3, <2>4, <2>5, OwnKeepsInv DEF JobInv
<1>6. CASE Finish(j)
  <2>1. Own(j)
    BY <1>6 DEF Finish, Teardown, LockInv, Own
  <2>2. LockInv(j)'
    BY <1>6 DEF Finish, Teardown, LockInv, SweepInv
  <2>3. ProcessInv(j)'
    BY <1>6 DEF Finish, Teardown, LockInv, ProcessInv
  <2>4. SweepInv(j)'
    BY <1>6 DEF Finish, Teardown, LockInv, ProcessInv, SweepInv
  <2>5. PurgeInv(j)' /\ VerdictInv(j)'
    BY SMTT(20), <1>6 DEF Finish, Teardown, LockInv, ProcessInv, PurgeInv, VerdictInv
  <2>6. QED BY Zenon, <2>1, <2>2, <2>3, <2>4, <2>5, OwnKeepsInv DEF JobInv
<1> QED BY Zenon, <1>1, <1>2, <1>3, <1>4, <1>5, <1>6

\* A purge, of the job's own traces or of another's.
LEMMA PurgeKeepsInv ==
  ASSUME NEW j \in Jobs, JobsInv,
         \/ SendTerm(j) \/ AwaitSupervisor(j) \/ KillCgroup(j) \/ SettleCgroup(j)
         \/ CleanNetwork(j) \/ RemoveStaleJail(j) \/ RemoveOwnJail(j)
  PROVE  JobsInv'
<1>0. JobsTypeOK /\ JobInv(j)
  BY Zenon DEF JobsInv
<1> USE <1>0, JobsAssumption
    DEF JobsTypeOK, JobInv, RunFields, At, Ended, Early, Sweeps, Purges, Sweeping, Working,
        procVars, traceVars
<1>1. CASE SendTerm(j)
  <2>1. Own(j)
    BY <1>1 DEF SendTerm, Goto, LockInv, Own
  <2>2. LockInv(j)'
    BY <1>1 DEF SendTerm, Goto, LockInv, SweepInv
  <2>3. ProcessInv(j)'
    BY <1>1 DEF SendTerm, Goto, LockInv, ProcessInv
  <2>4. SweepInv(j)'
    BY <1>1 DEF SendTerm, Goto, LockInv, ProcessInv, SweepInv
  <2>5. PurgeInv(j)' /\ VerdictInv(j)'
    BY <1>1 DEF SendTerm, Goto, LockInv, ProcessInv, PurgeInv, VerdictInv
  <2>6. QED BY Zenon, <2>1, <2>2, <2>3, <2>4, <2>5, OwnKeepsInv DEF JobInv
<1>2. CASE AwaitSupervisor(j)
  <2>1. Own(j)
    BY <1>2 DEF AwaitSupervisor, Goto, LockInv, Own
  <2>2. LockInv(j)'
    BY <1>2 DEF AwaitSupervisor, Goto, LockInv, SweepInv
  <2>3. ProcessInv(j)'
    BY <1>2 DEF AwaitSupervisor, Goto, LockInv, ProcessInv
  <2>4. SweepInv(j)'
    BY <1>2 DEF AwaitSupervisor, Goto, LockInv, ProcessInv, SweepInv
  <2>5. PurgeInv(j)' /\ VerdictInv(j)'
    BY <1>2 DEF AwaitSupervisor, Goto, LockInv, ProcessInv, PurgeInv, VerdictInv
  <2>6. QED BY Zenon, <2>1, <2>2, <2>3, <2>4, <2>5, OwnKeepsInv DEF JobInv
<1>3. CASE KillCgroup(j)
  <2>1. Own(j)
    BY <1>3 DEF KillCgroup, Goto, Populated, LockInv, Own
  <2>2. LockInv(j)'
    BY <1>3 DEF KillCgroup, Goto, Populated, LockInv, SweepInv
  <2>3. ProcessInv(j)'
    BY <1>3 DEF KillCgroup, Goto, Populated, LockInv, ProcessInv
  <2>4. SweepInv(j)'
    BY <1>3 DEF KillCgroup, Goto, Populated, LockInv, ProcessInv, SweepInv
  <2>5. PurgeInv(j)' /\ VerdictInv(j)'
    BY <1>3 DEF KillCgroup, Goto, Populated, LockInv, ProcessInv, PurgeInv, VerdictInv
  <2>6. QED BY Zenon, <2>1, <2>2, <2>3, <2>4, <2>5, OwnKeepsInv DEF JobInv
<1>4. CASE SettleCgroup(j)
  <2> DEFINE removed == run[j].target \notin cgroup'
  <2>1. PICK populated, reaped \in BOOLEAN :
          run' = [run EXCEPT ![j].pc = "net", ![j].clean = reaped /\ ~populated,
                             ![j].bare = removed]
    BY Zenon, <1>4 DEF SettleCgroup
  <2>2. run'[j].bare => removed
    <3> HIDE DEF removed
    <3>1. run'[j].bare = removed
      BY <2>1
    <3> QED BY Zenon, <3>1
  <2>3. /\ run[j].pc = "settle"
        /\ cgroup' \in {cgroup, cgroup \ {run[j].target}}
        /\ vmm[run[j].target] \in {"vmm", "guest"} => cgroup' = cgroup
        /\ UNCHANGED <<lock, verdict, procVars, jail, netns, link>>
    BY Zenon, <1>4 DEF SettleCgroup, Populated
  <2>4. /\ DOMAIN run' = Jobs /\ \A i \in Jobs \ {j} : run'[i] = run[i]
        /\ DOMAIN run'[j] = RunFields /\ run'[j].pc = "net"
        /\ run'[j].todo = run[j].todo /\ run'[j].target = run[j].target
        /\ run'[j].net = run[j].net
    BY SMTT(20), <2>1
  <2>5. run[j].target \in Jobs /\ lock = j
    BY Zenon, <2>3 DEF LockInv
  <2>6. Own(j)
    BY Zenon, <2>3, <2>4, <2>5 DEF Own
  <2>7. LockInv(j)'
    BY SMTT(20), <2>3, <2>4, <2>5 DEF LockInv
  <2>8. ProcessInv(j)'
    BY Zenon, <2>3, <2>4, <2>5 DEF ProcessInv
  <2>9. SweepInv(j)'
    BY Zenon, <2>3, <2>4 DEF SweepInv
  <2>10. run'[j].bare => vmm[run[j].target] # "guest"
    BY Zenon, <2>2, <2>3, <2>5 DEF JobsInv, ProcessInv
  <2>11. PurgeInv(j)'
    BY SMTT(20), <2>2, <2>3, <2>4, <2>5, <2>10 DEF PurgeInv
  <2>12. VerdictInv(j)'
    BY Zenon, <2>3, <2>4 DEF VerdictInv
  <2> QED BY Zenon, <2>6, <2>7, <2>8, <2>9, <2>11, <2>12, OwnKeepsInv DEF JobInv
<1>5. CASE CleanNetwork(j)
  <2>1. /\ run[j].pc = "net" /\ DOMAIN run' = Jobs
        /\ \A i \in Jobs \ {j} : run'[i] = run[i]
        /\ DOMAIN run'[j] = RunFields /\ run'[j].pc = "jail"
        /\ run'[j].todo = run[j].todo /\ run'[j].target = run[j].target
        /\ run'[j].net = run[j].net /\ run'[j].bare = run[j].bare
    BY <1>5 DEF CleanNetwork
  <2>2. netns' \subseteq netns /\ link' \subseteq link
    BY Zenon, <1>5 DEF CleanNetwork
  <2>3. run'[j].offline => run[j].target \notin netns' \cup link'
    <3>1. CASE run[j].target = j /\ ~run[j].net
      <4>1. j \notin netns \cup link
        BY Zenon, <2>1, <3>1 DEF LockInv, PurgeInv
      <4> QED BY SMTT(20), <2>2, <3>1, <4>1
    <3>2. CASE ~(run[j].target = j /\ ~run[j].net)
      <4>1. PICK seen \in BOOLEAN :
              run' = [run EXCEPT ![j].pc = "jail",
                                 ![j].offline = seen /\ run[j].target \notin netns' \cup link']
        BY Zenon, <1>5, <3>2 DEF CleanNetwork
      <4>2. run'[j].offline = (seen /\ run[j].target \notin netns' \cup link')
        BY <4>1
      <4> QED BY Zenon, <4>2
    <3> QED BY Zenon, <3>1, <3>2
  <2>4. UNCHANGED <<lock, verdict, procVars, jail, cgroup>>
    BY Zenon, <1>5 DEF CleanNetwork
  <2>5. run[j].target \in Jobs /\ lock = j
    BY Zenon, <2>1 DEF LockInv
  <2>6. Own(j)
    BY Zenon, <2>1, <2>2, <2>4, <2>5 DEF Own
  <2>7. LockInv(j)'
    BY Zenon, <2>1, <2>4, <2>5 DEF LockInv
  <2>8. ProcessInv(j)'
    BY Zenon, <2>1, <2>2, <2>4, <2>5 DEF ProcessInv
  <2>9. SweepInv(j)'
    BY Zenon, <2>1, <2>2, <2>4 DEF SweepInv
  <2>10. PurgeInv(j)' /\ VerdictInv(j)'
    BY Zenon, <2>1, <2>2, <2>3, <2>4, <2>5 DEF LockInv, ProcessInv, PurgeInv, VerdictInv
  <2> QED BY Zenon, <2>6, <2>7, <2>8, <2>9, <2>10, OwnKeepsInv DEF JobInv
<1>6. CASE RemoveStaleJail(j)
  <2>1. /\ run[j].pc = "jail" /\ run[j].target # j /\ run[j].target \in Jobs /\ lock = j
        /\ jail' \subseteq jail
        /\ UNCHANGED <<verdict, procVars, cgroup, netns, link>>
    BY Zenon, <1>6 DEF RemoveStaleJail, LockInv
  <2>2. CASE Refuse(j)
    <3>1. /\ lock' = NoJob /\ DOMAIN run' = Jobs /\ \A i \in Jobs \ {j} : run'[i] = run[i]
          /\ DOMAIN run'[j] = RunFields /\ run'[j].pc = "refused"
          /\ run'[j].todo = {} /\ run'[j].target = NoJob
      BY Zenon, <2>2 DEF Refuse, NewRun
    <3>2. Own(j)
      BY Zenon, <2>1, <3>1 DEF Own
    <3>3. LockInv(j)' /\ ProcessInv(j)'
      BY Zenon, <2>1, <3>1 DEF LockInv, ProcessInv
    <3>4. SweepInv(j)' /\ PurgeInv(j)' /\ VerdictInv(j)'
      BY Zenon, <2>1, <3>1 DEF SweepInv, PurgeInv, VerdictInv
    <3> QED BY Zenon, <3>2, <3>3, <3>4, OwnKeepsInv DEF JobInv
  <2>3. CASE ~Refuse(j)
    <3>1. run[j].bare /\ run[j].offline /\ UNCHANGED lock
      BY Zenon, <1>6, <2>3 DEF RemoveStaleJail
    <3>2. run' = [run EXCEPT ![j] = [NewRun EXCEPT !.pc = "reconcile",
                                                   !.todo = run[j].todo \ {run[j].target}]]
      BY Zenon, <1>6, <2>3 DEF RemoveStaleJail
    <3>3. /\ DOMAIN run' = Jobs /\ \A i \in Jobs \ {j} : run'[i] = run[i]
          /\ DOMAIN run'[j] = RunFields /\ run'[j].pc = "reconcile"
          /\ run'[j].todo = run[j].todo \ {run[j].target} /\ run'[j].target = NoJob
      BY Zenon, <3>2 DEF NewRun
    <3>4. Own(j)
      BY Zenon, <2>1, <3>1, <3>3 DEF Own
    <3>5. LockInv(j)' /\ ProcessInv(j)'
      BY Zenon, <2>1, <3>1, <3>3 DEF LockInv, ProcessInv
    <3>6. SweepInv(j)'
      <4>1. /\ \A t \in Jobs : vmm[t] = "guest" => t \in run[j].todo \ {run[j].target}
            /\ netns \cup link \subseteq run[j].todo \ {run[j].target}
            /\ \A t \in run[j].todo : t # j /\ Ended(t)
        BY Zenon, <2>1, <3>1 DEF SweepInv, PurgeInv
      <4>2. \A t \in run[j].todo : run'[t] = run[t]
        BY Zenon, <3>3, <4>1
      <4> QED BY SMTT(20), <2>1, <3>3, <4>1, <4>2 DEF SweepInv
    <3>7. PurgeInv(j)' /\ VerdictInv(j)'
      BY Zenon, <2>1, <3>1, <3>3 DEF ProcessInv, PurgeInv, VerdictInv
    <3> QED BY Zenon, <3>4, <3>5, <3>6, <3>7, OwnKeepsInv DEF JobInv
  <2> QED BY Zenon, <2>2, <2>3
<1>7. CASE RemoveOwnJail(j)
  <2>1. Own(j)
    BY Zenon, <1>7 DEF RemoveOwnJail, NewRun, LockInv, Own
  <2>2. LockInv(j)'
    BY Zenon, <1>7 DEF RemoveOwnJail, NewRun, LockInv, SweepInv
  <2>3. ProcessInv(j)'
    BY Zenon, <1>7 DEF RemoveOwnJail, NewRun, LockInv, ProcessInv
  <2>4. SweepInv(j)'
    BY <1>7 DEF RemoveOwnJail, NewRun, LockInv, ProcessInv, SweepInv
  <2>5. PurgeInv(j)' /\ VerdictInv(j)'
    BY <1>7 DEF RemoveOwnJail, NewRun, LockInv, ProcessInv, PurgeInv, VerdictInv
  <2>6. QED BY Zenon, <2>1, <2>2, <2>3, <2>4, <2>5, OwnKeepsInv DEF JobInv
<1> QED BY Zenon, <1>1, <1>2, <1>3, <1>4, <1>5, <1>6, <1>7

\* The supervisor of a jailer, whatever its orchestrator is doing.
LEMMA SupervisorKeepsInv ==
  ASSUME NEW j \in Jobs, JobsInv,
         \/ SupervisorArms(j) \/ SupervisorForks(j) \/ SupervisorKills(j)
         \/ SupervisorExits(j) \/ SupervisorFallsEarly(j)
  PROVE  JobsInv'
<1> USE DEF JobsInv, JobsTypeOK, JobInv, ProcessInv, Host, traceVars
<1>1. CASE SupervisorArms(j)
  <2>1. Host(j)
    BY Zenon, <1>1 DEF SupervisorArms
  <2> QED BY Zenon, <2>1, HostKeepsInv
<1>2. CASE SupervisorForks(j)
  <2>1. Host(j)
    BY Zenon, <1>2 DEF SupervisorForks
  <2> QED BY Zenon, <2>1, HostKeepsInv
<1>3. CASE SupervisorKills(j)
  <2>1. Host(j)
    BY Zenon, <1>3 DEF SupervisorKills
  <2> QED BY Zenon, <2>1, HostKeepsInv
<1>4. CASE SupervisorExits(j)
  <2>1. Host(j)
    BY Zenon, <1>4 DEF SupervisorExits
  <2> QED BY Zenon, <2>1, HostKeepsInv
<1>5. CASE SupervisorFallsEarly(j)
  <2>1. Host(j)
    BY Zenon, <1>5 DEF SupervisorFallsEarly
  <2> QED BY Zenon, <2>1, HostKeepsInv
<1> QED BY Zenon, <1>1, <1>2, <1>3, <1>4, <1>5

\* The jailer and Firecracker; neither can become a guest by itself.
LEMMA JailerKeepsInv ==
  ASSUME NEW j \in Jobs, JobsInv, JailerExecs(j) \/ JailerFails(j) \/ VmmDies(j)
  PROVE  JobsInv'
<1> USE DEF JobsInv, JobsTypeOK, JobInv, ProcessInv, Host, traceVars
<1>1. CASE JailerExecs(j)
  <2>1. Host(j)
    BY Zenon, <1>1 DEF JailerExecs
  <2> QED BY Zenon, <2>1, HostKeepsInv
<1>2. CASE JailerFails(j)
  <2>1. Host(j)
    BY Zenon, <1>2 DEF JailerFails
  <2> QED BY Zenon, <2>1, HostKeepsInv
<1>3. CASE VmmDies(j)
  <2>1. Host(j)
    BY Zenon, <1>3 DEF VmmDies
  <2> QED BY Zenon, <2>1, HostKeepsInv
<1> QED BY Zenon, <1>1, <1>2, <1>3

\* The death of an orchestrator, which frees the lock and removes nothing.
LEMMA CrashKeepsInv ==
  ASSUME NEW j \in Jobs, JobsInv, Crash(j)
  PROVE  JobsInv'
<1>0. JobsTypeOK /\ JobInv(j)
  BY Zenon DEF JobsInv
<1> USE <1>0, JobsAssumption
    DEF JobsTypeOK, JobInv, RunFields, At, Ended, Early, Sweeps, Purges, Sweeping, Working,
        procVars, traceVars
<1>1. Own(j)
  BY Zenon DEF Crash, NewRun, LockInv, Own
<1>2. LockInv(j)' /\ ProcessInv(j)'
  BY DEF Crash, NewRun, LockInv, ProcessInv
<1>3. SweepInv(j)' /\ PurgeInv(j)' /\ VerdictInv(j)'
  BY DEF Crash, NewRun, LockInv, SweepInv, PurgeInv, VerdictInv
<1> QED BY Zenon, <1>1, <1>2, <1>3, OwnKeepsInv DEF JobInv

\* The invariant, for any set of jobs (MicroVMJobs, Init and Next).
THEOREM JobsInvariant == Spec => []JobsInv
<1>1. Init => JobsInv
  <2> SUFFICES ASSUME Init PROVE JobsInv
    BY Zenon
  <2> USE JobsAssumption DEF Init, NewRun
  <2>1. JobsTypeOK /\ OneGuest
    BY Zenon DEF JobsTypeOK, OneGuest, RunFields
  <2>2. ASSUME NEW j \in Jobs PROVE LockInv(j) /\ ProcessInv(j)
    BY Zenon DEF LockInv, ProcessInv, At, Ended, Early, Sweeps, Purges, Sweeping, Working
  <2>3. ASSUME NEW j \in Jobs PROVE SweepInv(j) /\ PurgeInv(j) /\ VerdictInv(j)
    BY Zenon DEF SweepInv, PurgeInv, VerdictInv, At, Sweeps, Purges, Sweeping, Working
  <2> QED BY Zenon, <2>1, <2>2, <2>3 DEF JobsInv, JobInv
<1>2. JobsInv /\ [Next]_vars => JobsInv'
  <2> SUFFICES ASSUME JobsInv, [Next]_vars PROVE JobsInv'
    BY Zenon
  <2>1. ASSUME NEW j \in Jobs, RunStep(j) PROVE JobsInv'
    BY Zenon, <2>1, AdmissionKeepsInv, LaunchKeepsInv, PurgeKeepsInv DEF RunStep
  <2>2. ASSUME NEW j \in Jobs, SupervisorStep(j) \/ SupervisorFallsEarly(j) PROVE JobsInv'
    BY Zenon, <2>2, SupervisorKeepsInv DEF SupervisorStep
  <2>3. CASE Next
    BY Zenon, <2>1, <2>2, <2>3, AdmissionKeepsInv, JailerKeepsInv, CrashKeepsInv DEF Next
  <2>4. CASE UNCHANGED vars
    <3> USE <2>4 DEF vars, procVars, traceVars, JobsInv, At, Ended, Early, Sweeps, Purges
    <3>1. JobsTypeOK' /\ OneGuest'
      BY Zenon DEF JobsTypeOK, OneGuest
    <3>2. ASSUME NEW j \in Jobs PROVE LockInv(j)' /\ ProcessInv(j)'
      BY Zenon DEF JobInv, LockInv, ProcessInv
    <3>3. ASSUME NEW j \in Jobs PROVE SweepInv(j)' /\ PurgeInv(j)' /\ VerdictInv(j)'
      BY Zenon DEF JobInv, SweepInv, PurgeInv, VerdictInv
    <3> QED BY Zenon, <3>1, <3>2, <3>3 DEF JobInv
  <2> QED BY Zenon, <2>3, <2>4
<1> QED BY <1>1, <1>2, PTL DEF Spec

\* However many jobs come one after the other, and wherever their orchestrators
\* die, no two guests run at the same time, a job at work finds no network of
\* another, and only jobs that have ended are purged (_reconcile_stale_jobs).
THEOREM JobsAreKeptApart == Spec => []JobsKeptApart
<1>1. JobsInv => JobsKeptApart
  <2> SUFFICES ASSUME JobsInv PROVE JobsKeptApart
    BY Zenon
  <2> DEFINE G == {j \in Jobs : vmm[j] = "guest"}
  <2>1. Cardinality(G) <= 1
    <3>1. CASE G = {}
      <4>1. Cardinality(G) = 0
        BY Zenon, <3>1, FS_EmptySet
      <4> QED BY <4>1
    <3>2. CASE G # {}
      <4>1. PICK g \in G : G = {g}
        BY <3>2 DEF JobsInv, OneGuest
      <4>2. Cardinality(G) = 1
        BY Zenon, <4>1, FS_Singleton
      <4> QED BY <4>2
    <3> QED BY Zenon, <3>1, <3>2
  <2>2. \A j \in Jobs : run[j].pc \in Working => netns \cup link \subseteq {j}
    BY Zenon DEF JobsInv, JobInv, SweepInv
  <2>3. \A j, t \in Jobs : run[j].target = t /\ t # j => Ended(t)
    BY JobsAssumption DEF JobsInv, JobInv, LockInv
  <2> QED BY Zenon, <2>1, <2>2, <2>3 DEF JobsKeptApart, Working
<1> QED BY <1>1, JobsInvariant, PTL

\* A purge reported as verified is final for every job (_purge_summary).
THEOREM VerifiedPurgeIsFinal == Spec => []VerifiedIsFinal
<1>1. JobsInv => VerifiedIsFinal
  BY Zenon DEF JobsInv, JobInv, VerdictInv, VerifiedIsFinal
<1> QED BY <1>1, JobsInvariant, PTL
===============================================================================
