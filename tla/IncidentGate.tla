----------------------------- MODULE IncidentGate ------------------------------
(***************************************************************************)
(* The Cinder Incident Gate (incident_gate.py) and the verifier of its     *)
(* evidence (scripts/verify-incident-gate-evidence.py).  Runs are threads  *)
(* of one process: they share the evidence directories of mote/detonate.py *)
(* and the lock that guards them.  The verifier is another process, which  *)
(* may look at any time.                                                   *)
(*                                                                         *)
(* A detonation is what LegacyVerdict says of it, reduced to what the gate *)
(* reads in the receipt.  A receipt is named by its run and its probe.     *)
(***************************************************************************)
EXTENDS Integers, FiniteSets, Sequences

CONSTANTS
  Runs,          \* calls of main(["run"]) in one process
  Probes,        \* CINDER_PROBES in order; TRUE when the probe names rules
  Outcomes,      \* what a detonation may observe, a subset of Observed
  Hosts,         \* the hosts considered, a subset of HostStates
  MaxDamage      \* bound on receipts damaged after they were written

Indices == 1..Len(Probes)

Observed ==
  [expected : BOOLEAN,                           \* an expected rule fired
   other : {"none", "anomalous", "known_bad"},   \* the worst rule besides it
   executed : BOOLEAN, isolated : BOOLEAN, purged : BOOLEAN,
   loss : {"none", "rule", "overflow"}]          \* telemetry loss, event budget

\* cgroup_v2 is a hierarchy that can be written, which only root has.
HostStates ==
  {h \in [root : BOOLEAN,
          lacks : SUBSET {"commands", "user_namespaces", "seccomp", "cgroup_v2", "kvm",
                          "firecracker_runtime"},
          snapshot : {"missing", "altered", "good"}] : h.root \/ "cgroup_v2" \in h.lacks}

ASSUME GateAssumption ==
  /\ IsFiniteSet(Runs) /\ {"none", "repo"} \cap Runs = {}
  /\ Probes \in Seq(BOOLEAN) /\ Probes # <<>>
  /\ Outcomes \subseteq Observed /\ Hosts \subseteq HostStates /\ MaxDamage \in Nat

VARIABLES
  host,          \* what the host offers, and its golden snapshot
  said,          \* what the doctor last said, or none
  policy,        \* the version of the active policy
  lock,          \* who holds _EVIDENCE_LOCK, or none
  dirs,          \* whose directories detonate_module writes to: a run's or repo
  pc, at,        \* where each run is, and at which probe
  saved,         \* previous in _detonation_evidence_scope
  receipts,      \* receipts[d][r][i]: in d's directory, of probe i of run r
  results,       \* the results of each run, in order
  manifest,      \* cinder-incident-gate.json of each run
  exit,          \* the exit code of each run, or none
  damage,
  verified       \* what the verifier last said, and of which run

evidence == <<receipts, damage>>
vars == <<host, said, policy, lock, dirs, pc, at, saved, evidence, results, manifest,
          exit, verified>>

NoReceipt == [kind |-> "none"]
Directories == Runs \cup {"repo"}

Init ==
  /\ host \in Hosts /\ said = "none" /\ policy = 1
  /\ lock = "none" /\ dirs = "repo"
  /\ pc = [r \in Runs |-> "start"] /\ at = [r \in Runs |-> 1]
  /\ saved = [r \in Runs |-> "repo"]
  /\ receipts = [d \in Directories |-> [r \in Runs |-> [i \in Indices |-> NoReceipt]]]
  /\ results = [r \in Runs |-> <<>>] /\ manifest = [r \in Runs |-> [kind |-> "none"]]
  /\ exit = [r \in Runs |-> -1] /\ damage = 0 /\ verified = <<"none", "none">>

-------------------------------------------------------------------------------
(* The doctor.                                                                 *)

\* The checks that failed, and those of them that are not required here.  The
\* integrity of a snapshot is checked only when there is one.
FailedChecks ==
  host.lacks \cup (IF host.snapshot = "good" THEN {} ELSE {"snapshot"})
OptionalChecks == {"kvm", "firecracker_runtime"} \cup IF host.root THEN {} ELSE {"cgroup_v2"}

RunDoctor ==
  /\ said' = IF FailedChecks \ OptionalChecks # {} THEN "FAIL_PREREQUISITES_MISSING"
             ELSE IF FailedChecks # {} THEN "DEGRADED" ELSE "READY"
  /\ said = "none"
  /\ UNCHANGED <<host, policy, lock, dirs, pc, at, saved, evidence, results, manifest,
                 exit, verified>>

-------------------------------------------------------------------------------
(* One detonation.                                                             *)

\* What a detonation of probe i can reach on this host.  One that never executed
\* the payload has no finding but a loss, or that its wall clock ran out.
Possible(o, i) ==
  /\ o.expected => Probes[i]
  /\ o.isolated => /\ host.lacks \cap {"commands", "seccomp"} = {}
                   /\ "cgroup_v2" \notin host.lacks \/ ~host.root
                   /\ "user_namespaces" \notin host.lacks \/ host.root
  /\ ~o.isolated => ~o.executed /\ o.loss = "rule"
  /\ ~o.executed => ~o.expected /\ o.other \in {"none", "anomalous"}

\* The receipt of a detonation, as far as the gate reads it.  That the payload was
\* not seen to execute is held against a run only when it has no finding.
ReceiptOf(o) ==
  LET unseen == o.isolated /\ ~o.executed /\ o.loss # "rule" /\ o.other = "none"
      incomplete == unseen \/ o.loss # "none" \/ ~o.purged
      hostile == o.expected \/ o.other = "known_bad" \/ o.loss = "rule" \/ ~o.purged
  IN  [kind |-> "whole", policy |-> policy, expected |-> o.expected,
       risk |-> IF hostile THEN 2 ELSE IF o.other = "anomalous" \/ unseen THEN 1 ELSE 0,
       decision |-> IF unseen THEN "EVALUATION_INCOMPLETE"
                    ELSE IF hostile \/ o.other = "anomalous" THEN "DENY" ELSE "ALLOW",
       isolated |-> o.isolated, purged |-> o.purged, incomplete |-> incomplete,
       observation |-> IF unseen THEN "EVALUATION_INCOMPLETE"
                       ELSE IF ~o.isolated \/ incomplete THEN "absent" ELSE "COMPLETE"]

\* Mutant: a receipt without an observation section passes for a complete one.
Mut_EvaluateReceipt(i, rc) ==
  LET status == IF rc.observation # "EVALUATION_INCOMPLETE" THEN "COMPLETE"
                ELSE "EVALUATION_INCOMPLETE" IN
  [probe |-> i, job |-> TRUE, error |-> FALSE, risk |-> rc.risk, decision |-> rc.decision,
   expected |-> rc.expected, isolated |-> rc.isolated, purged |-> rc.purged, status |-> status,
   held |-> rc.risk >= 2 /\ rc.decision = "DENY" /\ (Probes[i] => rc.expected)
            /\ rc.isolated /\ rc.purged /\ status = "COMPLETE"]

\* _evaluate_receipt; every canonical probe expects hostile and DENY.
EvaluateReceipt(i, rc) ==
  LET status == IF rc.observation = "COMPLETE" THEN "COMPLETE" ELSE "EVALUATION_INCOMPLETE" IN
  [probe |-> i, job |-> TRUE, error |-> FALSE, risk |-> rc.risk, decision |-> rc.decision,
   expected |-> rc.expected, isolated |-> rc.isolated, purged |-> rc.purged, status |-> status,
   held |-> /\ rc.risk >= 2 /\ rc.decision = "DENY" /\ (Probes[i] => rc.expected)
            /\ rc.isolated /\ rc.purged /\ status = "COMPLETE" /\ ~rc.incomplete]

\* What the exception handler of _run_probe_scoped returns.
ErrorResult(i) ==
  [probe |-> i, job |-> FALSE, error |-> TRUE, risk |-> -1, decision |-> "ERROR",
   expected |-> FALSE, isolated |-> FALSE, purged |-> FALSE,
   status |-> "EVALUATION_INCOMPLETE", held |-> FALSE]

-------------------------------------------------------------------------------
(* A run.                                                                      *)

At(r, from, to) == pc[r] = from /\ pc' = [pc EXCEPT ![r] = to]

\* _ensure_snapshot and the evidence tree: built when missing, refused when altered.
Start(r) ==
  /\ IF host.snapshot = "altered"
       THEN At(r, "start", "raised") /\ UNCHANGED host
       ELSE At(r, "start", "probe") /\ host' = [host EXCEPT !.snapshot = "good"]
  /\ UNCHANGED <<said, policy, lock, dirs, at, saved, evidence, results, manifest, exit,
                 verified>>

\* The snapshot cannot be built, or the tree is a symlink or cannot be made.
CannotStart(r) ==
  /\ At(r, "start", "raised")
  /\ UNCHANGED <<host, said, policy, lock, dirs, at, saved, evidence, results, manifest,
                 exit, verified>>

\* Mutant: the scope is entered without the lock.
Mut_EnterScope(r) ==
  /\ At(r, "probe", "detonating") /\ lock' = r
  /\ saved' = [saved EXCEPT ![r] = dirs] /\ dirs' = r
  /\ UNCHANGED <<host, said, policy, at, evidence, results, manifest, exit, verified>>

EnterScope(r) ==
  /\ lock = "none" /\ lock' = r
  /\ At(r, "probe", "detonating")
  /\ saved' = [saved EXCEPT ![r] = dirs] /\ dirs' = r
  /\ UNCHANGED <<host, said, policy, at, evidence, results, manifest, exit, verified>>

\* detonate returns a receipt, which it wrote to the directories of the moment.
Detonate(r) ==
  /\ At(r, "detonating", "leave")
  /\ \E o \in Outcomes :
       /\ Possible(o, at[r])
       /\ receipts' = [receipts EXCEPT ![dirs][r][at[r]] = ReceiptOf(o)]
       /\ results' = [results EXCEPT ![r] = Append(@, EvaluateReceipt(at[r], ReceiptOf(o)))]
  /\ UNCHANGED <<host, said, policy, lock, dirs, at, saved, damage, manifest, exit, verified>>

\* detonate raises: before it wrote a receipt, or after it had.
DetonateRaises(r) ==
  /\ At(r, "detonating", "leave")
  /\ \/ UNCHANGED receipts
     \/ \E o \in Outcomes :
          Possible(o, at[r]) /\ receipts' = [receipts EXCEPT ![dirs][r][at[r]] = ReceiptOf(o)]
  /\ results' = [results EXCEPT ![r] = Append(@, ErrorResult(at[r]))]
  /\ UNCHANGED <<host, said, policy, lock, dirs, at, saved, damage, manifest, exit, verified>>

\* The finally of the scope; then the next probe, or the summary.
LeaveScope(r) ==
  /\ pc[r] = "leave" /\ lock' = "none" /\ dirs' = saved[r]
  /\ pc' = [pc EXCEPT ![r] = IF at[r] = Len(Probes) THEN "summary" ELSE "probe"]
  /\ at' = [at EXCEPT ![r] = IF @ = Len(Probes) THEN @ ELSE @ + 1]
  /\ UNCHANGED <<host, said, policy, saved, evidence, results, manifest, exit, verified>>

\* What is no Exception passes through the finally and ends the run.
Interrupt(r) ==
  /\ At(r, "detonating", "raised") /\ lock' = "none" /\ dirs' = saved[r]
  /\ UNCHANGED <<host, said, policy, at, saved, evidence, results, manifest, exit, verified>>

AllHeld(rs) == \A k \in DOMAIN rs : rs[k].held

OverallStatus(rs) ==
  IF AllHeld(rs) THEN "ALL_BOUNDARIES_HELD"
  ELSE IF \E k \in DOMAIN rs : ~rs[k].isolated \/ ~rs[k].purged THEN "BOUNDARY_FAILURE_DETECTED"
  ELSE IF \E k \in DOMAIN rs : rs[k].error \/ rs[k].status # "COMPLETE" THEN "EVALUATION_INCOMPLETE"
  ELSE "CONTAINMENT_TEST_FAILED"

\* The children are the receipts named by a result that are in the run's tree,
\* with their hash, which stands for the receipt itself.
Children(r) ==
  {i \in Indices : /\ \E k \in DOMAIN results[r] : results[r][k].probe = i /\ results[r][k].job
                   /\ receipts[r][r][i] # NoReceipt}

Master(r) ==
  [kind |-> "whole", results |-> results[r], status |-> OverallStatus(results[r]),
   contained |-> AllHeld(results[r]),
   children |-> [i \in Children(r) |-> receipts[r][r][i]]]

\* One os.write, which may be short, then the rename.
WriteManifest(r) ==
  /\ At(r, "summary", "manifest")
  /\ \E m \in {Master(r), [kind |-> "torn"]} : manifest' = [manifest EXCEPT ![r] = m]
  /\ UNCHANGED <<host, said, policy, lock, dirs, at, saved, evidence, results, exit, verified>>

\* The report, and the exit code.
Finish(r) ==
  /\ At(r, "manifest", "done")
  /\ exit' = [exit EXCEPT ![r] = IF AllHeld(results[r]) THEN 0 ELSE 1]
  /\ UNCHANGED <<host, said, policy, lock, dirs, at, saved, evidence, results, manifest,
                 verified>>

\* The manifest or the report cannot be written.
CannotWrite(r) ==
  /\ At(r, "summary", "raised") \/ At(r, "manifest", "raised")
  /\ UNCHANGED <<host, said, policy, lock, dirs, at, saved, evidence, results, manifest,
                 exit, verified>>

Ended == {"done", "raised", "killed"}

\* The process dies, and with it every run.
Kill ==
  /\ \E r \in Runs : pc[r] \notin Ended
  /\ pc' = [r \in Runs |-> IF pc[r] \in Ended THEN pc[r] ELSE "killed"]
  /\ UNCHANGED <<host, said, policy, lock, dirs, at, saved, evidence, results, manifest,
                 exit, verified>>

-------------------------------------------------------------------------------
(* The evidence afterwards.                                                    *)

\* A receipt on disk is damaged or lost.
Damage(r, i) ==
  /\ damage < MaxDamage /\ damage' = damage + 1
  /\ receipts[r][r][i].kind = "whole"
  /\ \E bad \in {NoReceipt, [kind |-> "damaged"]} :
       receipts' = [receipts EXCEPT ![r][r][i] = bad]
  /\ UNCHANGED <<host, said, policy, lock, dirs, pc, at, saved, results, manifest, exit,
                 verified>>

\* The repository's policy moves on to its next version.
UpdatePolicy ==
  /\ \A r \in Runs : pc[r] \in Ended
  /\ policy = 1 /\ policy' = 2
  /\ UNCHANGED <<host, said, lock, dirs, pc, at, saved, evidence, results, manifest, exit,
                 verified>>

\* The verifier's own derivation of a result from the signed receipt.
Derived(i, rc) ==
  LET status == IF rc.observation = "COMPLETE" THEN "COMPLETE" ELSE "EVALUATION_INCOMPLETE" IN
  [risk |-> rc.risk, decision |-> rc.decision, expected |-> rc.expected,
   isolated |-> rc.isolated, purged |-> rc.purged, status |-> status,
   held |-> /\ rc.risk >= 2 /\ rc.decision = "DENY" /\ (Probes[i] => rc.expected)
            /\ rc.isolated /\ rc.purged /\ status = "COMPLETE" /\ ~rc.incomplete]

Agrees(result, rc) ==
  LET d == Derived(result.probe, rc) IN \A f \in DOMAIN d : result[f] = d[f]

\* Mutant: a child whose hash no longer matches is passed over.
Mut_Verifies(m, tree) ==
  LET jobs == {m.results[k].probe : k \in {j \in DOMAIN m.results : m.results[j].job}} IN
  /\ Len(m.results) = Cardinality(DOMAIN m.children) /\ jobs = DOMAIN m.children
  /\ \A k \in DOMAIN m.results :
       tree[m.results[k].probe].kind = "whole" => Agrees(m.results[k], tree[m.results[k].probe])
  /\ {m.results[k].probe : k \in DOMAIN m.results} = Indices
  /\ m.contained = AllHeld(m.results) /\ m.status = OverallStatus(m.results)

\* verify_run with --expect-all, for a manifest that parses.
Verifies(m, tree) ==
  LET jobs == {m.results[k].probe : k \in {j \in DOMAIN m.results : m.results[j].job}} IN
  /\ \A i \in DOMAIN m.children : tree[i].kind = "whole" /\ tree[i] = m.children[i] /\ tree[i].policy = policy
  /\ Len(m.results) = Cardinality(DOMAIN m.children) /\ jobs = DOMAIN m.children
  /\ \A k \in DOMAIN m.results :
       m.results[k].probe \in DOMAIN m.children => Agrees(m.results[k], tree[m.results[k].probe])
  /\ {m.results[k].probe : k \in DOMAIN m.results} = Indices
  /\ m.contained = AllHeld(m.results) /\ m.status = OverallStatus(m.results)

VerifyRun(r) ==
  /\ verified' = <<r, IF manifest[r].kind # "whole" THEN "raised"
                      ELSE IF Verifies(manifest[r], receipts[r][r]) THEN "yes" ELSE "no">>
  /\ UNCHANGED <<host, said, policy, lock, dirs, pc, at, saved, evidence, results, manifest,
                 exit>>

Idle == (\A r \in Runs : pc[r] \in Ended) /\ UNCHANGED vars

RunStep(r) ==
  \/ Start(r) \/ CannotStart(r) \/ EnterScope(r) \/ Detonate(r) \/ DetonateRaises(r)
  \/ LeaveScope(r) \/ Interrupt(r) \/ WriteManifest(r) \/ Finish(r) \/ CannotWrite(r)

Next ==
  \/ \E r \in Runs : RunStep(r) \/ VerifyRun(r) \/ \E i \in Indices : Damage(r, i)
  \/ RunDoctor \/ Kill \/ UpdatePolicy \/ Idle

Spec == Init /\ [][Next]_vars

-------------------------------------------------------------------------------
(* Properties.                                                                 *)

\* What the documentation asks of a probe that passes, read off a receipt.
Contained(i, rc) ==
  /\ rc.kind = "whole" /\ rc.risk = 2 /\ rc.decision = "DENY" /\ (Probes[i] => rc.expected)
  /\ rc.isolated /\ rc.purged /\ ~rc.incomplete /\ rc.observation = "COMPLETE"

\* However the threads interleave, a receipt is only ever in the tree of the run
\* that made it, and the repository's directories are back whenever no detonation
\* is under way.
EvidenceStaysHome ==
  /\ \A d \in Directories, r \in Runs, i \in Indices : d # r => receipts[d][r][i] = NoReceipt
  /\ lock = "none" => dirs = "repo"

\* A run exits with 0 only when, for every probe, its own tree was given a receipt
\* that shows containment (one that was damaged later may have gone), and on no host
\* that the doctor called unfit, unless for want of the snapshot the run itself made,
\* or of unprivileged user namespaces, which the doctor asks of root as well.
ExitZeroIsEarned ==
  \A r \in Runs : exit[r] = 0 =>
    /\ Cardinality({i \in Indices : ~Contained(i, receipts[r][r][i])}) <= damage
    /\ said = "FAIL_PREREQUISITES_MISSING" =>
         host.lacks \subseteq OptionalChecks \cup IF host.root THEN {"user_namespaces"} ELSE {}

\* The verifier, whenever it runs, confirms only a run whose every canonical probe
\* has an undamaged receipt under the active policy, and as held only one whose
\* receipts all show containment.  Nor does it refuse an honest run, failed or held:
\* one whose manifest is whole and whose detonations all returned, while its
\* receipts and the policy are unchanged.
VerifierIsExact ==
  [][\A r \in Runs : VerifyRun(r) =>
       /\ verified' = <<r, "yes">> =>
            /\ \A i \in Indices :
                 receipts[r][r][i].kind = "whole" /\ receipts[r][r][i].policy = policy
            /\ manifest[r].status = "ALL_BOUNDARIES_HELD" =>
                 \A i \in Indices : Contained(i, receipts[r][r][i])
       /\ (/\ manifest[r].kind = "whole" /\ damage = 0 /\ policy = 1
           /\ \A k \in DOMAIN results[r] : ~results[r][k].error)
            => verified' = <<r, "yes">>]_vars
===============================================================================
