--------------------------- MODULE IncidentGateProofs ---------------------------
(***************************************************************************)
(* Proofs about concurrent runs of the Incident Gate, for every number of  *)
(* runs, list of probes, host and bound on damage: their evidence is never *)
(* mixed, exit code 0 is earned, and the verifier accepts exactly the      *)
(* evidence that the run would have.                                       *)
(*                                                                         *)
(* EvidenceStaysHome follows from the discipline of _EVIDENCE_LOCK: a run  *)
(* inside the scope holds the lock, whoever holds it has put its own       *)
(* directories in place, and has saved the repository's to put back.       *)
(***************************************************************************)
EXTENDS IncidentGate, FiniteSetTheorems, TLAPS

Stages == {"start", "probe", "detonating", "leave", "summary", "manifest"} \cup Ended

\* The scope: who is inside it, whose directories are in place, what is put back.
ScopeInv ==
  /\ pc \in [Runs -> Stages] /\ saved \in [Runs -> Directories]
  /\ lock \in Runs \cup {"none"}
  /\ \A r \in Runs : pc[r] \in {"detonating", "leave"} => lock = r
  /\ lock = "none" => dirs = "repo"
  /\ lock # "none" => dirs = lock /\ saved[lock] = "repo"

\* The probe a run has come to is one of the list.
ProbeInv == at \in [Runs -> Indices]

\* No receipt is in another run's tree, nor in the repository's.
HomeInv ==
  /\ DOMAIN receipts = Directories
  /\ \A d \in Directories : DOMAIN receipts[d] = Runs
  /\ \A d \in Directories, r \in Runs : DOMAIN receipts[d][r] = Indices
  /\ \A d \in Directories, r \in Runs, i \in Indices : d # r => receipts[d][r][i] = NoReceipt

EvidenceInv == ScopeInv /\ ProbeInv /\ HomeInv

\* No run goes by the name of the repository or of nobody.
LEMMA NamesApart == "none" \notin Runs /\ "repo" \notin Runs
BY Zenon, GateAssumption

\* There is a probe, and the list has an end.
LEMMA ProbeListEnds == Len(Probes) \in Nat /\ Len(Probes) >= 1
BY GateAssumption

\* A receipt put in the tree of its own run leaves every other tree as it was.
LEMMA ReceiptInOwnTree ==
  ASSUME HomeInv, NEW r \in Runs, NEW i \in Indices, NEW rc,
         receipts' = [receipts EXCEPT ![r][r][i] = rc]
  PROVE  HomeInv'
BY DEF HomeInv, Directories

\* Moving on outside the scope leaves the scope alone.
LEMMA OutsideScope ==
  ASSUME ScopeInv, NEW r \in Runs, NEW from \in Stages, NEW to \in Stages, At(r, from, to),
         to \notin {"detonating", "leave"}, UNCHANGED <<lock, dirs, saved>>
  PROVE  ScopeInv'
BY Zenon DEF ScopeInv, At

\* Every step of a run keeps the invariant.
LEMMA RunKeepsInv ==
  ASSUME EvidenceInv, NEW r \in Runs, RunStep(r)
  PROVE  EvidenceInv'
<1> USE DEF evidence
<1>a. ASSUME UNCHANGED receipts PROVE HomeInv'
  BY <1>a DEF EvidenceInv, HomeInv
<1>b. ASSUME UNCHANGED at PROVE ProbeInv'
  BY Zenon, <1>b DEF EvidenceInv, ProbeInv
<1>1. CASE Start(r) \/ CannotStart(r) \/ WriteManifest(r) \/ Finish(r) \/ CannotWrite(r)
  <2>1. UNCHANGED <<lock, dirs, saved, at, receipts>>
    BY Zenon, <1>1 DEF Start, CannotStart, WriteManifest, Finish, CannotWrite
  <2>2. \E from, to \in Stages : to \notin {"detonating", "leave"} /\ At(r, from, to)
    BY Zenon, <1>1 DEF Start, CannotStart, WriteManifest, Finish, CannotWrite, Stages, Ended
  <2>3. QED
    BY Zenon, <2>1, <2>2, <1>a, <1>b, OutsideScope DEF EvidenceInv
<1>2. CASE EnterScope(r)
  <2>1. ScopeInv'
    BY Zenon, <1>2, NamesApart DEF EnterScope, At, EvidenceInv, ScopeInv, Stages, Directories
  <2>2. QED
    BY Zenon, <1>2, <2>1, <1>a, <1>b DEF EnterScope, EvidenceInv
<1>3. CASE Detonate(r) \/ DetonateRaises(r)
  <2>1. lock = r /\ dirs = r
    BY Zenon, <1>3, NamesApart DEF Detonate, DetonateRaises, At, EvidenceInv, ScopeInv
  <2>2. UNCHANGED receipts \/ \E rc : receipts' = [receipts EXCEPT ![r][r][at[r]] = rc]
    BY Zenon, <1>3, <2>1 DEF Detonate, DetonateRaises
  <2>3. HomeInv'
    BY Zenon, <2>2, <1>a, ReceiptInOwnTree DEF EvidenceInv, ProbeInv
  <2>4. ScopeInv'
    BY Zenon, <1>3, <2>1 DEF Detonate, DetonateRaises, At, EvidenceInv, ScopeInv, Stages
  <2>5. QED
    BY Zenon, <1>3, <2>3, <2>4, <1>b DEF Detonate, DetonateRaises, EvidenceInv
<1>4. CASE LeaveScope(r)
  <2>1. ScopeInv'
    BY Zenon, <1>4, NamesApart DEF LeaveScope, EvidenceInv, ScopeInv, Stages
  <2>2. ProbeInv'
    BY <1>4, ProbeListEnds DEF LeaveScope, EvidenceInv, ProbeInv, Indices
  <2>3. QED
    BY Zenon, <1>4, <2>1, <2>2, <1>a DEF LeaveScope, EvidenceInv
<1>5. CASE Interrupt(r)
  <2>1. ScopeInv'
    BY Zenon, <1>5, NamesApart DEF Interrupt, At, EvidenceInv, ScopeInv, Stages, Ended
  <2>2. QED
    BY Zenon, <1>5, <2>1, <1>a, <1>b DEF Interrupt, EvidenceInv
<1>6. QED
  BY Zenon, <1>1, <1>2, <1>3, <1>4, <1>5 DEF RunStep

\* The lock's discipline, from the first step on.
THEOREM EvidenceInvariant == Spec => []EvidenceInv
<1>1. Init => EvidenceInv
  <2> SUFFICES ASSUME Init PROVE EvidenceInv
    BY Zenon
  <2>1. ScopeInv
    BY Zenon, NamesApart DEF Init, ScopeInv, Stages, Directories
  <2>2. ProbeInv
    BY ProbeListEnds DEF Init, ProbeInv, Indices
  <2>3. HomeInv
    BY Zenon DEF Init, HomeInv
  <2>4. QED
    BY Zenon, <2>1, <2>2, <2>3 DEF EvidenceInv
<1>2. EvidenceInv /\ [Next]_vars => EvidenceInv'
  <2> SUFFICES ASSUME EvidenceInv, [Next]_vars PROVE EvidenceInv'
    BY Zenon
  <2>1. ASSUME NEW r \in Runs, NEW i \in Indices, Damage(r, i) PROVE EvidenceInv'
    <3>1. HomeInv'
      BY Zenon, <2>1, ReceiptInOwnTree DEF Damage, EvidenceInv
    <3>2. QED
      BY Zenon, <2>1, <3>1 DEF Damage, EvidenceInv, ScopeInv, ProbeInv
  <2>2. CASE Kill
    BY <2>2 DEF Kill, Stages, Ended, evidence, EvidenceInv, ScopeInv, ProbeInv, HomeInv
  <2>3. ASSUME UNCHANGED <<lock, dirs, pc, at, saved, receipts>> PROVE EvidenceInv'
    BY <2>3 DEF EvidenceInv, ScopeInv, ProbeInv, HomeInv
  <2>4. CASE \E r \in Runs : VerifyRun(r)
    BY Zenon, <2>3, <2>4 DEF VerifyRun, evidence
  <2>5. CASE RunDoctor \/ UpdatePolicy \/ Idle \/ UNCHANGED vars
    BY Zenon, <2>3, <2>5 DEF RunDoctor, UpdatePolicy, Idle, vars, evidence
  <2>6. QED
    BY Zenon, <2>1, <2>2, <2>4, <2>5, RunKeepsInv DEF Next
<1>3. QED
  BY <1>1, <1>2, PTL DEF Spec

\* However many threads run the gate and however they interleave, are interrupted
\* or killed, each receipt is in the tree of its own run only, and the repository's
\* directories are in place between detonations (_detonation_evidence_scope).
THEOREM EvidenceNeverMixed == Spec => []EvidenceStaysHome
<1>1. EvidenceInv => EvidenceStaysHome
  BY Zenon DEF EvidenceInv, ScopeInv, HomeInv, EvidenceStaysHome
<1>2. QED
  BY <1>1, EvidenceInvariant, PTL

-------------------------------------------------------------------------------
(* What a result, an exit code and the verifier's word rest on.                *)

\* What a host must offer for a detonation on it to be isolated.
Isolates ==
  /\ host.lacks \cap {"commands", "seccomp"} = {}
  /\ "cgroup_v2" \notin host.lacks \/ ~host.root
  /\ "user_namespaces" \notin host.lacks \/ host.root

\* The receipts there can be, and the results that can be read from them.
Receipts ==
  [kind : {"whole"}, policy : {1, 2}, expected : BOOLEAN, risk : {0, 1, 2},
   decision : {"ALLOW", "DENY", "EVALUATION_INCOMPLETE"}, isolated : BOOLEAN, purged : BOOLEAN,
   incomplete : BOOLEAN, observation : {"absent", "EVALUATION_INCOMPLETE", "COMPLETE"}]

Results ==
  {ErrorResult(i) : i \in Indices} \cup {EvaluateReceipt(i, rc) : i \in Indices, rc \in Receipts}

\* The host and the policy are of their kinds.
WorldInv ==
  /\ host \in HostStates /\ policy \in {1, 2}

\* A receipt on disk is one that detonate wrote, on this host and under the policy of
\* its time.
ReceiptOK(rc) ==
  rc.kind = "whole" => /\ rc \in Receipts
                       /\ policy = 1 => rc.policy = 1
                       /\ rc.isolated => Isolates

\* The receipt from which the result of probe k of run r was read is there.
Matches(r, k) ==
  /\ receipts[r][r][k].kind = "whole"
  /\ results[r][k] = EvaluateReceipt(k, receipts[r][r][k])

\* The results whose receipt was damaged after they were read.
Lost(r) == {k \in DOMAIN results[r] : ~results[r][k].error /\ ~Matches(r, k)}

\* The results of r are those of its first probes, in order.
OrderInv(r) ==
  /\ results[r] \in Seq(Results) /\ Len(results[r]) <= Len(Probes)
  /\ pc[r] \in {"start", "probe", "detonating"} => Len(results[r]) = at[r] - 1
  /\ pc[r] = "leave" => Len(results[r]) = at[r]
  /\ pc[r] \in {"summary", "manifest", "done"} => Len(results[r]) = Len(Probes)
  /\ \A k \in DOMAIN results[r] : results[r][k].probe = k

\* No more of them has lost its receipt than receipts were damaged.
TruthInv(r) ==
  /\ \A i \in Indices : ReceiptOK(receipts[r][r][i])
  /\ \A k \in DOMAIN results[r] : results[r][k].held => Isolates
  /\ damage \in Nat /\ IsFiniteSet(Lost(r)) /\ Cardinality(Lost(r)) <= damage

\* The manifest says what the results say.
WrittenInv(r) ==
  /\ Len(results[r]) = Len(Probes) /\ manifest[r].results = results[r]
  /\ manifest[r].status = OverallStatus(results[r])
  /\ manifest[r].contained = AllHeld(results[r])
  /\ DOMAIN manifest[r].children \subseteq {k \in DOMAIN results[r] : results[r][k].job}
  /\ damage = 0 =>
       /\ DOMAIN manifest[r].children = {k \in DOMAIN results[r] : results[r][k].job}
       /\ \A k \in DOMAIN manifest[r].children : manifest[r].children[k] = receipts[r][r][k]

\* It is written when all results are there, and the exit code given after it.
ManifestInv(r) ==
  /\ manifest[r].kind = "whole" => pc[r] \in {"manifest", "done", "raised", "killed"}
  /\ manifest[r].kind = "whole" => WrittenInv(r)
  /\ exit[r] = 0 => pc[r] = "done" /\ AllHeld(results[r])

GateInv ==
  /\ WorldInv /\ DOMAIN results = Runs /\ DOMAIN manifest = Runs /\ DOMAIN exit = Runs
  /\ \A r \in Runs : OrderInv(r) /\ TruthInv(r) /\ ManifestInv(r)

\* What detonate writes is a receipt, and shows isolation only where there can be some.
LEMMA ReceiptIsTyped ==
  ASSUME WorldInv, NEW i \in Indices, NEW o \in Outcomes, Possible(o, i)
  PROVE  ReceiptOf(o) \in Receipts /\ ReceiptOK(ReceiptOf(o))
<1> DEFINE unseen == o.isolated /\ ~o.executed /\ o.loss # "rule" /\ o.other = "none"
           incomplete == unseen \/ o.loss # "none" \/ ~o.purged
           hostile == o.expected \/ o.other = "known_bad" \/ o.loss = "rule" \/ ~o.purged
           risk == IF hostile THEN 2 ELSE IF o.other = "anomalous" \/ unseen THEN 1 ELSE 0
           decision == IF unseen THEN "EVALUATION_INCOMPLETE"
                       ELSE IF hostile \/ o.other = "anomalous" THEN "DENY" ELSE "ALLOW"
           seen == IF unseen THEN "EVALUATION_INCOMPLETE"
                   ELSE IF ~o.isolated \/ incomplete THEN "absent" ELSE "COMPLETE"
<1>1. o.expected \in BOOLEAN /\ o.isolated \in BOOLEAN /\ o.purged \in BOOLEAN
  BY Zenon, GateAssumption DEF Observed
<1>2. /\ incomplete \in BOOLEAN /\ risk \in {0, 1, 2} /\ policy \in {1, 2}
      /\ decision \in {"ALLOW", "DENY", "EVALUATION_INCOMPLETE"}
      /\ seen \in {"absent", "EVALUATION_INCOMPLETE", "COMPLETE"}
  BY Zenon DEF WorldInv
<1>3. ReceiptOf(o) = [kind |-> "whole", policy |-> policy, expected |-> o.expected, risk |-> risk,
                      decision |-> decision, isolated |-> o.isolated, purged |-> o.purged,
                      incomplete |-> incomplete, observation |-> seen]
  BY Zenon DEF ReceiptOf
<1> HIDE DEF incomplete, risk, decision, seen
<1>4. ReceiptOf(o) \in Receipts
  BY <1>1, <1>2, <1>3 DEF Receipts
<1>5. o.isolated => Isolates
  BY Zenon DEF Possible, Isolates
<1>6. QED
  BY <1>3, <1>4, <1>5 DEF ReceiptOK

\* _evaluate_receipt, and what it calls held.
LEMMA ResultOfReceipt ==
  ASSUME NEW i \in Indices, NEW rc \in Receipts
  PROVE  /\ EvaluateReceipt(i, rc) \in Results
         /\ EvaluateReceipt(i, rc).probe = i /\ EvaluateReceipt(i, rc).job
         /\ ~EvaluateReceipt(i, rc).error
         /\ EvaluateReceipt(i, rc).held => Contained(i, rc) /\ rc.isolated
<1>1. EvaluateReceipt(i, rc) \in Results
  BY DEF Results
<1>2. /\ EvaluateReceipt(i, rc).probe = i /\ EvaluateReceipt(i, rc).job
      /\ ~EvaluateReceipt(i, rc).error
  BY Zenon DEF EvaluateReceipt
<1>3. rc.kind = "whole" /\ (rc.risk >= 2 => rc.risk = 2)
  BY DEF Receipts
<1>4. EvaluateReceipt(i, rc).held =>
        /\ rc.risk >= 2 /\ rc.decision = "DENY" /\ (Probes[i] => rc.expected)
        /\ rc.isolated /\ rc.purged /\ rc.observation = "COMPLETE" /\ ~rc.incomplete
  BY Zenon DEF EvaluateReceipt
<1>5. QED
  BY Zenon, <1>1, <1>2, <1>3, <1>4 DEF Contained

LEMMA ResultOfError ==
  ASSUME NEW i \in Indices
  PROVE  /\ ErrorResult(i) \in Results /\ ErrorResult(i).probe = i
         /\ ~ErrorResult(i).job /\ ErrorResult(i).error /\ ~ErrorResult(i).held
<1>1. ErrorResult(i) \in Results
  BY DEF Results
<1>2. QED
  BY Zenon, <1>1 DEF ErrorResult

\* A result names a receipt unless it is an error.
LEMMA JobOrError == \A e \in Results : e.job => ~e.error
BY DEF Results, ErrorResult, EvaluateReceipt

\* An error never held.
LEMMA HeldOrError == \A e \in Results : e.held => ~e.error
<1>1. \A i \in Indices : ~ErrorResult(i).held
  BY Zenon, ResultOfError
<1>2. \A i \in Indices, rc \in Receipts : ~EvaluateReceipt(i, rc).error
  BY Zenon, ResultOfReceipt
<1>3. QED
  BY <1>1, <1>2 DEF Results

\* A list of a result for each probe.
LEMMA FullList ==
  ASSUME NEW S, NEW s \in Seq(S), Len(s) = Len(Probes)
  PROVE  DOMAIN s = Indices /\ \A k \in Indices : s[k] \in S
BY DEF Indices

\* The manifest, field by field.
LEMMA MasterFields ==
  ASSUME NEW r \in Runs, NEW m, m = Master(r)
  PROVE  /\ m.results = results[r] /\ m.status = OverallStatus(results[r])
         /\ m.contained = AllHeld(results[r])
         /\ DOMAIN m.children = Children(r)
         /\ \A k \in Children(r) : m.children[k] = receipts[r][r][k]
<1> DEFINE kept == [k \in Children(r) |-> receipts[r][r][k]]
<1>1. /\ m.results = results[r] /\ m.status = OverallStatus(results[r])
      /\ m.contained = AllHeld(results[r]) /\ m.children = kept
  BY Zenon DEF Master
<1>2. DOMAIN kept = Children(r) /\ \A k \in Children(r) : kept[k] = receipts[r][r][k]
  BY Zenon
<1> HIDE DEF kept
<1>3. QED
  BY Zenon, <1>1, <1>2

\* A manifest torn while it was written is not taken for a whole one.
LEMMA TornIsNotWhole ==
  ASSUME NEW m, m = [kind |-> "torn"]
  PROVE  m.kind # "whole"
BY Zenon

\* There are as many indices as probes, and all of them are of a list that long.
LEMMA IndicesCounted ==
  /\ IsFiniteSet(Indices) /\ Cardinality(Indices) = Len(Probes)
  /\ \A S \in SUBSET Indices : Cardinality(S) = Len(Probes) => S = Indices
<1>1. IsFiniteSet(Indices) /\ Cardinality(Indices) = Len(Probes)
  BY FS_Interval, ProbeListEnds DEF Indices
<1>2. ASSUME NEW S \in SUBSET Indices, Cardinality(S) = Len(Probes) PROVE S = Indices
  BY Zenon, <1>1, <1>2, FS_Subset
<1>3. QED
  BY Zenon, <1>1, <1>2

\* The verifier's derivation is the gate's own evaluation, field for field
\* (verify_run, _evaluate_receipt).
LEMMA DerivationsAgree ==
  ASSUME NEW i \in Indices, NEW rc \in Receipts
  PROVE  /\ Agrees(EvaluateReceipt(i, rc), rc)
         /\ Derived(i, rc).held => Contained(i, rc)
         /\ "held" \in DOMAIN Derived(i, rc)
<1>1. EvaluateReceipt(i, rc).probe = i
  BY Zenon, ResultOfReceipt
<1> DEFINE d == Derived(i, rc)
           e == EvaluateReceipt(i, rc)
<1>2. \A f \in DOMAIN d : e[f] = d[f]
  <2>1. DOMAIN d = {"risk", "decision", "expected", "isolated", "purged", "status", "held"}
    BY Zenon DEF Derived
  <2>2. e.risk = d.risk /\ e.decision = d.decision /\ e.status = d.status
    BY Zenon DEF Derived, EvaluateReceipt
  <2>3. e.expected = d.expected /\ e.isolated = d.isolated /\ e.purged = d.purged
    BY Zenon DEF Derived, EvaluateReceipt
  <2>4. e.held = d.held
    BY Zenon DEF Derived, EvaluateReceipt
  <2> HIDE DEF d, e
  <2>5. QED
    BY Zenon, <2>1, <2>2, <2>3, <2>4
<1>3. Derived(i, rc).held = EvaluateReceipt(i, rc).held /\ "held" \in DOMAIN Derived(i, rc)
  BY Zenon DEF Derived, EvaluateReceipt
<1>4. QED
  BY Zenon, <1>1, <1>2, <1>3, ResultOfReceipt DEF Agrees

LEMMA EachItsProbe ==
  ASSUME NEW rs, NEW S, \A k \in S : rs[k].probe = k
  PROVE  {rs[k].probe : k \in S} = S
BY Zenon

-------------------------------------------------------------------------------
(* What the invariant says of a whole manifest and of the verifier's word.      *)

\* Evidence that nobody damaged has lost no receipt.
LEMMA NothingLost ==
  ASSUME NEW r \in Runs, TruthInv(r), damage = 0
  PROVE  Lost(r) = {}
<1>1. IsFiniteSet(Lost(r)) /\ Cardinality(Lost(r)) <= 0
  BY Zenon DEF TruthInv
<1>2. Cardinality(Lost(r)) = 0
  BY <1>1, FS_CardinalityType
<1>3. QED
  BY Zenon, <1>1, <1>2, FS_EmptySet

\* Of a whole manifest: its results are those of the run, one for each probe.
LEMMA WholeManifest ==
  ASSUME NEW r \in Runs, GateInv, manifest[r].kind = "whole"
  PROVE  /\ manifest[r].results = results[r] /\ DOMAIN results[r] = Indices
         /\ Len(results[r]) = Len(Probes)
         /\ \A k \in Indices : results[r][k].probe = k /\ ReceiptOK(receipts[r][r][k])
<1>1. /\ manifest[r].results = results[r] /\ Len(results[r]) = Len(Probes)
      /\ results[r] \in Seq(Results) /\ \A k \in DOMAIN results[r] : results[r][k].probe = k
      /\ \A k \in Indices : ReceiptOK(receipts[r][r][k])
  BY Zenon DEF GateInv, ManifestInv, WrittenInv, OrderInv, TruthInv
<1>2. DOMAIN results[r] = Indices
  <2>1. DOMAIN results[r] = 1..Len(results[r])
    BY <1>1
  <2>2. QED
    BY <1>1, <2>1, Zenon DEF Indices
<1>3. QED
  BY Zenon, <1>1, <1>2

\* What the verifier confirms is complete, and held when it says so.
LEMMA ConfirmedIsWhole ==
  ASSUME NEW r \in Runs, GateInv, manifest[r].kind = "whole",
         Verifies(manifest[r], receipts[r][r])
  PROVE  /\ \A i \in Indices :
              receipts[r][r][i].kind = "whole" /\ receipts[r][r][i].policy = policy
         /\ manifest[r].status = "ALL_BOUNDARIES_HELD" =>
              \A i \in Indices : Contained(i, receipts[r][r][i])
<1> DEFINE m == manifest[r]
           tree == receipts[r][r]
<1>1. /\ m.results = results[r] /\ DOMAIN results[r] = Indices /\ Len(results[r]) = Len(Probes)
      /\ \A k \in Indices : results[r][k].probe = k /\ ReceiptOK(tree[k])
  BY Zenon, WholeManifest
<1>2. /\ \A i \in DOMAIN m.children : tree[i].kind = "whole" /\ tree[i].policy = policy
      /\ Len(m.results) = Cardinality(DOMAIN m.children)
      /\ \A k \in DOMAIN m.results :
           m.results[k].probe \in DOMAIN m.children => Agrees(m.results[k], tree[m.results[k].probe])
      /\ m.status = OverallStatus(m.results)
  BY Zenon DEF Verifies
<1>3. DOMAIN m.children \in SUBSET Indices
  BY Zenon, <1>1 DEF GateInv, ManifestInv, WrittenInv
<1>4. DOMAIN m.children = Indices
  <2>1. Cardinality(DOMAIN m.children) = Len(Probes)
    BY Zenon, <1>1, <1>2
  <2>2. QED
    BY Zenon, <1>3, <2>1, IndicesCounted
<1>5. \A i \in Indices : tree[i].kind = "whole" /\ tree[i].policy = policy
  BY Zenon, <1>2, <1>4
<1>6. ASSUME m.status = "ALL_BOUNDARIES_HELD", NEW i \in Indices PROVE Contained(i, tree[i])
  <2>1. AllHeld(m.results)
    BY Zenon, <1>2, <1>6 DEF OverallStatus
  <2>2. results[r][i].held /\ results[r][i].probe = i
    BY Zenon, <1>1, <2>1 DEF AllHeld
  <2>3. tree[i] \in Receipts
    BY Zenon, <1>1, <1>5 DEF ReceiptOK
  <2>4. Agrees(results[r][i], tree[i])
    BY <1>1, <1>2, <1>4
  <2>5. Derived(i, tree[i]).held
    BY Zenon, <2>2, <2>3, <2>4, DerivationsAgree DEF Agrees
  <2>6. QED
    BY Zenon, <2>3, <2>5, DerivationsAgree
<1>7. QED
  BY Zenon, <1>5, <1>6

\* An honest run, whose evidence and policy are unchanged, is confirmed.
LEMMA HonestIsConfirmed ==
  ASSUME NEW r \in Runs, GateInv, manifest[r].kind = "whole", damage = 0, policy = 1,
         \A k \in DOMAIN results[r] : ~results[r][k].error
  PROVE  Verifies(manifest[r], receipts[r][r])
<1> DEFINE m == manifest[r]
           tree == receipts[r][r]
           rs == results[r]
<1>1. /\ m.results = rs /\ DOMAIN rs = Indices /\ Len(rs) = Len(Probes)
      /\ \A k \in Indices : rs[k].probe = k /\ ReceiptOK(tree[k])
  BY Zenon, WholeManifest
<1>2. Lost(r) = {}
  BY Zenon, NothingLost DEF GateInv
<1>3. \A k \in Indices : Matches(r, k)
  BY Zenon, <1>1, <1>2 DEF Lost
<1>4. \A k \in Indices : tree[k].kind = "whole" /\ tree[k] \in Receipts /\ tree[k].policy = policy
  BY Zenon, <1>1, <1>3 DEF Matches, ReceiptOK
<1>5. \A k \in Indices : rs[k] = EvaluateReceipt(k, tree[k])
  BY Zenon, <1>3 DEF Matches
<1>6. \A k \in Indices : rs[k].job /\ Agrees(rs[k], tree[k])
  <2> SUFFICES ASSUME NEW k \in Indices PROVE rs[k].job /\ Agrees(rs[k], tree[k])
    BY Zenon
  <2>1. tree[k].kind = "whole" /\ tree[k] \in Receipts /\ rs[k] = EvaluateReceipt(k, tree[k])
    BY Zenon, <1>4, <1>5
  <2> HIDE DEF tree, rs
  <2>2. EvaluateReceipt(k, tree[k]).job
    BY Zenon, <2>1, ResultOfReceipt
  <2>3. Agrees(EvaluateReceipt(k, tree[k]), tree[k])
    BY Zenon, <2>1, DerivationsAgree
  <2>4. QED
    BY Zenon, <2>1, <2>2, <2>3
<1>7. /\ DOMAIN m.children = {k \in DOMAIN rs : rs[k].job}
      /\ \A k \in DOMAIN m.children : m.children[k] = tree[k]
      /\ m.contained = AllHeld(rs) /\ m.status = OverallStatus(rs)
  BY Zenon DEF GateInv, ManifestInv, WrittenInv
<1>8. DOMAIN m.children = Indices
  BY Zenon, <1>1, <1>6, <1>7
<1> HIDE DEF m, tree, rs
<1>9. {m.results[k].probe : k \in {j \in DOMAIN m.results : m.results[j].job}} = Indices
  <2>1. {j \in DOMAIN m.results : m.results[j].job} = Indices
    BY Zenon, <1>1, <1>6
  <2>2. QED
    BY <1>1, <2>1, EachItsProbe
<1>10. {m.results[k].probe : k \in DOMAIN m.results} = Indices
  BY Zenon, <1>1, EachItsProbe
<1>11. \A i \in DOMAIN m.children :
         tree[i].kind = "whole" /\ tree[i] = m.children[i] /\ tree[i].policy = policy
  BY Zenon, <1>4, <1>7, <1>8
<1>12. \A k \in DOMAIN m.results :
         m.results[k].probe \in DOMAIN m.children => Agrees(m.results[k], tree[m.results[k].probe])
  BY Zenon, <1>1, <1>6
<1>13. Len(m.results) = Cardinality(DOMAIN m.children)
  BY Zenon, <1>1, <1>8, IndicesCounted
<1>14. Verifies(m, tree)
  BY Zenon, <1>1, <1>7, <1>8, <1>9, <1>10, <1>11, <1>12, <1>13 DEF Verifies
<1>15. QED
  BY Zenon, <1>14 DEF m, tree

-------------------------------------------------------------------------------
(* The steps that keep the invariant.                                          *)

\* The world goes on: the host keeps what it has, the policy never goes back.
Onward ==
  /\ WorldInv' /\ host'.lacks = host.lacks /\ host'.root = host.root
  /\ policy' = 1 => policy = 1
  /\ damage' = damage \/ damage' = damage + 1

\* Nothing that r has done is touched, and it may end or come closer to a detonation.
Steady(r) ==
  /\ UNCHANGED <<at[r], receipts[r][r], results[r], manifest[r], exit[r]>>
  /\ \/ pc'[r] = pc[r]
     \/ {pc[r], pc'[r]} \subseteq {"start", "probe", "detonating"}
     \/ pc'[r] \in {"raised", "killed"} /\ pc[r] # "done"

LEMMA SteadyKeepsInv ==
  ASSUME NEW r \in Runs, Onward, Steady(r), OrderInv(r), TruthInv(r), ManifestInv(r)
  PROVE  OrderInv(r)' /\ TruthInv(r)' /\ ManifestInv(r)'
<1>1. OrderInv(r)'
  BY Zenon DEF Steady, OrderInv
<1>2. Isolates' = Isolates
  BY Zenon DEF Onward, Isolates
<1>3. \A rc : ReceiptOK(rc) => ReceiptOK(rc)'
  BY Zenon, <1>2 DEF Onward, ReceiptOK
<1>4. Lost(r)' = Lost(r)
  BY Zenon DEF Steady, Lost, Matches
<1>5. damage \in Nat /\ IsFiniteSet(Lost(r)) /\ Cardinality(Lost(r)) <= damage
  BY Zenon DEF TruthInv
<1>6. Cardinality(Lost(r)) \in Nat
  BY Zenon, <1>5, FS_CardinalityType
<1>7. damage' \in Nat /\ IsFiniteSet(Lost(r)') /\ Cardinality(Lost(r)') <= damage'
  BY <1>4, <1>5, <1>6 DEF Onward
<1>8. TruthInv(r)'
  BY Zenon, <1>2, <1>3, <1>7 DEF Steady, TruthInv
<1>9. damage' = 0 => damage = 0
  BY SMTT(20), <1>5 DEF Onward
<1>10. ManifestInv(r)'
  <2>1. WrittenInv(r) => WrittenInv(r)'
    BY Zenon, <1>9 DEF Steady, WrittenInv
  <2>2. QED
    BY Zenon, <2>1 DEF Steady, ManifestInv
<1>11. QED
  BY Zenon, <1>1, <1>8, <1>10

\* What appending does to a list of n - 1.
LEMMA ListGrows ==
  ASSUME NEW S, NEW old \in Seq(S), NEW e \in S, NEW n \in Nat, Len(old) = n - 1,
         NEW new, new = Append(old, e)
  PROVE  /\ new \in Seq(S) /\ Len(new) = n /\ DOMAIN old = 1..(n - 1) /\ DOMAIN new = 1..n
         /\ \A k \in 1..(n - 1) : new[k] = old[k] /\ k \in DOMAIN new
         /\ new[n] = e
         /\ \A k \in 1..n : k = n \/ k \in 1..(n - 1)
<1>1. new \in Seq(S) /\ Len(new) = Len(old) + 1
  OBVIOUS
<1>2. \A k \in 1..Len(old) : new[k] = old[k]
  OBVIOUS
<1>3. new[Len(old) + 1] = e
  OBVIOUS
<1>4. Len(old) = n - 1 /\ Len(old) + 1 = n
  OBVIOUS
<1>5. DOMAIN old = 1..(n - 1) /\ DOMAIN new = 1..n
  BY <1>1, <1>4
<1>6. \A k \in 1..n : k = n \/ k \in 1..(n - 1)
  OBVIOUS
<1>7. QED
  BY <1>1, <1>2, <1>3, <1>4, <1>5, <1>6

\* A result is added for the probe at hand, and the receipts of the others stay.
Adds(r, e) ==
  /\ pc[r] = "detonating" /\ pc'[r] = "leave"
  /\ UNCHANGED <<at, host, policy, damage, manifest, exit>>
  /\ results'[r] = Append(results[r], e) /\ e.probe = at[r]
  /\ \A i \in Indices \ {at[r]} : receipts'[r][r][i] = receipts[r][r][i]
  /\ ReceiptOK(receipts'[r][r][at[r]]) /\ (e.held => Isolates)
  /\ \/ e.error
     \/ /\ receipts'[r][r][at[r]].kind = "whole"
        /\ e = EvaluateReceipt(at[r], receipts'[r][r][at[r]])

LEMMA ResultAdded ==
  ASSUME NEW r \in Runs, EvidenceInv, GateInv, NEW e \in Results, Adds(r, e)
  PROVE  OrderInv(r)' /\ TruthInv(r)' /\ ManifestInv(r)'
<1> DEFINE n == at[r]
<1>1. /\ results[r] \in Seq(Results) /\ Len(results[r]) = n - 1 /\ n \in Indices /\ n \in Nat
      /\ \A k \in DOMAIN results[r] : results[r][k].probe = k
  <2>1. OrderInv(r) /\ at[r] \in Indices /\ pc[r] = "detonating"
    BY Zenon DEF Adds, GateInv, EvidenceInv, ProbeInv
  <2>2. QED
    BY <2>1, ProbeListEnds DEF OrderInv, Indices
<1>2. /\ results'[r] = Append(results[r], e) /\ e.probe = n /\ UNCHANGED <<at, manifest, exit>>
      /\ pc'[r] = "leave" /\ pc[r] = "detonating"
  BY Zenon DEF Adds
<1>3. /\ results'[r] \in Seq(Results) /\ Len(results'[r]) = n
      /\ DOMAIN results[r] = 1..(n - 1) /\ DOMAIN results'[r] = 1..n
      /\ \A k \in 1..(n - 1) : results'[r][k] = results[r][k] /\ k \in DOMAIN results'[r]
      /\ results'[r][n] = e
      /\ \A k \in 1..n : k = n \/ k \in 1..(n - 1)
  BY SMTT(20), <1>1, <1>2, ListGrows
<1>4. OrderInv(r)'
  <2>1. \A k \in DOMAIN results'[r] : results'[r][k].probe = k
    BY Zenon, <1>1, <1>2, <1>3
  <2>2. n <= Len(Probes)
    BY SMTT(20), <1>1, ProbeListEnds DEF Indices
  <2>3. QED
    BY Zenon, <1>2, <1>3, <2>1, <2>2 DEF OrderInv
<1>5. Isolates' = Isolates /\ \A rc : ReceiptOK(rc)' <=> ReceiptOK(rc)
  BY Zenon DEF Adds, Isolates, ReceiptOK
<1>6. Lost(r)' = Lost(r)
  <2>1. n \notin Lost(r)'
    BY Zenon, <1>2, <1>3 DEF Adds, Lost, Matches
  <2>2. /\ \A k \in Lost(r) : k \in 1..(n - 1)
        /\ \A k \in Lost(r)' : k \in 1..n
    BY Zenon, <1>3 DEF Lost
  <2>3. \A k \in 1..(n - 1) : k \in Indices \ {n}
    BY SMTT(20), <1>1, ProbeListEnds DEF Indices
  <2>4. \A k \in 1..(n - 1) : receipts'[r][r][k] = receipts[r][r][k]
    BY Zenon, <2>3 DEF Adds
  <2>5. ASSUME NEW k \in 1..(n - 1) PROVE k \in Lost(r)' <=> k \in Lost(r)
    <3>1. k \in DOMAIN results[r] /\ k \in DOMAIN results'[r]
      BY Zenon, <1>3
    <3>2. results'[r][k] = results[r][k] /\ Matches(r, k)' = Matches(r, k)
      BY Zenon, <1>3, <2>4 DEF Matches
    <3>3. QED
      BY Zenon, <3>1, <3>2 DEF Lost
  <2>6. QED
    BY Zenon, <1>3, <2>1, <2>2, <2>5
<1>7. TruthInv(r)'
  <2>1. \A i \in Indices : ReceiptOK(receipts'[r][r][i])
    BY Zenon DEF Adds, GateInv, TruthInv
  <2>2. \A k \in DOMAIN results'[r] : results'[r][k].held => Isolates
    <3>1. \A k \in 1..(n - 1) : results[r][k].held => Isolates
      BY Zenon, <1>3 DEF GateInv, TruthInv
    <3>2. e.held => Isolates
      BY Zenon DEF Adds
    <3>3. QED
      BY Zenon, <1>3, <3>1, <3>2
  <2>3. damage \in Nat /\ damage' = damage /\ IsFiniteSet(Lost(r)) /\ Cardinality(Lost(r)) <= damage
    BY Zenon DEF Adds, GateInv, TruthInv
  <2>4. QED
    BY Zenon, <1>5, <1>6, <2>1, <2>2, <2>3 DEF TruthInv
<1>8. manifest[r].kind # "whole" /\ exit[r] # 0
  BY Zenon, <1>2 DEF GateInv, ManifestInv
<1>9. ManifestInv(r)'
  BY Zenon, <1>2, <1>8 DEF ManifestInv
<1>10. QED
  BY Zenon, <1>4, <1>7, <1>9

\* A detonation keeps the invariant, whether it returns or raises.
LEMMA DetonationKeepsInv ==
  ASSUME NEW r \in Runs, EvidenceInv, GateInv, Detonate(r) \/ DetonateRaises(r)
  PROVE  GateInv'
<1> DEFINE n == at[r]
<1>1. /\ pc[r] = "detonating" /\ pc' = [pc EXCEPT ![r] = "leave"]
      /\ UNCHANGED <<host, policy, damage, at, manifest, exit>>
      /\ \E e : results' = [results EXCEPT ![r] = Append(@, e)]
  BY Zenon DEF Detonate, DetonateRaises, At
<1>2. dirs = r /\ n \in Indices /\ r \in Directories /\ pc \in [Runs -> Stages]
  BY Zenon, <1>1, NamesApart DEF EvidenceInv, ScopeInv, ProbeInv, Directories
<1>3. UNCHANGED receipts \/ \E rc : receipts' = [receipts EXCEPT ![r][r][n] = rc]
  BY Zenon, <1>2 DEF Detonate, DetonateRaises
<1>4. /\ \A d \in Runs \ {r} : receipts'[d][d] = receipts[d][d]
      /\ \A i \in Indices \ {n} : receipts'[r][r][i] = receipts[r][r][i]
  BY <1>2, <1>3 DEF EvidenceInv, HomeInv, Directories
<1>5. pc'[r] = "leave" /\ \A d \in Runs \ {r} : pc'[d] = pc[d]
  BY Zenon, <1>1, <1>2
<1>6. WorldInv' /\ WorldInv
  BY Zenon, <1>1 DEF GateInv, WorldInv
<1>7. DOMAIN results' = Runs /\ DOMAIN manifest' = Runs /\ DOMAIN exit' = Runs
      /\ \A d \in Runs \ {r} : results'[d] = results[d]
  BY Zenon, <1>1 DEF GateInv
<1>8. ASSUME NEW d \in Runs \ {r} PROVE OrderInv(d)' /\ TruthInv(d)' /\ ManifestInv(d)'
  <2>1. Steady(d) /\ Onward
    BY Zenon, <1>1, <1>4, <1>5, <1>6, <1>7 DEF Steady, Onward
  <2>2. QED
    BY Zenon, <2>1, SteadyKeepsInv DEF GateInv
<1>9. ASSUME NEW o \in Outcomes, Possible(o, n), receipts' = [receipts EXCEPT ![r][r][n] = ReceiptOf(o)]
      PROVE  /\ receipts'[r][r][n] = ReceiptOf(o) /\ ReceiptOf(o) \in Receipts
             /\ ReceiptOK(ReceiptOf(o)) /\ ReceiptOf(o).kind = "whole"
  <2>1. receipts'[r][r][n] = ReceiptOf(o)
    BY Zenon, <1>2, <1>9 DEF EvidenceInv, HomeInv
  <2>2. ReceiptOf(o) \in Receipts /\ ReceiptOK(ReceiptOf(o))
    BY Zenon, <1>2, <1>6, <1>9, ReceiptIsTyped
  <2>3. QED
    BY Zenon, <2>1, <2>2 DEF Receipts
<1>10. OrderInv(r)' /\ TruthInv(r)' /\ ManifestInv(r)'
  <2>1. CASE Detonate(r)
    <3>1. PICK o \in Outcomes :
            /\ Possible(o, n) /\ receipts' = [receipts EXCEPT ![r][r][n] = ReceiptOf(o)]
            /\ results' = [results EXCEPT ![r] = Append(@, EvaluateReceipt(n, ReceiptOf(o)))]
      BY Zenon, <1>2, <2>1 DEF Detonate
    <3> DEFINE rc == ReceiptOf(o)
               e == EvaluateReceipt(n, rc)
    <3>2. receipts'[r][r][n] = rc /\ rc \in Receipts /\ ReceiptOK(rc) /\ rc.kind = "whole"
      BY Zenon, <1>9, <3>1
    <3> HIDE DEF rc
    <3>3. e \in Results /\ e.probe = n /\ (e.held => rc.isolated)
      BY Zenon, <1>2, <3>2, ResultOfReceipt
    <3>4. e.held => Isolates
      BY Zenon, <3>2, <3>3 DEF ReceiptOK
    <3>5. results' = [results EXCEPT ![r] = Append(@, e)]
      BY Zenon, <3>1 DEF rc
    <3>6. e = EvaluateReceipt(n, receipts'[r][r][n])
      BY Zenon, <3>2
    <3> HIDE DEF e
    <3>7. results'[r] = Append(results[r], e)
      BY Zenon, <3>5 DEF GateInv
    <3>8. Adds(r, e)
      BY Zenon, <1>1, <1>4, <1>5, <3>2, <3>3, <3>4, <3>6, <3>7 DEF Adds
    <3>9. QED
      BY Zenon, <3>3, <3>8, ResultAdded
  <2>2. CASE DetonateRaises(r)
    <3> DEFINE e == ErrorResult(n)
    <3>1. results' = [results EXCEPT ![r] = Append(@, e)]
      BY Zenon, <2>2 DEF DetonateRaises
    <3>2. e \in Results /\ e.probe = n /\ e.error /\ ~e.held
      BY Zenon, <1>2, ResultOfError
    <3> HIDE DEF e
    <3>3. ReceiptOK(receipts'[r][r][n])
      <4>1. CASE UNCHANGED receipts
        BY Zenon, <1>2, <4>1 DEF GateInv, TruthInv
      <4>2. CASE ~UNCHANGED receipts
        BY Zenon, <1>2, <1>9, <2>2, <4>2 DEF DetonateRaises
      <4>3. QED
        BY Zenon, <4>1, <4>2
    <3>4. results'[r] = Append(results[r], e)
      BY Zenon, <3>1 DEF GateInv
    <3>5. Adds(r, e)
      BY Zenon, <1>1, <1>4, <1>5, <3>2, <3>3, <3>4 DEF Adds
    <3>6. QED
      BY Zenon, <3>2, <3>5, ResultAdded
  <2>3. QED
    BY Zenon, <2>1, <2>2
<1>11. QED
  BY Zenon, <1>6, <1>7, <1>8, <1>10 DEF GateInv

\* Results are as true as they were while receipts, host and damage stay.
LEMMA TruthStays ==
  ASSUME NEW r \in Runs, TruthInv(r), UNCHANGED <<policy, receipts, damage, results, host>>
  PROVE  TruthInv(r)'
<1>1. Lost(r)' = Lost(r)
  BY Zenon DEF Lost, Matches
<1>2. Isolates' = Isolates
  BY Zenon DEF Isolates
<1>3. \A i \in Indices : ReceiptOK(receipts[r][r][i])'
  BY Zenon, <1>2 DEF TruthInv, ReceiptOK
<1>4. QED
  BY Zenon, <1>1, <1>2, <1>3 DEF TruthInv

\* A run that leaves the scope of a probe goes on to the next one or to the summary.
LEMMA LeaveKeepsOwn ==
  ASSUME NEW r \in Runs, EvidenceInv, GateInv, LeaveScope(r),
         UNCHANGED <<policy, receipts, damage, results>>
  PROVE  OrderInv(r)' /\ TruthInv(r)' /\ ManifestInv(r)'
<1>0. DOMAIN pc = Runs /\ at \in [Runs -> Indices] /\ OrderInv(r) /\ TruthInv(r) /\ ManifestInv(r)
  BY Zenon DEF EvidenceInv, ScopeInv, ProbeInv, GateInv
<1>1. /\ pc[r] = "leave" /\ UNCHANGED <<host, manifest, exit>>
      /\ pc'[r] = IF at[r] = Len(Probes) THEN "summary" ELSE "probe"
      /\ at'[r] = IF at[r] = Len(Probes) THEN at[r] ELSE at[r] + 1
  BY Zenon, <1>0 DEF LeaveScope
<1>2. OrderInv(r)'
  <2>1. Len(results[r]) = at[r] /\ at[r] \in Nat
    BY SMTT(20), <1>0, <1>1, ProbeListEnds DEF OrderInv, Indices
  <2>2. CASE at[r] = Len(Probes)
    BY Zenon, <1>0, <1>1, <2>1, <2>2 DEF OrderInv
  <2>3. CASE at[r] # Len(Probes)
    BY SMTT(20), <1>0, <1>1, <2>1, <2>3 DEF OrderInv
  <2>4. QED
    BY Zenon, <2>2, <2>3
<1>3. TruthInv(r)'
  BY Zenon, <1>0, <1>1, TruthStays
<1>4. manifest[r].kind # "whole" /\ exit[r] # 0
  BY Zenon, <1>0, <1>1 DEF ManifestInv
<1>5. QED
  BY Zenon, <1>1, <1>2, <1>3, <1>4 DEF ManifestInv

\* A manifest that is written whole says what the results and the receipts say.
LEMMA ManifestKeepsOwn ==
  ASSUME NEW r \in Runs, EvidenceInv, GateInv, WriteManifest(r),
         UNCHANGED <<policy, receipts, damage, results>>
  PROVE  OrderInv(r)' /\ TruthInv(r)' /\ ManifestInv(r)'
<1>0. DOMAIN pc = Runs /\ at \in [Runs -> Indices] /\ OrderInv(r) /\ TruthInv(r) /\ ManifestInv(r)
  BY Zenon DEF EvidenceInv, ScopeInv, ProbeInv, GateInv
<1>1. /\ pc[r] = "summary" /\ pc'[r] = "manifest" /\ UNCHANGED <<host, at, exit>>
      /\ manifest'[r] = Master(r) \/ manifest'[r] = [kind |-> "torn"]
  BY Zenon, <1>0 DEF WriteManifest, At, GateInv
<1>2. OrderInv(r)' /\ Len(results[r]) = Len(Probes)
  BY Zenon, <1>0, <1>1 DEF OrderInv
<1>3. TruthInv(r)'
  BY Zenon, <1>0, <1>1, TruthStays
<1>4. /\ results[r] \in Seq(Results) /\ DOMAIN results[r] = Indices
      /\ \A k \in Indices : results[r][k].probe = k /\ results[r][k] \in Results
  <2>1. /\ results[r] \in Seq(Results)
        /\ \A k \in DOMAIN results[r] : results[r][k].probe = k
    BY Zenon, <1>0 DEF OrderInv
  <2>2. DOMAIN results[r] = Indices /\ \A k \in DOMAIN results[r] : results[r][k] \in Results
    BY Zenon, <1>2, <2>1, FullList
  <2>3. QED
    BY Zenon, <2>1, <2>2
<1> DEFINE Jobs == {k \in DOMAIN results[r] : results[r][k].job}
<1>5. Children(r) = {k \in Jobs : receipts[r][r][k] # NoReceipt}
  BY Zenon, <1>4 DEF Children
<1>6. ASSUME damage = 0 PROVE Children(r) = Jobs
  <2>1. Lost(r) = {}
    BY Zenon, <1>0, <1>6, NothingLost
  <2>2. \A k \in Jobs : receipts[r][r][k].kind = "whole"
    BY Zenon, <1>4, <2>1, JobOrError DEF Lost, Matches
  <2>3. \A rc : rc.kind = "whole" => rc # NoReceipt
    BY DEF NoReceipt
  <2> HIDE DEF Jobs
  <2>4. QED
    BY Zenon, <1>5, <2>2, <2>3
<1>7. CASE manifest'[r] = Master(r)
  <2>1. /\ manifest'[r].results = results[r]
        /\ manifest'[r].status = OverallStatus(results[r])
        /\ manifest'[r].contained = AllHeld(results[r])
        /\ DOMAIN manifest'[r].children = Children(r)
        /\ \A k \in Children(r) : manifest'[r].children[k] = receipts[r][r][k]
    BY Zenon, <1>7, MasterFields
  <2>2. exit[r] # 0
    BY Zenon, <1>0, <1>1 DEF ManifestInv
  <2>3. WrittenInv(r)'
    BY Zenon, <1>2, <1>5, <1>6, <2>1 DEF WrittenInv
  <2>4. QED
    BY Zenon, <1>1, <1>2, <1>3, <2>2, <2>3 DEF ManifestInv
<1>8. CASE manifest'[r] = [kind |-> "torn"]
  <2>1. manifest'[r].kind # "whole"
    BY Zenon, <1>8, TornIsNotWhole
  <2>2. exit[r] # 0
    BY Zenon, <1>0, <1>1 DEF ManifestInv
  <2>3. QED
    BY Zenon, <1>1, <1>2, <1>3, <2>1, <2>2 DEF ManifestInv
<1>9. QED
  BY Zenon, <1>1, <1>7, <1>8

\* A run exits with 0 only if all its results held.
LEMMA FinishKeepsOwn ==
  ASSUME NEW r \in Runs, EvidenceInv, GateInv, Finish(r),
         UNCHANGED <<policy, receipts, damage, results>>
  PROVE  OrderInv(r)' /\ TruthInv(r)' /\ ManifestInv(r)'
<1>0. DOMAIN pc = Runs /\ at \in [Runs -> Indices] /\ OrderInv(r) /\ TruthInv(r) /\ ManifestInv(r)
  BY Zenon DEF EvidenceInv, ScopeInv, ProbeInv, GateInv
<1>1. /\ pc[r] = "manifest" /\ pc'[r] = "done" /\ UNCHANGED <<host, at, manifest>>
      /\ exit'[r] = IF AllHeld(results[r]) THEN 0 ELSE 1
  BY Zenon, <1>0 DEF Finish, At, GateInv
<1>2. OrderInv(r)'
  BY Zenon, <1>0, <1>1 DEF OrderInv
<1>3. TruthInv(r)'
  BY Zenon, <1>0, <1>1, TruthStays
<1>4. ManifestInv(r)'
  <2>1. WrittenInv(r)' = WrittenInv(r)
    BY Zenon, <1>1 DEF WrittenInv
  <2>2. manifest[r].kind = "whole" => WrittenInv(r)
    BY Zenon, <1>0 DEF ManifestInv
  <2>3. manifest'[r].kind = "whole" => WrittenInv(r)'
    BY Zenon, <1>1, <2>1, <2>2
  <2>4. exit'[r] = 0 => AllHeld(results'[r])
    <3>1. results'[r] = results[r]
      BY Zenon
    <3>2. exit'[r] = 0 => AllHeld(results[r])
      BY <1>1
    <3>3. QED
      BY Zenon, <3>1, <3>2
  <2>5. QED
    BY Zenon, <1>1, <2>3, <2>4 DEF ManifestInv
<1>5. QED
  BY Zenon, <1>2, <1>3, <1>4

\* The other steps of a run keep the invariant.
LEMMA RunKeepsGate ==
  ASSUME NEW r \in Runs, EvidenceInv, GateInv,
         \/ Start(r) \/ CannotStart(r) \/ EnterScope(r) \/ LeaveScope(r) \/ Interrupt(r)
         \/ WriteManifest(r) \/ Finish(r) \/ CannotWrite(r)
  PROVE  GateInv'
<1> USE DEF evidence
<1>1. /\ UNCHANGED <<policy, receipts, damage, results>>
      /\ \A d \in Runs \ {r} : UNCHANGED <<pc[d], at[d], manifest[d], exit[d]>>
  BY Zenon DEF Start, CannotStart, EnterScope, LeaveScope, Interrupt, WriteManifest, Finish,
     CannotWrite, At, GateInv, EvidenceInv, ScopeInv, ProbeInv
<1>2. host' = host \/ host' = [host EXCEPT !.snapshot = "good"]
  BY Zenon DEF Start, CannotStart, EnterScope, LeaveScope, Interrupt, WriteManifest, Finish,
     CannotWrite
<1>3. host \in HostStates /\ policy \in {1, 2}
  BY Zenon DEF GateInv, WorldInv
<1>4. host' \in HostStates /\ host'.lacks = host.lacks /\ host'.root = host.root
  BY Zenon, <1>2, <1>3 DEF HostStates
<1>5. WorldInv' /\ Onward
  BY Zenon, <1>1, <1>3, <1>4 DEF WorldInv, Onward
<1>6. ASSUME NEW d \in Runs \ {r} PROVE OrderInv(d)' /\ TruthInv(d)' /\ ManifestInv(d)'
  <2>1. Steady(d)
    BY Zenon, <1>1 DEF Steady
  <2>2. QED
    BY Zenon, <1>5, <2>1, SteadyKeepsInv DEF GateInv
<1>7. DOMAIN results' = Runs /\ DOMAIN manifest' = Runs /\ DOMAIN exit' = Runs
  BY Zenon DEF Start, CannotStart, EnterScope, LeaveScope, Interrupt, WriteManifest, Finish,
     CannotWrite, GateInv
<1>8. DOMAIN pc = Runs /\ at \in [Runs -> Indices] /\ OrderInv(r) /\ TruthInv(r) /\ ManifestInv(r)
  BY Zenon DEF EvidenceInv, ScopeInv, ProbeInv, GateInv
<1>9. OrderInv(r)' /\ TruthInv(r)' /\ ManifestInv(r)'
  <2>1. CASE Start(r) \/ CannotStart(r) \/ EnterScope(r) \/ Interrupt(r) \/ CannotWrite(r)
    <3>1. Steady(r)
      BY Zenon, <1>1, <1>8, <2>1
        DEF Steady, Start, CannotStart, EnterScope, Interrupt, CannotWrite, At
    <3>2. QED
      BY Zenon, <1>5, <1>8, <3>1, SteadyKeepsInv
  <2>2. CASE LeaveScope(r)
    BY Zenon, <1>1, <2>2, LeaveKeepsOwn
  <2>3. CASE WriteManifest(r)
    BY Zenon, <1>1, <2>3, ManifestKeepsOwn
  <2>4. CASE Finish(r)
    BY Zenon, <1>1, <2>4, FinishKeepsOwn
  <2>5. QED
    BY Zenon, <2>1, <2>2, <2>3, <2>4
<1>10. QED
  BY Zenon, <1>5, <1>6, <1>7, <1>9 DEF GateInv

\* A damaged receipt makes one result more that has lost its receipt.
LEMMA DamageKeepsGate ==
  ASSUME NEW r \in Runs, NEW i \in Indices, EvidenceInv, GateInv, Damage(r, i)
  PROVE  GateInv'
<1>1. /\ UNCHANGED <<host, policy, pc, at, results, manifest, exit>> /\ damage' = damage + 1
      /\ \E bad \in {NoReceipt, [kind |-> "damaged"]} : receipts' = [receipts EXCEPT ![r][r][i] = bad]
  BY Zenon DEF Damage
<1>2. WorldInv' /\ Onward
  BY Zenon, <1>1 DEF GateInv, WorldInv, Onward
<1>3. /\ \A d \in Runs \ {r} : receipts'[d][d] = receipts[d][d]
      /\ \A k \in Indices \ {i} : receipts'[r][r][k] = receipts[r][r][k]
      /\ receipts'[r][r][i].kind # "whole"
  BY SMTT(20), <1>1 DEF EvidenceInv, HomeInv, Directories, NoReceipt
<1>4. ASSUME NEW d \in Runs \ {r} PROVE OrderInv(d)' /\ TruthInv(d)' /\ ManifestInv(d)'
  <2>1. Steady(d)
    BY Zenon, <1>1, <1>3 DEF Steady
  <2>2. QED
    BY Zenon, <1>2, <2>1, SteadyKeepsInv DEF GateInv
<1>5. OrderInv(r) /\ TruthInv(r) /\ ManifestInv(r)
  BY Zenon DEF GateInv
<1>6. OrderInv(r)'
  BY Zenon, <1>1, <1>5 DEF OrderInv
<1>7. TruthInv(r)'
  <2>1. \A k \in Indices : ReceiptOK(receipts[r][r][k])'
    BY Zenon, <1>1, <1>3, <1>5 DEF TruthInv, ReceiptOK, Isolates
  <2>2. \A k \in DOMAIN results'[r] : results'[r][k].held => Isolates'
    BY Zenon, <1>1, <1>5 DEF TruthInv, Isolates
  <2>3. Lost(r)' \in SUBSET (Lost(r) \cup {i})
    <3>1. DOMAIN results[r] \subseteq Indices
      BY SMTT(20), <1>5, ProbeListEnds DEF OrderInv, Indices
    <3>2. QED
      BY Zenon, <1>1, <1>3, <3>1 DEF Lost, Matches
  <2>4. damage \in Nat /\ IsFiniteSet(Lost(r)) /\ Cardinality(Lost(r)) <= damage
    BY Zenon, <1>5 DEF TruthInv
  <2>5. /\ IsFiniteSet(Lost(r) \cup {i})
        /\ Cardinality(Lost(r) \cup {i}) =
             IF i \in Lost(r) THEN Cardinality(Lost(r)) ELSE Cardinality(Lost(r)) + 1
    BY Zenon, <2>4, FS_AddElement
  <2>6. IsFiniteSet(Lost(r)') /\ Cardinality(Lost(r)') <= Cardinality(Lost(r) \cup {i})
    BY Zenon, <2>3, <2>5, FS_Subset
  <2>7. Cardinality(Lost(r)) \in Nat /\ Cardinality(Lost(r)') \in Nat
    BY Zenon, <2>4, <2>6, FS_CardinalityType
  <2>8. Cardinality(Lost(r)') <= damage + 1
    BY <2>4, <2>5, <2>6, <2>7
  <2>9. QED
    BY SMTT(20), <1>1, <2>1, <2>2, <2>4, <2>6, <2>8 DEF TruthInv
<1>8. ManifestInv(r)'
  <2>1. damage' # 0
    BY SMTT(20), <1>1, <1>5 DEF TruthInv
  <2>2. WrittenInv(r) => WrittenInv(r)'
    BY Zenon, <1>1, <2>1 DEF WrittenInv
  <2>3. QED
    BY Zenon, <1>1, <1>5, <2>2 DEF ManifestInv
<1>9. QED
  BY Zenon, <1>1, <1>2, <1>4, <1>6, <1>7, <1>8 DEF GateInv

\* The two invariants of the gate.
THEOREM GateInvariant == Spec => [](EvidenceInv /\ GateInv)
<1>1. Init => GateInv
  <2> SUFFICES ASSUME Init PROVE GateInv
    BY Zenon
  <2>1. WorldInv
    BY Zenon, GateAssumption DEF Init, WorldInv
  <2>2. ASSUME NEW r \in Runs PROVE OrderInv(r) /\ TruthInv(r) /\ ManifestInv(r)
    <3>1. /\ pc[r] = "start" /\ at[r] = 1 /\ results[r] = <<>> /\ manifest[r].kind = "none"
          /\ exit[r] = -1 /\ damage = 0
      BY Zenon DEF Init
    <3>2. OrderInv(r)
      BY <3>1, ProbeListEnds DEF OrderInv
    <3>3. Lost(r) = {}
      BY <3>1 DEF Lost
    <3>4. \A i \in Indices : receipts[r][r][i].kind = "none"
      BY Zenon DEF Init, Directories, NoReceipt
    <3>5. IsFiniteSet(Lost(r)) /\ Cardinality(Lost(r)) = 0
      BY Zenon, <3>3, FS_EmptySet
    <3>6. TruthInv(r)
      BY <3>1, <3>4, <3>5 DEF TruthInv, ReceiptOK
    <3>7. ManifestInv(r)
      BY <3>1 DEF ManifestInv
    <3>8. QED
      BY Zenon, <3>2, <3>6, <3>7
  <2>3. DOMAIN results = Runs /\ DOMAIN manifest = Runs /\ DOMAIN exit = Runs
    BY Zenon DEF Init
  <2>4. QED
    BY Zenon, <2>1, <2>2, <2>3 DEF GateInv
<1>2. EvidenceInv /\ GateInv /\ [Next]_vars => GateInv'
  <2> SUFFICES ASSUME EvidenceInv, GateInv, [Next]_vars PROVE GateInv'
    BY Zenon
  <2>1. ASSUME NEW r \in Runs, RunStep(r) PROVE GateInv'
    BY Zenon, <2>1, RunKeepsGate, DetonationKeepsInv DEF RunStep
  <2>2. ASSUME NEW r \in Runs, NEW i \in Indices, Damage(r, i) PROVE GateInv'
    BY Zenon, <2>2, DamageKeepsGate
  <2> DEFINE Idles ==
        /\ UNCHANGED <<host, at, receipts, damage, results, manifest, exit>>
        /\ policy' = policy \/ policy' = 2
        /\ \A r \in Runs : pc'[r] = pc[r] \/ (pc'[r] = "killed" /\ pc[r] # "done")
  <2>3. ASSUME Idles PROVE GateInv'
    <3>1. WorldInv' /\ Onward
      BY Zenon, <2>3 DEF GateInv, WorldInv, Onward
    <3>2. \A r \in Runs : Steady(r)
      BY Zenon, <2>3 DEF Steady
    <3>3. \A r \in Runs : OrderInv(r)' /\ TruthInv(r)' /\ ManifestInv(r)'
      BY Zenon, <3>1, <3>2, SteadyKeepsInv DEF GateInv
    <3>4. QED
      BY Zenon, <2>3, <3>1, <3>3 DEF GateInv
  <2>4. Kill => Idles
    BY Zenon DEF Kill, Ended, evidence
  <2>5. (\E r \in Runs : VerifyRun(r)) => Idles
    BY Zenon DEF VerifyRun, evidence
  <2>6. RunDoctor \/ UpdatePolicy \/ Idle \/ UNCHANGED vars => Idles
    BY Zenon DEF RunDoctor, UpdatePolicy, Idle, vars, evidence
  <2> HIDE DEF Idles
  <2>7. QED
    BY Zenon, <2>1, <2>2, <2>3, <2>4, <2>5, <2>6 DEF Next
<1>3. QED
  BY <1>1, <1>2, EvidenceInvariant, PTL DEF Spec

\* What the doctor calls a missing prerequisite is one for this host's detonations too,
\* but for the two it may lack.
LEMMA IsolatingHost ==
  ASSUME WorldInv, Isolates
  PROVE  host.lacks \subseteq OptionalChecks \cup IF host.root THEN {"user_namespaces"} ELSE {}
<1>1. host.lacks \subseteq {"commands", "user_namespaces", "seccomp", "cgroup_v2", "kvm",
                            "firecracker_runtime"}
  BY Zenon DEF WorldInv, HostStates
<1>2. QED
  BY Zenon, <1>1 DEF Isolates, OptionalChecks

\* A result that held, and whose receipt is still the one it was read from, was read
\* from a receipt that shows containment.
LEMMA HeldShowsContainment ==
  ASSUME NEW r \in Runs, GateInv, NEW k \in Indices, k \in DOMAIN results[r], results[r][k].held,
         k \notin Lost(r)
  PROVE  Contained(k, receipts[r][r][k])
<1>1. results[r] \in Seq(Results) /\ ReceiptOK(receipts[r][r][k])
  BY Zenon DEF GateInv, OrderInv, TruthInv
<1>2. results[r][k] \in Results
  BY <1>1
<1>3. ~results[r][k].error
  BY Zenon, <1>2, HeldOrError
<1>4. Matches(r, k)
  BY Zenon, <1>3 DEF Lost
<1>5. receipts[r][r][k] \in Receipts
  BY Zenon, <1>1, <1>4 DEF Matches, ReceiptOK
<1>6. EvaluateReceipt(k, receipts[r][r][k]).held
  BY Zenon, <1>4 DEF Matches
<1>7. QED
  BY Zenon, <1>5, <1>6, ResultOfReceipt

\* Exit code 0 takes a receipt that shows containment for every probe, whatever other
\* runs do and however many receipts are damaged meanwhile (main, _evaluate_receipt).
THEOREM ExitZeroEarned == Spec => []ExitZeroIsEarned
<1>1. EvidenceInv /\ GateInv => ExitZeroIsEarned
  <2> SUFFICES ASSUME GateInv, NEW r \in Runs, exit[r] = 0
               PROVE  /\ Cardinality({i \in Indices : ~Contained(i, receipts[r][r][i])}) <= damage
                      /\ host.lacks \subseteq
                           OptionalChecks \cup IF host.root THEN {"user_namespaces"} ELSE {}
    BY Zenon DEF ExitZeroIsEarned
  <2> DEFINE Bare == {i \in Indices : ~Contained(i, receipts[r][r][i])}
  <2>1. pc[r] = "done" /\ AllHeld(results[r]) /\ Len(results[r]) = Len(Probes)
        /\ results[r] \in Seq(Results)
    BY Zenon DEF GateInv, ManifestInv, OrderInv
  <2>2. DOMAIN results[r] = Indices /\ \A k \in Indices : results[r][k].held
    BY <2>1 DEF Indices, AllHeld
  <2>3. Bare \in SUBSET Lost(r)
    BY Zenon, <2>2, HeldShowsContainment
  <2>4. damage \in Nat /\ IsFiniteSet(Lost(r)) /\ Cardinality(Lost(r)) <= damage
    BY Zenon DEF GateInv, TruthInv
  <2>5. IsFiniteSet(Bare) /\ Cardinality(Bare) <= Cardinality(Lost(r))
    BY Zenon, <2>3, <2>4, FS_Subset
  <2> HIDE DEF Bare
  <2>6. Cardinality(Bare) \in Nat /\ Cardinality(Lost(r)) \in Nat
    BY Zenon, <2>4, <2>5, FS_CardinalityType
  <2>7. Cardinality(Bare) <= damage
    BY SMTT(20), <2>4, <2>5, <2>6
  <2>8. Isolates /\ WorldInv
    <3>1. 1 \in Indices
      BY ProbeListEnds DEF Indices
    <3>2. QED
      BY Zenon, <2>2, <3>1 DEF GateInv, TruthInv
  <2>9. QED
    BY Zenon, <2>7, <2>8, IsolatingHost DEF Bare
<1>2. QED
  BY <1>1, GateInvariant, PTL

-------------------------------------------------------------------------------
(* The verifier.                                                               *)

\* The verifier confirms what is whole and nothing else, at whatever moment it looks
\* (verify_run with --expect-all).
THEOREM VerifierAlwaysExact == Spec => VerifierIsExact
<1> DEFINE Exact(r) ==
      /\ verified' = <<r, "yes">> =>
           /\ \A i \in Indices :
                receipts[r][r][i].kind = "whole" /\ receipts[r][r][i].policy = policy
           /\ manifest[r].status = "ALL_BOUNDARIES_HELD" =>
                \A i \in Indices : Contained(i, receipts[r][r][i])
      /\ (/\ manifest[r].kind = "whole" /\ damage = 0 /\ policy = 1
          /\ \A k \in DOMAIN results[r] : ~results[r][k].error)
           => verified' = <<r, "yes">>
<1>1. ASSUME GateInv, NEW r \in Runs, VerifyRun(r) PROVE Exact(r)
  <2>1. verified' = <<r, "yes">> <=>
          manifest[r].kind = "whole" /\ Verifies(manifest[r], receipts[r][r])
    BY Zenon, <1>1 DEF VerifyRun
  <2>2. QED
    BY Zenon, <1>1, <2>1, ConfirmedIsWhole, HonestIsConfirmed
<1>2. GateInv => [\A r \in Runs : VerifyRun(r) => Exact(r)]_vars
  BY Zenon, <1>1
<1>3. QED
  BY <1>2, GateInvariant, PTL DEF VerifierIsExact
===============================================================================
