---------------------------- MODULE DetonationProofs ----------------------------
(***************************************************************************)
(* Proofs about the verdicts of mote/detonate.py, for every set of         *)
(* destinations, every budget and every length of a run: what an ALLOW of  *)
(* either profile takes, that nothing hostile the tracer examined is lost  *)
(* on the way to the receipt, and which runs end in a receipt.             *)
(*                                                                         *)
(* The receipt is judged by the findings, so the invariants say that each  *)
(* failure has left its finding by the time the receipt is put together.   *)
(***************************************************************************)
EXTENDS Detonation, TLAPS

-------------------------------------------------------------------------------
(* The legacy profile.                                                         *)

\* A detector has its fields, and counts of every rule.
Detector(d) ==
  /\ DOMAIN d = {"events", "counts", "canary", "destinations", "incomplete"}
  /\ d.counts \in [Rules -> Nat]

Judged == {"cleanup", "assemble", "written", "raised", "override_refused", "unsaved"}

\* Each failure has left its finding.
FindingInv ==
  /\ Detector(detector)
  /\ pc = "loop" => admitted
  /\ pc \in Judged \cup {"classify"} /\ ~admitted =>
       "isolation_admission_failure" \in Found(detector.counts)
  /\ pc \in Judged /\ (trace_error \/ output_truncated) =>
       "telemetry_loss" \in Found(detector.counts)
  /\ pc \in Judged \ {"cleanup"} /\ ~purged => "purge_failure" \in Found(detector.counts)
  /\ observation # "none" => "payload_observation_incomplete" \in Found(detector.counts)
  /\ pc \in Judged /\ Found(detector.counts) = {} => exec_observed
  /\ detector.canary => "cred_harvest_pattern" \in Found(detector.counts)
  /\ detector.destinations # {} => "network_exfil_attempt" \in Found(detector.counts)

\* A receipt is the last thing there is, and it says what it should.
ReceiptInv ==
  /\ receipt.written => pc = "written"
  /\ AllowIsFailClosed /\ HostileIsReported

VerdictInv == FindingInv /\ ReceiptInv

\* The detector never loses a finding, whatever becomes of the events.
LEMMA RecordFinds ==
  ASSUME NEW d, Detector(d), NEW rules, NEW baseline
  PROVE  /\ Detector(Record(d, rules, baseline))
         /\ Found(Record(d, rules, baseline).counts) = Found(d.counts) \cup (rules \cap Rules)
         /\ Record(d, rules, baseline).canary = d.canary
         /\ Record(d, rules, baseline).destinations = d.destinations
<1> DEFINE e == Record(d, rules, baseline)
<1>1. /\ DOMAIN e = DOMAIN d /\ e.canary = d.canary /\ e.destinations = d.destinations
      /\ e.counts = [r \in Rules |-> d.counts[r] + IF r \in rules THEN 1 ELSE 0]
  BY Zenon DEF Record, Detector
<1>2. e.counts \in [Rules -> Nat]
  BY <1>1 DEF Detector
<1>3. \A r \in Rules : e.counts[r] > 0 <=> d.counts[r] > 0 \/ r \in rules
  BY <1>1 DEF Detector
<1> HIDE DEF e
<1>4. Found(e.counts) = Found(d.counts) \cup (rules \cap Rules)
  BY Zenon, <1>3 DEF Found
<1>5. QED
  BY Zenon, <1>1, <1>2, <1>4 DEF Detector, e

\* The same of a telemetry loss.
LEMMA LossFinds ==
  ASSUME NEW d, Detector(d)
  PROVE  /\ Detector(MarkTelemetryLoss(d))
         /\ Found(MarkTelemetryLoss(d).counts) = Found(d.counts) \cup {"telemetry_loss"}
         /\ MarkTelemetryLoss(d).canary = d.canary
         /\ MarkTelemetryLoss(d).destinations = d.destinations
<1> DEFINE e == Record(d, {"telemetry_loss"}, 0)
<1>1. /\ Detector(e) /\ Found(e.counts) = Found(d.counts) \cup {"telemetry_loss"}
      /\ e.canary = d.canary /\ e.destinations = d.destinations
  BY RecordFinds DEF Rules, KnownBad
<1> HIDE DEF e
<1>2. MarkTelemetryLoss(d) = [e EXCEPT !.incomplete = TRUE]
  BY Zenon DEF MarkTelemetryLoss, e
<1>3. QED
  BY Zenon, <1>1, <1>2 DEF Detector

\* Where nothing is judged yet it is enough that the detector still has what it had.
LEMMA ObservingKeepsInv ==
  ASSUME VerdictInv, Observing, Detector(detector'),
         Found(detector.counts) \subseteq Found(detector'.counts),
         detector'.canary => detector.canary \/ "cred_harvest_pattern" \in Found(detector'.counts),
         detector'.destinations = detector.destinations
           \/ "network_exfil_attempt" \in Found(detector'.counts),
         UNCHANGED <<admitted, observation, receipt>>
  PROVE  VerdictInv'
BY Zenon DEF VerdictInv, FindingInv, ReceiptInv, AllowIsFailClosed, HostileIsReported, Judged,
   Observing

\* What the payload does keeps the invariant.
LEMMA LoopKeepsInv ==
  ASSUME VerdictInv,
         OnOpenat \/ OnConnect \/ OnOtherSyscall \/ OnExec \/ OnOverrun \/ OnTraceError
           \/ OnTruncation
  PROVE  VerdictInv'
<1>0. Detector(detector)
  BY Zenon DEF VerdictInv, FindingInv
<1>1. CASE OnOpenat
  <2>1. PICK rules \in PathRules :
          detector' = [Record(detector, rules, 0) EXCEPT
                         !.canary = @ \/ "cred_harvest_pattern" \in rules]
    BY Zenon, <1>1 DEF OnOpenat
  <2> DEFINE e == Record(detector, rules, 0)
  <2>2. /\ Detector(e) /\ Found(e.counts) = Found(detector.counts) \cup (rules \cap Rules)
        /\ e.canary = detector.canary /\ e.destinations = detector.destinations
    BY Zenon, <1>0, RecordFinds
  <2>3. detector' = [e EXCEPT !.canary = e.canary \/ "cred_harvest_pattern" \in rules]
    BY Zenon, <2>1
  <2> HIDE DEF e
  <2>4. /\ Detector(detector') /\ detector'.counts = e.counts
        /\ detector'.destinations = detector.destinations
        /\ detector'.canary => detector.canary \/ "cred_harvest_pattern" \in rules
    BY Zenon, <2>2, <2>3 DEF Detector
  <2>5. "cred_harvest_pattern" \in Rules
    BY Zenon DEF Rules, KnownBad
  <2>6. QED
    BY Zenon, <1>1, <2>2, <2>4, <2>5, ObservingKeepsInv DEF OnOpenat, PayloadStep, flags
<1>2. CASE OnConnect
  <2>1. PICK d \in Destinations :
          detector' = [Record(detector, {"network_exfil_attempt"}, 0) EXCEPT
                         !.destinations = @ \cup {d}]
    BY Zenon, <1>2 DEF OnConnect
  <2> DEFINE e == Record(detector, {"network_exfil_attempt"}, 0)
  <2>2. /\ Detector(e) /\ e.canary = detector.canary
        /\ Found(e.counts) = Found(detector.counts) \cup {"network_exfil_attempt"}
    BY <1>0, RecordFinds DEF Rules, KnownBad
  <2>3. detector' = [e EXCEPT !.destinations = e.destinations \cup {d}]
    BY Zenon, <2>1
  <2> HIDE DEF e
  <2>4. /\ Detector(detector') /\ detector'.counts = e.counts
        /\ detector'.canary = detector.canary
    BY Zenon, <2>2, <2>3 DEF Detector
  <2>5. QED
    BY Zenon, <1>2, <2>2, <2>4, ObservingKeepsInv DEF OnConnect, PayloadStep, flags
<1>3. CASE OnOtherSyscall \/ OnExec \/ OnOverrun
  <2>1. PICK rules, baseline : detector' = Record(detector, rules, baseline)
    BY Zenon, <1>3 DEF OnOtherSyscall, OnExec, OnOverrun
  <2>2. /\ Detector(detector') /\ Found(detector.counts) \subseteq Found(detector'.counts)
        /\ detector'.canary = detector.canary
        /\ detector'.destinations = detector.destinations
    BY <1>0, <2>1, RecordFinds
  <2>3. Observing /\ UNCHANGED <<admitted, observation, receipt>>
    BY Zenon, <1>3 DEF OnOtherSyscall, OnExec, OnOverrun, PayloadStep, flags
  <2>4. QED
    BY Zenon, <2>2, <2>3, ObservingKeepsInv
<1>4. CASE OnTraceError \/ OnTruncation
  BY Zenon, <1>0, <1>4, ObservingKeepsInv DEF OnTraceError, OnTruncation, PayloadStep
<1>5. QED
  BY Zenon, <1>1, <1>2, <1>3, <1>4

\* The steps before the loop keep the invariant.
LEMMA LaunchKeepsInv ==
  ASSUME VerdictInv, PreflightArtifact \/ RefuseIsolation \/ Admit \/ AbortAdmission
  PROVE  VerdictInv'
<1> USE DEF VerdictInv, FindingInv, ReceiptInv, AllowIsFailClosed, HostileIsReported, Judged
<1>1. CASE PreflightArtifact
  <2>1. PICK found : detector' = Record(detector, found, 0)
    BY Zenon, <1>1 DEF PreflightArtifact
  <2>2. /\ Detector(detector') /\ Found(detector.counts) \subseteq Found(detector'.counts)
        /\ detector'.canary = detector.canary
        /\ detector'.destinations = detector.destinations
    BY <2>1, RecordFinds
  <2>3. QED
    BY Zenon, <1>1, <2>2 DEF PreflightArtifact
<1>2. CASE RefuseIsolation \/ AbortAdmission
  <2> DEFINE e == Record(detector, {"isolation_admission_failure"}, 0)
  <2>1. /\ Detector(e) /\ e.canary = detector.canary /\ e.destinations = detector.destinations
        /\ Found(e.counts) = Found(detector.counts) \cup {"isolation_admission_failure"}
    BY RecordFinds DEF Rules, KnownBad
  <2>2. detector' = MarkTelemetryLoss(e)
    BY Zenon, <1>2 DEF RefuseIsolation, AbortAdmission
  <2> HIDE DEF e
  <2>3. /\ Detector(detector') /\ detector'.canary = detector.canary
        /\ detector'.destinations = detector.destinations
        /\ Found(detector'.counts) =
             Found(detector.counts) \cup {"isolation_admission_failure", "telemetry_loss"}
    BY <2>1, <2>2, LossFinds
  <2>4. pc = "launch" /\ pc' \in {"cleanup", "classify"} /\ UNCHANGED <<observation, receipt>>
    BY Zenon, <1>2 DEF RefuseIsolation, AbortAdmission
  <2>5. QED
    BY Zenon, <2>3, <2>4
<1>3. CASE Admit
  BY Zenon, <1>3 DEF Admit
<1>4. QED
  BY Zenon, <1>1, <1>2, <1>3

\* The judgement of the observation, and the cleanup, keep the invariant.
LEMMA JudgementKeepsInv ==
  ASSUME VerdictInv, LoopEnds \/ Classify \/ Cleanup
  PROVE  VerdictInv'
<1> USE DEF VerdictInv, FindingInv, ReceiptInv, AllowIsFailClosed, HostileIsReported, Judged
<1>1. CASE LoopEnds
  BY Zenon, <1>1 DEF LoopEnds
<1>2. CASE Classify
  <2> DEFINE d == Scanned(detector)
  <2>1. /\ Detector(d) /\ Found(detector.counts) \subseteq Found(d.counts)
        /\ d.canary = detector.canary /\ d.destinations = detector.destinations
        /\ trace_error \/ output_truncated => "telemetry_loss" \in Found(d.counts)
    <3> DEFINE persuaded ==
          Record(detector, IF output = "instructions" THEN {"codex_manipulation"} ELSE {}, 0)
        truncated == IF output_truncated THEN MarkTelemetryLoss(persuaded) ELSE persuaded
    <3>1. /\ Detector(persuaded) /\ Found(detector.counts) \subseteq Found(persuaded.counts)
          /\ persuaded.canary = detector.canary
          /\ persuaded.destinations = detector.destinations
      BY RecordFinds
    <3> HIDE DEF persuaded
    <3>2. /\ Detector(truncated) /\ Found(detector.counts) \subseteq Found(truncated.counts)
          /\ truncated.canary = detector.canary
          /\ truncated.destinations = detector.destinations
          /\ output_truncated => "telemetry_loss" \in Found(truncated.counts)
      BY Zenon, <3>1, LossFinds
    <3>3. d = IF trace_error THEN MarkTelemetryLoss(truncated) ELSE truncated
      BY Zenon DEF Scanned, persuaded
    <3> HIDE DEF truncated, d
    <3>4. QED
      BY Zenon, <3>2, <3>3, LossFinds
  <2>2. /\ observation' = ObservationFailure(d)
        /\ detector' = Record(d, IF observation' = "none" THEN {}
                                 ELSE {"payload_observation_incomplete"}, 0)
    BY Zenon, <1>2 DEF Classify
  <2> HIDE DEF d
  <2>3. /\ Detector(detector') /\ Found(d.counts) \subseteq Found(detector'.counts)
        /\ detector'.canary = detector.canary
        /\ detector'.destinations = detector.destinations
        /\ observation' # "none" =>
             "payload_observation_incomplete" \in Found(detector'.counts)
    BY <2>1, <2>2, RecordFinds DEF Rules, Anomalous
  <2>4. Found(detector'.counts) = {} => ~admitted \/ exec_observed
    BY Zenon, <2>2, <2>3 DEF ObservationFailure
  <2>5. /\ pc = "classify" /\ pc' = "cleanup"
        /\ UNCHANGED <<admitted, exec_observed, trace_error, output_truncated, receipt>>
    BY Zenon, <1>2 DEF Classify
  <2>6. QED
    BY Zenon, <2>1, <2>3, <2>4, <2>5
<1>3. CASE Cleanup
  <2>1. /\ Detector(detector') /\ Found(detector.counts) \subseteq Found(detector'.counts)
        /\ detector'.canary = detector.canary
        /\ detector'.destinations = detector.destinations
        /\ ~purged' => "purge_failure" \in Found(detector'.counts)
    BY <1>3, RecordFinds DEF Cleanup, Rules, KnownBad
  <2>2. QED
    BY Zenon, <1>3, <2>1 DEF Cleanup
<1>4. QED
  BY Zenon, <1>1, <1>2, <1>3

\* What a receipt with this report can say.
LEMMA GateIsFailClosed ==
  ASSUME NEW report, NEW override, NEW g, g = ApplyScoringMatrix(report, override)
  PROVE  /\ g.override = override
         /\ report.evidence["payload_observation_incomplete"] > 0 => g.final # "ALLOW"
         /\ Found(report.evidence) \cap Unoverridable # {} => g.final # "ALLOW"
         /\ Found(report.evidence) # {} => g.policy # "ALLOW"
         /\ override = "none" /\ Found(report.evidence) # {} => g.final # "ALLOW"
<1>1. Found(report.evidence) # {} => PolicyDecision(report) # "ALLOW"
  BY Zenon DEF PolicyDecision
<1>2. QED
  BY Zenon, <1>1 DEF ApplyScoringMatrix

\* The receipt keeps the invariant.
LEMMA AssembleKeepsInv ==
  ASSUME VerdictInv, Assemble
  PROVE  VerdictInv'
<1>0. FindingInv'
  BY Zenon DEF VerdictInv, FindingInv, Assemble, OverrideRefused, Unsaved, flags, Judged
<1>1. CASE UNCHANGED receipt
  <2>1. pc = "assemble" /\ ~receipt.written
    BY Zenon DEF Assemble, VerdictInv, ReceiptInv
  <2>2. QED
    BY Zenon, <1>0, <1>1, <2>1 DEF VerdictInv, ReceiptInv, AllowIsFailClosed, HostileIsReported
<1>2. ASSUME NEW override, receipt' = Assembled(override), pc' = "written"
      PROVE  VerdictInv'
  <2> DEFINE F == Found(detector.counts)
             E == Found(receipt'.report.evidence)
  <2>1. /\ receipt'.report = OutwardReport
        /\ receipt'.gate = ApplyScoringMatrix(OutwardReport, override)
    BY Zenon, <1>2 DEF Assembled
  <2>2. UNCHANGED <<detector, flags, observation, purged>> /\ pc = "assemble"
    BY Zenon DEF Assemble
  <2>3. CASE Reportable
    <3>1. receipt'.report.evidence = detector.counts /\ receipt'.report.risk = Risk(detector.counts)
      BY <2>1, <2>3 DEF OutwardReport
    <3>2. /\ receipt'.gate.override = override
          /\ "payload_observation_incomplete" \in F => receipt'.gate.final # "ALLOW"
          /\ F \cap Unoverridable # {} => receipt'.gate.final # "ALLOW"
          /\ F # {} => receipt'.gate.policy # "ALLOW"
          /\ override = "none" /\ F # {} => receipt'.gate.final # "ALLOW"
      BY <2>1, <3>1, GateIsFailClosed DEF Found
    <3>3. AllowIsFailClosed'
      BY Zenon, <2>2, <3>2 DEF AllowIsFailClosed, VerdictInv, FindingInv, Judged, flags,
         Unoverridable
    <3>4. HostileIsReported'
      BY Zenon, <2>2, <3>1, <3>2 DEF HostileIsReported, VerdictInv, FindingInv, Risk, KnownBad
    <3>5. QED
      BY Zenon, <1>0, <1>2, <3>3, <3>4 DEF VerdictInv, ReceiptInv
  <2>4. CASE ~Reportable
    <3>1. /\ receipt'.report.evidence = [NoFindings EXCEPT !["broker_failure"] = 1]
          /\ receipt'.report.risk = "hostile"
      BY <2>1, <2>4 DEF OutwardReport
    <3>2. "broker_failure" \in E
      BY <3>1 DEF Found, NoFindings, Rules, KnownBad
    <3>3. receipt'.gate.final # "ALLOW" /\ receipt'.gate.policy # "ALLOW"
      BY <2>1, <3>2, GateIsFailClosed DEF Unoverridable
    <3>4. QED
      BY Zenon, <1>0, <1>2, <3>1, <3>3 DEF VerdictInv, ReceiptInv, AllowIsFailClosed,
         HostileIsReported
  <2>5. QED
    BY Zenon, <2>3, <2>4
<1>3. QED
  BY Zenon, <1>1, <1>2 DEF Assemble, OverrideRefused, Unsaved

\* Every step of the legacy profile keeps the invariant.
LEMMA LegacyKeepsInv ==
  ASSUME VerdictInv, Next \/ UNCHANGED vars
  PROVE  VerdictInv'
<1>1. CASE UNCHANGED vars
  BY <1>1 DEF vars, flags, VerdictInv, FindingInv, ReceiptInv, AllowIsFailClosed,
     HostileIsReported
<1>2. QED
  BY Zenon, <1>1, LaunchKeepsInv, LoopKeepsInv, JudgementKeepsInv, AssembleKeepsInv
    DEF Next, Finished

-------------------------------------------------------------------------------
(* The browser profile.                                                        *)

\* What the guest reports and what the reducer makes of it.
KindFinding ==
  {<<"browser_loss", "web_browser_telemetry_loss">>, <<"cdp_loss", "web_cdp_telemetry_loss">>,
   <<"failed", "web_browser_execution_failed">>, <<"navigation_failed", "web_navigation_failed">>,
   <<"miscount", "web_evidence_count_mismatch">>, <<"gap", "web_evidence_sequence_gap">>,
   <<"over_budget", "web_event_budget_exceeded">>, <<"redirects", "web_redirect_budget_exceeded">>,
   <<"unauthorized", "web_unauthorized_origin_attempt">>,
   <<"blocked", "web_blocked_egress_attempt">>, <<"popup", "web_popup_attempt">>,
   <<"interaction", "web_active_interaction_attempt">>,
   <<"sandbox_inactive", "web_browser_sandbox_inactive">>}

\* Each gap, loss and oddity of the evidence has left its finding.
ReductionInv ==
  /\ ~guest.browser => "web_browser_telemetry_loss" \in reduction.findings
  /\ ~guest.cdp => "web_cdp_telemetry_loss" \in reduction.findings
  /\ ~B!EgressComplete => "web_egress_telemetry_loss" \in reduction.findings
  /\ ~({"started", "stopped"} \subseteq vm) =>
       "web_vm_lifecycle_incomplete" \in reduction.findings
  /\ \A kf \in KindFinding : kf[1] \in guest.seen => kf[2] \in reduction.findings
  /\ reduction.findings = {} => B!Nominal \subseteq guest.seen /\ egress = {}

BrowserInv ==
  /\ guest.seen \subseteq B!Kinds /\ egress \subseteq {"blocked", "loss"}
  /\ stage \in {"reduced", "gated", "written"} => ReductionInv
  /\ stage \in {"gated", "written"} =>
       /\ "destinations" \notin guest.seen
       /\ \E override \in {"none", "ALLOW", "DENY"} : gate = B!ApplyScoringMatrix(B!Findings, override)
  /\ stage = "written" => B!ValidRuntime

\* Whatever the deviation, the guest reports kinds of events there are.
LEMMA ReportsAreKinds == \A r \in B!Reports : r \subseteq B!Kinds
<1>1. \A d \in SUBSET B!Kinds : B!Implied(d) \subseteq B!Kinds
  BY Zenon DEF B!Implied, B!Kinds, B!Odd
<1>2. B!Nominal \subseteq B!Kinds
  BY Zenon DEF B!Kinds
<1>3. QED
  BY Zenon, <1>1, <1>2 DEF B!Reports

\* The reducer finds everything ReductionInv lists.
LEMMA ReduceFinds ==
  ASSUME B!Reduce, egress \subseteq {"blocked", "loss"}
  PROVE  ReductionInv'
<1>1. /\ reduction'.findings = B!ClosingFindings \cup B!MissingFindings \cup B!BehaviourFindings
      /\ vm' = B!VmEvents /\ UNCHANGED <<egress, guest, proxy, checks, proxy_complete>>
  BY Zenon DEF B!Reduce, B!EnforcePurgeGate, B!ReduceBrowserEvidence, B!endVars
<1>2. /\ B!Loss("browser") = "web_browser_telemetry_loss"
      /\ B!Loss("cdp") = "web_cdp_telemetry_loss"
      /\ B!Loss("egress") = "web_egress_telemetry_loss"
  BY Zenon DEF B!Loss
<1>3. /\ B!StreamComplete["browser"] = guest.browser /\ B!StreamComplete["cdp"] = guest.cdp
      /\ B!StreamComplete["egress"] = B!EgressComplete
  BY Zenon DEF B!StreamComplete, B!Streams
<1>4. \A st \in B!Streams : ~B!StreamComplete[st] => B!Loss(st) \in B!ClosingFindings
  BY Zenon DEF B!ClosingFindings
<1>5. /\ ~guest.browser => "web_browser_telemetry_loss" \in B!ClosingFindings
      /\ ~guest.cdp => "web_cdp_telemetry_loss" \in B!ClosingFindings
      /\ ~B!EgressComplete => "web_egress_telemetry_loss" \in B!ClosingFindings
  BY Zenon, <1>2, <1>3, <1>4 DEF B!Streams
<1>6. \A kf \in KindFinding :
        kf[1] \in guest.seen => kf[2] \in B!ClosingFindings \cup B!BehaviourFindings
  BY <1>2 DEF KindFinding, B!ClosingFindings, B!BehaviourFindings, B!Seen
<1>7. ~({"started", "stopped"} \subseteq B!VmEvents) =>
        "web_vm_lifecycle_incomplete" \in B!MissingFindings
  BY Zenon DEF B!MissingFindings
<1>8. ASSUME reduction'.findings = {} PROVE B!Nominal \subseteq guest.seen
  <2>1. {"started", "stopped"} \subseteq guest.seen
    BY Zenon, <1>1, <1>8 DEF B!MissingFindings
  <2>2. "navigation" \in guest.seen
    BY <1>1, <1>6, <1>8 DEF B!MissingFindings, KindFinding
  <2>3. "sandbox_active" \in guest.seen
    BY Zenon, <1>1, <1>6, <1>8 DEF B!MissingFindings, KindFinding
  <2>4. QED
    BY Zenon, <2>1, <2>2, <2>3 DEF B!Nominal
<1>9. ASSUME reduction'.findings = {} PROVE egress = {}
  <2>1. "blocked" \in egress => "web_blocked_egress_attempt" \in B!BehaviourFindings
    BY Zenon DEF B!BehaviourFindings
  <2>2. "loss" \in egress => "web_egress_telemetry_loss" \in B!ClosingFindings
    BY Zenon, <1>2 DEF B!ClosingFindings
  <2>3. QED
    BY Zenon, <1>1, <1>9, <2>1, <2>2
<1>10. QED
  BY Zenon, <1>1, <1>5, <1>6, <1>7, <1>8, <1>9 DEF ReductionInv, B!EgressComplete

\* Every step of the browser profile keeps the invariant.
LEMMA BrowserKeepsInv ==
  ASSUME BrowserInv, B!Next \/ UNCHANGED browserVars
  PROVE  BrowserInv'
<1> USE DEF B!jobVars, B!endVars
<1>1. CASE B!Unavailable \/ B!LaunchFails \/ B!Boot \/ B!GuestFails
  BY Zenon, <1>1 DEF B!Unavailable, B!LaunchFails, B!Boot, B!GuestFails, B!Failing, BrowserInv
<1>2. CASE B!TakeOver
  <2>1. guest'.seen \subseteq B!Kinds
    BY Zenon, <1>2, ReportsAreKinds DEF B!TakeOver, B!Bundles
  <2>2. QED
    BY Zenon, <1>2, <2>1 DEF B!TakeOver, B!Failing, BrowserInv
<1>3. CASE B!Finally
  BY Zenon, <1>3 DEF B!Finally, BrowserInv
<1>4. CASE B!Reduce
  BY Zenon, <1>4, ReduceFinds DEF B!Reduce, BrowserInv
<1>5. CASE B!Gate
  <2>1. ReductionInv'
    BY Zenon, <1>5 DEF B!Gate, B!OverrideRefused, BrowserInv, ReductionInv, B!EgressComplete
  <2>2. UNCHANGED B!Findings
    BY Zenon, <1>5 DEF B!Gate, B!OverrideRefused, B!Findings, B!PurgeVerified
  <2>3. QED
    BY Zenon, <1>5, <2>1, <2>2 DEF B!Gate, B!OverrideRefused, BrowserInv
<1>6. CASE B!CreateReceipt \/ B!Done \/ UNCHANGED browserVars
  <2>1. /\ UNCHANGED <<vm, egress, guest, runtime_admitted, proxy, checks, proxy_complete,
                       readback, reduction, gate>>
        /\ stage' = "written" => stage \in {"gated", "written"}
        /\ stage' \in {"reduced", "gated"} => stage' = stage
        /\ stage' = "written" => B!ValidRuntime
    BY Zenon, <1>6 DEF B!CreateReceipt, B!Unsaved, B!Done, B!NoReceipt, B!vars, browserVars,
       BrowserInv, B!ValidBrowserReceipt
  <2>2. UNCHANGED <<B!Findings, B!ValidRuntime, B!EgressComplete>>
    BY Zenon, <2>1 DEF B!Findings, B!PurgeVerified, B!ValidRuntime, B!EgressComplete
  <2>3. QED
    BY Zenon, <2>1, <2>2 DEF BrowserInv, ReductionInv
<1>7. QED
  BY Zenon, <1>1, <1>2, <1>3, <1>4, <1>5, <1>6 DEF B!Next

\* The findings and the gate leave an ALLOW no other way.
LEMMA BrowserInvAllows == BrowserInv => BrowserAllowIsEarned
<1> SUFFICES ASSUME BrowserInv, stage = "written", gate.final = "ALLOW"
             PROVE  /\ runtime_admitted /\ B!PurgeVerified /\ readback /\ B!EgressComplete
                    /\ guest.browser /\ guest.cdp /\ {"started", "stopped"} \subseteq vm
                    /\ guest.seen \cap {"browser_loss", "cdp_loss", "gap", "miscount", "failed",
                                        "sandbox_inactive", "over_budget", "redirects"} = {}
                    /\ gate.override = "none" => guest.seen = B!Nominal /\ egress = {}
  BY Zenon DEF BrowserAllowIsEarned, B!AllowIsEarned
<1>1. PICK override : gate = B!ApplyScoringMatrix(B!Findings, override)
  BY Zenon DEF BrowserInv
<1>2. /\ B!Findings \subseteq B!Overridable
      /\ gate.override = "none" => B!Findings = {}
  BY Zenon, <1>1 DEF B!ApplyScoringMatrix, B!FailClosed
<1>3. reduction.findings \subseteq B!Overridable
  BY Zenon, <1>2 DEF B!Findings
<1>4. runtime_admitted /\ B!PurgeVerified
  BY Zenon, <1>2 DEF B!Findings, B!Overridable
<1>5. readback
  BY Zenon, <1>4 DEF BrowserInv, B!ValidRuntime
<1>6. ReductionInv /\ "destinations" \notin guest.seen
  BY Zenon DEF BrowserInv
<1>7. /\ guest.browser /\ guest.cdp /\ B!EgressComplete /\ {"started", "stopped"} \subseteq vm
  BY Zenon, <1>3, <1>6 DEF ReductionInv, B!Overridable
<1>8. guest.seen \cap {"browser_loss", "cdp_loss", "gap", "miscount", "failed",
                       "sandbox_inactive", "over_budget", "redirects"} = {}
  BY <1>3, <1>6 DEF ReductionInv, KindFinding, B!Overridable
<1>9. ASSUME gate.override = "none" PROVE guest.seen = B!Nominal /\ egress = {}
  <2>1. reduction.findings = {}
    BY Zenon, <1>2, <1>9 DEF B!Findings
  <2>2. \A kf \in KindFinding : kf[1] \notin guest.seen
    BY Zenon, <1>6, <2>1 DEF ReductionInv
  <2>3. guest.seen \cap B!Odd = {}
    BY Zenon, <1>6, <2>2 DEF KindFinding, B!Odd
  <2>4. QED
    BY Zenon, <1>6, <2>1, <2>3 DEF ReductionInv, BrowserInv, B!Kinds
<1>10. QED
  BY Zenon, <1>4, <1>5, <1>7, <1>8, <1>9

-------------------------------------------------------------------------------
(* One detonation, whichever profile it goes through.                          *)

\* The invariant of the two profiles side by side.
THEOREM DetonationInvariant == DetonationSpec => [](VerdictInv /\ BrowserInv)
<1>1. DetonationInit => VerdictInv /\ BrowserInv
  <2> SUFFICES ASSUME DetonationInit PROVE VerdictInv /\ BrowserInv
    BY Zenon
  <2>1. Detector(detector) /\ Found(detector.counts) = {}
    BY SMTT(20) DEF DetonationInit, Init, Detector, Found, NoFindings
  <2>2. VerdictInv
    BY Zenon, <2>1 DEF DetonationInit, Init, VerdictInv, FindingInv, ReceiptInv, AllowIsFailClosed,
       HostileIsReported, Judged
  <2>3. BrowserInv
    BY Zenon DEF DetonationInit, B!Init, B!NoGuest, BrowserInv
  <2>4. QED
    BY Zenon, <2>2, <2>3
<1>2. VerdictInv /\ BrowserInv /\ [DetonationNext]_detonationVars => (VerdictInv /\ BrowserInv)'
  <2> SUFFICES ASSUME VerdictInv, BrowserInv, [DetonationNext]_detonationVars
               PROVE  VerdictInv' /\ BrowserInv'
    BY Zenon
  <2>1. (Next \/ UNCHANGED vars) /\ (B!Next \/ UNCHANGED browserVars)
    BY Zenon DEF DetonationNext, Dispatch, Refuse, LegacyStep, BrowserStep, CliExits, Over,
       detonationVars
  <2>2. QED
    BY Zenon, <2>1, LegacyKeepsInv, BrowserKeepsInv
<1>3. QED
  BY <1>1, <1>2, PTL DEF DetonationSpec

\* ALLOW of a legacy run, by whatever authority, takes an admitted sandbox, a tracer
\* that did not fail, whole output and a verified purge (mote/detonate.py, policy gate).
THEOREM LegacyAllowIsFailClosed == DetonationSpec => []AllowIsFailClosed
<1>1. VerdictInv => AllowIsFailClosed
  BY Zenon DEF VerdictInv, ReceiptInv
<1>2. QED
  BY <1>1, DetonationInvariant, PTL

\* No event budget makes a receipt lose a read canary or a connection attempt
\* (DetectorEngine.record).
THEOREM HostileNeverLost == DetonationSpec => []HostileIsReported
<1>1. VerdictInv => HostileIsReported
  BY Zenon DEF VerdictInv, ReceiptInv
<1>2. QED
  BY <1>1, DetonationInvariant, PTL

\* ALLOW of a browser probe takes four complete and closed streams of an admitted and
\* purged run, whatever and however much the guest reports (reduce_browser_evidence).
THEOREM BrowserAllowEarned == DetonationSpec => []BrowserAllowIsEarned
BY DetonationInvariant, BrowserInvAllows, PTL

-------------------------------------------------------------------------------
(* Whether a receipt is written at all.                                        *)

\* The findings the validator of a legacy receipt counts.
Counted == {"purge_failure", "isolation_admission_failure", "payload_observation_incomplete"}

\* Each of them is found once at most, and when it is, the telemetry is known to be
\* incomplete: so that what the runner assembles is what the validator expects.
CountInv ==
  /\ detector.counts["purge_failure"] =
       IF pc \in {"assemble", "written"} \cup NoReceipt /\ ~purged THEN 1 ELSE 0
  /\ detector.counts["isolation_admission_failure"] \in {0, 1}
  /\ pc \in {"preflight", "launch", "loop"} =>
       detector.counts["isolation_admission_failure"] = 0
  /\ detector.counts["payload_observation_incomplete"] = IF observation = "none" THEN 0 ELSE 1
  /\ pc \in {"preflight", "launch", "loop", "classify"} => observation = "none"
  /\ missing => detector.counts["isolation_admission_failure"] = 1
  /\ observation # "none" => admitted /\ telemetry_incomplete
  /\ detector.counts["isolation_admission_failure"] = 1 => telemetry_incomplete
  /\ pc \in {"assemble", "written"} \cup NoReceipt /\ ~purged => telemetry_incomplete
  /\ pc = "raised" => ~Reportable

\* Recording adds one to the count of each rule that fired, and nothing to the others.
LEMMA RecordCounts ==
  ASSUME NEW d, Detector(d), NEW rules, NEW baseline, NEW r \in Rules
  PROVE  Record(d, rules, baseline).counts[r] = IF r \in rules THEN d.counts[r] + 1 ELSE d.counts[r]
<1>1. Record(d, rules, baseline).counts = [q \in Rules |-> d.counts[q] + IF q \in rules THEN 1 ELSE 0]
  BY Zenon DEF Record, Detector
<1>2. d.counts[r] \in Nat
  BY Zenon DEF Detector
<1>3. QED
  BY <1>1, <1>2

\* The same, of the one rule that fired.
LEMMA RecordOneCounts ==
  ASSUME NEW d, Detector(d), NEW rule \in Rules, NEW r \in Rules
  PROVE  /\ Record(d, {}, 0).counts[r] = d.counts[r]
         /\ Record(d, {rule}, 0).counts[r] = IF r = rule THEN d.counts[r] + 1 ELSE d.counts[r]
<1>1. Record(d, {}, 0).counts[r] = d.counts[r]
  BY RecordCounts
<1>2. r \in {rule} <=> r = rule
  BY Zenon
<1>3. Record(d, {rule}, 0).counts[r] = IF r \in {rule} THEN d.counts[r] + 1 ELSE d.counts[r]
  BY RecordCounts
<1>4. QED
  BY Zenon, <1>1, <1>2, <1>3

\* A telemetry loss leaves the other counts alone.
LEMMA LossCounts ==
  ASSUME NEW d, Detector(d), NEW r \in Counted
  PROVE  MarkTelemetryLoss(d).counts[r] = d.counts[r]
<1> DEFINE e == Record(d, {"telemetry_loss"}, 0)
<1>1. r \in Rules /\ r # "telemetry_loss"
  BY Zenon DEF Counted, Rules, KnownBad, Anomalous
<1>2. e.counts[r] = d.counts[r] /\ Detector(e)
  BY <1>1, RecordCounts, RecordFinds
<1> HIDE DEF e
<1>3. MarkTelemetryLoss(d) = [e EXCEPT !.incomplete = TRUE]
  BY Zenon DEF MarkTelemetryLoss, e
<1>4. QED
  BY Zenon, <1>2, <1>3 DEF Detector

\* Up to the end of the loop nothing that is counted is found, but for a refused sandbox.
LEMMA QuietKeepsCounts ==
  ASSUME CountInv, pc \in {"preflight", "launch", "loop"}, pc' \in {"launch", "loop", "classify"},
         \A r \in Counted : detector'.counts[r] = detector.counts[r],
         UNCHANGED <<missing, observation>>
  PROVE  CountInv'
BY DEF CountInv, NoReceipt, Counted

\* The rules of the preflight and of the loop are none of the counted ones.
LEMMA LoopKeepsCounts ==
  ASSUME VerdictInv, CountInv,
         PreflightArtifact \/ Admit \/ OnOpenat \/ OnConnect \/ OnOtherSyscall \/ OnExec
           \/ OnOverrun \/ OnTraceError \/ OnTruncation \/ LoopEnds
  PROVE  CountInv'
<1>0. Detector(detector) /\ Counted \subseteq Rules
  BY Zenon DEF VerdictInv, FindingInv, Counted, Rules, KnownBad, Anomalous
<1>1. /\ pc \in {"preflight", "launch", "loop"} /\ pc' \in {"launch", "loop", "classify"}
      /\ UNCHANGED <<missing, observation>>
  BY Zenon DEF PreflightArtifact, Admit, OnOpenat, OnConnect, OnOtherSyscall, OnExec, OnOverrun,
     OnTraceError, OnTruncation, LoopEnds, PayloadStep, Observing, flags
<1>2. ASSUME NEW rules, NEW baseline, rules \cap Counted = {}
      PROVE  \A r \in Counted : Record(detector, rules, baseline).counts[r] = detector.counts[r]
  BY <1>0, <1>2, RecordCounts
<1>3. \A r \in Counted : detector'.counts[r] = detector.counts[r]
  <2>1. CASE PreflightArtifact
    BY <1>2, <2>1 DEF PreflightArtifact, Counted
  <2>2. CASE OnOpenat
    <3>1. PICK rules \in PathRules :
            detector' = [Record(detector, rules, 0) EXCEPT
                           !.canary = @ \/ "cred_harvest_pattern" \in rules]
      BY Zenon, <2>2 DEF OnOpenat
    <3>2. rules \cap Counted = {}
      BY Zenon DEF PathRules, Counted
    <3> DEFINE e == Record(detector, rules, 0)
    <3>3. Detector(e) /\ \A r \in Counted : e.counts[r] = detector.counts[r]
      <4>1. Detector(e)
        BY Zenon, <1>0, RecordFinds
      <4>2. \A r \in Counted : e.counts[r] = detector.counts[r]
        BY Zenon, <1>2, <3>2
      <4>3. QED
        BY Zenon, <4>1, <4>2
    <3>4. detector' = [e EXCEPT !.canary = e.canary \/ "cred_harvest_pattern" \in rules]
      BY Zenon, <3>1
    <3> HIDE DEF e
    <3>5. detector'.counts = e.counts
      BY Zenon, <3>3, <3>4 DEF Detector
    <3>6. QED
      BY Zenon, <3>3, <3>5
  <2>3. CASE OnConnect
    <3>1. PICK d : detector' = [Record(detector, {"network_exfil_attempt"}, 0) EXCEPT
                                  !.destinations = @ \cup {d}]
      BY Zenon, <2>3 DEF OnConnect
    <3> DEFINE e == Record(detector, {"network_exfil_attempt"}, 0)
    <3>2. {"network_exfil_attempt"} \cap Counted = {}
      BY Zenon DEF Counted
    <3>3. Detector(e) /\ \A r \in Counted : e.counts[r] = detector.counts[r]
      <4>1. Detector(e)
        BY Zenon, <1>0, RecordFinds
      <4>2. \A r \in Counted : e.counts[r] = detector.counts[r]
        BY Zenon, <1>2, <3>2
      <4>3. QED
        BY Zenon, <4>1, <4>2
    <3>4. detector' = [e EXCEPT !.destinations = e.destinations \cup {d}]
      BY Zenon, <3>1
    <3> HIDE DEF e
    <3>5. detector'.counts = e.counts
      BY Zenon, <3>3, <3>4 DEF Detector
    <3>6. QED
      BY Zenon, <3>3, <3>5
  <2>4. CASE OnOtherSyscall \/ OnExec \/ OnOverrun
    <3>1. PICK rules, baseline : /\ detector' = Record(detector, rules, baseline)
                                 /\ rules \cap Counted = {}
      <4>1. CASE OnOtherSyscall
        BY Zenon, <4>1 DEF OnOtherSyscall, Counted
      <4>2. CASE OnExec
        BY <4>2 DEF OnExec, Counted
      <4>3. CASE OnOverrun
        BY <4>3 DEF OnOverrun, Counted
      <4>4. QED
        BY Zenon, <2>4, <4>1, <4>2, <4>3
    <3>2. QED
      BY Zenon, <1>2, <3>1
  <2>5. CASE Admit \/ OnTraceError \/ OnTruncation \/ LoopEnds
    BY Zenon, <2>5 DEF Admit, OnTraceError, OnTruncation, LoopEnds
  <2>6. QED
    BY Zenon, <2>1, <2>2, <2>3, <2>4, <2>5
<1>4. QED
  BY Zenon, <1>1, <1>3, QuietKeepsCounts

\* A sandbox that is refused, or a tracer that is not attached, is counted once.
LEMMA RefusalKeepsCounts ==
  ASSUME VerdictInv, CountInv, RefuseIsolation \/ AbortAdmission
  PROVE  CountInv'
<1> DEFINE e == Record(detector, {"isolation_admission_failure"}, 0)
<1>0. Detector(detector)
  BY Zenon DEF VerdictInv, FindingInv
<1>1. /\ Detector(e) /\ e.counts["purge_failure"] = detector.counts["purge_failure"]
      /\ e.counts["isolation_admission_failure"] = detector.counts["isolation_admission_failure"] + 1
      /\ e.counts["payload_observation_incomplete"] = detector.counts["payload_observation_incomplete"]
  <2>1. {"purge_failure", "isolation_admission_failure", "payload_observation_incomplete"}
          \subseteq Rules
    BY Zenon DEF Rules, KnownBad, Anomalous
  <2>2. Detector(e)
    BY Zenon, <1>0, RecordFinds
  <2>3. QED
    BY <1>0, <2>1, <2>2, RecordOneCounts
<1>2. detector' = MarkTelemetryLoss(e)
  BY Zenon DEF RefuseIsolation, AbortAdmission
<1> HIDE DEF e
<1>3. \A r \in Counted : detector'.counts[r] = e.counts[r]
  BY Zenon, <1>1, <1>2, LossCounts
<1>4. /\ detector.counts["purge_failure"] = 0
      /\ detector.counts["isolation_admission_failure"] = 0
      /\ detector.counts["payload_observation_incomplete"] = 0 /\ observation = "none"
  BY Zenon DEF CountInv, NoReceipt, RefuseIsolation, AbortAdmission
<1>5. /\ detector'.counts["purge_failure"] = 0
      /\ detector'.counts["isolation_admission_failure"] = 1
      /\ detector'.counts["payload_observation_incomplete"] = 0
  BY <1>1, <1>3, <1>4 DEF Counted
<1>6. /\ pc' \in {"cleanup", "classify"} /\ telemetry_incomplete' = TRUE /\ observation' = observation
  BY Zenon DEF RefuseIsolation, AbortAdmission
<1>7. QED
  BY Zenon, <1>4, <1>5, <1>6 DEF CountInv, NoReceipt

\* The observation is judged once, and the purge is attested once.
LEMMA JudgementKeepsCounts ==
  ASSUME VerdictInv, CountInv, Classify \/ Cleanup
  PROVE  CountInv'
<1>0. Detector(detector) /\ Counted \subseteq Rules
  BY Zenon DEF VerdictInv, FindingInv, Counted, Rules, KnownBad, Anomalous
<1> DEFINE poi == "payload_observation_incomplete"
           iso == "isolation_admission_failure"
           pf == "purge_failure"
<1>9. poi \in Counted /\ iso \in Counted /\ pf \in Counted
  BY Zenon DEF Counted
<1>1. CASE Classify
  <2> DEFINE d == Scanned(detector)
  <2>1. Detector(d) /\ \A r \in Counted : d.counts[r] = detector.counts[r]
    <3> DEFINE persuaded ==
          Record(detector, IF output = "instructions" THEN {"codex_manipulation"} ELSE {}, 0)
        truncated == IF output_truncated THEN MarkTelemetryLoss(persuaded) ELSE persuaded
    <3>1. Detector(persuaded) /\ \A r \in Counted : persuaded.counts[r] = detector.counts[r]
      <4> DEFINE rules == IF output = "instructions" THEN {"codex_manipulation"} ELSE {}
      <4>1. \A r \in Counted : r \notin rules
        BY Zenon DEF Counted
      <4> HIDE DEF rules
      <4>2. Detector(Record(detector, rules, 0))
        BY Zenon, <1>0, RecordFinds
      <4>3. \A r \in Counted : Record(detector, rules, 0).counts[r] = detector.counts[r]
        BY <1>0, <4>1, RecordCounts
      <4>4. QED
        BY Zenon, <4>2, <4>3 DEF rules
    <3> HIDE DEF persuaded
    <3>2. Detector(truncated) /\ \A r \in Counted : truncated.counts[r] = detector.counts[r]
      BY Zenon, <3>1, LossFinds, LossCounts
    <3>3. d = IF trace_error THEN MarkTelemetryLoss(truncated) ELSE truncated
      BY Zenon DEF Scanned, persuaded
    <3> HIDE DEF truncated, d
    <3>4. QED
      BY Zenon, <3>2, <3>3, LossFinds, LossCounts
  <2>2. /\ observation' = ObservationFailure(d)
        /\ detector' = Record(d, IF observation' = "none" THEN {}
                                 ELSE {"payload_observation_incomplete"}, 0)
    BY Zenon, <1>1 DEF Classify
  <2> HIDE DEF d
  <2>3. /\ pc = "classify" /\ pc' = "cleanup" /\ UNCHANGED <<admitted, missing, purged>>
        /\ observation' # "none" => telemetry_incomplete'
        /\ telemetry_incomplete => telemetry_incomplete'
    BY Zenon, <1>1 DEF Classify
  <2>4. d.counts[poi] = 0
    BY Zenon, <1>9, <2>1, <2>3 DEF CountInv, NoReceipt
  <2>5. /\ detector'.counts[pf] = detector.counts[pf] /\ detector'.counts[iso] = detector.counts[iso]
        /\ detector'.counts[poi] = IF observation' = "none" THEN 0 ELSE 1
    <3>1. CASE observation' = "none"
      <4>1. detector' = Record(d, {}, 0)
        BY Zenon, <2>2, <3>1
      <4>2. QED
        <5>1. \A r \in Counted : Record(d, {}, 0).counts[r] = d.counts[r]
          BY Zenon, <1>0, <1>9, <2>1, RecordOneCounts
        <5>2. QED
          BY Zenon, <1>9, <2>1, <2>4, <3>1, <4>1, <5>1
    <3>2. CASE observation' # "none"
      <4>1. detector' = Record(d, {poi}, 0)
        BY Zenon, <2>2, <3>2
      <4>2. QED
        <5>1. \A r \in Counted :
                Record(d, {poi}, 0).counts[r] = IF r = poi THEN d.counts[r] + 1 ELSE d.counts[r]
          BY <1>0, <1>9, <2>1, RecordOneCounts
        <5>2. QED
          BY <1>9, <2>1, <2>4, <3>2, <4>1, <5>1
    <3>3. QED
      BY Zenon, <3>1, <3>2
  <2>6. observation' # "none" => admitted
    BY Zenon, <2>2 DEF ObservationFailure
  <2>7. QED
    BY Zenon, <2>3, <2>5, <2>6 DEF CountInv, NoReceipt
<1>2. CASE Cleanup
  <2>1. /\ pc = "cleanup" /\ pc' = "assemble" /\ purged' \in BOOLEAN
        /\ detector' = Record(detector, IF purged' THEN {} ELSE {"purge_failure"}, 0)
        /\ UNCHANGED <<admitted, missing, observation>>
        /\ ~purged' => telemetry_incomplete'
        /\ telemetry_incomplete => telemetry_incomplete'
    BY Zenon, <1>2 DEF Cleanup
  <2>2. detector.counts[pf] = 0
    BY Zenon, <2>1 DEF CountInv, NoReceipt
  <2>3. /\ detector'.counts[poi] = detector.counts[poi] /\ detector'.counts[iso] = detector.counts[iso]
        /\ detector'.counts[pf] = IF purged' THEN 0 ELSE 1
    <3>1. CASE purged'
      <4>1. detector' = Record(detector, {}, 0)
        BY Zenon, <2>1, <3>1
      <4>2. QED
        BY Zenon, <1>0, <1>9, <2>2, <3>1, <4>1, RecordOneCounts
    <3>2. CASE ~purged'
      <4>1. detector' = Record(detector, {pf}, 0)
        BY Zenon, <2>1, <3>2
      <4>2. QED
        <5>1. \A r \in Counted : Record(detector, {pf}, 0).counts[r] =
                IF r = pf THEN detector.counts[r] + 1 ELSE detector.counts[r]
          BY <1>0, <1>9, RecordOneCounts
        <5>2. QED
          BY SMTT(20), <1>9, <2>2, <3>2, <4>1, <5>1
    <3>3. QED
      BY Zenon, <3>1, <3>2
  <2>4. QED
    BY Zenon, <2>1, <2>3 DEF CountInv, NoReceipt
<1>3. QED
  BY Zenon, <1>1, <1>2

\* A verdict is ALLOW or DENY unless the observation is incomplete.
LEMMA GateDecides ==
  ASSUME NEW report, NEW override \in {"none", "ALLOW", "DENY"},
         NEW g, g = ApplyScoringMatrix(report, override)
  PROVE  /\ report.evidence["payload_observation_incomplete"] > 0 => g.final = "EVALUATION_INCOMPLETE"
         /\ ~(report.evidence["payload_observation_incomplete"] > 0) => g.final \in {"ALLOW", "DENY"}
<1>1. PolicyDecision(report) \in {"ALLOW", "DENY"}
  BY Zenon DEF PolicyDecision
<1>2. QED
  BY Zenon, <1>1 DEF ApplyScoringMatrix

\* Whatever was observed, validate_receipt accepts what the runner assembles, unless
\* the broker could not report it.
LEMMA AssembledIsValid ==
  ASSUME VerdictInv, CountInv, pc = "assemble", Reportable,
         NEW override \in {"none", "ALLOW", "DENY"}
  PROVE  ValidLegacyReceipt(Assembled(override))
<1> DEFINE r == Assembled(override)
           poi == detector.counts["payload_observation_incomplete"]
           iso == detector.counts["isolation_admission_failure"]
<1>0. detector.counts \in [Rules -> Nat]
  BY Zenon DEF VerdictInv, FindingInv, Detector
<1>1. /\ r.report = OutwardReport /\ r.gate = ApplyScoringMatrix(OutwardReport, override)
      /\ r.observation = ObservationSection /\ r.purged = purged /\ r.missing = missing
      /\ r.incomplete = Incomplete /\ r.uncertainty = Uncertainty
  BY Zenon DEF Assembled
<1>2. r.findings = detector.counts
  <2>1. r.findings = [detector.counts EXCEPT !["broker_failure"] = @ + 0]
    BY Zenon DEF Assembled
  <2>2. detector.counts["broker_failure"] + 0 = detector.counts["broker_failure"]
    BY SMTT(20), <1>0 DEF Rules, KnownBad
  <2>3. QED
    BY Zenon, <1>0, <2>1, <2>2
<1>3. /\ r.report.evidence = detector.counts /\ r.report.risk = Risk(detector.counts)
      /\ r.report.uncertainty = Uncertainty
  <2> HIDE DEF r
  <2>1. /\ OutwardReport.evidence = detector.counts /\ OutwardReport.risk = Risk(detector.counts)
        /\ OutwardReport.uncertainty = Uncertainty
    BY Zenon DEF OutwardReport
  <2>2. QED
    BY Zenon, <1>1, <2>1
<1>4. /\ detector.counts["purge_failure"] = IF purged THEN 0 ELSE 1
      /\ iso \in {0, 1} /\ (missing => iso = 1)
      /\ poi = IF observation = "none" THEN 0 ELSE 1
  BY Zenon DEF CountInv, NoReceipt
<1>5. /\ observation # "none" => admitted /\ Incomplete
      /\ iso = 1 \/ missing \/ ~purged => Incomplete
  BY Zenon DEF CountInv, NoReceipt, Incomplete
<1>6. Incomplete => Uncertainty = 10
  BY Zenon DEF Uncertainty
<1>7. /\ r.gate.override = override
      /\ poi > 0 => r.gate.final = "EVALUATION_INCOMPLETE"
      /\ ~(poi > 0) => r.gate.final \in {"ALLOW", "DENY"}
      /\ Found(detector.counts) \cap Unoverridable # {} => r.gate.final # "ALLOW"
  <2> DEFINE report == OutwardReport
             g == ApplyScoringMatrix(report, override)
  <2>1. /\ r.gate = g /\ report.evidence = detector.counts
        /\ g = ApplyScoringMatrix(report, override)
    BY Zenon, <1>1, <1>3
  <2> HIDE DEF r, g, report
  <2>2. /\ report.evidence["payload_observation_incomplete"] > 0 => g.final = "EVALUATION_INCOMPLETE"
        /\ ~(report.evidence["payload_observation_incomplete"] > 0) => g.final \in {"ALLOW", "DENY"}
    BY Zenon, <2>1, GateDecides
  <2>3. /\ g.override = override
        /\ Found(report.evidence) \cap Unoverridable # {} => g.final # "ALLOW"
    BY <2>1, GateIsFailClosed
  <2>4. QED
    BY Zenon, <2>1, <2>2, <2>3
<1>8. missing \/ ~purged => Found(detector.counts) \cap Unoverridable # {}
  BY <1>4 DEF Found, Unoverridable, Rules, KnownBad
<1> HIDE DEF r
<1>9. CASE observation # "none"
  <2>1. r.observation = "EVALUATION_INCOMPLETE" /\ poi = 1
    BY Zenon, <1>1, <1>4, <1>5, <1>9 DEF ObservationSection
  <2>2. QED
    BY <1>1, <1>2, <1>3, <1>4, <1>5, <1>6, <1>7, <1>8, <1>9, <2>1 DEF ValidLegacyReceipt, r
<1>10. CASE observation = "none"
  <2>1. r.observation \in {"absent", "COMPLETE"} /\ poi = 0
    BY Zenon, <1>1, <1>4, <1>10 DEF ObservationSection
  <2>2. QED
    BY <1>1, <1>2, <1>3, <1>4, <1>5, <1>6, <1>7, <1>8, <1>10, <2>1 DEF ValidLegacyReceipt, r
<1>11. QED
  BY Zenon, <1>9, <1>10

\* Every step of the legacy profile keeps the counts.
LEMMA LegacyKeepsCounts ==
  ASSUME VerdictInv, CountInv, Next \/ UNCHANGED vars
  PROVE  CountInv'
<1>1. CASE UNCHANGED vars
  BY Zenon, <1>1 DEF vars, flags, CountInv, NoReceipt, Reportable
<1>2. CASE Assemble
  <2>1. /\ pc = "assemble" /\ pc' \in {"written"} \cup NoReceipt
        /\ UNCHANGED <<detector, flags, observation, purged>>
    BY Zenon, <1>2 DEF Assemble, OverrideRefused, Unsaved, NoReceipt
  <2>2. pc' = "raised" => ~Reportable
    BY Zenon, <1>2, AssembledIsValid DEF Assemble, OverrideRefused, Unsaved
  <2>3. QED
    BY Zenon, <2>1, <2>2 DEF CountInv, NoReceipt, flags, Reportable
<1>3. QED
  BY Zenon, <1>1, <1>2, LoopKeepsCounts, RefusalKeepsCounts, JudgementKeepsCounts
    DEF Next, Finished

\* What a browser receipt that was refused can be refused for.
Excused ==
  \/ runtime_admitted /\ ~readback
  \/ artifacts = "partial" /\ B!Loss("cdp") \notin B!Findings
  \/ gate.final = "ALLOW" /\ "web_navigation_failed" \in B!Findings

\* An admitted run has a worker and its artifacts, one that was not has said so in
\* its own stream, and the reduction is what the validator computes again.
ProbeInv ==
  /\ stage \in {"launch", "booted"} => ~runtime_admitted /\ artifacts = "none"
  /\ stage = "booted" => proxy = "present"
  /\ runtime_admitted => proxy = "present" /\ artifacts # "none"
  /\ stage \in {"finally", "cleaned"} /\ ~runtime_admitted => "failed" \in vm
  /\ stage \in {"reduced", "gated"} =>
       /\ B!ValidReduction
       /\ \A st \in B!Streams : ~B!StreamComplete[st] => B!Loss(st) \in reduction.findings
       /\ ~runtime_admitted \/ ~B!PurgeVerified => reduction.findings # {}
  /\ stage = "report_refused" => "destinations" \in guest.seen
  /\ stage = "refused" => Excused

\* The reducer's findings against the evidence are those the validator takes for
\* incomplete telemetry, and its others are not.
LEMMA FindingsAreClassed ==
  /\ B!ClosingFindings \cup B!MissingFindings \subseteq B!TelemetryIncomplete
  /\ B!BehaviourFindings \cap B!TelemetryIncomplete = {}
  /\ \A st \in B!Streams : ~B!StreamComplete[st] => B!Loss(st) \in B!ClosingFindings
  /\ "web_evidence_count_mismatch" \in
       B!ClosingFindings \cup B!MissingFindings \cup B!BehaviourFindings <=> "miscount" \in guest.seen
<1>1. /\ B!Loss("browser") = "web_browser_telemetry_loss"
      /\ B!Loss("cdp") = "web_cdp_telemetry_loss"
      /\ B!Loss("egress") = "web_egress_telemetry_loss"
      /\ B!Loss("vm") = "web_vm_telemetry_loss"
  BY Zenon DEF B!Loss
<1>2. {B!Loss(st) : st \in B!Streams} =
        {"web_browser_telemetry_loss", "web_cdp_telemetry_loss", "web_egress_telemetry_loss",
         "web_vm_telemetry_loss"}
  BY Zenon, <1>1 DEF B!Streams
<1> DEFINE Lost == {B!Loss(st) : st \in {st \in B!Streams : ~B!StreamComplete[st]}}
<1>3. Lost \subseteq {B!Loss(st) : st \in B!Streams}
  BY Zenon
<1>4. "web_evidence_count_mismatch" \notin Lost
  BY Zenon, <1>2, <1>3
<1>5. B!ClosingFindings =
        Lost
        \cup B!Seen("browser_loss", "web_browser_telemetry_loss")
        \cup B!Seen("cdp_loss", "web_cdp_telemetry_loss")
        \cup (IF "loss" \in egress THEN {"web_egress_telemetry_loss"} ELSE {})
        \cup (IF "loss" \in B!VmEvents THEN {"web_vm_telemetry_loss"} ELSE {})
        \cup B!Seen("failed", "web_browser_execution_failed")
        \cup (IF "failed" \in vm THEN {"web_vm_execution_failed"} ELSE {})
        \cup B!Seen("navigation_failed", "web_navigation_failed")
        \cup B!Seen("miscount", "web_evidence_count_mismatch")
        \cup B!Seen("gap", "web_evidence_sequence_gap")
        \cup B!Seen("over_budget", "web_event_budget_exceeded")
        \cup B!Seen("redirects", "web_redirect_budget_exceeded")
  BY Zenon, <1>1 DEF B!ClosingFindings
<1> HIDE DEF Lost
<1>6. B!ClosingFindings \subseteq B!TelemetryIncomplete
  BY <1>2, <1>3, <1>5 DEF B!Seen, B!TelemetryIncomplete
<1>7. B!MissingFindings \subseteq B!TelemetryIncomplete
  BY Zenon DEF B!MissingFindings, B!TelemetryIncomplete
<1>8. B!BehaviourFindings \cap B!TelemetryIncomplete = {}
  BY Zenon, <1>2 DEF B!BehaviourFindings, B!Seen, B!TelemetryIncomplete
<1>9. /\ "web_evidence_count_mismatch" \notin B!MissingFindings \cup B!BehaviourFindings
      /\ "web_evidence_count_mismatch" \in B!ClosingFindings <=> "miscount" \in guest.seen
  BY <1>4, <1>5 DEF B!MissingFindings, B!BehaviourFindings, B!Seen
<1>10. \A st \in B!Streams : ~B!StreamComplete[st] => B!Loss(st) \in B!ClosingFindings
  BY Zenon DEF B!ClosingFindings
<1>11. QED
  BY Zenon, <1>6, <1>7, <1>8, <1>9, <1>10

\* The validator comes to the reducer's conclusions, the purge gate included.
LEMMA ReduceIsValid ==
  ASSUME B!Reduce
  PROVE  /\ B!ValidReduction'
         /\ \A st \in B!Streams : ~B!StreamComplete[st]' => B!Loss(st) \in reduction'.findings
         /\ "failed" \in vm \/ ~B!PurgeVerified => reduction'.findings # {}
<1> DEFINE closing == B!ClosingFindings \cup B!MissingFindings
           all == closing \cup B!BehaviourFindings
           lost == \E st \in B!Streams : ~B!StreamComplete[st]
<1>1. /\ UNCHANGED <<guest, guest_result, proxy, checks, proxy_complete, runtime_admitted>>
      /\ reduction' = B!EnforcePurgeGate(B!ReduceBrowserEvidence)
  BY Zenon DEF B!Reduce, B!endVars
<1>2. B!StreamComplete' = B!StreamComplete
  BY <1>1 DEF B!StreamComplete, B!EgressComplete, B!VmClosed, B!PurgeVerified
<1>3. /\ closing \subseteq B!TelemetryIncomplete /\ B!BehaviourFindings \cap B!TelemetryIncomplete = {}
      /\ lost => closing # {}
      /\ "web_evidence_count_mismatch" \in all <=> "miscount" \in guest.seen
  BY Zenon, FindingsAreClassed
<1>4. ~B!PurgeVerified => lost
  BY Zenon DEF B!StreamComplete, B!VmClosed, B!Streams
<1>5. /\ reduction'.findings = all
      /\ reduction'.incomplete = (closing # {} \/ ~B!PurgeVerified)
      /\ reduction'.decision = IF all = {} /\ B!PurgeVerified THEN "ALLOW" ELSE "DENY"
  BY Zenon, <1>1 DEF B!EnforcePurgeGate, B!ReduceBrowserEvidence
<1>6. "failed" \in vm => closing # {}
  BY Zenon DEF B!ClosingFindings
<1> HIDE DEF closing, lost
<1>7. /\ reduction'.incomplete = (closing # {})
      /\ reduction'.decision = IF all = {} THEN "ALLOW" ELSE "DENY"
      /\ (closing # {}) = (lost \/ all \cap B!TelemetryIncomplete # {})
  BY Zenon, <1>3, <1>4, <1>5
<1> HIDE DEF all
<1>8. /\ reduction'.incomplete => reduction'.decision = "DENY"
      /\ closing # {} => all # {}
  BY Zenon, <1>7 DEF all
<1>9. reduction'.incomplete = (lost' \/ reduction'.findings \cap B!TelemetryIncomplete # {})
  BY Zenon, <1>2, <1>5, <1>7 DEF lost
<1>10. B!TelemetryIncomplete' = B!TelemetryIncomplete
  BY Zenon DEF B!TelemetryIncomplete, B!Loss, B!Streams
<1>11. B!ValidReduction'
  <2>1. ("web_evidence_count_mismatch" \in reduction'.findings) = ("miscount" \in guest'.seen)
    BY <1>1, <1>3, <1>5
  <2>2. reduction'.incomplete =
          ((\E st \in B!Streams : ~B!StreamComplete[st])
             \/ reduction.findings \cap B!TelemetryIncomplete # {})'
    BY Zenon, <1>9, <1>10 DEF lost
  <2>3. reduction'.decision = IF reduction'.findings = {} THEN "ALLOW" ELSE "DENY"
    BY Zenon, <1>5, <1>7
  <2>4. QED
    BY Zenon, <1>8, <2>1, <2>2, <2>3 DEF B!ValidReduction
<1>12. \A st \in B!Streams : ~B!StreamComplete[st]' => B!Loss(st) \in reduction'.findings
  BY Zenon, <1>2, <1>5, FindingsAreClassed DEF all, closing
<1>13. QED
  BY Zenon, <1>3, <1>4, <1>5, <1>6, <1>8, <1>11, <1>12

\* What the gate makes of the findings is what the validator expects of it.
LEMMA GatedIsValid ==
  ASSUME BrowserInv, ProbeInv, stage = "gated", ~Excused
  PROVE  B!ValidBrowserReceipt
<1>1. PICK override \in {"none", "ALLOW", "DENY"} :
        gate = B!ApplyScoringMatrix(B!Findings, override)
  BY Zenon DEF BrowserInv
<1>2. /\ gate.override = override
      /\ gate.policy = IF B!Findings = {} THEN "ALLOW" ELSE "DENY"
      /\ gate.final = IF B!FailClosed(B!Findings) THEN "DENY"
                      ELSE IF override # "none" THEN override ELSE gate.policy
  BY Zenon, <1>1 DEF B!ApplyScoringMatrix
<1>3. /\ B!ValidReduction /\ ReductionInv
      /\ ~runtime_admitted \/ ~B!PurgeVerified => reduction.findings # {}
  BY Zenon DEF ProbeInv, BrowserInv
<1>4. /\ reduction.findings \subseteq B!Findings
      /\ ~runtime_admitted => "firecracker_runtime_failure" \in B!Findings
      /\ ~B!PurgeVerified => "purge_failure" \in B!Findings
      /\ B!Findings = {} <=> reduction.findings = {}
  BY Zenon, <1>3 DEF B!Findings
<1>5. gate.policy = reduction.decision
  <2>1. reduction.decision = IF reduction.findings = {} THEN "ALLOW" ELSE "DENY"
    BY Zenon, <1>3 DEF B!ValidReduction
  <2>2. QED
    BY Zenon, <1>2, <1>4, <2>1
<1>6. ~runtime_admitted \/ ~B!PurgeVerified => gate.final = "DENY"
  BY Zenon, <1>2, <1>4 DEF B!FailClosed, B!Overridable
<1>7. B!Loss("cdp") = "web_cdp_telemetry_loss" /\ B!Loss("cdp") \in B!TelemetryIncomplete
  BY Zenon DEF B!Loss, B!TelemetryIncomplete, B!Streams
<1>8. ASSUME gate.final = "ALLOW" PROVE ~reduction.incomplete
  <2>1. B!Findings \subseteq B!Overridable /\ "web_navigation_failed" \notin B!Findings
    BY Zenon, <1>2, <1>8 DEF B!FailClosed, Excused
  <2>2. {B!Loss(st) : st \in B!Streams} =
          {"web_browser_telemetry_loss", "web_cdp_telemetry_loss", "web_egress_telemetry_loss",
           "web_vm_telemetry_loss"}
    BY Zenon DEF B!Loss, B!Streams
  <2>3. B!Overridable \cap B!TelemetryIncomplete \subseteq {"web_navigation_failed"}
    BY Zenon, <2>2 DEF B!Overridable, B!TelemetryIncomplete
  <2>4. reduction.findings \cap B!TelemetryIncomplete = {}
    BY Zenon, <1>4, <2>1, <2>3
  <2>5. \A st \in B!Streams : B!StreamComplete[st]
    <3>1. \A st \in B!Streams : ~B!StreamComplete[st] => B!Loss(st) \in B!Findings
      BY Zenon, <1>4 DEF ProbeInv
    <3>2. \A st \in B!Streams : B!Loss(st) \notin B!Overridable
      BY Zenon, <2>2 DEF B!Overridable
    <3>3. QED
      BY Zenon, <2>1, <3>1, <3>2
  <2>6. QED
    BY Zenon, <1>3, <2>4, <2>5 DEF B!ValidReduction
<1>9. B!ValidGate
  BY Zenon, <1>2, <1>5, <1>6, <1>8 DEF B!ValidGate
<1>10. B!ValidArtifacts
  <2>1. artifacts = "partial" => B!Loss("cdp") \in reduction.findings
    BY Zenon, <1>7 DEF Excused, B!Findings
  <2>2. B!Loss("cdp") \in reduction.findings => reduction.incomplete /\ reduction.decision = "DENY"
    BY Zenon, <1>3, <1>7 DEF B!ValidReduction
  <2>3. QED
    BY Zenon, <1>4, <2>1, <2>2 DEF B!ValidArtifacts, ProbeInv
<1>11. B!ValidRuntime
  BY Zenon DEF B!ValidRuntime, ProbeInv, Excused
<1>12. QED
  BY Zenon, <1>3, <1>9, <1>10, <1>11 DEF B!ValidBrowserReceipt

\* Every step of the browser profile keeps its invariant.
LEMMA BrowserKeepsProbe ==
  ASSUME BrowserInv, ProbeInv, B!Next \/ UNCHANGED browserVars
  PROVE  ProbeInv'
<1> USE DEF B!jobVars, B!endVars
<1>1. CASE B!Unavailable \/ B!LaunchFails \/ B!Boot \/ B!GuestFails
  <2>1. CASE B!Unavailable
    BY Zenon, <2>1 DEF B!Unavailable, ProbeInv
  <2>2. CASE B!LaunchFails
    BY Zenon, <2>2 DEF B!LaunchFails, B!Failing, ProbeInv
  <2>3. CASE B!Boot
    BY Zenon, <2>3 DEF B!Boot, ProbeInv
  <2>4. CASE B!GuestFails
    BY Zenon, <2>4 DEF B!GuestFails, B!Failing, ProbeInv
  <2>5. QED
    BY Zenon, <1>1, <2>1, <2>2, <2>3, <2>4
<1>2. CASE B!TakeOver
  <2>1. stage = "booted" /\ ~runtime_admitted /\ artifacts = "none" /\ proxy' = "present"
    BY Zenon, <1>2 DEF B!TakeOver, ProbeInv
  <2>2. CASE B!Failing /\ UNCHANGED <<runtime_admitted, artifacts>>
    BY Zenon, <2>1, <2>2 DEF B!Failing, ProbeInv
  <2>3. CASE stage' = "finally" /\ runtime_admitted' /\ artifacts' \in {"complete", "partial"}
    BY Zenon, <2>1, <2>3 DEF ProbeInv
  <2>4. QED
    BY Zenon, <1>2, <2>2, <2>3 DEF B!TakeOver
<1>3. CASE B!Finally
  BY Zenon, <1>3 DEF B!Finally, ProbeInv
<1>4. CASE B!Reduce
  <2>1. /\ stage = "cleaned" /\ stage' = "reduced"
        /\ UNCHANGED <<guest, runtime_admitted, artifacts, proxy, checks>>
    BY Zenon, <1>4 DEF B!Reduce
  <2>2. /\ B!ValidReduction' /\ ("failed" \in vm \/ ~B!PurgeVerified => reduction'.findings # {})
        /\ (\A st \in B!Streams : ~B!StreamComplete[st] => B!Loss(st) \in reduction.findings)'
    BY Zenon, <1>4, ReduceIsValid
  <2>3. B!PurgeVerified' = B!PurgeVerified
    BY Zenon, <2>1 DEF B!PurgeVerified
  <2>4. QED
    BY Zenon, <2>1, <2>2, <2>3 DEF ProbeInv
<1>5. CASE B!Gate
  <2>1. /\ stage = "reduced" /\ UNCHANGED <<vm, guest, guest_result, runtime_admitted, artifacts,
                                            proxy, checks, proxy_complete, reduction>>
        /\ stage' \in {"report_refused", "override_refused", "gated"}
        /\ stage' = "report_refused" => "destinations" \in guest.seen
    BY Zenon, <1>5 DEF B!Gate, B!OverrideRefused
  <2>2. UNCHANGED <<B!ValidReduction, B!PurgeVerified, B!StreamComplete>>
    BY Zenon, <2>1
      DEF B!ValidReduction, B!PurgeVerified, B!StreamComplete, B!EgressComplete, B!VmClosed,
       B!TelemetryIncomplete, B!Loss, B!Streams
  <2>3. QED
    BY Zenon, <2>1, <2>2 DEF ProbeInv
<1>6. CASE B!CreateReceipt
  <2>1. /\ stage = "gated" /\ UNCHANGED <<guest, runtime_admitted, artifacts, proxy>>
        /\ stage' \in {"written", "refused", "unsaved"}
    BY Zenon, <1>6 DEF B!CreateReceipt, B!Unsaved
  <2>2. stage' = "refused" => Excused
    BY Zenon, <1>6, GatedIsValid DEF B!CreateReceipt, B!Unsaved
  <2>3. Excused' = Excused
    BY Zenon, <1>6 DEF B!CreateReceipt, Excused, B!Findings, B!PurgeVerified, B!Loss
  <2>4. QED
    BY Zenon, <2>1, <2>2, <2>3 DEF ProbeInv
<1>7. CASE B!Done \/ UNCHANGED browserVars
  <2>1. UNCHANGED browserVars
    BY Zenon, <1>7 DEF B!Done, B!vars, browserVars
  <2>2. UNCHANGED <<B!ValidReduction, B!PurgeVerified, B!StreamComplete, Excused>>
    BY Zenon, <2>1 DEF browserVars, B!ValidReduction, B!PurgeVerified, B!StreamComplete,
       B!EgressComplete,
       B!VmClosed, B!TelemetryIncomplete, B!Loss, B!Streams, Excused, B!Findings
  <2>3. QED
    BY Zenon, <2>1, <2>2 DEF ProbeInv, browserVars
<1>8. QED
  BY Zenon, <1>1, <1>2, <1>3, <1>4, <1>5, <1>6, <1>7 DEF B!Next

\* The profile that was not asked for stays as it was, and an exit code is given only
\* to a run that is over.
ExitInv ==
  /\ command # "artifact" => pc = "preflight"
  /\ command # "probe" => stage = "launch"
  /\ exit # -1 => command = "refused" \/ Returned \/ Raised
  /\ exit = 1 => command = "refused" \/ Raised
  /\ exit = 0 => command # "refused" /\ Decision \in {"ALLOW", "DENY"}

LEMMA StepKeepsExit ==
  ASSUME BrowserInv, ExitInv, DetonationNext \/ UNCHANGED detonationVars
  PROVE  ExitInv'
<1>1. CASE UNCHANGED detonationVars \/ Over
  BY Zenon, <1>1 DEF Over, detonationVars, vars, browserVars, ExitInv, Returned, Raised, Decision
<1>2. CASE Dispatch \/ Refuse
  <2>1. command = "none" /\ pc = "preflight" /\ stage = "launch" /\ exit = -1
    BY Zenon, <1>2 DEF Dispatch, Refuse, ExitInv, Returned, Raised, NoReceipt, B!NoReceipt
  <2>2. pc' = pc /\ stage' = stage
    BY Zenon, <1>2 DEF Dispatch, Refuse, vars, browserVars
  <2>3. (command' = "refused" /\ exit' = 1) \/ exit' = -1
    BY Zenon, <1>2, <2>1 DEF Dispatch, Refuse
  <2>4. QED
    BY <2>1, <2>2, <2>3 DEF ExitInv
<1>3. CASE LegacyStep
  <2>1. command = "artifact" /\ stage = "launch" /\ UNCHANGED <<command, exit, browserVars>>
    BY Zenon, <1>3 DEF LegacyStep, ExitInv
  <2>2. CASE exit = -1
    BY SMTT(20), <2>1, <2>2 DEF ExitInv, browserVars
  <2>3. CASE exit # -1
    <3>1. pc \in {"written", "raised", "override_refused", "unsaved"}
      BY Zenon, <2>1, <2>3 DEF ExitInv, Returned, Raised, NoReceipt, B!NoReceipt
    <3>2. UNCHANGED vars
      BY Zenon, <1>3, <3>1 DEF LegacyStep, Next, PreflightArtifact, RefuseIsolation, Admit,
         AbortAdmission, OnOpenat, OnConnect, OnOtherSyscall, OnExec, OnOverrun, OnTraceError,
         OnTruncation, LoopEnds, Classify, Cleanup, Assemble, Finished, PayloadStep, Observing
    <3>3. QED
      BY Zenon, <2>1, <3>2 DEF vars, browserVars, ExitInv, Returned, Raised, Decision
  <2>4. QED
    BY Zenon, <2>2, <2>3
<1>4. CASE BrowserStep
  <2>1. command = "probe" /\ pc = "preflight" /\ UNCHANGED <<command, exit, vars>>
    BY Zenon, <1>4 DEF BrowserStep, ExitInv
  <2>2. CASE exit = -1
    BY SMTT(20), <2>1, <2>2 DEF ExitInv, vars
  <2>3. CASE exit # -1
    <3>1. stage \in {"written", "unavailable", "report_refused", "override_refused", "refused",
                     "unsaved"}
      BY Zenon, <2>1, <2>3 DEF ExitInv, Returned, Raised, NoReceipt, B!NoReceipt
    <3>2. UNCHANGED browserVars
      BY Zenon, <1>4, <3>1
        DEF BrowserStep, B!Next, B!Unavailable, B!LaunchFails, B!Boot, B!GuestFails,
         B!TakeOver, B!Finally, B!Reduce, B!Gate, B!CreateReceipt, B!Done, B!vars, browserVars,
         B!jobVars, B!endVars
    <3>3. QED
      BY Zenon, <2>1, <3>2 DEF vars, browserVars, ExitInv, Returned, Raised, Decision
  <2>4. QED
    BY Zenon, <2>2, <2>3
<1>5. CASE CliExits
  <2>1. /\ Returned \/ Raised
        /\ UNCHANGED <<command, vars, browserVars>>
        /\ exit' \in {0, 1, 2}
        /\ exit' = 1 => Raised
        /\ exit' = 0 => ~Raised /\ (command = "probe" \/ Decision \in {"ALLOW", "DENY"})
    <3> DEFINE decided == Decision \in {"ALLOW", "DENY"}
    <3>1. \/ exit' = IF Raised THEN 1 ELSE IF FALSE \/ decided THEN 0 ELSE 2
          \/ exit' = IF Raised THEN 1 ELSE IF command = "probe" \/ decided THEN 0 ELSE 2
      BY Zenon, <1>5 DEF CliExits
    <3>2. (Returned \/ Raised) /\ UNCHANGED <<command, vars, browserVars>>
      BY Zenon, <1>5 DEF CliExits
    <3> HIDE DEF decided
    <3>3. CASE Raised
      BY <3>1, <3>2, <3>3
    <3>4. CASE ~Raised
      BY <3>1, <3>2, <3>4 DEF decided
    <3>5. QED
      BY Zenon, <3>3, <3>4
  <2>2. command \in {"artifact", "probe"}
    BY Zenon, <2>1 DEF ExitInv, Returned, Raised, NoReceipt, B!NoReceipt
  <2>3. ASSUME command = "probe", ~Raised PROVE Decision \in {"ALLOW", "DENY"}
    <3>1. stage = "written"
      BY Zenon, <2>1, <2>3 DEF ExitInv, Returned
    <3>2. gate.final \in {"ALLOW", "DENY"}
      <4>1. PICK override \in {"none", "ALLOW", "DENY"} :
              gate = B!ApplyScoringMatrix(B!Findings, override)
        BY Zenon, <3>1 DEF BrowserInv
      <4>2. \A findings : B!ApplyScoringMatrix(findings, override).final \in {"ALLOW", "DENY"}
        BY Zenon DEF B!ApplyScoringMatrix
      <4>3. QED
        BY Zenon, <4>1, <4>2
    <3>3. QED
      BY Zenon, <2>3, <3>2 DEF Decision
  <2>4. QED
    BY Zenon, <2>1, <2>2, <2>3 DEF vars, browserVars, ExitInv, Returned, Raised, Decision
<1>6. QED
  BY Zenon, <1>1, <1>2, <1>3, <1>4, <1>5 DEF DetonationNext

\* Whatever an artifact or a page does, its run ends in a receipt that the validator
\* accepts and an exit code that tells a verdict from none, with the exceptions that
\* RunEndsInReceipt names (apply_scoring_matrix, create_receipt, main).
THEOREM RunsEndInReceipts == DetonationSpec => []RunEndsInReceipt
<1> DEFINE Inv == CountInv /\ ProbeInv /\ ExitInv
<1>1. DetonationInit => Inv
  <2> SUFFICES ASSUME DetonationInit PROVE Inv
    BY Zenon
  <2>1. \A r \in Counted : detector.counts[r] = 0
    BY Zenon DEF DetonationInit, Init, NoFindings, Counted, Rules, KnownBad, Anomalous
  <2>2. CountInv
    <3>1. pc = "preflight" /\ observation = "none" /\ ~missing
      BY Zenon DEF DetonationInit, Init
    <3>2. QED
      BY <2>1, <3>1 DEF CountInv, NoReceipt, Counted
  <2>3. ProbeInv
    BY Zenon DEF DetonationInit, B!Init, ProbeInv
  <2>4. pc = "preflight" /\ stage = "launch" /\ command = "none" /\ exit = -1
    BY Zenon DEF DetonationInit, Init, B!Init
  <2>5. ExitInv
    BY <2>4 DEF ExitInv
  <2>6. QED
    BY Zenon, <2>2, <2>3, <2>5
<1>2. VerdictInv /\ BrowserInv /\ Inv /\ [DetonationNext]_detonationVars => Inv'
  <2> SUFFICES ASSUME VerdictInv, BrowserInv, Inv, [DetonationNext]_detonationVars PROVE Inv'
    BY Zenon
  <2>1. (Next \/ UNCHANGED vars) /\ (B!Next \/ UNCHANGED browserVars)
    BY Zenon DEF DetonationNext, Dispatch, Refuse, LegacyStep, BrowserStep, CliExits, Over,
       detonationVars
  <2>2. CountInv'
    BY Zenon, <2>1, LegacyKeepsCounts
  <2>3. ProbeInv'
    BY Zenon, <2>1, BrowserKeepsProbe
  <2>4. ExitInv'
    BY Zenon, StepKeepsExit
  <2>5. QED
    BY Zenon, <2>2, <2>3, <2>4
<1>3. Inv => RunEndsInReceipt
  <2> SUFFICES ASSUME CountInv, ProbeInv, ExitInv PROVE RunEndsInReceipt
    BY Zenon
  <2>1. exit = 0 => Decision \in {"ALLOW", "DENY"}
    BY Zenon DEF ExitInv
  <2>2. exit = 1 /\ command = "artifact" =>
          ~Reportable \/ pc \in {"override_refused", "unsaved"}
    BY Zenon DEF ExitInv, CountInv, Raised, NoReceipt, B!NoReceipt
  <2>3. ASSUME exit = 1, command = "probe"
        PROVE  \/ stage \in {"unavailable", "override_refused", "unsaved"}
               \/ "destinations" \in guest.seen
               \/ runtime_admitted /\ ~readback
               \/ artifacts = "partial" /\ B!Loss("cdp") \notin B!Findings
               \/ gate.final = "ALLOW" /\ "web_navigation_failed" \in B!Findings
    BY Zenon, <2>3 DEF ExitInv, ProbeInv, Raised, Excused, NoReceipt, B!NoReceipt
  <2>4. QED
    BY Zenon, <2>1, <2>2, <2>3 DEF RunEndsInReceipt
<1> HIDE DEF Inv
<1>4. QED
  BY <1>1, <1>2, <1>3, DetonationInvariant, PTL DEF DetonationSpec
===============================================================================
