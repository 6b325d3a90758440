----------------------------- MODULE LegacyVerdict -----------------------------
(***************************************************************************)
(* From what the tracer sees to the signed receipt of a legacy detonation: *)
(* DetectorEngine (observer/detectors.py), the syscall rules of HostTracer *)
(* (observer/ptracer.py), detonate's judgement of its own observation      *)
(* (mote/detonate.py), CapabilityBroker (broker/broker.py), the policy     *)
(* gate (gate/policy_gate.py), and the receipt's assembly and validation   *)
(* (observer/receipt.py).                                                  *)
(*                                                                         *)
(* Alerts, host markers, hashes and the signature are left out.  Counts    *)
(* are kept, uncertainties are in tenths, a destination is a model value.  *)
(***************************************************************************)
EXTENDS Integers, FiniteSets

CONSTANTS
  Destinations,  \* addresses the payload may name
  MaxEvents,     \* budgets.max_telemetry_events
  MaxListed,     \* items a list of the outward report may have (256)
  ManyTimings,   \* timing findings above which uncertainty is raised (500)
  MaxSteps       \* bound on what one run observes

ASSUME VerdictAssumption ==
  /\ IsFiniteSet(Destinations)
  /\ {MaxEvents, MaxListed, ManyTimings, MaxSteps} \subseteq Nat

VARIABLES
  pc,            \* where detonate is
  steps,
  detector,      \* DetectorEngine
  admitted,      \* no isolation_failures
  missing,       \* whether a required control is missing from the receipt
  exec_observed, \* exec_completed_pids is not empty
  trace_error, output_truncated, budget_exhausted, telemetry_incomplete,
  output,        \* what the raw output holds
  observation,   \* the failure class, or none
  purged,        \* purge["verified_externally"]
  receipt        \* what was written, or NoReceipt

flags == <<admitted, missing, exec_observed, trace_error, output_truncated,
           budget_exhausted, telemetry_incomplete, output>>
vars == <<pc, steps, detector, flags, observation, purged, receipt>>

-------------------------------------------------------------------------------
(* Rules, and how the gate and the registry class them.                        *)

KnownBad == {"cred_harvest_pattern", "network_exfil_attempt", "codex_manipulation",
             "namespace_escape_attempt", "malformed_report", "telemetry_loss",
             "broker_failure", "isolation_admission_failure", "purge_failure"}
Anomalous == {"sandbox_probing", "exec_spawn_chain", "fs_suspicious_write",
              "timing_evasion", "tool_poisoning", "budget_exhausted",
              "payload_observation_incomplete"}
Rules == KnownBad \cup Anomalous

Unoverridable == {"telemetry_loss", "broker_failure", "isolation_admission_failure",
                  "purge_failure"}

NoFindings == [r \in Rules |-> 0]
Found(counts) == {r \in Rules : counts[r] > 0}

\* Mutant: an event beyond the budget is dropped with its finding.
Mut_Record(d, rules, baseline) ==
  LET total == d.events + Cardinality(rules) + baseline IN
  IF total > MaxEvents
    THEN [d EXCEPT !.incomplete = TRUE]
    ELSE [d EXCEPT !.events = total,
                   !.counts = [r \in Rules |-> d.counts[r] + IF r \in rules THEN 1 ELSE 0]]

\* Events are kept up to the budget, findings are counted beyond it.  baseline
\* is the number of events that are no finding.
Record(d, rules, baseline) ==
  LET total == d.events + Cardinality(rules) + baseline IN
  [d EXCEPT !.events = IF total > MaxEvents THEN MaxEvents ELSE total,
            !.incomplete = @ \/ total > MaxEvents,
            !.counts = [r \in Rules |-> d.counts[r] + IF r \in rules THEN 1 ELSE 0]]

MarkTelemetryLoss(d) == [Record(d, {"telemetry_loss"}, 0) EXCEPT !.incomplete = TRUE]

Init ==
  /\ pc = "preflight" /\ steps = 0
  /\ detector = [events |-> 0, counts |-> NoFindings, canary |-> FALSE,
                 destinations |-> {}, incomplete |-> FALSE]
  /\ admitted = FALSE /\ missing = FALSE /\ exec_observed = FALSE
  /\ trace_error = FALSE /\ output_truncated = FALSE /\ budget_exhausted = FALSE
  /\ telemetry_incomplete = FALSE
  /\ output = "none" /\ observation = "none" /\ purged = FALSE /\ receipt = [written |-> FALSE]

-------------------------------------------------------------------------------
(* Before and at the launch.                                                   *)

PreflightArtifact ==
  /\ pc = "preflight" /\ pc' = "launch"
  /\ \E found \in {{}, {"malformed_report"}, {"tool_poisoning"}} :
       detector' = Record(detector, found, 0)
  /\ UNCHANGED <<steps, flags, observation, purged, receipt>>

\* Neither a wrapper nor a sandbox that the host will let run.
RefuseIsolation ==
  /\ pc = "launch" /\ pc' \in {"cleanup", "classify"}
  /\ detector' = MarkTelemetryLoss(Record(detector, {"isolation_admission_failure"}, 0))
  /\ missing' \in BOOLEAN /\ telemetry_incomplete' = TRUE
  /\ UNCHANGED <<steps, admitted, exec_observed, trace_error, output_truncated,
                 budget_exhausted, output, observation, purged, receipt>>

Admit ==
  /\ pc = "launch" /\ pc' = "loop" /\ admitted' = TRUE
  /\ UNCHANGED <<steps, detector, missing, exec_observed, trace_error, output_truncated,
                 budget_exhausted, telemetry_incomplete, output, observation, purged,
                 receipt>>

\* The last validation or the attachment of the tracer fails.
AbortAdmission ==
  /\ pc = "launch" /\ pc' = "classify" /\ admitted' = TRUE
  /\ detector' = MarkTelemetryLoss(Record(detector, {"isolation_admission_failure"}, 0))
  /\ trace_error' = TRUE /\ telemetry_incomplete' = TRUE
  /\ UNCHANGED <<steps, missing, exec_observed, output_truncated, budget_exhausted,
                 output, observation, purged, receipt>>

-------------------------------------------------------------------------------
(* The trace loop, one observation at a time.                                  *)

Observing == pc = "loop" /\ steps < MaxSteps /\ steps' = steps + 1 /\ UNCHANGED pc

\* Until an exec completes only the runner's own code runs in the sandbox.
PayloadStep == Observing /\ exec_observed

\* What the path of an open can be recorded as (/dev/kvm is the escape).
PathRules ==
  (SUBSET {"cred_harvest_pattern", "sandbox_probing", "fs_suspicious_write"})
    \cup {{"namespace_escape_attempt"}}

OnOpenat ==
  /\ PayloadStep
  /\ \E rules \in PathRules :
       detector' = [Record(detector, rules, 0) EXCEPT
                      !.canary = @ \/ "cred_harvest_pattern" \in rules]
  /\ UNCHANGED <<flags, observation, purged, receipt>>

OnConnect ==
  /\ PayloadStep
  /\ \E d \in Destinations :
       detector' = [Record(detector, {"network_exfil_attempt"}, 0) EXCEPT
                      !.destinations = @ \cup {d}]
  /\ UNCHANGED <<flags, observation, purged, receipt>>

\* clone, clock_gettime, the namespace calls, and a poisoned MCP tool.
OnOtherSyscall ==
  /\ PayloadStep
  /\ \E rule \in {"exec_spawn_chain", "namespace_escape_attempt", "timing_evasion",
                  "tool_poisoning"} :
       detector' = Record(detector, {rule}, 0)
  /\ UNCHANGED <<flags, observation, purged, receipt>>

\* An exec is an event and no finding; only one that completes is a witness.
OnExec ==
  /\ Observing
  /\ detector' = Record(detector, {}, 1)
  /\ exec_observed' \in {exec_observed, TRUE}
  /\ UNCHANGED <<admitted, missing, trace_error, output_truncated, budget_exhausted,
                 telemetry_incomplete, output, observation, purged, receipt>>

OnOverrun ==
  /\ Observing /\ ~budget_exhausted /\ budget_exhausted' = TRUE
  /\ detector' = Record(detector, {"budget_exhausted"}, 0)
  /\ UNCHANGED <<admitted, missing, exec_observed, trace_error, output_truncated,
                 telemetry_incomplete, output, observation, purged, receipt>>

OnTraceError ==
  /\ Observing /\ ~trace_error /\ trace_error' = TRUE /\ telemetry_incomplete' = TRUE
  /\ UNCHANGED <<detector, admitted, missing, exec_observed, output_truncated,
                 budget_exhausted, output, observation, purged, receipt>>

OnTruncation ==
  /\ PayloadStep /\ ~output_truncated
  /\ output_truncated' = TRUE /\ telemetry_incomplete' = TRUE
  /\ UNCHANGED <<detector, admitted, missing, exec_observed, trace_error,
                 budget_exhausted, output, observation, purged, receipt>>

\* The pipes are drained and the raw output is complete, or cut.
LoopEnds ==
  /\ pc = "loop" /\ pc' = "classify"
  /\ output' \in {"none", "plain", "loader_error"}
               \cup IF exec_observed THEN {"instructions"} ELSE {}
  /\ UNCHANGED <<steps, detector, admitted, missing, exec_observed, trace_error,
                 output_truncated, budget_exhausted, telemetry_incomplete, observation,
                 purged, receipt>>

-------------------------------------------------------------------------------
(* After the loop.                                                             *)

Scanned(d) ==
  LET persuaded == Record(d, IF output = "instructions" THEN {"codex_manipulation"} ELSE {}, 0)
      truncated == IF output_truncated THEN MarkTelemetryLoss(persuaded) ELSE persuaded
  IN  IF trace_error THEN MarkTelemetryLoss(truncated) ELSE truncated

ObservationFailure(d) ==
  IF ~admitted \/ Found(d.counts) # {} THEN "none"
  ELSE IF ~exec_observed THEN "interpreter_startup"
  ELSE IF output = "loader_error" THEN "library_load" ELSE "none"

Classify ==
  /\ pc = "classify" /\ pc' = "cleanup"
  /\ LET d == Scanned(detector) IN
       /\ observation' = ObservationFailure(d)
       /\ detector' = Record(d, IF observation' = "none" THEN {}
                                ELSE {"payload_observation_incomplete"}, 0)
       /\ telemetry_incomplete' = (telemetry_incomplete \/ observation' # "none")
  /\ UNCHANGED <<steps, admitted, missing, exec_observed, trace_error, output_truncated,
                 budget_exhausted, output, purged, receipt>>

\* Mutant: a purge that is not verified leaves the telemetry complete.
Mut_Cleanup ==
  /\ pc = "cleanup" /\ pc' = "assemble" /\ purged' \in BOOLEAN
  /\ detector' = Record(detector, IF purged' THEN {} ELSE {"purge_failure"}, 0)
  /\ UNCHANGED <<steps, flags, observation, receipt>>

Cleanup ==
  /\ pc = "cleanup" /\ pc' = "assemble" /\ purged' \in BOOLEAN
  /\ detector' = Record(detector, IF purged' THEN {} ELSE {"purge_failure"}, 0)
  /\ telemetry_incomplete' = (telemetry_incomplete \/ ~purged')
  /\ UNCHANGED <<steps, admitted, missing, exec_observed, trace_error, output_truncated,
                 budget_exhausted, output, observation, receipt>>

-------------------------------------------------------------------------------
(* The broker's report, the gate and the receipt.                              *)

Incomplete == telemetry_incomplete \/ detector.incomplete

Uncertainty ==
  IF Incomplete THEN 10
  ELSE IF budget_exhausted THEN 3
  ELSE IF detector.counts["timing_evasion"] > ManyTimings THEN 5 ELSE 0

Risk(counts) ==
  IF Found(counts) \cap KnownBad # {} THEN "hostile"
  ELSE IF Found(counts) # {} THEN "suspicious" ELSE "benign"

\* build_report with its validation: no list longer than the limit.
Reportable == Cardinality(detector.destinations) <= MaxListed

\* What is reported when the broker fails, and again when it is asked to deny.
OutwardReport ==
  IF Reportable
    THEN [risk |-> Risk(detector.counts), evidence |-> detector.counts,
          canary |-> detector.canary, uncertainty |-> Uncertainty]
    ELSE [risk |-> "hostile", evidence |-> [NoFindings EXCEPT !["broker_failure"] = 1],
          canary |-> FALSE, uncertainty |-> 10]

PolicyDecision(report) ==
  CASE Found(report.evidence) \cap KnownBad # {} -> "DENY"
    [] report.canary /\ report.evidence["cred_harvest_pattern"] > 0 -> "DENY"
    [] report.evidence["sandbox_probing"] >= 3 -> "DENY"
    [] Found(report.evidence) \cap {"exec_spawn_chain", "fs_suspicious_write"} # {} -> "DENY"
    [] Found(report.evidence) = {} /\ ~report.canary -> "ALLOW"
    [] OTHER -> "DENY"

\* Mutant: the override is applied before the fail-closed rules.
Mut_ApplyScoringMatrix(report, override) ==
  LET policy == PolicyDecision(report) IN
  [policy |-> policy, override |-> override,
   final |-> CASE report.evidence["payload_observation_incomplete"] > 0 -> "EVALUATION_INCOMPLETE"
               [] override # "none" -> override
               [] Found(report.evidence) \cap Unoverridable # {} -> "DENY"
               [] OTHER -> policy]

ApplyScoringMatrix(report, override) ==
  LET policy == PolicyDecision(report)
      incomplete == report.evidence["payload_observation_incomplete"] > 0
      final == IF incomplete THEN "EVALUATION_INCOMPLETE"
               ELSE IF Found(report.evidence) \cap Unoverridable # {} THEN "DENY"
               ELSE IF override # "none" THEN override ELSE policy
  IN  [policy |-> IF incomplete THEN "EVALUATION_INCOMPLETE" ELSE policy,
       override |-> override, final |-> final]

ObservationSection ==
  IF ~admitted THEN "absent"
  ELSE IF observation # "none" THEN "EVALUATION_INCOMPLETE"
  ELSE IF Incomplete THEN "absent" ELSE "COMPLETE"

Assembled(override) ==
  LET counts == [detector.counts EXCEPT !["broker_failure"] = @ + IF Reportable THEN 0 ELSE 1] IN
  [written |-> TRUE, findings |-> counts, report |-> OutwardReport,
   gate |-> ApplyScoringMatrix(OutwardReport, override), observation |-> ObservationSection,
   purged |-> purged, missing |-> missing, incomplete |-> Incomplete,
   uncertainty |-> Uncertainty]

\* validate_receipt of a receipt the legacy runner made.
ValidLegacyReceipt(r) ==
  /\ IF r.purged THEN r.findings["purge_failure"] = 0
                 ELSE r.findings["purge_failure"] = 1
  /\ r.findings["isolation_admission_failure"] \in {0, 1}
  /\ r.missing => r.findings["isolation_admission_failure"] = 1
  /\ r.report.evidence = r.findings /\ r.report.risk = Risk(r.findings)
  /\ r.report.uncertainty = r.uncertainty
  /\ r.gate = ApplyScoringMatrix(r.report, r.gate.override)
  /\ CASE r.observation = "EVALUATION_INCOMPLETE" ->
            /\ r.findings["payload_observation_incomplete"] = 1
            /\ r.gate.final = "EVALUATION_INCOMPLETE"
            /\ r.incomplete /\ r.uncertainty = 10
       [] r.observation = "COMPLETE" ->
            /\ r.findings["payload_observation_incomplete"] = 0
            /\ r.gate.final \in {"ALLOW", "DENY"}
       [] OTHER -> r.findings["payload_observation_incomplete"] = 0
  /\ (r.findings["isolation_admission_failure"] = 1 \/ r.missing \/ ~r.purged)
       => r.incomplete /\ r.uncertainty = 10
  /\ r.gate.final = "ALLOW" => ~r.missing /\ r.purged

\* override.json is there and is not a JSON object: the gate raises.
OverrideRefused == pc' = "override_refused" /\ UNCHANGED receipt

\* The observer's key is refused, or the receipt's file cannot be written.
Unsaved == pc' = "unsaved" /\ UNCHANGED receipt

\* create_receipt raises on a receipt that is not valid; nothing is written.
Assemble ==
  /\ pc = "assemble"
  /\ \/ \E override \in {"none", "ALLOW", "DENY"} :
          IF ValidLegacyReceipt(Assembled(override))
            THEN pc' = "written" /\ receipt' = Assembled(override)
            ELSE pc' = "raised" /\ UNCHANGED receipt
     \/ OverrideRefused \/ Unsaved
  /\ UNCHANGED <<steps, detector, flags, observation, purged>>

NoReceipt == {"raised", "override_refused", "unsaved"}

Finished == pc \in {"written"} \cup NoReceipt /\ UNCHANGED vars

Next ==
  \/ PreflightArtifact \/ RefuseIsolation \/ Admit \/ AbortAdmission
  \/ OnOpenat \/ OnConnect \/ OnOtherSyscall \/ OnExec \/ OnOverrun \/ OnTraceError
  \/ OnTruncation \/ LoopEnds \/ Classify \/ Cleanup \/ Assemble \/ Finished

Spec == Init /\ [][Next]_vars

-------------------------------------------------------------------------------
(* Properties.                                                                 *)

\* ALLOW, by whatever authority, is never given to a run whose sandbox was not
\* admitted, whose tracing failed, whose output was cut, or whose purge was not
\* verified; and the gate left to itself allows only a payload that was seen to
\* execute and for which no rule fired.
AllowIsFailClosed ==
  receipt.written /\ receipt.gate.final = "ALLOW" =>
    /\ admitted /\ purged /\ ~trace_error /\ ~output_truncated
    /\ observation = "none"
    /\ receipt.gate.override = "none" => exec_observed /\ Found(detector.counts) = {}

\* However many events came before it, a known-bad syscall the tracer examined is
\* in the receipt: the event budget loses events, never findings.
HostileIsReported ==
  receipt.written /\ (detector.canary \/ detector.destinations # {}) =>
    receipt.report.risk = "hostile" /\ receipt.gate.policy # "ALLOW"
===============================================================================
