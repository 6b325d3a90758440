---------------------------- MODULE BrowserVerdict -----------------------------
(***************************************************************************)
(* From a browser probe's run to its receipt: run_browser_probe and its    *)
(* cleanup (mote/firecracker_runtime.py), reduce_browser_evidence          *)
(* (mote/browser_evidence.py), detonate_browser_probe (mote/detonate.py),  *)
(* the policy gate, and the validator that every receipt has to pass       *)
(* (observer/receipt.py).                                                  *)
(*                                                                         *)
(* An event is its kind.  What the guest reports differs from the clean    *)
(* report in at most MaxDeviations kinds; the host takes its word for      *)
(* nothing but the attestation, where BrowserAgent!CleanIsWhole holds.   *)
(***************************************************************************)
EXTENDS Integers, FiniteSets

CONSTANTS
  MaxDeviations,
  MaxUnpurged        \* attestations that fail, the worker's not counted

VARIABLES
  pc,
  vm, egress,      \* kinds of events of the host's own streams, allowed requests left out
  guest,           \* the guest's evidence, as far as it was taken over
  guest_result, admitted, artifacts,
  proxy,           \* absent or present
  checks,          \* the purge attestations
  proxy_complete,  \* telemetry.complete of the worker's final frame
  readback,        \* whether every cgroup limit was read back as set
  reduction, gate

jobVars == <<vm, egress, guest, guest_result, admitted, artifacts, proxy>>
endVars == <<checks, proxy_complete, readback>>
vars == <<pc, jobVars, endVars, reduction, gate>>

Streams == {"browser", "cdp", "egress", "vm"}
PurgeChecks == {"processes", "cgroup", "network", "jail", "worker"}

-------------------------------------------------------------------------------
(* What the guest may report                                                   *)

Nominal == {"started", "navigation", "sandbox_active", "stopped"}
Odd == {"failed", "navigation_failed", "unauthorized", "blocked", "popup",
        "interaction", "sandbox_inactive", "redirects", "over_budget", "gap",
        "miscount", "browser_loss", "cdp_loss", "destinations"}

Kinds == Nominal \cup Odd

\* At most sixteen origins are authorised, so that of many some are refused.
Implied(d) == d \cup IF "destinations" \in d THEN {"unauthorized", "blocked"} ELSE {}

\* The reports that differ from the clean one in no more than MaxDeviations, but
\* for what these imply.
Reports ==
  {(Nominal \ d) \cup (d \ Nominal) :
     d \in {Implied(d) : d \in {d \in SUBSET Kinds : Cardinality(d) <= MaxDeviations}}}

NoGuest == [seen |-> {}, browser |-> FALSE, cdp |-> FALSE]

Bundles == [seen : Reports, browser : BOOLEAN, cdp : BOOLEAN]

Init ==
  /\ pc = "launch" /\ vm = {} /\ egress = {} /\ guest = NoGuest
  /\ guest_result = "none" /\ admitted = FALSE /\ artifacts = "none"
  /\ proxy = "absent" /\ checks = {} /\ proxy_complete = FALSE /\ readback = FALSE
  /\ reduction = [findings |-> {}, incomplete |-> TRUE, decision |-> "DENY"]
  /\ gate = [override |-> "none", policy |-> "none", final |-> "none"]

-------------------------------------------------------------------------------
(* run_browser_probe                                                           *)

\* A prerequisite is missing, or another job holds the lock: nothing is run.
Unavailable ==
  /\ pc = "launch" /\ pc' = "unavailable" /\ UNCHANGED <<jobVars, endVars, reduction, gate>>

Failing == pc' = "finally" /\ vm' = vm \cup {"failed", "loss"}

\* Staging, network, jailer, API or worker fail; the worker may have started.
LaunchFails ==
  /\ pc = "launch" /\ Failing /\ proxy' \in {"absent", "present"}
  /\ UNCHANGED <<egress, guest, guest_result, admitted, artifacts, endVars, reduction, gate>>

Boot ==
  /\ pc = "launch" /\ pc' = "booted" /\ proxy' = "present" /\ vm' = {"started"}
  /\ UNCHANGED <<egress, guest, guest_result, admitted, artifacts, endVars, reduction, gate>>

\* No handshake or no result in time, a result of an error, or one that is not
\* bound to the request: the guest's evidence is not looked at.
GuestFails ==
  /\ pc = "booted" /\ Failing /\ guest_result' \in {"none", "error", "ok"}
  /\ UNCHANGED <<egress, guest, admitted, artifacts, proxy, endVars, reduction, gate>>

\* Evidence of streams that are not the guest's is refused with the rest.  The
\* guest's word that its attestation is partial is taken, with a loss or without.
TakeOver ==
  /\ pc = "booted" /\ guest_result' = "ok"
  /\ guest' \in Bundles
  /\ \/ Failing /\ UNCHANGED <<admitted, artifacts>>      \* artifacts refused
     \/ /\ pc' = "finally" /\ vm' = vm /\ admitted' = TRUE
        /\ artifacts' \in {"complete", "partial"}
  /\ UNCHANGED <<egress, proxy, endVars, reduction, gate>>

\* What the proxy saw, and what is left of the job afterwards.
Finally ==
  /\ pc = "finally" /\ pc' = "cleaned"
  /\ IF proxy = "present"
       THEN egress' \in SUBSET {"blocked", "loss"} /\ proxy_complete' \in BOOLEAN
       ELSE egress' = {} /\ proxy_complete' = FALSE
  /\ \E bad \in SUBSET PurgeChecks :
       /\ Cardinality(bad \ {"worker"}) <= MaxUnpurged /\ (proxy = "absent" => "worker" \in bad)
       /\ checks' = PurgeChecks \ bad
  /\ readback' \in BOOLEAN
  /\ UNCHANGED <<vm, guest, guest_result, admitted, artifacts, proxy, reduction, gate>>

PurgeVerified == checks = PurgeChecks

VmClosed == PurgeVerified /\ guest_result = "ok"

EgressComplete ==
  proxy = "present" /\ {"worker", "network"} \subseteq checks /\ proxy_complete

StreamComplete ==
  [s \in Streams |-> CASE s = "browser" -> guest.browser [] s = "cdp" -> guest.cdp
                       [] s = "egress" -> EgressComplete [] s = "vm" -> VmClosed]

VmEvents == vm \cup IF VmClosed THEN {"stopped"} ELSE {"loss"}

-------------------------------------------------------------------------------
(* reduce_browser_evidence                                                     *)

Loss(s) == CASE s = "browser" -> "web_browser_telemetry_loss"
             [] s = "cdp" -> "web_cdp_telemetry_loss"
             [] s = "egress" -> "web_egress_telemetry_loss"
             [] s = "vm" -> "web_vm_telemetry_loss"

Seen(kind, id) == IF kind \in guest.seen THEN {id} ELSE {}

\* Findings of events that say nothing against the evidence itself.
BehaviourFindings ==
  Seen("unauthorized", "web_unauthorized_origin_attempt")
  \cup Seen("blocked", "web_blocked_egress_attempt")
  \cup Seen("popup", "web_popup_attempt")
  \cup Seen("interaction", "web_active_interaction_attempt")
  \cup Seen("sandbox_inactive", "web_browser_sandbox_inactive")
  \cup (IF "blocked" \in egress THEN {"web_blocked_egress_attempt"} ELSE {})

\* Mutant: a stream that lost an event but is declared complete is taken for it.
Mut_ClosingFindings ==
  {Loss(s) : s \in {s \in Streams : ~StreamComplete[s]}}
  \cup Seen("failed", "web_browser_execution_failed")
  \cup Seen("navigation_failed", "web_navigation_failed")
  \cup Seen("miscount", "web_evidence_count_mismatch")
  \cup Seen("gap", "web_evidence_sequence_gap")
  \cup Seen("over_budget", "web_event_budget_exceeded")
  \cup Seen("redirects", "web_redirect_budget_exceeded")
  \cup (IF "failed" \in vm THEN {"web_vm_execution_failed"} ELSE {})

\* Findings that set incomplete: losses, failures, gaps, budgets.
ClosingFindings ==
  {Loss(s) : s \in {s \in Streams : ~StreamComplete[s]}}
  \cup Seen("browser_loss", Loss("browser")) \cup Seen("cdp_loss", Loss("cdp"))
  \cup (IF "loss" \in egress THEN {Loss("egress")} ELSE {})
  \cup (IF "loss" \in VmEvents THEN {Loss("vm")} ELSE {})
  \cup Seen("failed", "web_browser_execution_failed")
  \cup (IF "failed" \in vm THEN {"web_vm_execution_failed"} ELSE {})
  \cup Seen("navigation_failed", "web_navigation_failed")
  \cup Seen("miscount", "web_evidence_count_mismatch")
  \cup Seen("gap", "web_evidence_sequence_gap")
  \cup Seen("over_budget", "web_event_budget_exceeded")
  \cup Seen("redirects", "web_redirect_budget_exceeded")

\* What has to be in the evidence, and is missing.
MissingFindings ==
  (IF guest.seen \cap {"sandbox_active", "sandbox_inactive"} = {}
     THEN {"web_browser_sandbox_unknown"} ELSE {})
  \cup (IF guest.seen \cap {"navigation", "navigation_failed"} = {}
          THEN {"web_navigation_missing"} ELSE {})
  \cup (IF {"started", "stopped"} \subseteq guest.seen
          THEN {} ELSE {"web_browser_lifecycle_incomplete"})
  \cup (IF {"started", "stopped"} \subseteq VmEvents
          THEN {} ELSE {"web_vm_lifecycle_incomplete"})

ReduceBrowserEvidence ==
  LET closing == ClosingFindings \cup MissingFindings
      all == closing \cup BehaviourFindings IN
  [findings |-> all, incomplete |-> closing # {},
   decision |-> IF all = {} THEN "ALLOW" ELSE "DENY"]

EnforcePurgeGate(r) ==
  IF PurgeVerified THEN r ELSE [r EXCEPT !.decision = "DENY", !.incomplete = TRUE]

Reduce ==
  /\ pc = "cleaned" /\ pc' = "reduced"
  /\ vm' = VmEvents
  /\ reduction' = EnforcePurgeGate(ReduceBrowserEvidence)
  /\ UNCHANGED <<egress, guest, guest_result, admitted, artifacts, proxy, endVars, gate>>

-------------------------------------------------------------------------------
(* detonate_browser_probe                                                      *)

Findings ==
  reduction.findings
  \cup (IF admitted THEN {} ELSE {"firecracker_runtime_failure"})
  \cup (IF PurgeVerified THEN {} ELSE {"purge_failure"})

Overridable ==
  {"web_unauthorized_origin_attempt", "web_blocked_egress_attempt", "web_popup_attempt",
   "web_active_interaction_attempt", "web_navigation_failed"}

FailClosed(fs) == ~(fs \subseteq Overridable)

ApplyScoringMatrix(fs, override) ==
  LET policy == IF fs = {} THEN "ALLOW" ELSE "DENY" IN
  [override |-> override, policy |-> policy,
   final |-> IF FailClosed(fs) THEN "DENY"
             ELSE IF override # "none" THEN override ELSE policy]

\* override.json is there and is not a JSON object.
OverrideRefused == pc' = "override_refused" /\ gate' = gate

\* The gate's own check of the report refuses one with too many destinations.
Gate ==
  /\ pc = "reduced"
  /\ IF "destinations" \in guest.seen
       THEN pc' = "report_refused" /\ gate' = gate
       ELSE \/ /\ pc' = "gated"
               /\ \E override \in {"none", "ALLOW", "DENY"} :
                    gate' = ApplyScoringMatrix(Findings, override)
            \/ OverrideRefused
  /\ UNCHANGED <<jobVars, endVars, reduction>>

-------------------------------------------------------------------------------
(* _validate_browser_probe_section, on the receipt that is put together        *)

TelemetryIncomplete ==
  {Loss(s) : s \in Streams} \cup
  {"web_browser_execution_failed", "web_browser_lifecycle_incomplete",
   "web_browser_sandbox_unknown", "web_event_budget_exceeded",
   "web_evidence_count_mismatch", "web_evidence_sequence_gap", "web_navigation_failed",
   "web_navigation_missing", "web_redirect_budget_exceeded", "web_vm_execution_failed",
   "web_vm_lifecycle_incomplete"}

\* An admitted run shows its limits as read back, the worker's confinement and
\* the supervision; those of a run that got so far are there.
ValidRuntime == admitted => readback /\ proxy = "present"

ValidReduction ==
  /\ reduction.incomplete => reduction.decision = "DENY"
  /\ ("web_evidence_count_mismatch" \in reduction.findings) = ("miscount" \in guest.seen)
  /\ reduction.incomplete =
       ((\E s \in Streams : ~StreamComplete[s])
          \/ reduction.findings \cap TelemetryIncomplete # {})
  /\ reduction.decision = IF reduction.findings = {} THEN "ALLOW" ELSE "DENY"

ValidArtifacts ==
  /\ artifacts = "none" => ~admitted
  /\ artifacts = "partial" =>
       Loss("cdp") \in Findings /\ reduction.incomplete /\ reduction.decision = "DENY"

\* The gate as it follows from the findings, and what ALLOW takes in any case.
ValidGate ==
  LET expected == IF FailClosed(Findings) THEN "DENY"
                  ELSE IF gate.override # "none" THEN gate.override ELSE reduction.decision IN
  /\ gate.policy = reduction.decision /\ gate.final = expected
  /\ (~admitted \/ ~PurgeVerified) => gate.final = "DENY"
  /\ gate.final = "ALLOW" => admitted /\ PurgeVerified /\ ~reduction.incomplete

ValidBrowserReceipt == ValidRuntime /\ ValidReduction /\ ValidArtifacts /\ ValidGate

\* The observer's key is refused, or the receipt's file cannot be written.
Unsaved == pc' = "unsaved"

CreateReceipt ==
  /\ pc = "gated"
  /\ \/ pc' = IF ValidBrowserReceipt THEN "written" ELSE "refused"
     \/ Unsaved
  /\ UNCHANGED <<jobVars, endVars, reduction, gate>>

NoReceipt == {"unavailable", "report_refused", "override_refused", "refused", "unsaved"}

Done == pc \in {"written"} \cup NoReceipt /\ UNCHANGED vars

Next ==
  \/ Unavailable \/ LaunchFails \/ Boot \/ GuestFails \/ TakeOver \/ Finally
  \/ Reduce \/ Gate \/ CreateReceipt \/ Done

Spec == Init /\ [][Next]_vars

-------------------------------------------------------------------------------
(* Properties                                                                  *)

\* A receipt that allows comes of a run that was admitted and purged, with
\* the four streams complete and closed, whoever decided; and with nothing
\* at all found in it when no human did.
AllowIsEarned ==
  pc = "written" /\ gate.final = "ALLOW" =>
    /\ admitted /\ PurgeVerified /\ readback /\ EgressComplete
    /\ guest.browser /\ guest.cdp /\ {"started", "stopped"} \subseteq vm
    /\ guest.seen \cap {"browser_loss", "cdp_loss", "gap", "miscount", "failed",
                        "sandbox_inactive", "over_budget", "redirects"} = {}
    /\ gate.override = "none" => guest.seen = Nominal /\ egress = {}
===============================================================================
