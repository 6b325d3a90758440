------------------------------ MODULE Detonation -------------------------------
(***************************************************************************)
(* One call of mote/detonate.py, from the command line to the exit code:   *)
(* an artifact goes through the legacy profile (LegacyVerdict), a browser  *)
(* probe, as a file or as --browser-url, through the microVM profile       *)
(* (BrowserVerdict).  The profile that is not used stays as it was.        *)
(***************************************************************************)
EXTENDS LegacyVerdict

CONSTANTS MaxDeviations, MaxUnpurged

ASSUME BrowserAssumption == {MaxDeviations, MaxUnpurged} \subseteq Nat

VARIABLES
  command,   \* what was asked for: none, artifact, probe, refused
  exit,      \* the exit code, -1 until there is one
  stage, vm, egress, guest, guest_result, runtime_admitted, artifacts, proxy, checks,
  proxy_complete, readback, reduction, gate

B == INSTANCE BrowserVerdict WITH pc <- stage, admitted <- runtime_admitted

browserVars == <<stage, vm, egress, guest, guest_result, runtime_admitted, artifacts, proxy,
                 checks, proxy_complete, readback, reduction, gate>>
detonationVars == <<command, exit, vars, browserVars>>

DetonationInit == command = "none" /\ exit = -1 /\ Init /\ B!Init

Dispatch ==
  /\ command = "none" /\ command' \in {"artifact", "probe"}
  /\ UNCHANGED <<exit, vars, browserVars>>

\* No such file, an altered snapshot, a request or its budgets over the limits.
Refuse ==
  /\ command = "none" /\ command' = "refused" /\ exit' = 1
  /\ UNCHANGED <<vars, browserVars>>

LegacyStep == command = "artifact" /\ Next /\ UNCHANGED <<command, exit, browserVars>>

BrowserStep == command = "probe" /\ B!Next /\ UNCHANGED <<command, exit, vars>>

Decision == IF command = "artifact" THEN receipt.gate.final ELSE gate.final

Returned == pc = "written" \/ stage = "written"
Raised == pc \in NoReceipt \/ stage \in B!NoReceipt

\* Anything but ALLOW and DENY is no verdict; --browser-url does not ask.
CliExits ==
  /\ exit = -1 /\ (Returned \/ Raised)
  /\ \E url \in {FALSE, command = "probe"} :
       exit' = IF Raised THEN 1
               ELSE IF url \/ Decision \in {"ALLOW", "DENY"} THEN 0 ELSE 2
  /\ UNCHANGED <<command, vars, browserVars>>

Over == command = "refused" /\ UNCHANGED detonationVars

DetonationNext ==
  Dispatch \/ Refuse \/ LegacyStep \/ BrowserStep \/ CliExits \/ Over

DetonationSpec == DetonationInit /\ [][DetonationNext]_detonationVars

-------------------------------------------------------------------------------
(* Properties.                                                                 *)

\* The browser profile's ALLOW (BrowserVerdict): earned by an admitted and purged
\* run whose four streams were complete and closed.
BrowserAllowIsEarned == B!AllowIsEarned

\* A run that took place ends in a signed receipt: whatever was observed, the
\* validator accepts what the runner assembles, and the exit code tells a verdict
\* from none.  The exceptions outside the run are an override file that is no JSON
\* object, and a key or a receipt's file that cannot be used.  Those of the run are
\* a report with more destinations than it may list; an admitted run whose limits
\* could not be read back; a guest that calls its attestation partial and shows no
\* loss; and a human ALLOW of a failed navigation, a finding that is incomplete and
\* yet overridable.
RunEndsInReceipt ==
  /\ exit = 0 => Decision \in {"ALLOW", "DENY"}
  /\ exit = 1 /\ command = "artifact" =>
       ~Reportable \/ pc \in {"override_refused", "unsaved"}
  /\ exit = 1 /\ command = "probe" =>
       \/ stage \in {"unavailable", "override_refused", "unsaved"}
       \/ "destinations" \in guest.seen
       \/ runtime_admitted /\ ~readback
       \/ artifacts = "partial" /\ B!Loss("cdp") \notin B!Findings
       \/ gate.final = "ALLOW" /\ "web_navigation_failed" \in B!Findings
===============================================================================
