---------------------------- MODULE AgentAuthority ----------------------------
(***************************************************************************)
(* What the agent-probe broker promises the run, without saying how.       *)
(*                                                                         *)
(* A run holds authority to act and to reach the model endpoint.  While    *)
(* the authority is open each answer grants one action, up to the frozen   *)
(* budget.  The authority is cut at most once and for good; egress goes    *)
(* down after the cut, and only then is the proposer told of a refusal     *)
(* ("The host revokes the egress worker before sending the trip decision", *)
(* docs/agent-probe/SECURITY_NOTES.md).                                    *)
(***************************************************************************)
EXTENDS Integers, Sequences

CONSTANT Budget   \* the number of grants a run may get

VARIABLES
  authority,   \* "open" until the run is cut
  egress,      \* "up" until the worker is stopped
  answers      \* what the proposer was told, in order

authorityVars == <<authority, egress, answers>>

Init ==
  /\ authority = "open"
  /\ egress = "up"
  /\ answers = <<>>

Grant ==
  /\ authority = "open"
  /\ Len(answers) < Budget
  /\ answers' = Append(answers, "granted")
  /\ UNCHANGED <<authority, egress>>

Cut ==
  /\ authority = "open"
  /\ authority' = "cut"
  /\ UNCHANGED <<egress, answers>>

GoDown ==
  /\ authority = "cut"
  /\ egress = "up"
  /\ egress' = "down"
  /\ UNCHANGED <<authority, answers>>

Refuse ==
  /\ egress = "down"
  /\ answers' = Append(answers, "refused")
  /\ UNCHANGED <<authority, egress>>

Next == Grant \/ Cut \/ GoDown \/ Refuse

Spec == Init /\ [][Next]_authorityVars
===============================================================================
