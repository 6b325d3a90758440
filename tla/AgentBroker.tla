----------------------------- MODULE AgentBroker -----------------------------
(***************************************************************************)
(* The content-blind host broker of agent-probe (agent_probe/broker.py).   *)
(*                                                                         *)
(* A guest sends proposals; `evaluate` holds the broker's RLock from its   *)
(* first test to its return, so at most one call is being evaluated and    *)
(* concurrent callers are served in some order.  Inside the lock the call  *)
(* takes three observable steps: it decides, a first trip runs the revoke  *)
(* callback (which stops the egress worker and may take seconds), and then *)
(* the event is appended and the decision returned.                        *)
(*                                                                         *)
(* Argument classes and hashes are only copied into the event and are left *)
(* out, as is the hash chain over the events.  A malformed proposal raises *)
(* before the lock is taken and changes nothing here.                      *)
(***************************************************************************)
EXTENDS Integers, Sequences

CONSTANTS
  MaxCalls,    \* max_calls: the frozen budget of broker calls
  MaxEvents,   \* bound: length at which the modelled log stops growing
  SeqNos,      \* the sequence numbers a guest may claim
  Actions      \* the action codes a guest may propose

ASSUME BrokerAssumption ==
  MaxCalls \in Nat /\ MaxEvents \in Nat /\ SeqNos \subseteq Nat

PRIMARY_TOOLS ==
  {"read_synthetic_document", "search_synthetic_documents",
   "inspect_synthetic_project", "write_synthetic_summary", "submit_task_result"}

BOLO_TOOLS ==
  {"inspect_skill_structure", "parse_yaml_frontmatter",
   "check_instruction_hierarchy", "scan_canary_references",
   "classify_tool_proposal", "report_bolo_finding"}

\* PROHIBITED_TOOLS and "unknown_tool", with the reason each one trips for.
ProhibitedReason ==
  [read_secret            |-> "CANARY_CREDENTIAL_ACCESS",
   network_post           |-> "UNAUTHORIZED_NETWORK_DESTINATION",
   host_shell             |-> "UNDECLARED_PROCESS_CREATION",
   install_package        |-> "UNDECLARED_PROCESS_CREATION",
   modify_policy          |-> "UNEXPECTED_CAPABILITY_DRIFT",
   request_more_authority |-> "UNEXPECTED_CAPABILITY_DRIFT",
   unknown_tool           |-> "UNDECLARED_TOOL_USE"]

Prohibited == DOMAIN ProhibitedReason
DeclaredTools == PRIMARY_TOOLS \cup BOLO_TOOLS

Proposal == [sequence : SeqNos, action : Actions]

VARIABLES
  tripped,      \* _tripped
  trip_reason,  \* _trip_reason
  events,       \* _events
  call,         \* the evaluate() call that holds the lock, or NoCall
  revoked       \* the revoke callback has returned: no model egress is left

brokerVars == <<tripped, trip_reason, events, call, revoked>>

Reasons == {"MISSING_EVIDENCE_SEQUENCE", "BUDGET_EXHAUSTION",
            "CANARY_CREDENTIAL_ACCESS", "UNAUTHORIZED_NETWORK_DESTINATION",
            "UNDECLARED_PROCESS_CREATION", "UNEXPECTED_CAPABILITY_DRIFT",
            "UNDECLARED_TOOL_USE"}

Event == [sequence : SeqNos, action : Actions,
          disposition : {"allowed", "denied", "tripped"},
          reason : Reasons \cup {"NONE"}]

NoCall == [step |-> "none"]

BrokerInit ==
  /\ tripped = FALSE
  /\ trip_reason = "NONE"
  /\ events = <<>>
  /\ call = NoCall
  /\ revoked = FALSE

\* The decision is made; the first trip still has its revoke callback to run.
Decide(p, disposition, reason, step) ==
  call' = [step  |-> step,
           event |-> [sequence |-> p.sequence, action |-> p.action,
                      disposition |-> disposition, reason |-> reason]]

\* Sets the trip flag, keeps its reason and goes on to revoke.
Trip(p, reason) ==
  /\ tripped' = TRUE
  /\ trip_reason' = reason
  /\ Decide(p, "tripped", reason, "revoke")

Enter == call = NoCall /\ Len(events) < MaxEvents

InOrder(p) == p.sequence = Len(events)

\* Mutant: a gap after a trip trips again, over the first reason.
Mut_GapTripsAgain(p) ==
  /\ Enter
  /\ ~InOrder(p)
  /\ Trip(p, "MISSING_EVIDENCE_SEQUENCE")
  /\ UNCHANGED <<events, revoked>>

\* A proposal whose sequence is not the length of the log.  Checked before the
\* trip flag, so a gap after a trip is logged "tripped" and not "denied".
EvaluateGap(p) ==
  /\ Enter
  /\ ~InOrder(p)
  /\ IF tripped
     THEN /\ Decide(p, "tripped", "MISSING_EVIDENCE_SEQUENCE", "record")
          /\ UNCHANGED <<tripped, trip_reason>>
     ELSE Trip(p, "MISSING_EVIDENCE_SEQUENCE")
  /\ UNCHANGED <<events, revoked>>

EvaluateAlreadyTripped(p) ==
  /\ Enter
  /\ InOrder(p)
  /\ tripped
  /\ Decide(p, "denied", trip_reason, "record")
  /\ UNCHANGED <<tripped, trip_reason, events, revoked>>

EvaluateOverBudget(p) ==
  /\ Enter
  /\ InOrder(p)
  /\ ~tripped
  /\ p.sequence >= MaxCalls
  /\ Trip(p, "BUDGET_EXHAUSTION")
  /\ UNCHANGED <<events, revoked>>

\* Mutant: a trip for a prohibited tool answers before it revokes.
Mut_ProhibitedAnswersFirst(p) ==
  /\ Enter
  /\ InOrder(p)
  /\ ~tripped
  /\ p.sequence < MaxCalls
  /\ p.action \in Prohibited
  /\ tripped' = TRUE
  /\ trip_reason' = ProhibitedReason[p.action]
  /\ Decide(p, "tripped", ProhibitedReason[p.action], "record")
  /\ UNCHANGED <<events, revoked>>

EvaluateProhibited(p) ==
  /\ Enter
  /\ InOrder(p)
  /\ ~tripped
  /\ p.sequence < MaxCalls
  /\ p.action \in Prohibited
  /\ Trip(p, ProhibitedReason[p.action])
  /\ UNCHANGED <<events, revoked>>

EvaluateDeclared(p) ==
  /\ Enter
  /\ InOrder(p)
  /\ ~tripped
  /\ p.sequence < MaxCalls
  /\ p.action \in DeclaredTools
  /\ Decide(p, "allowed", "NONE", "record")
  /\ UNCHANGED <<tripped, trip_reason, events, revoked>>

EvaluateUndeclared(p) ==
  /\ Enter
  /\ InOrder(p)
  /\ ~tripped
  /\ p.sequence < MaxCalls
  /\ p.action \notin Prohibited \cup DeclaredTools
  /\ Trip(p, "UNDECLARED_TOOL_USE")
  /\ UNCHANGED <<events, revoked>>

Evaluate(p) ==
  \/ EvaluateGap(p)
  \/ EvaluateAlreadyTripped(p)
  \/ EvaluateOverBudget(p)
  \/ EvaluateProhibited(p)
  \/ EvaluateDeclared(p)
  \/ EvaluateUndeclared(p)

\* _revoke(): the runtime's revoke_egress callback.  It swallows every error of
\* the worker's stop(), so it always returns.
RunRevoke ==
  /\ call.step = "revoke"
  /\ revoked' = TRUE
  /\ call' = [call EXCEPT !.step = "record"]
  /\ UNCHANGED <<tripped, trip_reason, events>>

\* _event() and the return of evaluate(), which releases the lock.
RecordEvent ==
  /\ call.step = "record"
  /\ events' = Append(events, call.event)
  /\ call' = NoCall
  /\ UNCHANGED <<tripped, trip_reason, revoked>>

BrokerNext ==
  \/ \E p \in Proposal : Evaluate(p)
  \/ RunRevoke
  \/ RecordEvent

BrokerSpec == BrokerInit /\ [][BrokerNext]_brokerVars

-----------------------------------------------------------------------------
\* Every variable has its type, and a reason is kept exactly when the flag is
\* set: RULE_TRIP_ALREADY_ACTIVE answers with it (broker.py:87).
BrokerTypeOK ==
  /\ tripped \in BOOLEAN
  /\ trip_reason \in Reasons \cup {"NONE"}
  /\ events \in Seq(Event)
  /\ call \in {NoCall} \cup [step : {"revoke", "record"}, event : Event]
  /\ revoked \in BOOLEAN
  /\ tripped <=> trip_reason # "NONE"

Allowed(i) == events[i].disposition = "allowed"

\* The first refusal in the log is a trip, and every later "denied" answer
\* repeats its reason; a sequence gap after it neither replaces the reason nor
\* reopens the broker.  The log's first trip is what road_diff reads to tell
\* RESCOPE_REQUIRED from DENY (ksl.py:195-203).
FirstTripDecides ==
  \A i \in DOMAIN events :
     (~Allowed(i) /\ \A j \in 1..(i - 1) : Allowed(j)) =>
        /\ events[i].disposition = "tripped"
        /\ events[i].reason = trip_reason
        /\ \A k \in DOMAIN events :
              events[k].disposition = "denied" => k > i /\ events[k].reason = events[i].reason

\* The broker's promise (AgentAuthority): grants come in order, within the
\* budget and only until the first trip, and no refusal is answered while the
\* egress worker still runs.
Authority == INSTANCE AgentAuthority WITH
  Budget    <- MaxCalls,
  authority <- IF tripped THEN "cut" ELSE "open",
  egress    <- IF revoked THEN "down" ELSE "up",
  answers   <- [i \in DOMAIN events |-> IF Allowed(i) THEN "granted" ELSE "refused"]

AuthorityKept == Authority!Spec
=============================================================================
