--------------------------- MODULE AgentProbeProofs ---------------------------
(***************************************************************************)
(* Proofs about one agent-probe run, for every budget, every set of action *)
(* codes, every usage a response may report and every length of a batch.   *)
(*                                                                         *)
(* None of the properties is inductive: each speaks of the end of a chain  *)
(* that runs through the guest, the channel, the broker, the worker and    *)
(* the runtime.  ProbeInv follows it.  LockstepInv is the heart: guest and *)
(* host take turns, so that the one frame or call under way tells how far  *)
(* the guest's count of proposals may be behind the broker's log.  TripInv *)
(* ties the trip flag to the log, to the revocation and to what the guest  *)
(* can still do; WorkerInv is what the worker's handle promises;           *)
(* RuntimeInv and ReceiptInv carry what was witnessed into the receipt.    *)
(*                                                                         *)
(* The run is then shown to do nothing to its broker and its worker that   *)
(* their own specifications do not allow, and what its end rests on is     *)
(* proved: the host can always move, and only so many times.               *)
(***************************************************************************)
EXTENDS AgentProbe, TLAPS

Statuses == {"EVALUATION_INCOMPLETE", "PROVIDER_FAILURE", "MALFORMED_RESPONSE", "COMPLETE",
             "INCOMPLETE_TASK", "BUDGET_EXHAUSTION", "HARD_TRIP", "DENIED"}

GuestPcs == {"off", "accepted", "loading", "model", "calls", "await", "finish", "sent", "dead"}

Stages == {"admission", "launch", "proxy_setup", "guest_start", "send_run", "control",
           "evaluating", "evidence", "stop_worker", "purge", "reduce", "write",
           "done", "raised", "crashed"}

\* Where the runtime has returned to the runner, and where it has not launched the guest.
Over == {"reduce", "write", "done", "raised", "crashed"}
Before == {"admission", "launch", "proxy_setup", "guest_start"}

Guests == [pc : GuestPcs, status : Statuses, task : BOOLEAN, soft : Nat, proposals : Nat,
           requests : Nat, prompt : Nat, completion : Nat, reported : BOOLEAN, calls : Int,
           key : BOOLEAN]

ProbeTypeOK ==
  /\ guest \in Guests
  /\ tripped \in BOOLEAN /\ revoked \in BOOLEAN
  /\ events \in Seq(Broker!Event)
  /\ call = Broker!NoCall \/ call \in [step : {"revoke", "record"}, event : Broker!Event]
  /\ stage \in Stages

Idle == call.step = "none"

\* What a result frame says of the guest that sent it.
TrueResult(r) ==
  /\ r.status \in Statuses \cup {"GUEST_FAILURE"}
  /\ r.status = "COMPLETE" =>
       /\ r.task = guest.task /\ r.soft = guest.soft
       /\ guest.prompt + guest.completion <= MaxTokens

\* Guest and host take turns.
LockstepInv ==
  /\ toHost.type = "proposal" =>
       /\ guest.pc \in {"await", "dead"} /\ Idle /\ ~tripped /\ toGuest.type # "decision"
       /\ toHost.sequence = guest.proposals /\ guest.proposals = Len(events)
       /\ guest.proposals < MaxCalls /\ toHost.action \in Actions
  /\ toHost.type = "result" =>
       guest.pc \in {"sent", "dead"} /\ Idle /\ guest.proposals = Len(events)
       /\ TrueResult(toHost)
  /\ result # NoResult =>
       /\ guest.pc \in {"sent", "dead"} /\ Idle /\ guest.proposals = Len(events)
       /\ TrueResult(result) /\ toHost.type = "none"
  /\ ~Idle =>
       /\ guest.pc \in {"await", "dead"} /\ toHost.type = "none" /\ toGuest.type # "decision"
       /\ call.event.sequence = guest.proposals /\ guest.proposals = Len(events)
  /\ toGuest.type = "decision" =>
       /\ guest.pc \in {"await", "dead"} /\ Idle /\ toHost.type = "none"
       /\ toGuest.sequence = guest.proposals /\ Len(events) = guest.proposals + 1
       /\ toGuest.disposition = events[Len(events)].disposition
  /\ guest.pc \notin {"await", "dead", "sent"} =>
       Idle /\ toHost.type = "none" /\ guest.proposals = Len(events)
  /\ guest.pc = "sent" => Idle /\ guest.proposals = Len(events)
  /\ ~Idle <=> stage = "evaluating"

\* The trip flag, the log, the revocation, and what the guest may still do.
TripInv ==
  /\ ~tripped =>
       /\ \A i \in DOMAIN events : events[i].disposition = "allowed"
       /\ ~Idle => call.event.disposition = "allowed"
  /\ tripped =>
       /\ guest.pc \in {"await", "finish", "sent", "dead"}
       /\ Idle =>
            /\ Len(events) > 0
            /\ events[Len(events)].disposition = "tripped"
            /\ events[Len(events)].reason = trip_reason
            /\ \A i \in 1..(Len(events) - 1) : events[i].disposition = "allowed"
       /\ ~Idle =>
            /\ call.event.disposition = "tripped" /\ call.event.reason = trip_reason
            /\ \A i \in DOMAIN events : events[i].disposition = "allowed"
  /\ call.step = "revoke" => tripped
  /\ tripped /\ call.step # "revoke" => revoked
  /\ revoked => wstate \in {"stopped", "failed"}
  /\ guest.status = "HARD_TRIP" => tripped /\ Idle

\* What the worker's handle promises.
WorkerInv ==
  /\ wstate \in {"new", "starting", "running", "stopping", "stopped", "failed"}
  /\ wpurge \/ wpending => ~wlive /\ wstate \in {"stopped", "failed"}
  /\ wstate \in {"new", "stopped"} => ~wlive
  /\ wcomplete => wstate = "stopped"

\* What the runtime has established by each stage.
RuntimeInv ==
  /\ stage \in {"admission", "launch"} => wstate = "new"
  /\ stage \in Before => guest.pc = "off"
  /\ stage = "evidence" => result # NoResult
  /\ persisted => result # NoResult
  /\ failure = "NONE" /\ stage \in Over \cup {"stop_worker", "purge"} => persisted
  /\ failure \in {"PREFLIGHT_FAILED", "RUNTIME_RAISED"} => stage \in Over
  /\ failure = "PREFLIGHT_FAILED" => wstate = "new"
  /\ purge.worker => wpurge /\ stage \in Over
  /\ stage \in Over => guest.pc \in {"off", "sent", "dead"}

\* The artefacts appear in this order, the receipt last.
Written == {{}, {"road_frozen"}, {"road_frozen", "road_walked"},
            {"road_frozen", "road_walked", "road_diff"},
            {"road_frozen", "road_walked", "road_diff", "receipt"}}

AllowIsEarned ==
  receipt.gate = "ALLOW" =>
    /\ ~tripped /\ \A i \in DOMAIN events : events[i].disposition = "allowed"
    /\ guest.proposals = Len(events) /\ guest.task /\ guest.soft = 0
    /\ guest.prompt + guest.completion <= MaxTokens
    /\ persisted
    /\ ~wlive /\ wcomplete /\ Verified(purge)

\* What the receipt says, and what is on disk.
ReceiptInv ==
  /\ receipt # NoReceipt => stage \in Over \ {"reduce"}
  /\ AllowIsEarned
  /\ receipt # NoReceipt /\ wlive => ~receipt.cleanup
  /\ receipt # NoReceipt /\ receipt.execution = "COMPLETE" => persisted
  /\ FirstTripDecidesGate
  /\ artifacts \in Written
  /\ stage = "write" => "receipt" \notin artifacts /\ receipt # NoReceipt
  /\ artifacts # {} => receipt # NoReceipt

ProbeInv ==
  ProbeTypeOK /\ LockstepInv /\ TripInv /\ WorkerInv /\ RuntimeInv /\ ReceiptInv
-------------------------------------------------------------------------------
(* The worker.                                                                 *)

\* Whatever the run does to the worker, it does through the handle.
LEMMA WorkerSteps ==
  ASSUME Next
  PROVE  UNCHANGED workerVars \/ Worker!Next
<1>1. CASE GuestNext
  <2>1. CASE GuestStart \/ GuestLoaded \/ GuestCallFails \/ GuestCallAnswers \/ GuestOutOfBudget
    BY Zenon, <2>1 DEF GuestStart, GuestLoaded, GuestCallFails, GuestCallAnswers, GuestOutOfBudget
  <2>2. CASE GuestPropose \/ GuestStopsBatch \/ GuestDecided \/ GuestBatchDone
    BY Zenon, <2>2 DEF GuestPropose, GuestStopsBatch, GuestDecided, GuestBatchDone
  <2>3. CASE GuestFinish \/ GuestFails
    BY Zenon, <2>3 DEF GuestFinish, GuestFails
  <2>4. QED
    BY Zenon, <1>1, <2>1, <2>2, <2>3 DEF GuestNext
<1>2. CASE EnvNext
  BY Zenon, <1>2 DEF EnvNext, DeadlinePasses, GuestDies, WorkerMoves, HostCrashes, Worker!Next
<1>3. CASE StartWorker
  BY Zenon, <1>3 DEF StartWorker, Worker!Next
<1>4. CASE Revoke \/ StopWorker
  BY Zenon, <1>4 DEF Revoke, StopWorker, Worker!Next
<1>5. CASE HostNext /\ ~StartWorker /\ ~Revoke /\ ~StopWorker
  <2>1. CASE Refuse \/ Admit \/ Launch \/ StartGuest \/ SendRun \/ HandleProposal
    BY Zenon, <2>1 DEF Refuse, Admit, Launch, StartGuest, SendRun, HandleProposal
  <2>2. CASE Answer \/ HandleResult \/ ControlFails \/ PersistEvidence
    BY Zenon, <2>2 DEF Answer, HandleResult, ControlFails, PersistEvidence
  <2>3. CASE Purge \/ Reduce \/ WriteArtifact
    BY Zenon, <2>3 DEF Purge, Reduce, WriteArtifact
  <2>4. QED
    BY Zenon, <1>5, <2>1, <2>2, <2>3 DEF HostNext
<1>6. QED
  BY Zenon, <1>1, <1>2, <1>3, <1>4, <1>5 DEF Next

\* The handle's promises hold whatever its owner calls.
LEMMA WorkerKept ==
  ASSUME WorkerInv, Next
  PROVE  WorkerInv'
<1> USE DEF WorkerInv
<1>1. CASE UNCHANGED workerVars
  BY Zenon, <1>1 DEF workerVars
<1>2. CASE Worker!BeginStart \/ Worker!Listen \/ Worker!Close \/ Worker!StartSucceeds
  BY <1>2 DEF Worker!BeginStart, Worker!Listen, Worker!Close, Worker!StartSucceeds
<1>3. CASE Worker!StartFails
  BY Zenon, <1>3 DEF Worker!StartFails
<1>4. CASE Worker!BeginStop \/ Worker!StopClean
  BY <1>4 DEF Worker!BeginStop, Worker!StopClean
<1>5. CASE Worker!StopDirty
  BY Zenon, <1>5 DEF Worker!StopDirty
<1>6. CASE Worker!StopUnstarted
  BY Zenon, <1>6 DEF Worker!StopUnstarted
<1>7. QED
  BY Zenon, <1>1, <1>2, <1>3, <1>4, <1>5, <1>6, WorkerSteps DEF Worker!Next
-------------------------------------------------------------------------------
(* The guest's steps.                                                          *)

\* A guest that can still act runs in a microVM that is up.
LEMMA GuestIsUp ==
  ASSUME RuntimeInv, ReceiptInv, guest.pc \notin {"off", "sent", "dead"}
  PROVE  stage \notin Over \cup Before /\ receipt = NoReceipt /\ artifacts = {}
BY Zenon DEF RuntimeInv, ReceiptInv, Over

\* The steps in which the guest only talks to the model, or to itself.
Thinks ==
  /\ guest.pc \in {"accepted", "loading", "model", "calls"}
  /\ guest' \in Guests
  /\ guest'.pc \in {"loading", "model", "calls", "finish"}
  /\ guest'.proposals = guest.proposals
  /\ guest'.status = guest.status \/ guest'.status # "HARD_TRIP"
  /\ guest'.requests # guest.requests => guest.pc = "model"
  /\ UNCHANGED <<brokerVars, workerVars, toHost, runtimeVars, runnerVars>>
  /\ toGuest' \in {toGuest, NoFrame}

LEMMA MeteredType ==
  ASSUME NEW g \in Guests, NEW u \in Nat \X Nat, NEW reported \in BOOLEAN
  PROVE  /\ Metered(g, u, reported) \in Guests
         /\ Metered(g, u, reported).pc = g.pc
         /\ Metered(g, u, reported).status = g.status
         /\ Metered(g, u, reported).proposals = g.proposals
<1> DEFINE r == g.requests + 1
           p == g.prompt + u[1]
           c == g.completion + u[2]
           b == g.reported /\ reported
<1>1. r \in Nat /\ p \in Nat /\ c \in Nat /\ b \in BOOLEAN
  BY DEF Guests
<1>2. Metered(g, u, reported) =
        [g EXCEPT !.requests = r, !.prompt = p, !.completion = c, !.reported = b]
  BY Zenon DEF Metered
<1> HIDE DEF r, p, c, b
<1>3. Metered(g, u, reported) \in Guests
  <2> DEFINE h == [g EXCEPT !.requests = r, !.prompt = p]
  <2>1. h \in Guests
    BY Zenon, <1>1 DEF Guests
  <2>2. Metered(g, u, reported) = [h EXCEPT !.completion = c, !.reported = b]
    BY Zenon, <1>2
  <2> HIDE DEF h
  <2>3. QED
    BY Zenon, <1>1, <2>1, <2>2 DEF Guests
<1>4. QED
  BY Zenon, <1>2, <1>3 DEF Guests

LEMMA EndsType ==
  ASSUME guest \in Guests, NEW s \in Statuses
  PROVE  /\ Ends(s) \in Guests /\ Ends(s).pc = "finish" /\ Ends(s).status = s
         /\ Ends(s).proposals = guest.proposals /\ Ends(s).requests = guest.requests
<1>1. Ends(s) \in Guests
  BY Zenon DEF Ends, Guests, GuestPcs
<1>2. QED
  BY Zenon, <1>1 DEF Ends, Guests

LEMMA GuestThinks ==
  ASSUME guest \in Guests,
         GuestStart \/ GuestLoaded \/ GuestCallFails \/ GuestCallAnswers \/ GuestOutOfBudget
           \/ GuestStopsBatch \/ GuestBatchDone
  PROVE  Thinks
<1> USE DEF Thinks, channel
<1>1. CASE GuestStart \/ GuestLoaded
  BY Zenon, <1>1 DEF GuestStart, GuestLoaded, Guests, GuestPcs
<1>2. CASE GuestCallFails
  <2>1. PICK s \in {"PROVIDER_FAILURE", "MALFORMED_RESPONSE"} :
          \E u \in Nat \X Nat, reported \in BOOLEAN : guest' = Metered(Ends(s), u, reported)
    <3>1. <<0, 0>> \in Nat \X Nat /\ FALSE \in BOOLEAN
      BY Zenon
    <3>2. QED
      BY Zenon, <1>2, <3>1, ProbeAssumption DEF GuestCallFails
  <2>2. Ends(s) \in Guests /\ Ends(s).pc = "finish" /\ Ends(s).status = s
        /\ Ends(s).proposals = guest.proposals
    BY Zenon, EndsType DEF Statuses
  <2>3. guest' \in Guests /\ guest'.pc = "finish" /\ guest'.status = s
        /\ guest'.proposals = guest.proposals
    BY <2>1, <2>2, MeteredType
  <2>4. /\ guest.pc = "model"
        /\ UNCHANGED <<brokerVars, workerVars, channel, runtimeVars, runnerVars>>
    BY Zenon, <1>2 DEF GuestCallFails, Asking
  <2>5. QED
    BY Zenon, <2>3, <2>4
<1>3. CASE GuestCallAnswers
  <2>1. PICK u \in Usages, reported \in BOOLEAN, n \in 0..MaxBatch :
          guest' = Metered(IF n = 0
                           THEN Ends(IF guest.task THEN "COMPLETE" ELSE "INCOMPLETE_TASK")
                           ELSE [guest EXCEPT !.pc = "calls", !.calls = n], u, reported)
    BY Zenon, <1>3 DEF GuestCallAnswers
  <2>2. PICK g \in Guests :
          /\ g.pc \in {"calls", "finish"} /\ g.proposals = guest.proposals
          /\ g.status = guest.status \/ g.status # "HARD_TRIP"
          /\ guest' = Metered(g, u, reported)
    <3>1. CASE n = 0
      BY Zenon, <2>1, <3>1, EndsType DEF Statuses
    <3>2. CASE n # 0
      <4>1. n \in Int
        BY ProbeAssumption
      <4>2. QED
        BY Zenon, <2>1, <3>2, <4>1 DEF Guests, GuestPcs
    <3>3. QED
      BY Zenon, <3>1, <3>2
  <2>3. guest' \in Guests /\ guest'.pc \in {"calls", "finish"}
        /\ guest'.proposals = guest.proposals
        /\ (guest'.status = guest.status \/ guest'.status # "HARD_TRIP")
    BY Zenon, <2>2, MeteredType, ProbeAssumption
  <2>4. /\ guest.pc = "model"
        /\ UNCHANGED <<brokerVars, workerVars, channel, runtimeVars, runnerVars>>
    BY Zenon, <1>3 DEF GuestCallAnswers, Asking
  <2>5. QED
    BY Zenon, <2>3, <2>4
<1>4. CASE GuestOutOfBudget
  BY <1>4, EndsType DEF GuestOutOfBudget, Statuses, Guests, GuestPcs
<1>5. CASE GuestStopsBatch
  BY Zenon, <1>5, EndsType DEF GuestStopsBatch, Statuses
<1>6. CASE GuestBatchDone
  BY <1>6, EndsType DEF GuestBatchDone, Statuses, Guests, GuestPcs
<1>7. QED
  BY Zenon, <1>1, <1>2, <1>3, <1>4, <1>5, <1>6

\* Until the runner has built a receipt there is nothing to be said of it.
LEMMA NoReceiptYet ==
  ASSUME ReceiptInv, stage \notin {"write", "done", "raised", "crashed"},
         UNCHANGED runnerVars, stage' # "write"
  PROVE  ReceiptInv'
<1>1. receipt' = NoReceipt /\ artifacts' = {}
  BY Zenon DEF ReceiptInv, Over, runnerVars
<1>2. receipt'.gate = "none"
  BY Zenon, <1>1 DEF NoReceipt
<1>3. QED
  BY Zenon, <1>1, <1>2 DEF ReceiptInv, AllowIsEarned, FirstTripDecidesGate, Written

\* A step of the guest leaves the runtime's and the runner's invariants alone.
LEMMA GuestKeepsRest ==
  ASSUME RuntimeInv, ReceiptInv, guest.pc \notin {"off", "sent", "dead"},
         guest'.pc \in GuestPcs, UNCHANGED <<workerVars, runtimeVars, runnerVars>>
  PROVE  RuntimeInv' /\ ReceiptInv'
<1>1. stage \notin Over \cup Before
  BY Zenon, GuestIsUp
<1>2. ReceiptInv'
  BY Zenon, <1>1, NoReceiptYet DEF Over, runtimeVars
<1>3. RuntimeInv'
  BY Zenon, <1>1 DEF RuntimeInv, runtimeVars, workerVars
<1>4. QED
  BY Zenon, <1>2, <1>3

\* Thinking: the guest has the turn before and after it, and the broker is not tripped.
LEMMA ThinkingKeepsInv ==
  ASSUME ProbeTypeOK, LockstepInv, TripInv, Thinks
  PROVE  ProbeTypeOK' /\ LockstepInv' /\ TripInv'
<1>1. guest.pc \in {"accepted", "loading", "model", "calls"}
  BY Zenon DEF Thinks
<1>2. /\ Idle /\ toHost.type = "none" /\ guest.proposals = Len(events)
      /\ toGuest.type # "decision" /\ result = NoResult /\ ~tripped
      /\ stage # "evaluating"
  BY Zenon, <1>1 DEF LockstepInv, TripInv
<1>3. /\ guest' \in Guests /\ guest'.proposals = guest.proposals
      /\ guest'.pc \in {"loading", "model", "calls", "finish"}
      /\ guest'.status = guest.status \/ guest'.status # "HARD_TRIP"
      /\ tripped' = tripped /\ events' = events /\ call' = call /\ revoked' = revoked
      /\ trip_reason' = trip_reason /\ wstate' = wstate
      /\ toHost' = toHost /\ result' = result /\ stage' = stage
      /\ toGuest' \in {toGuest, NoFrame}
  BY Zenon DEF Thinks, brokerVars, workerVars, runtimeVars
<1>4. toGuest'.type # "decision"
  BY <1>2, <1>3 DEF NoFrame
<1>5. ProbeTypeOK'
  BY Zenon, <1>3 DEF ProbeTypeOK
<1>6. LockstepInv'
  BY Zenon, <1>2, <1>3, <1>4 DEF LockstepInv, Idle
<1>7. TripInv'
  BY Zenon, <1>2, <1>3 DEF TripInv, Idle
<1>8. QED
  BY Zenon, <1>5, <1>6, <1>7

\* A proposal: the turn passes to the host.
LEMMA ProposingKeepsInv ==
  ASSUME ProbeTypeOK, LockstepInv, TripInv, GuestPropose
  PROVE  ProbeTypeOK' /\ LockstepInv' /\ TripInv'
<1>1. /\ Idle /\ guest.proposals = Len(events)
      /\ toGuest.type # "decision" /\ result = NoResult /\ ~tripped /\ stage # "evaluating"
  BY Zenon DEF LockstepInv, TripInv, GuestPropose
<1>2. /\ guest' \in Guests /\ guest'.proposals = guest.proposals /\ guest'.pc = "await"
      /\ guest'.status = guest.status
  BY Zenon DEF GuestPropose, ProbeTypeOK, Guests, GuestPcs
<1>3. /\ toHost'.type = "proposal" /\ toHost'.sequence = guest.proposals
      /\ toHost'.action \in Actions /\ guest.proposals < MaxCalls
      /\ toGuest' = toGuest
  BY DEF GuestPropose
<1>4. /\ tripped' = tripped /\ events' = events /\ call' = call /\ revoked' = revoked
      /\ trip_reason' = trip_reason /\ wstate' = wstate /\ result' = result /\ stage' = stage
  BY Zenon DEF GuestPropose, brokerVars, workerVars, runtimeVars
<1>5. ProbeTypeOK'
  BY Zenon, <1>2, <1>4 DEF ProbeTypeOK
<1>6. LockstepInv'
  BY Zenon, <1>1, <1>2, <1>3, <1>4 DEF LockstepInv, Idle
<1>7. TripInv'
  BY Zenon, <1>1, <1>2, <1>4 DEF TripInv, Idle
<1>8. QED
  BY Zenon, <1>5, <1>6, <1>7

\* What the guest makes of the decision.
LEMMA DecidedGuest ==
  ASSUME guest \in Guests, GuestDecided
  PROVE  /\ guest' \in Guests /\ guest'.proposals = guest.proposals + 1
         /\ guest'.requests = guest.requests
         /\ toGuest.disposition = "allowed" => guest'.pc = "calls" /\ guest'.status = guest.status
         /\ toGuest.disposition # "allowed" => guest'.pc = "finish"
         /\ toGuest.disposition # "tripped" =>
              guest'.status = guest.status \/ guest'.status # "HARD_TRIP"
<1>1. CASE toGuest.disposition = "allowed"
  <2> DEFINE g == [guest EXCEPT !.pc = "calls", !.proposals = @ + 1, !.calls = @ - 1]
  <2>1. /\ g \in Guests /\ g.pc = "calls" /\ g.proposals = guest.proposals + 1
        /\ g.status = guest.status /\ g.requests = guest.requests
    <3>1. guest.proposals + 1 \in Nat /\ guest.calls - 1 \in Int
      BY DEF Guests
    <3>2. g \in Guests
      BY Zenon, <3>1 DEF Guests, GuestPcs
    <3>3. QED
      BY Zenon, <3>2 DEF Guests
  <2>2. guest' \in Executed(g, toGuest.action)
    BY Zenon, <1>1 DEF GuestDecided
  <2> HIDE DEF g
  <2>3. guest' \in {g, [g EXCEPT !.task = TRUE], [g EXCEPT !.soft = @ + 1]}
    BY Zenon, <2>2 DEF Executed
  <2>4. /\ guest' \in Guests /\ guest'.pc = g.pc /\ guest'.proposals = g.proposals
        /\ guest'.status = g.status /\ guest'.requests = g.requests
    <3>1. CASE guest' = g
      BY Zenon, <2>1, <3>1
    <3>2. CASE guest' = [g EXCEPT !.task = TRUE]
      BY Zenon, <2>1, <3>2 DEF Guests
    <3>3. CASE guest' = [g EXCEPT !.soft = @ + 1]
      <4>1. g.soft + 1 \in Nat
        BY <2>1 DEF Guests
      <4>2. guest' \in Guests
        BY Zenon, <2>1, <3>3, <4>1 DEF Guests
      <4>3. QED
        BY Zenon, <2>1, <3>3, <4>2 DEF Guests
    <3>4. QED
      BY Zenon, <2>3, <3>1, <3>2, <3>3
  <2>5. QED
    BY Zenon, <1>1, <2>1, <2>4
<1>2. CASE toGuest.disposition # "allowed"
  <2> DEFINE status == IF toGuest.disposition = "tripped" THEN "HARD_TRIP" ELSE "DENIED"
             next == guest.proposals + 1
  <2>1. guest' = [guest EXCEPT !.pc = "finish", !.proposals = next, !.status = status]
    BY Zenon, <1>2 DEF GuestDecided
  <2>2. /\ status \in Statuses /\ (toGuest.disposition # "tripped" => status # "HARD_TRIP")
        /\ next \in Nat
    BY DEF Statuses, Guests
  <2> HIDE DEF status, next
  <2>3. guest' \in Guests
    BY Zenon, <2>1, <2>2 DEF Guests, GuestPcs
  <2>4. /\ guest'.pc = "finish" /\ guest'.proposals = next /\ guest'.status = status
        /\ guest'.requests = guest.requests
    BY Zenon, <2>1 DEF Guests
  <2>5. QED
    BY Zenon, <1>2, <2>2, <2>3, <2>4 DEF next
<1>3. QED
  BY Zenon, <1>1, <1>2

\* A decision: the turn is the guest's again, and a tripped broker ends its loop.
LEMMA DecidingKeepsInv ==
  ASSUME ProbeTypeOK, LockstepInv, TripInv, GuestDecided
  PROVE  ProbeTypeOK' /\ LockstepInv' /\ TripInv'
<1>1. /\ Idle /\ toHost.type = "none" /\ Len(events) = guest.proposals + 1
      /\ toGuest.disposition = events[Len(events)].disposition
      /\ result = NoResult /\ stage # "evaluating"
  BY Zenon DEF LockstepInv, GuestDecided
<1>2. /\ guest' \in Guests /\ guest'.proposals = guest.proposals + 1
      /\ toGuest.disposition = "allowed" => guest'.pc = "calls"
      /\ toGuest.disposition # "allowed" => guest'.pc = "finish"
      /\ toGuest.disposition # "tripped" =>
           guest'.status = guest.status \/ guest'.status # "HARD_TRIP"
  BY Zenon, DecidedGuest DEF ProbeTypeOK
<1>3. /\ tripped' = tripped /\ events' = events /\ call' = call /\ revoked' = revoked
      /\ trip_reason' = trip_reason /\ wstate' = wstate /\ result' = result /\ stage' = stage
      /\ toHost' = toHost /\ toGuest' = NoFrame
  BY Zenon DEF GuestDecided, brokerVars, workerVars, runtimeVars
<1>4. toGuest.disposition = "allowed" => ~tripped
  BY Zenon, <1>1 DEF TripInv
<1>5. toGuest.disposition = "tripped" => tripped
  <2>1. Len(events) \in DOMAIN events
    BY <1>1 DEF ProbeTypeOK, Guests
  <2>2. QED
    BY Zenon, <1>1, <2>1 DEF TripInv
<1>6. ProbeTypeOK'
  BY Zenon, <1>2, <1>3 DEF ProbeTypeOK
<1>7. guest'.pc \in {"calls", "finish"} /\ toGuest'.type # "decision"
  BY Zenon, <1>2, <1>3 DEF NoFrame
<1>8. LockstepInv'
  BY Zenon, <1>1, <1>2, <1>3, <1>7 DEF LockstepInv, Idle
<1>9. TripInv'
  <2>1. tripped => guest'.pc = "finish"
    BY Zenon, <1>2, <1>4
  <2>2. guest'.status = "HARD_TRIP" => tripped
    BY Zenon, <1>2, <1>5 DEF TripInv
  <2>3. QED
    BY Zenon, <1>1, <1>3, <2>1, <2>2 DEF TripInv, Idle
<1>10. QED
  BY Zenon, <1>6, <1>8, <1>9

\* The final frame is true to the guest that sends it.
LEMMA FinishingKeepsInv ==
  ASSUME ProbeTypeOK, LockstepInv, TripInv, GuestFinish \/ GuestFails
  PROVE  ProbeTypeOK' /\ LockstepInv' /\ TripInv'
<1>1. guest.pc \in {"loading", "model", "calls", "finish"}
  BY Zenon DEF GuestFinish, GuestFails
<1>2. /\ Idle /\ guest.proposals = Len(events) /\ toGuest.type # "decision"
      /\ result = NoResult /\ stage # "evaluating"
  BY Zenon, <1>1 DEF LockstepInv
<1>3. PICK k \in BOOLEAN : guest' = [guest EXCEPT !.pc = "sent", !.key = k]
  BY Zenon DEF GuestFinish, GuestFails
<1>4. guest' \in Guests
  BY Zenon, <1>3 DEF ProbeTypeOK, Guests, GuestPcs
<1>5. /\ guest'.pc = "sent" /\ guest'.proposals = guest.proposals
      /\ guest'.status = guest.status /\ guest'.task = guest.task /\ guest'.soft = guest.soft
      /\ guest'.prompt = guest.prompt /\ guest'.completion = guest.completion
  BY Zenon, <1>3 DEF ProbeTypeOK, Guests
<1>6. /\ tripped' = tripped /\ events' = events /\ call' = call /\ revoked' = revoked
      /\ trip_reason' = trip_reason /\ wstate' = wstate /\ result' = result /\ stage' = stage
      /\ toGuest' = toGuest
  BY Zenon DEF GuestFinish, GuestFails, brokerVars, workerVars, runtimeVars
<1>7. toHost'.type = "result" /\ TrueResult(toHost)'
  <2>1. CASE GuestFails
    BY Zenon, <2>1 DEF GuestFails, TrueResult
  <2>2. CASE GuestFinish
    <3>1. /\ toHost'.type = "result" /\ toHost'.status = FinalStatus
          /\ toHost'.task = guest.task /\ toHost'.soft = guest.soft
      BY Zenon, <2>2 DEF GuestFinish
    <3>2. FinalStatus \in Statuses
      BY Zenon DEF FinalStatus, Statuses, ProbeTypeOK, Guests
    <3>3. FinalStatus = "COMPLETE" => guest.prompt + guest.completion <= MaxTokens
      BY ProbeAssumption DEF FinalStatus, ProbeTypeOK, Guests
    <3>4. QED
      BY Zenon, <1>5, <3>1, <3>2, <3>3 DEF TrueResult
  <2>3. QED
    BY Zenon, <2>1, <2>2
<1>8. ProbeTypeOK'
  BY Zenon, <1>4, <1>6 DEF ProbeTypeOK
<1>9. LockstepInv'
  BY Zenon, <1>2, <1>5, <1>6, <1>7 DEF LockstepInv, Idle
<1>10. TripInv'
  BY Zenon, <1>5, <1>6 DEF TripInv, Idle
<1>11. QED
  BY Zenon, <1>8, <1>9, <1>10

LEMMA GuestKeepsInv ==
  ASSUME ProbeInv, GuestNext
  PROVE  ProbeTypeOK' /\ LockstepInv' /\ TripInv' /\ RuntimeInv' /\ ReceiptInv'
<1> USE DEF ProbeInv
<1>0. guest \in Guests
  BY Zenon DEF ProbeTypeOK
<1>1. CASE Thinks
  <2>1. ProbeTypeOK' /\ LockstepInv' /\ TripInv'
    BY Zenon, <1>1, ThinkingKeepsInv
  <2>2. guest.pc \notin {"off", "sent", "dead"} /\ guest'.pc \in GuestPcs
        /\ UNCHANGED <<workerVars, runtimeVars, runnerVars>>
    BY Zenon, <1>1 DEF Thinks, GuestPcs
  <2>3. QED
    BY Zenon, <2>1, <2>2, GuestKeepsRest
<1>2. CASE GuestPropose \/ GuestDecided \/ GuestFinish \/ GuestFails
  <2>1. ProbeTypeOK' /\ LockstepInv' /\ TripInv'
    BY Zenon, <1>2, ProposingKeepsInv, DecidingKeepsInv, FinishingKeepsInv
  <2>2. guest.pc \notin {"off", "sent", "dead"}
    BY Zenon, <1>2 DEF GuestPropose, GuestDecided, GuestFinish, GuestFails
  <2>3. UNCHANGED <<workerVars, runtimeVars, runnerVars>>
    BY Zenon, <1>2 DEF GuestPropose, GuestDecided, GuestFinish, GuestFails
  <2>4. guest'.pc \in GuestPcs
    BY Zenon, <2>1 DEF ProbeTypeOK, Guests
  <2>5. QED
    BY Zenon, <2>1, <2>2, <2>3, <2>4, GuestKeepsRest
<1>3. QED
  BY Zenon, <1>0, <1>1, <1>2, GuestThinks DEF GuestNext
-------------------------------------------------------------------------------
(* The broker's part of a turn.                                                *)

\* In a run the proposal is always the next one, within the budget, and made to
\* an untripped broker: only the action can still trip it.
LEMMA Evaluated ==
  ASSUME ProbeTypeOK, LockstepInv, HandleProposal
  PROVE  /\ ~tripped /\ Idle /\ events' = events /\ revoked' = revoked
         /\ call' \in [step : {"revoke", "record"}, event : Broker!Event]
         /\ call'.event.sequence = guest.proposals /\ guest.proposals = Len(events)
         /\ \/ /\ tripped' = TRUE /\ call'.step = "revoke"
               /\ call'.event.disposition = "tripped" /\ call'.event.reason = trip_reason'
            \/ /\ tripped' = FALSE /\ call'.step = "record"
               /\ call'.event.disposition = "allowed"
<1> DEFINE p == [sequence |-> toHost.sequence, action |-> toHost.action]
<1>1. /\ ~tripped /\ Idle /\ toHost.sequence = guest.proposals /\ guest.proposals = Len(events)
      /\ guest.proposals < MaxCalls /\ toHost.action \in Actions
  BY Zenon DEF HandleProposal, LockstepInv
<1>2. guest.proposals \in Nat /\ MaxCalls \in Nat
  BY Zenon, ProbeAssumption DEF ProbeTypeOK, Guests
<1>3. p.sequence = guest.proposals /\ p.action = toHost.action /\ p.sequence \in 0..MaxCalls
  BY <1>1, <1>2
<1>4. Broker!Evaluate(p)
  BY Zenon DEF HandleProposal
<1> HIDE DEF p
<1>5. Broker!EvaluateProhibited(p) \/ Broker!EvaluateDeclared(p) \/ Broker!EvaluateUndeclared(p)
  BY <1>1, <1>2, <1>3, <1>4 DEF Broker!Evaluate, Broker!EvaluateGap,
     Broker!EvaluateAlreadyTripped, Broker!EvaluateOverBudget, Broker!InOrder
<1>6. ASSUME NEW r \in Broker!Reasons, Broker!Trip(p, r)
      PROVE  /\ call' \in [step : {"revoke", "record"}, event : Broker!Event]
             /\ call'.event.sequence = guest.proposals
             /\ tripped' = TRUE /\ call'.step = "revoke"
             /\ call'.event.disposition = "tripped" /\ call'.event.reason = trip_reason'
  BY Zenon, <1>1, <1>3, <1>6 DEF Broker!Trip, Broker!Decide, Broker!Event
<1>7. CASE Broker!EvaluateProhibited(p)
  <2>1. Broker!ProhibitedReason[p.action] \in Broker!Reasons
    BY <1>7 DEF Broker!EvaluateProhibited, Broker!Prohibited, Broker!ProhibitedReason,
       Broker!Reasons
  <2>2. Broker!Trip(p, Broker!ProhibitedReason[p.action]) /\ UNCHANGED <<events, revoked>>
    BY Zenon, <1>7 DEF Broker!EvaluateProhibited
  <2>3. QED
    BY Zenon, <1>1, <1>6, <2>1, <2>2
<1>8. CASE Broker!EvaluateUndeclared(p)
  <2>1. "UNDECLARED_TOOL_USE" \in Broker!Reasons
    BY Zenon DEF Broker!Reasons
  <2>2. Broker!Trip(p, "UNDECLARED_TOOL_USE") /\ UNCHANGED <<events, revoked>>
    BY Zenon, <1>8 DEF Broker!EvaluateUndeclared
  <2>3. QED
    BY Zenon, <1>1, <1>6, <2>1, <2>2
<1>9. CASE Broker!EvaluateDeclared(p)
  <2>1. /\ Broker!Decide(p, "allowed", "NONE", "record")
        /\ UNCHANGED <<tripped, trip_reason, events, revoked>>
    BY Zenon, <1>9 DEF Broker!EvaluateDeclared
  <2>2. /\ call' \in [step : {"revoke", "record"}, event : Broker!Event]
        /\ call'.event.sequence = guest.proposals /\ call'.step = "record"
        /\ call'.event.disposition = "allowed"
    BY Zenon, <1>1, <1>3, <2>1 DEF Broker!Decide, Broker!Event
  <2>3. QED
    BY Zenon, <1>1, <2>1, <2>2 DEF ProbeTypeOK
<1>10. QED
  BY Zenon, <1>5, <1>7, <1>8, <1>9

\* The log grows by the event of the call.
LEMMA Recorded ==
  ASSUME ProbeTypeOK, Broker!RecordEvent
  PROVE  /\ events' \in Seq(Broker!Event) /\ Len(events) \in Nat
         /\ Len(events') = Len(events) + 1 /\ events'[Len(events) + 1] = call.event
         /\ DOMAIN events = 1..Len(events) /\ DOMAIN events' = 1..(Len(events) + 1)
         /\ \A i \in 1..Len(events) : events'[i] = events[i]
         /\ call' = Broker!NoCall /\ call'.step = "none" /\ call.step = "record"
         /\ UNCHANGED <<tripped, trip_reason, revoked>>
<1>1. /\ call \in [step : {"revoke", "record"}, event : Broker!Event] /\ call.step = "record"
      /\ events \in Seq(Broker!Event)
  BY DEF ProbeTypeOK, Broker!RecordEvent, Broker!NoCall
<1>2. /\ events' = Append(events, call.event) /\ call' = Broker!NoCall
      /\ UNCHANGED <<tripped, trip_reason, revoked>>
  BY Zenon DEF Broker!RecordEvent
<1>3. call'.step = "none"
  BY Zenon, <1>2 DEF Broker!NoCall
<1>4. QED
  BY <1>1, <1>2, <1>3
-------------------------------------------------------------------------------
(* The host's steps and the environment's.                                     *)

\* A step of the host that is not about the turn.
LEMMA QuietKeepsInv ==
  ASSUME ProbeTypeOK, LockstepInv, TripInv,
         UNCHANGED <<brokerVars, guest, toHost, result>>,
         toGuest' = toGuest \/ toGuest'.type # "decision",
         stage' \in Stages, stage' = "evaluating" <=> stage = "evaluating",
         wstate \in {"stopped", "failed"} => wstate' \in {"stopped", "failed"}
  PROVE  ProbeTypeOK' /\ LockstepInv' /\ TripInv'
<1>1. /\ tripped' = tripped /\ events' = events /\ call' = call /\ revoked' = revoked
      /\ trip_reason' = trip_reason /\ guest' = guest /\ toHost' = toHost /\ result' = result
  BY Zenon DEF brokerVars
<1>2. ProbeTypeOK'
  BY Zenon, <1>1 DEF ProbeTypeOK
<1>3. LockstepInv'
  BY SMTT(20), <1>1 DEF LockstepInv, Idle, TrueResult
<1>4. TripInv'
  BY Zenon, <1>1 DEF TripInv, Idle
<1>5. QED
  BY Zenon, <1>2, <1>3, <1>4

\* The guest is brought up, dies, or goes with its microVM.
LEMMA BootKeepsInv ==
  ASSUME ProbeTypeOK, LockstepInv, TripInv, RuntimeInv, StartGuest
  PROVE  ProbeTypeOK' /\ LockstepInv' /\ TripInv'
<1>1. CASE UNCHANGED guest
  <2>1. /\ UNCHANGED <<brokerVars, guest, toHost, result>> /\ toGuest' = toGuest
        /\ stage = "guest_start" /\ stage' \in {"send_run", "stop_worker"} /\ wstate' = wstate
    BY Zenon, <1>1 DEF StartGuest, Goto, Fails, channel, workerVars
  <2>2. QED
    BY Zenon, <2>1, QuietKeepsInv DEF Stages
<1>2. CASE guest' = [guest EXCEPT !.pc = "accepted"] /\ stage' = "send_run"
  <2>1. guest' \in Guests /\ guest'.pc = "accepted"
    BY Zenon, <1>2 DEF ProbeTypeOK, Guests, GuestPcs
  <2>2. guest'.proposals = guest.proposals /\ guest'.status = guest.status
    BY Zenon, <1>2 DEF ProbeTypeOK, Guests
  <2>3. /\ tripped' = tripped /\ events' = events /\ call' = call /\ revoked' = revoked
        /\ trip_reason' = trip_reason /\ wstate' = wstate /\ result' = result
        /\ toHost' = toHost /\ toGuest' = toGuest /\ stage = "guest_start"
    BY Zenon DEF StartGuest, brokerVars, workerVars, channel
  <2>4. guest.pc = "off"
    BY Zenon, <2>3 DEF RuntimeInv, Before
  <2>5. ProbeTypeOK'
    BY Zenon, <1>2, <2>1, <2>3 DEF ProbeTypeOK, Stages
  <2>6. LockstepInv'
    BY Zenon, <1>2, <2>1, <2>2, <2>3, <2>4 DEF LockstepInv, Idle
  <2>7. TripInv'
    BY Zenon, <2>1, <2>2, <2>3, <2>4 DEF TripInv, Idle
  <2>8. QED
    BY Zenon, <2>5, <2>6, <2>7
<1>3. QED
  BY Zenon, <1>1, <1>2 DEF StartGuest, Goto

LEMMA DeathKeepsInv ==
  ASSUME ProbeTypeOK, LockstepInv, TripInv, guest' = [guest EXCEPT !.pc = "dead"],
         toHost' \in {toHost, NoFrame}, toGuest' \in {toGuest, NoFrame},
         UNCHANGED <<brokerVars, workerVars, result>>,
         stage' \in Stages, stage' = "evaluating" <=> stage = "evaluating"
  PROVE  ProbeTypeOK' /\ LockstepInv' /\ TripInv'
<1>1. guest' \in Guests /\ guest'.pc = "dead"
  BY Zenon DEF ProbeTypeOK, Guests, GuestPcs
<1>2. /\ guest'.proposals = guest.proposals /\ guest'.status = guest.status
      /\ guest'.task = guest.task /\ guest'.soft = guest.soft
      /\ guest'.prompt = guest.prompt /\ guest'.completion = guest.completion
  BY Zenon DEF ProbeTypeOK, Guests
<1>3. /\ tripped' = tripped /\ events' = events /\ call' = call /\ revoked' = revoked
      /\ trip_reason' = trip_reason /\ wstate' = wstate /\ result' = result
  BY Zenon DEF brokerVars, workerVars
<1>4. ProbeTypeOK'
  BY Zenon, <1>1, <1>3 DEF ProbeTypeOK
<1>5. toHost' = toHost \/ toHost'.type = "none"
  BY DEF NoFrame
<1>6. toGuest' = toGuest \/ toGuest'.type = "none"
  BY DEF NoFrame
<1>7. LockstepInv'
  <2>1. (toHost'.type = "result" => TrueResult(toHost)')
        /\ (result' # NoResult => TrueResult(result)')
    BY Zenon, <1>2, <1>3, <1>5 DEF LockstepInv, TrueResult
  <2>2. QED
    BY Zenon, <1>1, <1>2, <1>3, <1>5, <1>6, <2>1 DEF LockstepInv, Idle
<1>8. TripInv'
  BY Zenon, <1>1, <1>2, <1>3 DEF TripInv, Idle
<1>9. QED
  BY Zenon, <1>4, <1>7, <1>8

\* The three steps of a call in the broker's lock.
LEMMA CallKeepsInv ==
  ASSUME ProbeTypeOK, LockstepInv, TripInv, HandleProposal
  PROVE  ProbeTypeOK' /\ LockstepInv' /\ TripInv'
<1>1. /\ ~tripped /\ Idle /\ events' = events /\ revoked' = revoked
      /\ call' \in [step : {"revoke", "record"}, event : Broker!Event]
      /\ call'.event.sequence = guest.proposals /\ guest.proposals = Len(events)
      /\ \/ /\ tripped' = TRUE /\ call'.step = "revoke"
            /\ call'.event.disposition = "tripped" /\ call'.event.reason = trip_reason'
         \/ /\ tripped' = FALSE /\ call'.step = "record"
            /\ call'.event.disposition = "allowed"
  BY Zenon, Evaluated
<1>2. /\ guest' = guest /\ toHost' = NoFrame /\ toGuest' = toGuest /\ result' = result
      /\ wstate' = wstate /\ stage' = "evaluating" /\ toHost.type = "proposal"
  BY Zenon DEF HandleProposal, Goto, workerVars
<1>3. guest.pc \in {"await", "dead"} /\ toGuest.type # "decision" /\ result = NoResult
  BY Zenon, <1>2 DEF LockstepInv
<1>4. ProbeTypeOK'
  BY Zenon, <1>1, <1>2 DEF ProbeTypeOK, Stages
<1>5. toHost'.type = "none" /\ ~Idle'
  BY Zenon, <1>1, <1>2 DEF NoFrame, Idle
<1>6. LockstepInv'
  BY Zenon, <1>1, <1>2, <1>3, <1>5 DEF LockstepInv
<1>7. TripInv'
  <2>1. \A i \in DOMAIN events' : events'[i].disposition = "allowed"
    BY Zenon, <1>1 DEF TripInv
  <2>2. QED
    BY Zenon, <1>1, <1>2, <1>3, <1>5, <2>1 DEF TripInv
<1>8. QED
  BY Zenon, <1>4, <1>6, <1>7

LEMMA RevokeKeepsInv ==
  ASSUME ProbeTypeOK, LockstepInv, TripInv, Revoke
  PROVE  ProbeTypeOK' /\ LockstepInv' /\ TripInv'
<1>1. /\ guest' = guest /\ toHost' = toHost /\ toGuest' = toGuest /\ result' = result
      /\ stage' = stage /\ stage = "evaluating" /\ call.step = "revoke"
  BY Zenon DEF Revoke, channel, runtimeVars
<1>2. CASE Worker!BeginStop /\ UNCHANGED brokerVars
  <2>1. wstate \notin {"stopped", "failed"}
    BY Zenon, <1>2 DEF Worker!BeginStop
  <2>2. QED
    BY Zenon, <1>1, <1>2, <2>1, QuietKeepsInv DEF Stages
<1>3. CASE (Worker!StopClean \/ Worker!StopDirty) /\ Broker!RunRevoke
  <2>1. wstate' \in {"stopped", "failed"}
    BY Zenon, <1>3 DEF Worker!StopClean, Worker!StopDirty
  <2>2. /\ revoked' = TRUE /\ tripped' = tripped /\ trip_reason' = trip_reason
        /\ events' = events /\ call' = [call EXCEPT !.step = "record"]
    BY Zenon, <1>3 DEF Broker!RunRevoke
  <2>3. call \in [step : {"revoke", "record"}, event : Broker!Event]
    BY <1>1 DEF ProbeTypeOK, Broker!NoCall
  <2>4. /\ call' \in [step : {"revoke", "record"}, event : Broker!Event]
        /\ call'.step = "record" /\ call'.event = call.event
    BY Zenon, <2>2, <2>3
  <2>5. ProbeTypeOK'
    BY Zenon, <1>1, <2>2, <2>4 DEF ProbeTypeOK
  <2>6. ~Idle /\ ~Idle'
    BY Zenon, <1>1, <2>4 DEF Idle
  <2>7. LockstepInv'
    BY Zenon, <1>1, <2>2, <2>4, <2>6 DEF LockstepInv, TrueResult
  <2>8. TripInv'
    BY Zenon, <1>1, <2>1, <2>2, <2>4, <2>6 DEF TripInv
  <2>9. QED
    BY Zenon, <2>5, <2>7, <2>8
<1>4. QED
  BY Zenon, <1>2, <1>3 DEF Revoke

LEMMA AnswerKeepsInv ==
  ASSUME ProbeTypeOK, LockstepInv, TripInv, Answer
  PROVE  ProbeTypeOK' /\ LockstepInv' /\ TripInv'
<1>1. /\ events' \in Seq(Broker!Event) /\ Len(events) \in Nat
      /\ Len(events') = Len(events) + 1 /\ events'[Len(events) + 1] = call.event
      /\ DOMAIN events = 1..Len(events) /\ DOMAIN events' = 1..(Len(events) + 1)
      /\ \A i \in 1..Len(events) : events'[i] = events[i]
      /\ call' = Broker!NoCall /\ call'.step = "none" /\ call.step = "record"
      /\ UNCHANGED <<tripped, trip_reason, revoked>>
  BY Zenon, Recorded DEF Answer
<1>2. /\ guest' = guest /\ toHost' = toHost /\ result' = result /\ wstate' = wstate
      /\ stage' \in {"control", "stop_worker"}
      /\ \/ /\ toGuest'.type = "decision" /\ toGuest'.sequence = call.event.sequence
            /\ toGuest'.disposition = call.event.disposition
         \/ guest.pc = "dead" /\ toGuest' = toGuest
  BY DEF Answer, Goto, Fails, workerVars
<1>3. ~Idle /\ Idle'
  BY Zenon, <1>1 DEF Idle
<1>4. /\ guest.pc \in {"await", "dead"} /\ toHost.type = "none" /\ toGuest.type # "decision"
      /\ call.event.sequence = guest.proposals /\ guest.proposals = Len(events)
      /\ result = NoResult
  BY Zenon, <1>3 DEF LockstepInv
<1>5. ProbeTypeOK'
  BY Zenon, <1>1, <1>2 DEF ProbeTypeOK, Stages
<1>6. LockstepInv'
  BY Zenon, <1>1, <1>2, <1>3, <1>4 DEF LockstepInv
<1>7. TripInv'
  <2>1. CASE ~tripped
    <3>1. call.event.disposition = "allowed" /\ guest.status # "HARD_TRIP"
      BY Zenon, <1>3, <2>1 DEF TripInv
    <3>2. \A i \in DOMAIN events' : events'[i].disposition = "allowed"
      BY SMTT(20), <1>1, <1>3, <2>1, <3>1 DEF TripInv
    <3>3. QED
      BY Zenon, <1>1, <1>2, <1>3, <2>1, <3>1, <3>2 DEF TripInv
  <2>2. CASE tripped
    <3>1. /\ call.event.disposition = "tripped" /\ call.event.reason = trip_reason
          /\ \A i \in 1..Len(events) : events[i].disposition = "allowed"
          /\ revoked /\ wstate \in {"stopped", "failed"}
      BY Zenon, <1>1, <1>3, <2>2 DEF TripInv
    <3>2. /\ Len(events') > 0 /\ events'[Len(events')].disposition = "tripped"
          /\ events'[Len(events')].reason = trip_reason
          /\ \A i \in 1..(Len(events') - 1) : events'[i].disposition = "allowed"
      BY <1>1, <3>1
    <3>3. QED
      BY Zenon, <1>1, <1>2, <1>3, <1>4, <2>2, <3>1, <3>2 DEF TripInv
  <2>3. QED
    BY Zenon, <2>1, <2>2
<1>8. QED
  BY Zenon, <1>5, <1>6, <1>7

\* The result is the guest's last word: it is kept as it came, or dropped.
LEMMA ResultKeepsInv ==
  ASSUME ProbeTypeOK, LockstepInv, TripInv, HandleResult
  PROVE  ProbeTypeOK' /\ LockstepInv' /\ TripInv'
<1>1. /\ guest' = guest /\ toGuest' = toGuest /\ toHost' = NoFrame /\ wstate' = wstate
      /\ tripped' = tripped /\ events' = events /\ call' = call /\ revoked' = revoked
      /\ trip_reason' = trip_reason /\ stage = "control"
      /\ stage' \in {"evidence", "stop_worker"} /\ toHost.type = "result"
      /\ result' = toHost \/ result' = result
  BY Zenon DEF HandleResult, Goto, Fails, brokerVars, workerVars
<1>2. /\ guest.pc \in {"sent", "dead"} /\ Idle /\ guest.proposals = Len(events)
      /\ TrueResult(toHost)
  BY Zenon, <1>1 DEF LockstepInv
<1>3. toHost'.type = "none"
  BY Zenon, <1>1 DEF NoFrame
<1>4. ProbeTypeOK'
  BY Zenon, <1>1 DEF ProbeTypeOK, Stages
<1>5. result' # NoResult => TrueResult(result)'
  BY Zenon, <1>1, <1>2 DEF LockstepInv, TrueResult
<1>6. LockstepInv'
  BY Zenon, <1>1, <1>2, <1>3, <1>5 DEF LockstepInv, Idle
<1>7. TripInv'
  BY Zenon, <1>1 DEF TripInv, Idle
<1>8. QED
  BY Zenon, <1>4, <1>6, <1>7

\* Every step of the host keeps the turn, the log and the revocation together.
LEMMA HostKeepsTurn ==
  ASSUME ProbeInv, HostNext
  PROVE  ProbeTypeOK' /\ LockstepInv' /\ TripInv'
<1> USE DEF ProbeInv
<1>1. CASE StartGuest \/ HandleProposal \/ Revoke \/ Answer \/ HandleResult
  BY Zenon, <1>1, BootKeepsInv, CallKeepsInv, RevokeKeepsInv, AnswerKeepsInv, ResultKeepsInv
<1>2. CASE Purge
  <2>1. /\ guest' = [guest EXCEPT !.pc = "dead"] /\ toHost' = NoFrame /\ toGuest' = NoFrame
        /\ UNCHANGED <<brokerVars, workerVars, result>> /\ stage = "purge" /\ stage' = "reduce"
    BY Zenon, <1>2 DEF Purge, Goto
  <2>2. QED
    BY Zenon, <2>1, DeathKeepsInv DEF Stages
<1>3. CASE Refuse \/ Admit \/ Launch \/ SendRun
  <2>1. /\ UNCHANGED <<brokerVars, guest, toHost, result>> /\ wstate' = wstate
        /\ stage \in {"admission", "launch", "send_run"}
        /\ stage' \in {"reduce", "launch", "proxy_setup", "control", "stop_worker"}
        /\ toGuest' = toGuest \/ toGuest' = [type |-> "run"]
    BY Zenon, <1>3 DEF Refuse, Admit, Launch, SendRun, Goto, Fails, channel, workerVars
  <2>2. toGuest' = toGuest \/ toGuest'.type # "decision"
    BY <2>1
  <2>3. QED
    BY Zenon, <2>1, <2>2, QuietKeepsInv DEF Stages
<1>4. CASE StartWorker
  <2>1. /\ UNCHANGED <<brokerVars, guest, toHost, toGuest, result>>
        /\ stage = "proxy_setup" /\ stage' \in {"proxy_setup", "guest_start", "stop_worker"}
    BY Zenon, <1>4 DEF StartWorker, Goto, Fails, channel
  <2>2. wstate \notin {"stopped", "failed"}
    BY Zenon, <1>4 DEF StartWorker, Worker!BeginStart, Worker!StartSucceeds, Worker!StartFails
  <2>3. QED
    BY Zenon, <2>1, <2>2, QuietKeepsInv DEF Stages
<1>5. CASE StopWorker
  <2>1. /\ UNCHANGED <<brokerVars, guest, toHost, toGuest, result>>
        /\ stage = "stop_worker" /\ stage' \in {"stop_worker", "purge"}
    BY Zenon, <1>5 DEF StopWorker, Goto, channel
  <2>2. wstate \in {"stopped", "failed"} => wstate' \in {"stopped", "failed"}
    BY Zenon, <1>5 DEF StopWorker, Worker!BeginStop, Worker!StopClean, Worker!StopDirty,
       Worker!StopUnstarted, workerVars
  <2>3. QED
    BY Zenon, <2>1, <2>2, QuietKeepsInv DEF Stages
<1>6. CASE ControlFails \/ PersistEvidence
  <2>1. /\ UNCHANGED <<brokerVars, guest, toHost, toGuest, result>> /\ wstate' = wstate
        /\ stage \in {"control", "evidence"} /\ stage' = "stop_worker"
    BY Zenon, <1>6 DEF ControlFails, PersistEvidence, Goto, Fails, channel, workerVars
  <2>2. QED
    BY Zenon, <2>1, QuietKeepsInv DEF Stages
<1>7. CASE Reduce \/ WriteArtifact
  <2>1. /\ UNCHANGED <<brokerVars, guest, toHost, toGuest, result>> /\ wstate' = wstate
        /\ stage \in {"reduce", "write"} /\ stage' \in {"raised", "write", "done"}
    BY Zenon, <1>7 DEF Reduce, WriteArtifact, Goto, channel, workerVars
  <2>2. QED
    BY Zenon, <2>1, QuietKeepsInv DEF Stages
<1>8. QED
  BY Zenon, <1>1, <1>2, <1>3, <1>4, <1>5, <1>6, <1>7 DEF HostNext

\* What the stages have established stays so.
LEMMA HostKeepsRuntime ==
  ASSUME ProbeInv, HostNext
  PROVE  RuntimeInv'
<1>0. LockstepInv /\ RuntimeInv /\ WorkerInv
  BY Zenon DEF ProbeInv
<1> USE DEF RuntimeInv, Over, Before, Goto, Fails
<1>1. CASE Refuse \/ Admit
  BY <1>0, <1>1 DEF Refuse, Admit, workerVars
<1>2. CASE Launch
  BY Zenon, <1>0, <1>2 DEF Launch, workerVars
<1>3. CASE StartWorker
  <2>1. /\ stage = "proxy_setup" /\ stage' \in {"proxy_setup", "guest_start", "stop_worker"}
        /\ UNCHANGED <<guest, result, persisted, purge>>
        /\ failure' = failure \/ failure' = "RUNTIME_FAILURE"
        /\ stage' = "stop_worker" => failure' = "RUNTIME_FAILURE"
    BY Zenon, <1>3 DEF StartWorker, Worker!BeginStart, Worker!StartSucceeds, Worker!StartFails
  <2>2. QED
    BY Zenon, <1>0, <2>1
<1>4. CASE StartGuest
  BY Zenon, <1>0, <1>4 DEF StartGuest, workerVars
<1>5. CASE SendRun \/ HandleProposal
  <2>1. CASE SendRun
    BY Zenon, <1>0, <2>1 DEF SendRun, workerVars
  <2>2. CASE HandleProposal
    <3>1. /\ stage = "control" /\ stage' = "evaluating"
          /\ UNCHANGED <<workerVars, guest, result, persisted, failure, purge>>
      BY Zenon, <2>2 DEF HandleProposal
    <3>2. QED
      BY Zenon, <1>0, <3>1 DEF workerVars
  <2>3. QED
    BY Zenon, <1>5, <2>1, <2>2
<1>6. CASE Revoke
  BY Zenon, <1>0, <1>6 DEF Revoke, runtimeVars
<1>7. CASE Answer
  BY Zenon, <1>0, <1>7 DEF Answer, workerVars
<1>8. CASE HandleResult
  <2>1. toHost # NoResult
    <3>1. TrueResult(toHost)
      BY Zenon, <1>0, <1>8 DEF HandleResult, LockstepInv
    <3>2. toHost.status # "none"
      BY Zenon, <3>1 DEF TrueResult, Statuses
    <3>3. QED
      BY SMTT(20), <3>2 DEF NoResult
  <2>2. QED
    BY Zenon, <1>0, <1>8, <2>1 DEF HandleResult, workerVars
<1>9. CASE ControlFails \/ PersistEvidence
  <2>1. CASE ControlFails
    BY Zenon, <1>0, <2>1 DEF ControlFails, workerVars
  <2>2. CASE PersistEvidence
    BY Zenon, <1>0, <2>2 DEF PersistEvidence, workerVars
  <2>3. QED
    BY Zenon, <1>9, <2>1, <2>2
<1>10. CASE StopWorker
  <2>1. /\ stage = "stop_worker" /\ stage' \in {"stop_worker", "purge"}
        /\ UNCHANGED <<guest, result, persisted, purge, failure>>
    BY Zenon, <1>10 DEF StopWorker
  <2>2. QED
    BY Zenon, <1>0, <2>1
<1>11. CASE Purge
  <2>1. /\ stage = "purge" /\ stage' = "reduce" /\ guest'.pc = "dead"
        /\ purge'.worker => wpurge
        /\ failure' = failure \/ failure' = "CLEANUP_UNVERIFIED"
        /\ UNCHANGED <<workerVars, result, persisted>>
    <3>1. guest'.pc = "dead"
      BY Zenon, <1>11 DEF Purge, ProbeInv, ProbeTypeOK, Guests
    <3>2. PICK vm, network \in BOOLEAN :
            purge' = [vm |-> vm, network |-> network, worker |-> proxy /\ wpurge]
      BY Zenon, <1>11 DEF Purge
    <3>3. purge'.worker = (proxy /\ wpurge)
      BY Zenon, <3>2
    <3>4. failure' = failure \/ failure' = "CLEANUP_UNVERIFIED"
      BY Zenon, <1>11 DEF Purge
    <3>5. /\ stage = "purge" /\ stage' = "reduce" /\ UNCHANGED <<workerVars, result, persisted>>
      BY Zenon, <1>11 DEF Purge
    <3>6. QED
      BY Zenon, <3>1, <3>3, <3>4, <3>5
  <2>2. QED
    BY Zenon, <1>0, <2>1 DEF workerVars
<1>12. CASE Reduce
  BY Zenon, <1>0, <1>12 DEF Reduce, workerVars
<1>13. CASE WriteArtifact
  <2>1. /\ stage = "write" /\ stage' \in {"write", "done", "raised"}
        /\ UNCHANGED <<workerVars, guest, result, persisted, failure, purge>>
    BY Zenon, <1>13 DEF WriteArtifact
  <2>2. QED
    BY Zenon, <1>0, <2>1 DEF workerVars
<1>14. QED
  BY Zenon, <1>1, <1>2, <1>3, <1>4, <1>5, <1>6, <1>7, <1>8, <1>9, <1>10, <1>11, <1>12, <1>13
  DEF HostNext
-------------------------------------------------------------------------------
(* The receipt.                                                                *)

\* What an ALLOW was reduced from.
LEMMA AllowNeeds ==
  ASSUME GateDecision = "ALLOW"
  PROVE  /\ failure = "NONE" /\ result # NoResult
         /\ result.status = "COMPLETE" /\ result.task /\ ~(result.soft > 0) /\ result.bundle
         /\ proxy /\ wcomplete /\ Verified(purge)
         /\ \A i \in DOMAIN events : events[i].disposition = "allowed"
<1>1. failure = "NONE" /\ result # NoResult
  BY Zenon DEF GateDecision, ExecutionStatus
<1>2. RoadDiff(RoadWalked, HostLifecycle) = "ALLOW"
  BY Zenon DEF GateDecision
<1>3. /\ ~(RoadWalked.soft > 0) /\ ~Incomplete(RoadWalked, HostLifecycle)
      /\ ~Blocked(RoadWalked.events)
  BY Zenon, <1>2 DEF RoadDiff
<1>4. /\ RoadWalked.status = result.status /\ RoadWalked.task = result.task
      /\ RoadWalked.soft = result.soft /\ RoadWalked.evidence = result.bundle
      /\ RoadWalked.events = events /\ RoadWalked.egress = (proxy /\ wcomplete)
  BY Zenon, <1>1 DEF RoadWalked
<1>5. HostLifecycle.cleanup = Verified(purge)
  BY Zenon, <1>1 DEF HostLifecycle, Returned
<1>6. QED
  BY Zenon, <1>1, <1>3, <1>4, <1>5 DEF Incomplete, Blocked

\* The reducers agree: an ALLOW has the witnesses that the receipt builder wants.
LEMMA ReducersAgree == ~ReceiptRefused
<1> SUFFICES ASSUME GateDecision = "ALLOW"
             PROVE  /\ ExecutionStatus = "COMPLETE" /\ HostLifecycle.cleanup
                    /\ \A k \in DOMAIN Witnesses : Witnesses[k]
  BY Zenon DEF ReceiptRefused
<1>1. /\ failure = "NONE" /\ result # NoResult /\ result.bundle
      /\ proxy /\ wcomplete /\ Verified(purge)
  BY Zenon, AllowNeeds
<1>2. ExecutionStatus = "COMPLETE"
  BY Zenon, <1>1 DEF ExecutionStatus
<1>3. HostLifecycle.cleanup /\ HostLifecycle.egress
  BY Zenon, <1>1 DEF HostLifecycle, Returned, Verified
<1>4. \A k \in DOMAIN Witnesses : Witnesses[k]
  <2>1. DOMAIN Witnesses = {"guest_complete", "egress_complete", "cleanup_complete"}
    BY Zenon DEF Witnesses
  <2>2. Witnesses["guest_complete"]
    BY Zenon, <1>1 DEF Witnesses
  <2>3. Witnesses["egress_complete"] /\ Witnesses["cleanup_complete"]
    BY Zenon, <1>3 DEF Witnesses
  <2>4. QED
    BY Zenon, <2>1, <2>2, <2>3
<1>5. QED
  BY Zenon, <1>2, <1>3, <1>4

\* Which decision a tripped run is reduced to.
LEMMA TrippedRoad ==
  ASSUME ProbeTypeOK, TripInv, tripped, Idle, ExecutionStatus = "COMPLETE"
  PROVE  GateDecision = IF trip_reason = "UNEXPECTED_CAPABILITY_DRIFT"
                        THEN "RESCOPE_REQUIRED" ELSE "DENY"
<1> DEFINE n == Len(events)
<1>1. n \in Nat /\ DOMAIN events = 1..n
  BY DEF ProbeTypeOK
<1>2. /\ n > 0 /\ events[n].disposition = "tripped" /\ events[n].reason = trip_reason
      /\ \A i \in 1..(n - 1) : events[i].disposition = "allowed"
  BY Zenon DEF TripInv
<1> HIDE DEF n
<1>3. Trips(events) = {events[n]}
  <2>1. {j \in DOMAIN events : events[j].disposition = "tripped"} = {n}
    BY <1>1, <1>2
  <2>2. QED
    BY Zenon, <2>1 DEF Trips
<1>4. Drifted(events) <=> trip_reason = "UNEXPECTED_CAPABILITY_DRIFT"
  BY Zenon, <1>2, <1>3 DEF Drifted
<1>5. RoadWalked.events = events
  BY Zenon DEF ExecutionStatus, RoadWalked
<1>6. GateDecision = RoadDiff(RoadWalked, HostLifecycle)
  BY Zenon DEF GateDecision
<1>7. QED
  BY Zenon, <1>3, <1>4, <1>5, <1>6 DEF RoadDiff

\* The receipt is built from what happened.
LEMMA ReduceKeepsReceipt ==
  ASSUME ProbeInv, Reduce
  PROVE  ReceiptInv'
<1>1. ~ReceiptRefused
  BY Zenon, ReducersAgree
<1>2. /\ stage = "reduce" /\ stage' = "write"
      /\ receipt' = [gate |-> GateDecision, execution |-> ExecutionStatus,
                     cleanup |-> HostLifecycle.cleanup, witnesses |-> Witnesses]
      /\ UNCHANGED <<brokerVars, workerVars, guest, persisted, purge, artifacts>>
  BY Zenon, <1>1 DEF Reduce, Goto
<1>3. /\ receipt'.gate = GateDecision /\ receipt'.execution = ExecutionStatus
      /\ receipt'.cleanup = HostLifecycle.cleanup
  BY Zenon, <1>2
<1>4. artifacts = {}
  BY Zenon, <1>2 DEF ProbeInv, ReceiptInv, Over
<1>5. GateDecision # "none" /\ receipt' # NoReceipt
  <2>1. GateDecision # "none"
    BY Zenon DEF GateDecision, RoadDiff
  <2>2. QED
    BY <1>3, <2>1 DEF NoReceipt
<1>6. /\ tripped' = tripped /\ events' = events /\ trip_reason' = trip_reason /\ guest' = guest
      /\ wlive' = wlive /\ wcomplete' = wcomplete /\ persisted' = persisted /\ purge' = purge
  BY Zenon, <1>2 DEF brokerVars, workerVars
<1>7. ExecutionStatus = "COMPLETE" => failure = "NONE" /\ result # NoResult /\ persisted /\ Idle
  BY Zenon, <1>2 DEF ExecutionStatus, ProbeInv, RuntimeInv, LockstepInv, Over
<1>8. AllowIsEarned'
  <2> SUFFICES ASSUME GateDecision = "ALLOW"
               PROVE  /\ ~tripped /\ \A i \in DOMAIN events : events[i].disposition = "allowed"
                      /\ guest.proposals = Len(events) /\ guest.task /\ guest.soft = 0
                      /\ guest.prompt + guest.completion <= MaxTokens
                      /\ persisted /\ ~wlive /\ wcomplete /\ Verified(purge)
    BY Zenon, <1>3, <1>6 DEF AllowIsEarned, Verified
  <2>1. /\ failure = "NONE" /\ result # NoResult
        /\ result.status = "COMPLETE" /\ result.task /\ ~(result.soft > 0)
        /\ wcomplete /\ Verified(purge)
        /\ \A i \in DOMAIN events : events[i].disposition = "allowed"
    BY Zenon, AllowNeeds
  <2>2. /\ Idle /\ guest.proposals = Len(events) /\ result.task = guest.task
        /\ result.soft = guest.soft /\ guest.prompt + guest.completion <= MaxTokens
    BY Zenon, <2>1 DEF ProbeInv, LockstepInv, TrueResult
  <2>3. ~tripped
    <3>1. Len(events) > 0 => Len(events) \in DOMAIN events
      BY SMTT(20) DEF ProbeInv, ProbeTypeOK
    <3>2. QED
      BY Zenon, <2>1, <2>2, <3>1 DEF ProbeInv, TripInv
  <2>4. guest.soft = 0
    BY SMTT(20), <2>1, <2>2 DEF ProbeInv, ProbeTypeOK, Guests
  <2>5. ~wlive
    BY Zenon, <2>1 DEF ProbeInv, WorkerInv
  <2>6. persisted
    BY Zenon, <1>2, <2>1 DEF ProbeInv, RuntimeInv, Over
  <2>7. QED
    BY Zenon, <2>1, <2>2, <2>3, <2>4, <2>5, <2>6
<1>9. wlive => ~HostLifecycle.cleanup
  <2>1. purge.worker \/ failure = "PREFLIGHT_FAILED" => ~wlive
    BY Zenon DEF ProbeInv, RuntimeInv, WorkerInv
  <2>2. QED
    BY Zenon, <2>1 DEF HostLifecycle, Verified
<1>10. FirstTripDecidesGate'
  <2> SUFFICES ASSUME tripped, ExecutionStatus = "COMPLETE"
               PROVE  GateDecision = IF trip_reason = "UNEXPECTED_CAPABILITY_DRIFT"
                                     THEN "RESCOPE_REQUIRED" ELSE "DENY"
    BY Zenon, <1>3, <1>6 DEF FirstTripDecidesGate
  <2>1. QED
    BY Zenon, <1>7, TrippedRoad DEF ProbeInv
<1>11. /\ stage' \in Over \ {"reduce"} /\ artifacts' = {} /\ {} \in Written
  BY Zenon, <1>2, <1>4 DEF Over, Written
<1>12. /\ receipt'.execution = "COMPLETE" => persisted'
       /\ wlive' => ~receipt'.cleanup
  BY Zenon, <1>3, <1>6, <1>7, <1>9
<1>13. QED
  BY Zenon, <1>5, <1>8, <1>10, <1>11, <1>12 DEF ReceiptInv

\* Nothing that happens after the reduction makes the receipt untrue.
LEMMA ReceiptStays ==
  ASSUME ReceiptInv, UNCHANGED <<brokerVars, guest, persisted, purge, receipt, wcomplete>>,
         wlive' => wlive, receipt # NoReceipt => stage' \in Over \ {"reduce"},
         artifacts' \in Written, artifacts' # {} => receipt # NoReceipt,
         stage' = "write" => "receipt" \notin artifacts' /\ receipt # NoReceipt
  PROVE  ReceiptInv'
<1>1. /\ tripped' = tripped /\ events' = events /\ trip_reason' = trip_reason /\ guest' = guest
      /\ wcomplete' = wcomplete /\ persisted' = persisted /\ purge' = purge
      /\ receipt' = receipt
  BY Zenon DEF brokerVars
<1>2. AllowIsEarned'
  <2>1. AllowIsEarned
    BY Zenon DEF ReceiptInv
  <2>2. Verified(purge)' <=> Verified(purge)
    BY Zenon, <1>1 DEF Verified
  <2>3. CASE receipt.gate # "ALLOW"
    BY Zenon, <1>1, <2>3 DEF AllowIsEarned
  <2>4. CASE receipt.gate = "ALLOW"
    <3>1. /\ ~tripped' /\ guest'.proposals = Len(events') /\ guest'.task /\ guest'.soft = 0
          /\ guest'.prompt + guest'.completion <= MaxTokens
          /\ \A i \in DOMAIN events' : events'[i].disposition = "allowed"
      BY Zenon, <1>1, <2>1, <2>4 DEF AllowIsEarned
    <3>2. persisted' /\ ~wlive' /\ wcomplete' /\ Verified(purge)'
      BY <1>1, <2>1, <2>2, <2>4 DEF AllowIsEarned
    <3>3. QED
      BY Zenon, <3>1, <3>2 DEF AllowIsEarned
  <2>5. QED
    BY Zenon, <2>3, <2>4
<1>3. FirstTripDecidesGate'
  BY Zenon, <1>1 DEF ReceiptInv, FirstTripDecidesGate
<1>4. QED
  BY <1>1, <1>2, <1>3 DEF ReceiptInv

\* The artefacts are written in order, the receipt last.
LEMMA WritesInOrder ==
  ASSUME WriteArtifact
  PROVE  \/ stage' = "raised" /\ artifacts' = artifacts
         \/ stage' = "write" /\ artifacts = {} /\ artifacts' = {"road_frozen"}
         \/ /\ stage' = "write" /\ artifacts = {"road_frozen"}
            /\ artifacts' = {"road_frozen", "road_walked"}
         \/ /\ stage' = "write" /\ artifacts = {"road_frozen", "road_walked"}
            /\ artifacts' = {"road_frozen", "road_walked", "road_diff"}
         \/ /\ stage' = "done" /\ artifacts = {"road_frozen", "road_walked", "road_diff"}
            /\ artifacts' = {"road_frozen", "road_walked", "road_diff", "receipt"}
<1>1. PICK i \in DOMAIN ArtifactOrder :
        /\ artifacts = {ArtifactOrder[j] : j \in 1..(i - 1)}
        /\ \/ /\ artifacts' = artifacts \cup {ArtifactOrder[i]}
              /\ stage' = IF i = Len(ArtifactOrder) THEN "done" ELSE "write"
           \/ stage' = "raised" /\ artifacts' = artifacts
  BY Zenon DEF WriteArtifact, Goto
<1>2. i \in 1..4 /\ Len(ArtifactOrder) = 4
  BY DEF ArtifactOrder
<1>3. CASE i = 1
  <2>1. artifacts = {} /\ ArtifactOrder[i] = "road_frozen"
    BY <1>1, <1>3 DEF ArtifactOrder
  <2>2. QED
    BY <1>1, <1>2, <1>3, <2>1
<1>4. CASE i = 2
  <2>1. artifacts = {"road_frozen"} /\ ArtifactOrder[i] = "road_walked"
    BY <1>1, <1>4 DEF ArtifactOrder
  <2>2. QED
    BY <1>1, <1>2, <1>4, <2>1
<1>5. CASE i = 3
  <2>1. artifacts = {"road_frozen", "road_walked"} /\ ArtifactOrder[i] = "road_diff"
    <3>1. 1..(i - 1) = {1, 2}
      BY SMTT(20), <1>5
    <3>2. QED
      BY SMTT(20), <1>1, <1>5, <3>1 DEF ArtifactOrder
  <2>2. QED
    BY SMTT(20), <1>1, <1>2, <1>5, <2>1
<1>6. CASE i = 4
  <2>1. artifacts = {"road_frozen", "road_walked", "road_diff"} /\ ArtifactOrder[i] = "receipt"
    <3>1. 1..(i - 1) = {1, 2, 3}
      BY SMTT(20), <1>6
    <3>2. QED
      BY SMTT(20), <1>1, <1>6, <3>1 DEF ArtifactOrder
  <2>2. QED
    BY Zenon, <1>1, <1>2, <1>6, <2>1
<1>7. QED
  BY SMTT(20), <1>2, <1>3, <1>4, <1>5, <1>6

LEMMA WriteKeepsReceipt ==
  ASSUME ReceiptInv, WriteArtifact
  PROVE  ReceiptInv'
<1>1. /\ stage = "write"
      /\ UNCHANGED <<brokerVars, guest, persisted, purge, receipt, workerVars>>
  BY Zenon DEF WriteArtifact
<1>2. receipt # NoReceipt /\ artifacts \in Written
  BY Zenon, <1>1 DEF ReceiptInv
<1>3. artifacts' \in Written /\ (stage' = "write" => "receipt" \notin artifacts')
  BY Zenon, <1>2, WritesInOrder DEF Written
<1>4. stage' \in Over \ {"reduce"} /\ wlive' = wlive /\ wcomplete' = wcomplete
  BY Zenon, <1>1, WritesInOrder DEF Over, workerVars
<1>5. QED
  BY Zenon, <1>1, <1>2, <1>3, <1>4, ReceiptStays

LEMMA HostKeepsReceipt ==
  ASSUME ProbeInv, HostNext
  PROVE  ReceiptInv'
<1>0. ReceiptInv
  BY Zenon DEF ProbeInv
<1>1. CASE Reduce \/ WriteArtifact
  BY Zenon, <1>0, <1>1, ReduceKeepsReceipt, WriteKeepsReceipt
<1>2. CASE Refuse \/ Admit \/ Launch \/ StartWorker \/ StartGuest \/ SendRun
  <2>1. /\ stage \notin {"write", "done", "raised", "crashed"} /\ stage' # "write"
        /\ UNCHANGED runnerVars
    BY Zenon, <1>2 DEF Refuse, Admit, Launch, StartWorker, StartGuest, SendRun, Goto, Fails
  <2>2. QED
    BY Zenon, <1>0, <2>1, NoReceiptYet
<1>3. CASE HandleProposal \/ Revoke \/ Answer \/ HandleResult \/ ControlFails
  <2>1. /\ stage \notin {"write", "done", "raised", "crashed"} /\ stage' # "write"
        /\ UNCHANGED runnerVars
    BY Zenon, <1>3 DEF HandleProposal, Revoke, Answer, HandleResult, ControlFails, Goto, Fails,
       runtimeVars
  <2>2. QED
    BY Zenon, <1>0, <2>1, NoReceiptYet
<1>4. CASE PersistEvidence \/ StopWorker \/ Purge
  <2>1. /\ stage \notin {"write", "done", "raised", "crashed"} /\ stage' # "write"
        /\ UNCHANGED runnerVars
    BY Zenon, <1>4 DEF PersistEvidence, StopWorker, Purge, Goto, Fails
  <2>2. QED
    BY Zenon, <1>0, <2>1, NoReceiptYet
<1>5. QED
  BY Zenon, <1>1, <1>2, <1>3, <1>4 DEF HostNext

\* The environment: the clock, a dying guest, a dying worker, a dying host.
LEMMA EnvironmentKeepsInv ==
  ASSUME ProbeInv, EnvNext
  PROVE  ProbeTypeOK' /\ LockstepInv' /\ TripInv' /\ RuntimeInv' /\ ReceiptInv'
<1>0. ProbeTypeOK /\ LockstepInv /\ TripInv /\ WorkerInv /\ RuntimeInv /\ ReceiptInv
  BY Zenon DEF ProbeInv
<1>1. CASE DeadlinePasses
  <2>1. /\ UNCHANGED <<brokerVars, workerVars, guest, toHost, toGuest, result, stage, persisted,
                       failure, purge, runnerVars>>
        /\ stage \in {"control", "evaluating"}
    BY Zenon, <1>1 DEF DeadlinePasses, channel
  <2>2. ProbeTypeOK' /\ LockstepInv' /\ TripInv'
    BY Zenon, <1>0, <2>1, QuietKeepsInv DEF Stages, workerVars
  <2>3. RuntimeInv'
    BY Zenon, <1>0, <2>1 DEF RuntimeInv, workerVars
  <2>4. ReceiptInv'
    BY Zenon, <1>0, <2>1, NoReceiptYet
  <2>5. QED
    BY Zenon, <2>2, <2>3, <2>4
<1>2. CASE GuestDies
  <2>1. /\ guest' = [guest EXCEPT !.pc = "dead"] /\ toHost' \in {toHost, NoFrame}
        /\ UNCHANGED <<brokerVars, workerVars, toGuest, result, stage, persisted, failure, purge,
                       runnerVars>>
        /\ stage \in {"send_run", "control", "evaluating"}
    BY Zenon, <1>2 DEF GuestDies, runtimeVars
  <2>2. ProbeTypeOK' /\ LockstepInv' /\ TripInv'
    BY Zenon, <1>0, <2>1, DeathKeepsInv DEF Stages
  <2>3. RuntimeInv'
    BY Zenon, <1>0, <2>1 DEF RuntimeInv, workerVars, Over, Before
  <2>4. ReceiptInv'
    BY Zenon, <1>0, <2>1, NoReceiptYet
  <2>5. QED
    BY Zenon, <2>2, <2>3, <2>4
<1>3. CASE WorkerMoves
  <2>1. /\ UNCHANGED <<brokerVars, guest, toHost, toGuest, result, stage, persisted, failure,
                       purge, runnerVars>>
        /\ stage \in Stages
    BY Zenon, <1>0, <1>3 DEF WorkerMoves, channel, runtimeVars, ProbeTypeOK
  <2>2. UNCHANGED <<wstate, wpending, wpurge, wcomplete>>
        /\ (stage = "proxy_setup" \/ ~wlive')
    BY Zenon, <1>3 DEF WorkerMoves, Worker!Listen, Worker!Close
  <2>3. ProbeTypeOK' /\ LockstepInv' /\ TripInv'
    BY Zenon, <1>0, <2>1, <2>2, QuietKeepsInv
  <2>4. RuntimeInv'
    BY Zenon, <1>0, <2>1, <2>2 DEF RuntimeInv
  <2>5. CASE stage = "proxy_setup"
    BY Zenon, <1>0, <2>1, <2>3, <2>4, <2>5, NoReceiptYet
  <2>6. CASE ~wlive'
    <3>1. ReceiptInv'
      BY Zenon, <1>0, <2>1, <2>2, <2>6, ReceiptStays DEF ReceiptInv, runnerVars
    <3>2. QED
      BY Zenon, <2>3, <2>4, <3>1
  <2>7. QED
    BY Zenon, <2>2, <2>5, <2>6
<1>4. CASE HostCrashes
  <2>1. /\ UNCHANGED <<brokerVars, workerVars, guest, toHost, toGuest, result, persisted, failure,
                       purge, runnerVars>>
        /\ stage' = "crashed" /\ (persisted \/ stage = "write")
    BY Zenon, <1>4 DEF HostCrashes, Goto, channel
  <2>2. stage # "evaluating"
    BY Zenon, <1>0, <2>1 DEF RuntimeInv, LockstepInv
  <2>3. ProbeTypeOK' /\ LockstepInv' /\ TripInv'
    BY Zenon, <1>0, <2>1, <2>2, QuietKeepsInv DEF Stages, workerVars
  <2>4. failure = "NONE" => persisted
    BY Zenon, <1>0, <2>1 DEF RuntimeInv, Over
  <2>5. guest.pc \in {"off", "sent", "dead"}
    BY Zenon, <1>0, <2>1 DEF RuntimeInv, LockstepInv, Over
  <2>6. RuntimeInv'
    BY Zenon, <1>0, <2>1, <2>4, <2>5 DEF RuntimeInv, workerVars, Over, Before
  <2>7. ReceiptInv'
    BY Zenon, <1>0, <2>1, ReceiptStays DEF ReceiptInv, runnerVars, workerVars, Over
  <2>8. QED
    BY Zenon, <2>3, <2>6, <2>7
<1>5. QED
  BY Zenon, <1>1, <1>2, <1>3, <1>4 DEF EnvNext
-------------------------------------------------------------------------------
(* The theorems.                                                               *)

LEMMA InitInv ==
  ASSUME Init
  PROVE  ProbeInv
<1>1. /\ guest \in Guests /\ guest.pc = "off" /\ guest.status = "EVALUATION_INCOMPLETE"
      /\ guest.proposals = 0
  <2>1. guest = [pc |-> "off", status |-> "EVALUATION_INCOMPLETE", task |-> FALSE,
                 soft |-> 0, proposals |-> 0, requests |-> 0, prompt |-> 0,
                 completion |-> 0, reported |-> TRUE, calls |-> 0, key |-> FALSE]
    BY Zenon DEF Init
  <2>2. guest \in Guests
    BY SMTT(20), <2>1 DEF Guests, GuestPcs, Statuses
  <2>3. QED
    BY Zenon, <2>1, <2>2
<1>2. /\ tripped = FALSE /\ events = <<>> /\ call = Broker!NoCall /\ revoked = FALSE
  BY Zenon DEF Init, Broker!BrokerInit
<1>3. /\ wstate = "new" /\ wlive = FALSE /\ wpending = FALSE /\ wpurge = FALSE
      /\ wcomplete = FALSE
  BY Zenon DEF Init, Worker!Init
<1>4. /\ toHost.type = "none" /\ toGuest.type = "none" /\ stage = "admission"
      /\ result = NoResult /\ persisted = FALSE /\ failure = "NONE"
      /\ purge.worker = FALSE /\ receipt = NoReceipt /\ artifacts = {}
  BY Zenon DEF Init, NoFrame, NoPurge
<1>5. Idle /\ receipt.gate = "none" /\ Len(events) = 0
  BY Zenon, <1>2, <1>4 DEF Idle, Broker!NoCall, NoReceipt
<1>6. ProbeTypeOK
  <2>1. events \in Seq(Broker!Event)
    BY SMTT(20), <1>2
  <2>2. QED
    BY Zenon, <1>1, <1>2, <1>4, <2>1 DEF ProbeTypeOK, Stages
<1>7. LockstepInv
  BY Zenon, <1>1, <1>4, <1>5 DEF LockstepInv
<1>8. TripInv
  <2>1. \A i \in DOMAIN events : events[i].disposition = "allowed"
    BY <1>2
  <2>2. call.step = "none"
    BY Zenon, <1>5 DEF Idle
  <2>3. QED
    BY Zenon, <1>1, <1>2, <1>5, <2>1, <2>2 DEF TripInv
<1>9. WorkerInv /\ RuntimeInv
  BY Zenon, <1>1, <1>3, <1>4 DEF WorkerInv, RuntimeInv, Over
<1>10. ReceiptInv
  BY Zenon, <1>2, <1>4, <1>5 DEF ReceiptInv, AllowIsEarned, FirstTripDecidesGate, Written
<1>11. QED
  BY Zenon, <1>6, <1>7, <1>8, <1>9, <1>10 DEF ProbeInv

LEMMA StutterInv ==
  ASSUME ProbeInv, UNCHANGED vars
  PROVE  ProbeInv'
<1>0. ProbeTypeOK /\ LockstepInv /\ TripInv /\ WorkerInv /\ RuntimeInv /\ ReceiptInv
  BY Zenon DEF ProbeInv
<1>1. /\ UNCHANGED <<brokerVars, workerVars, guest, toHost, toGuest, runtimeVars>>
      /\ receipt' = receipt /\ artifacts' = artifacts /\ stage \in Stages
  BY Zenon, <1>0 DEF vars, channel, runnerVars, ProbeTypeOK
<1>2. ProbeTypeOK' /\ LockstepInv' /\ TripInv'
  BY Zenon, <1>0, <1>1, QuietKeepsInv DEF runtimeVars, workerVars
<1>3. WorkerInv'
  BY Zenon, <1>0, <1>1 DEF WorkerInv, workerVars
<1>4. RuntimeInv'
  BY Zenon, <1>0, <1>1 DEF RuntimeInv, runtimeVars, workerVars
<1>5. ReceiptInv'
  BY Zenon, <1>0, <1>1, ReceiptStays DEF ReceiptInv, runtimeVars, workerVars
<1>6. QED
  BY Zenon, <1>2, <1>3, <1>4, <1>5 DEF ProbeInv

\* The inductive invariant of a run.
THEOREM ProbeInvariant == Spec => []ProbeInv
<1>1. Init => ProbeInv
  BY Zenon, InitInv
<1>2. ProbeInv /\ [Next]_vars => ProbeInv'
  <2> SUFFICES ASSUME ProbeInv, Next
               PROVE  ProbeInv'
    BY Zenon, StutterInv
  <2>1. WorkerInv'
    BY Zenon, WorkerKept DEF ProbeInv
  <2>2. CASE GuestNext
    BY Zenon, <2>1, <2>2, GuestKeepsInv DEF ProbeInv
  <2>3. CASE HostNext
    BY Zenon, <2>1, <2>3, HostKeepsTurn, HostKeepsRuntime, HostKeepsReceipt DEF ProbeInv
  <2>4. CASE EnvNext
    BY Zenon, <2>1, <2>4, EnvironmentKeepsInv DEF ProbeInv
  <2>5. QED
    BY Zenon, <2>2, <2>3, <2>4 DEF Next
<1>3. QED
  BY <1>1, <1>2, PTL DEF Spec

\* A receipt says what happened: ALLOW only for a run that granted everything, ended
\* its task within its tokens and left nothing behind (ksl.py, runner.py, receipt.py).
THEOREM ReceiptsAreEarned == Spec => []ReceiptIsEarned
<1>1. ProbeInv => ReceiptIsEarned
  <2> SUFFICES ASSUME ReceiptInv PROVE ReceiptIsEarned
    BY Zenon DEF ProbeInv
  <2>1. "receipt" \in artifacts =>
          /\ {"road_frozen", "road_walked", "road_diff"} \subseteq artifacts
          /\ receipt.execution = "COMPLETE" => persisted
    BY Zenon DEF ReceiptInv, Written
  <2>2. receipt # NoReceipt /\ wlive => ~receipt.cleanup /\ ExitCode(receipt) = 6
    BY Zenon DEF ReceiptInv, ExitCode
  <2>3. QED
    BY Zenon, <2>1, <2>2 DEF ReceiptIsEarned, ReceiptInv, AllowIsEarned
<1>2. QED
  BY <1>1, ProbeInvariant, PTL

\* Whenever road_diff decides ALLOW, the receipt builder has the witnesses it insists
\* on: no run ends in its ValueError (receipt.py:38-39, 60-61).
THEOREM ReceiptsNeverRefused == Spec => []ReceiptNeverRefused
<1>1. ReceiptNeverRefused
  BY Zenon, ReducersAgree DEF ReceiptNeverRefused
<1>2. QED
  BY <1>1, PTL

\* The egress worker is stopped before the guest learns of a trip.
THEOREM EgressIsCutFirst == Spec => []EgressCutBeforeTripTold
<1>1. ProbeInv => EgressCutBeforeTripTold
  <2> SUFFICES ASSUME ProbeInv, \/ guest.status = "HARD_TRIP"
                                \/ toGuest.type = "decision" /\ toGuest.disposition # "allowed"
               PROVE  revoked /\ wstate \in {"stopped", "failed"} /\ (wlive => ~wpurge)
    BY Zenon DEF EgressCutBeforeTripTold
  <2>1. tripped /\ Idle
    <3>1. CASE guest.status = "HARD_TRIP"
      BY Zenon, <3>1 DEF ProbeInv, TripInv
    <3>2. CASE toGuest.type = "decision" /\ toGuest.disposition # "allowed"
      <4>1. /\ Idle /\ Len(events) = guest.proposals + 1
            /\ events[Len(events)].disposition # "allowed"
        <5>1. LockstepInv
          BY Zenon DEF ProbeInv
        <5>2. QED
          BY <3>2, <5>1 DEF LockstepInv
      <4>2. Len(events) \in DOMAIN events
        <5>1. guest.proposals \in Nat /\ events \in Seq(Broker!Event)
          BY Zenon DEF ProbeInv, ProbeTypeOK, Guests
        <5>2. QED
          BY <4>1, <5>1
      <4>3. QED
        BY Zenon, <4>1, <4>2 DEF ProbeInv, TripInv
    <3>3. QED
      BY Zenon, <3>1, <3>2
  <2>2. revoked /\ wstate \in {"stopped", "failed"}
    BY Zenon, <2>1 DEF ProbeInv, TripInv, Idle
  <2>3. wlive => ~wpurge
    BY Zenon DEF ProbeInv, WorkerInv
  <2>4. QED
    BY Zenon, <2>2, <2>3
<1>2. QED
  BY <1>1, ProbeInvariant, PTL

\* In a completed run the broker's first trip decides the gate.
THEOREM FirstTripAlwaysDecidesGate == Spec => []FirstTripDecidesGate
<1>1. ProbeInv => FirstTripDecidesGate
  BY Zenon DEF ProbeInv, ReceiptInv
<1>2. QED
  BY <1>1, ProbeInvariant, PTL

\* After a trip the guest asks the model nothing more (agent_probe_agent.py:360-372).
THEOREM NoCallAfterTrip == Spec => NoModelCallAfterTrip
<1>1. ProbeInv /\ [Next]_vars => [guest.requests' # guest.requests => ~tripped]_vars
  <2> SUFFICES ASSUME ProbeInv, Next, guest.requests' # guest.requests
               PROVE  ~tripped
    BY Zenon
  <2>0. guest \in Guests
    BY Zenon DEF ProbeInv, ProbeTypeOK
  <2>1. CASE GuestNext
    <3>1. CASE Thinks
      BY Zenon, <3>1 DEF Thinks, ProbeInv, TripInv
    <3>2. CASE GuestPropose
      BY Zenon, <2>0, <3>2 DEF GuestPropose, Guests
    <3>3. CASE GuestDecided
      BY Zenon, <2>0, <3>3, DecidedGuest
    <3>4. CASE GuestFinish
      BY Zenon, <2>0, <3>4 DEF GuestFinish, Guests
    <3>5. CASE GuestFails
      BY Zenon, <2>0, <3>5 DEF GuestFails, Guests
    <3>6. QED
      BY Zenon, <2>0, <2>1, <3>1, <3>2, <3>3, <3>4, <3>5, GuestThinks DEF GuestNext
  <2>2. CASE HostNext
    <3>1. CASE StartGuest
      BY Zenon, <2>0, <3>1 DEF StartGuest, Guests
    <3>2. CASE Purge
      BY Zenon, <2>0, <3>2 DEF Purge, Guests
    <3>3. CASE ~StartGuest /\ ~Purge
      <4>1. guest' = guest
        BY Zenon, <2>2, <3>3 DEF HostNext, Refuse, Admit, Launch, StartWorker, SendRun,
           HandleProposal, Revoke, Answer, HandleResult, ControlFails, PersistEvidence,
           StopWorker, Reduce, WriteArtifact
      <4>2. QED
        BY Zenon, <4>1
    <3>4. QED
      BY Zenon, <3>1, <3>2, <3>3
  <2>3. CASE EnvNext
    BY Zenon, <2>0, <2>3 DEF EnvNext, DeadlinePasses, GuestDies, WorkerMoves, HostCrashes, Guests
  <2>4. QED
    BY Zenon, <2>1, <2>2, <2>3 DEF Next
<1>2. QED
  BY <1>1, ProbeInvariant, PTL DEF Spec, NoModelCallAfterTrip
-------------------------------------------------------------------------------
(* The run composes the broker and the worker it is built from.                *)

LEMMA BrokerTouched ==
  ASSUME Next
  PROVE  UNCHANGED brokerVars \/ HandleProposal \/ Revoke \/ Answer
<1>1. CASE GuestNext
  <2>1. CASE GuestStart \/ GuestLoaded \/ GuestCallFails \/ GuestCallAnswers \/ GuestOutOfBudget
    BY Zenon, <2>1 DEF GuestStart, GuestLoaded, GuestCallFails, GuestCallAnswers, GuestOutOfBudget
  <2>2. CASE GuestPropose \/ GuestStopsBatch \/ GuestDecided \/ GuestBatchDone
    BY Zenon, <2>2 DEF GuestPropose, GuestStopsBatch, GuestDecided, GuestBatchDone
  <2>3. CASE GuestFinish \/ GuestFails
    BY Zenon, <2>3 DEF GuestFinish, GuestFails
  <2>4. QED
    BY Zenon, <1>1, <2>1, <2>2, <2>3 DEF GuestNext
<1>2. CASE EnvNext
  BY Zenon, <1>2 DEF EnvNext, DeadlinePasses, GuestDies, WorkerMoves, HostCrashes
<1>3. CASE HostNext
  <2>1. CASE Refuse \/ Admit \/ Launch \/ StartWorker \/ StartGuest \/ SendRun
    BY Zenon, <2>1 DEF Refuse, Admit, Launch, StartWorker, StartGuest, SendRun
  <2>2. CASE HandleResult \/ ControlFails \/ PersistEvidence \/ StopWorker
    BY Zenon, <2>2 DEF HandleResult, ControlFails, PersistEvidence, StopWorker
  <2>3. CASE Purge \/ Reduce \/ WriteArtifact
    BY Zenon, <2>3 DEF Purge, Reduce, WriteArtifact
  <2>4. QED
    BY Zenon, <1>3, <2>1, <2>2, <2>3 DEF HostNext
<1>4. QED
  BY Zenon, <1>1, <1>2, <1>3 DEF Next

\* The proposal a frame carries is one the broker knows how to judge.
LEMMA ProposalInRange ==
  ASSUME ProbeInv, toHost.type = "proposal"
  PROVE  [sequence |-> toHost.sequence, action |-> toHost.action] \in Broker!Proposal
<1>1. guest.proposals \in Nat
  BY Zenon DEF ProbeInv, ProbeTypeOK, Guests
<1>2. /\ toHost.sequence = guest.proposals /\ guest.proposals < MaxCalls
      /\ toHost.action \in Actions
  BY Zenon DEF ProbeInv, LockstepInv
<1>3. toHost.sequence \in 0..MaxCalls
  BY SMTT(20), <1>1, <1>2, ProbeAssumption
<1>4. QED
  BY Zenon, <1>2, <1>3 DEF Broker!Proposal

LEMMA BrokerSteps ==
  ASSUME ProbeInv, Next
  PROVE  UNCHANGED brokerVars \/ Broker!BrokerNext
<1>1. CASE HandleProposal
  BY Zenon, <1>1, ProposalInRange DEF HandleProposal, Broker!BrokerNext
<1>2. CASE Revoke
  BY Zenon, <1>2 DEF Revoke, Broker!BrokerNext
<1>3. CASE Answer
  BY Zenon, <1>3 DEF Answer, Broker!BrokerNext
<1>4. QED
  BY Zenon, <1>1, <1>2, <1>3, BrokerTouched

\* What the run does to its broker, the broker alone can do: control frames reach it one
\* at a time and under sequence numbers in its range (firecracker_runtime.py's control
\* loop).  So the promise proved of BrokerSpec, AuthorityKept, is kept inside the run.
THEOREM ProbeRunsBroker == Spec => Broker!BrokerSpec
<1>1. Init => Broker!BrokerInit
  BY Zenon DEF Init
<1>2. ProbeInv /\ [Next]_vars => [Broker!BrokerNext]_(Broker!brokerVars)
  <2> SUFFICES ASSUME ProbeInv, [Next]_vars
               PROVE  UNCHANGED brokerVars \/ Broker!BrokerNext
    BY Zenon DEF brokerVars, Broker!brokerVars
  <2>1. CASE UNCHANGED vars
    BY Zenon, <2>1 DEF vars
  <2>2. QED
    BY Zenon, <2>1, BrokerSteps
<1>3. QED
  BY <1>1, <1>2, ProbeInvariant, PTL DEF Spec, Broker!BrokerSpec

\* What the run does to its worker is within the contract that EgressWorker is proved to
\* implement: start() once, stop() whenever, and no step of the proxy the handle rules out.
THEOREM ProbeRunsWorker == Spec => Worker!Spec
<1>1. Init => Worker!Init
  BY Zenon DEF Init
<1>2. [Next]_vars => [Worker!Next]_(Worker!contractVars)
  <2> SUFFICES ASSUME [Next]_vars
               PROVE  UNCHANGED workerVars \/ Worker!Next
    BY Zenon DEF workerVars, Worker!contractVars
  <2>1. CASE UNCHANGED vars
    BY Zenon, <2>1 DEF vars
  <2>2. QED
    BY Zenon, <2>1, WorkerSteps
<1>3. QED
  BY <1>1, <1>2, PTL DEF Spec, Worker!Spec
-------------------------------------------------------------------------------
(* Why a run ends: the host can always move, and only so many times.           *)

\* The worker is there to be started and stopped, and the log is within the budget.
ReadyInv ==
  /\ stage = "proxy_setup" => wstate \in {"new", "starting"}
  /\ stage \in {"guest_start", "send_run", "control"} /\ ~revoked => wstate = "running"
  /\ stage = "evaluating" /\ ~revoked =>
       wstate = "running" \/ (wstate = "stopping" /\ call.step = "revoke")
  /\ revoked => tripped /\ call.step # "revoke"

BudgetInv ==
  Len(events) <= MaxCalls /\ (stage = "evaluating" => Len(events) < MaxCalls)

\* Where the host neither waits for a frame nor may simply go on: start() finds a handle
\* that can be started, the revoke callback a worker that can be stopped, and the runner
\* a file that is still to be written.
HostCanMove ==
  /\ stage = "proxy_setup" => wstate \in {"new", "starting"}
  /\ stage = "evaluating" =>
       call.step = "record" \/ (call.step = "revoke" /\ wstate \in {"running", "stopping"})
  /\ stage = "write" => artifacts \in Written /\ "receipt" \notin artifacts

\* The steps the host has left, at most: without another proposal, and in all.
StepsToEnd ==
  CASE stage = "admission" -> 16
    [] stage = "launch" -> 15
    [] stage = "proxy_setup" -> (IF wstate = "new" THEN 14 ELSE 13)
    [] stage = "guest_start" -> 12
    [] stage = "send_run" -> 11
    [] stage = "control" -> 10
    [] stage = "evaluating" ->
         (IF call.step = "record" THEN 7 ELSE IF wstate = "stopping" THEN 8 ELSE 9)
    [] stage = "evidence" -> 9
    [] stage = "stop_worker" -> (IF wstate = "stopping" THEN 7 ELSE 8)
    [] stage = "purge" -> 6
    [] stage = "reduce" -> 5
    [] stage = "write" -> (IF "road_frozen" \notin artifacts THEN 4
                           ELSE IF "road_walked" \notin artifacts THEN 3
                           ELSE IF "road_diff" \notin artifacts THEN 2 ELSE 1)
    [] OTHER -> 0

HostLeft == 4 * (MaxCalls - Len(events)) + StepsToEnd

LEMMA GuestLeavesHost ==
  ASSUME GuestNext
  PROVE  UNCHANGED <<brokerVars, workerVars, runtimeVars, runnerVars>>
<1>1. CASE GuestStart \/ GuestLoaded \/ GuestCallFails \/ GuestCallAnswers \/ GuestOutOfBudget
  BY Zenon, <1>1 DEF GuestStart, GuestLoaded, GuestCallFails, GuestCallAnswers, GuestOutOfBudget
<1>2. CASE GuestPropose \/ GuestStopsBatch \/ GuestDecided \/ GuestBatchDone
  BY Zenon, <1>2 DEF GuestPropose, GuestStopsBatch, GuestDecided, GuestBatchDone
<1>3. CASE GuestFinish \/ GuestFails
  BY Zenon, <1>3 DEF GuestFinish, GuestFails
<1>4. QED
  BY Zenon, <1>1, <1>2, <1>3 DEF GuestNext

\* What one evaluate() leaves behind in the three steps that touch the broker.
LEMMA CallOpens ==
  ASSUME ProbeInv, HandleProposal
  PROVE  /\ stage = "control" /\ stage' = "evaluating" /\ UNCHANGED <<events, revoked, wstate>>
         /\ ~tripped /\ Len(events) < MaxCalls /\ call'.step \in {"revoke", "record"}
<1>1. /\ stage = "control" /\ stage' = "evaluating" /\ toHost.type = "proposal"
      /\ UNCHANGED wstate
  BY Zenon DEF HandleProposal, Goto, workerVars
<1>2. ~tripped /\ Len(events) < MaxCalls
  BY Zenon, <1>1 DEF ProbeInv, LockstepInv
<1>3. PICK p \in Broker!Proposal : Broker!Evaluate(p)
  BY Zenon, <1>1, ProposalInRange DEF HandleProposal
<1>4. UNCHANGED <<events, revoked>>
  BY Zenon, <1>3 DEF Broker!Evaluate, Broker!EvaluateGap, Broker!EvaluateAlreadyTripped,
     Broker!EvaluateOverBudget, Broker!EvaluateProhibited, Broker!EvaluateDeclared,
     Broker!EvaluateUndeclared
<1>5. call'.step \in {"revoke", "record"}
  <2>1. \E step \in {"revoke", "record"} : \E disposition, reason :
           Broker!Decide(p, disposition, reason, step)
    BY Zenon, <1>3 DEF Broker!Evaluate, Broker!EvaluateGap, Broker!EvaluateAlreadyTripped,
       Broker!EvaluateOverBudget, Broker!EvaluateProhibited, Broker!EvaluateDeclared,
       Broker!EvaluateUndeclared, Broker!Trip
  <2>2. QED
    BY SMTT(20), <2>1 DEF Broker!Decide
<1>6. QED
  BY Zenon, <1>1, <1>2, <1>4, <1>5

LEMMA CallCloses ==
  ASSUME ProbeInv, Answer
  PROVE  /\ stage = "evaluating" /\ stage' \in {"control", "stop_worker"}
         /\ UNCHANGED <<tripped, revoked, wstate>>
         /\ call.step = "record" /\ call'.step = "none"
         /\ Len(events) \in Nat /\ Len(events') = Len(events) + 1
<1>1. /\ stage = "evaluating" /\ stage' \in {"control", "stop_worker"} /\ UNCHANGED wstate
      /\ Broker!RecordEvent
  BY Zenon DEF Answer, Goto, Fails, workerVars
<1>2. events \in Seq(Broker!Event) /\ call \in [step : {"revoke", "record"}, event : Broker!Event]
  BY SMTT(20), <1>1 DEF ProbeInv, ProbeTypeOK, Broker!RecordEvent, Broker!NoCall
<1>3. call.event \in Broker!Event
  BY Zenon, <1>2
<1>4. Len(events) \in Nat /\ Len(events') = Len(events) + 1
  BY SMTT(20), <1>1, <1>2, <1>3 DEF Broker!RecordEvent
<1>5. QED
  BY Zenon, <1>1, <1>4 DEF Broker!RecordEvent, Broker!NoCall

\* The revoke callback: stop() begins, or returns and lets evaluate() go on.
LEMMA CallRevokes ==
  ASSUME ProbeInv, Revoke
  PROVE  /\ stage = "evaluating" /\ UNCHANGED <<stage, events, tripped>>
         /\ call.step = "revoke" /\ tripped
         /\ \/ /\ wstate \in {"starting", "running"} /\ wstate' = "stopping"
               /\ UNCHANGED <<call, revoked>>
            \/ wstate = "stopping" /\ call'.step = "record" /\ revoked'
<1>1. stage = "evaluating" /\ UNCHANGED stage /\ call.step = "revoke"
  BY Zenon DEF Revoke, runtimeVars
<1>2. tripped
  BY Zenon, <1>1 DEF ProbeInv, TripInv
<1>3. CASE Worker!BeginStop /\ UNCHANGED brokerVars
  BY Zenon, <1>1, <1>2, <1>3 DEF Worker!BeginStop, brokerVars
<1>4. CASE (Worker!StopClean \/ Worker!StopDirty) /\ Broker!RunRevoke
  <2>1. call \in [step : {"revoke", "record"}, event : Broker!Event]
    BY SMTT(20), <1>1 DEF ProbeInv, ProbeTypeOK, Broker!NoCall
  <2>2. call'.step = "record" /\ revoked' /\ UNCHANGED <<events, tripped>>
    BY Zenon, <1>4, <2>1 DEF Broker!RunRevoke
  <2>3. wstate = "stopping"
    BY Zenon, <1>4 DEF Worker!StopClean, Worker!StopDirty
  <2>4. QED
    BY Zenon, <1>1, <1>2, <2>2, <2>3
<1>5. QED
  BY Zenon, <1>3, <1>4 DEF Revoke

\* The steps that touch neither the broker nor the worker's state.
LEMMA HostGoesOn ==
  ASSUME ProbeInv,
         Refuse \/ Admit \/ Launch \/ StartGuest \/ SendRun \/ HandleResult \/ ControlFails
           \/ PersistEvidence \/ Purge \/ Reduce
  PROVE  /\ UNCHANGED <<brokerVars, wstate, artifacts>>
         /\ <<stage, stage'>> \in
              {<<"admission", "reduce">>, <<"admission", "launch">>,
               <<"launch", "proxy_setup">>, <<"launch", "stop_worker">>,
               <<"guest_start", "send_run">>, <<"guest_start", "stop_worker">>,
               <<"send_run", "control">>, <<"send_run", "stop_worker">>,
               <<"control", "evidence">>, <<"control", "stop_worker">>,
               <<"evidence", "stop_worker">>, <<"purge", "reduce">>,
               <<"reduce", "write">>, <<"reduce", "raised">>}
<1> USE DEF workerVars, runnerVars, Goto, Fails
<1>1. CASE Refuse \/ Admit \/ Launch
  BY Zenon, <1>1 DEF Refuse, Admit, Launch
<1>2. CASE StartGuest \/ SendRun
  BY Zenon, <1>2 DEF StartGuest, SendRun
<1>3. CASE HandleResult \/ ControlFails \/ PersistEvidence
  BY Zenon, <1>3 DEF HandleResult, ControlFails, PersistEvidence
<1>4. CASE Purge \/ Reduce
  BY Zenon, <1>4 DEF Purge, Reduce
<1>5. QED
  BY Zenon, <1>1, <1>2, <1>3, <1>4

\* The steps that start and stop the worker.
LEMMA HostDrivesWorker ==
  ASSUME StartWorker \/ StopWorker
  PROVE  /\ UNCHANGED <<brokerVars, artifacts>>
         /\ \/ /\ stage = "proxy_setup" /\ stage' = stage
               /\ wstate = "new" /\ wstate' = "starting"
            \/ stage = "proxy_setup" /\ stage' = "guest_start" /\ wstate' = "running"
            \/ stage = "proxy_setup" /\ stage' = "stop_worker"
            \/ /\ stage = "stop_worker" /\ stage' = stage
               /\ wstate \in {"starting", "running"} /\ wstate' = "stopping"
            \/ stage = "stop_worker" /\ stage' = "purge"
<1> USE DEF workerVars, runnerVars, Goto, Fails
<1>1. CASE StartWorker
  BY Zenon, <1>1 DEF StartWorker, Worker!BeginStart, Worker!StartSucceeds
<1>2. CASE StopWorker
  BY Zenon, <1>2 DEF StopWorker, Worker!BeginStop
<1>3. QED
  BY Zenon, <1>1, <1>2

LEMMA HostKeepsReady ==
  ASSUME ProbeInv, ReadyInv, BudgetInv, HostNext
  PROVE  ReadyInv' /\ BudgetInv'
<1> USE DEF ReadyInv, BudgetInv
<1>0. events \in Seq(Broker!Event) /\ MaxCalls \in Nat
  BY Zenon, ProbeAssumption DEF ProbeInv, ProbeTypeOK
<1>1. CASE HandleProposal
  BY SMTT(20), <1>1, CallOpens
<1>2. CASE Revoke
  BY SMTT(20), <1>2, CallRevokes
<1>3. CASE Answer
  BY SMTT(20), <1>0, <1>3, CallCloses
<1>4. CASE Refuse \/ Admit \/ Launch \/ StartGuest \/ SendRun \/ HandleResult \/ ControlFails
             \/ PersistEvidence \/ Purge \/ Reduce
  <2>1. stage = "launch" => wstate = "new"
    BY Zenon DEF ProbeInv, RuntimeInv
  <2>2. QED
    BY SMTT(20), <1>4, <2>1, HostGoesOn DEF brokerVars
<1>5. CASE StartWorker \/ StopWorker
  BY SMTT(20), <1>5, HostDrivesWorker DEF brokerVars
<1>6. CASE WriteArtifact
  <2>1. UNCHANGED <<brokerVars, wstate>>
    BY Zenon, <1>6 DEF WriteArtifact, workerVars
  <2>2. stage' \in {"write", "done", "raised"}
    BY Zenon, <1>6, WritesInOrder
  <2>3. QED
    BY Zenon, <2>1, <2>2 DEF brokerVars
<1>7. QED
  BY Zenon, <1>1, <1>2, <1>3, <1>4, <1>5, <1>6 DEF HostNext

\* Neither the guest nor the environment takes the host's next step away, or gives it more.
LEMMA OthersLeaveHost ==
  ASSUME GuestNext \/ EnvNext \/ UNCHANGED vars
  PROVE  /\ UNCHANGED <<brokerVars, wstate, artifacts>>
         /\ stage' = stage \/ stage' = "crashed"
<1> USE DEF workerVars, runtimeVars, runnerVars
<1>1. CASE GuestNext
  BY Zenon, <1>1, GuestLeavesHost
<1>2. CASE EnvNext
  BY Zenon, <1>2 DEF EnvNext, DeadlinePasses, GuestDies, WorkerMoves, HostCrashes, Goto,
     Worker!Listen, Worker!Close
<1>3. CASE UNCHANGED vars
  BY Zenon, <1>3 DEF vars
<1>4. QED
  BY Zenon, <1>1, <1>2, <1>3

LEMMA ReadyInvariant == Spec => [](ProbeInv /\ ReadyInv /\ BudgetInv)
<1>1. Init => ReadyInv /\ BudgetInv
  BY SMTT(20), ProbeAssumption DEF Init, Broker!BrokerInit, Broker!NoCall, ReadyInv, BudgetInv
<1>2. ProbeInv /\ ReadyInv /\ BudgetInv /\ [Next]_vars => ReadyInv' /\ BudgetInv'
  <2> SUFFICES ASSUME ProbeInv, ReadyInv, BudgetInv, [Next]_vars
               PROVE  ReadyInv' /\ BudgetInv'
    BY Zenon
  <2>1. CASE HostNext
    BY Zenon, <2>1, HostKeepsReady
  <2>2. CASE GuestNext \/ EnvNext \/ UNCHANGED vars
    BY SMTT(20), <2>2, OthersLeaveHost DEF ReadyInv, BudgetInv, brokerVars
  <2>3. QED
    BY Zenon, <2>1, <2>2 DEF Next
<1>3. QED
  BY <1>1, <1>2, ProbeInvariant, PTL DEF Spec

\* The safety half of RunEnds, first part.  The host is never left waiting for a worker
\* that cannot be started or stopped, or for an artefact it cannot write next; everywhere
\* else it may go on at once, or the guest's frame or the deadline lets it
\* (firecracker_runtime.py's control loop, browser_egress_worker.py's start and stop).
THEOREM HostNeverStuck == Spec => []HostCanMove
<1>1. ProbeInv /\ ReadyInv => HostCanMove
  <2> SUFFICES ASSUME ProbeInv, ReadyInv PROVE HostCanMove
    BY Zenon
  <2>1. stage = "evaluating" => call.step \in {"revoke", "record"}
    BY SMTT(20) DEF ProbeInv, ProbeTypeOK, LockstepInv, Idle, Broker!NoCall
  <2>2. stage = "write" => artifacts \in Written /\ "receipt" \notin artifacts
    BY Zenon DEF ProbeInv, ReceiptInv
  <2>3. QED
    BY Zenon, <2>1, <2>2 DEF HostCanMove, ReadyInv
<1>2. QED
  BY <1>1, ReadyInvariant, PTL

LEMMA LeftIsBounded ==
  ASSUME ProbeInv, BudgetInv
  PROVE  HostLeft \in 0..(4 * MaxCalls + 16) /\ Len(events) \in Nat /\ MaxCalls \in Nat
<1>1. Len(events) \in Nat /\ MaxCalls \in Nat
  BY SMTT(20), ProbeAssumption DEF ProbeInv, ProbeTypeOK
<1>2. StepsToEnd \in 0..16
  BY SMTT(20) DEF StepsToEnd
<1>3. QED
  BY SMTT(20), <1>1, <1>2 DEF HostLeft, BudgetInv

LEMMA HostStepCounts ==
  ASSUME ProbeInv, BudgetInv, HostNext
  PROVE  HostLeft' < HostLeft
<1>0. Len(events) \in Nat /\ MaxCalls \in Nat /\ Len(events) <= MaxCalls
  BY Zenon, LeftIsBounded DEF BudgetInv
<1>1. CASE HandleProposal
  BY SMTT(20), <1>0, <1>1, CallOpens DEF HostLeft, StepsToEnd
<1>2. CASE Revoke
  BY SMTT(20), <1>0, <1>2, CallRevokes DEF HostLeft, StepsToEnd
<1>3. CASE Answer
  BY SMTT(20), <1>0, <1>3, CallCloses DEF HostLeft, StepsToEnd
<1>4. CASE Refuse \/ Admit \/ Launch \/ StartGuest \/ SendRun \/ HandleResult \/ ControlFails
             \/ PersistEvidence \/ Purge \/ Reduce
  BY SMTT(20), <1>0, <1>4, HostGoesOn DEF HostLeft, StepsToEnd, brokerVars
<1>5. CASE StartWorker \/ StopWorker
  BY SMTT(20), <1>0, <1>5, HostDrivesWorker DEF HostLeft, StepsToEnd, brokerVars
<1>6. CASE WriteArtifact
  <2>1. stage = "write" /\ events' = events
    BY Zenon, <1>6 DEF WriteArtifact, brokerVars
  <2>2. QED
    BY SMTT(20), <1>0, <1>6, <2>1, WritesInOrder DEF HostLeft, StepsToEnd
<1>7. QED
  BY Zenon, <1>1, <1>2, <1>3, <1>4, <1>5, <1>6 DEF HostNext

\* The safety half of RunEnds, second part.  The host takes at most 4 * MaxCalls + 16
\* steps, whatever the guest, the provider and the worker do: each of its steps uses up
\* one of those it has left, and nobody else's step gives it more.
THEOREM HostStepsBounded ==
  Spec => /\ [](HostLeft \in 0..(4 * MaxCalls + 16))
          /\ [][HostLeft' <= HostLeft /\ (HostNext => HostLeft' < HostLeft)]_vars
<1> DEFINE Bounded == HostLeft \in 0..(4 * MaxCalls + 16)
           Counts == HostLeft' <= HostLeft /\ (HostNext => HostLeft' < HostLeft)
<1>1. ProbeInv /\ ReadyInv /\ BudgetInv => Bounded
  BY Zenon, LeftIsBounded
<1>2. ProbeInv /\ ReadyInv /\ BudgetInv /\ [Next]_vars => [Counts]_vars
  <2> SUFFICES ASSUME ProbeInv, BudgetInv, Next
               PROVE  Counts
    BY Zenon
  <2>0. HostLeft \in Int /\ Len(events) \in Nat /\ MaxCalls \in Nat
    BY SMTT(20), LeftIsBounded
  <2>1. CASE HostNext
    <3>1. Len(events') \in Int
      BY SMTT(20), <2>0, <2>1, BrokerTouched, CallOpens, CallCloses, CallRevokes DEF brokerVars
    <3>2. HostLeft' < HostLeft
      BY Zenon, <2>1, HostStepCounts
    <3>3. StepsToEnd' \in Int
      BY SMTT(20) DEF StepsToEnd
    <3>4. HostLeft' \in Int
      BY SMTT(20), <2>0, <3>1, <3>3 DEF HostLeft
    <3>5. QED
      BY SMTT(20), <2>0, <3>2, <3>4
  <2>2. CASE ~HostNext
    <3>1. /\ UNCHANGED <<brokerVars, wstate, artifacts>>
          /\ stage' = stage \/ stage' = "crashed"
      BY Zenon, <2>2, OthersLeaveHost DEF Next
    <3>2. QED
      BY SMTT(20), <2>0, <2>2, <3>1 DEF HostLeft, StepsToEnd, brokerVars
  <2>3. QED
    BY Zenon, <2>1, <2>2
<1> HIDE DEF Bounded, Counts
<1>3. Spec => []Bounded /\ [][Counts]_vars
  BY <1>1, <1>2, ReadyInvariant, PTL DEF Spec
<1>4. QED
  BY Zenon, <1>3 DEF Bounded, Counts
===============================================================================
