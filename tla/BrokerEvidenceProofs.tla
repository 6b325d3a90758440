------------------------- MODULE BrokerEvidenceProofs -------------------------
(***************************************************************************)
(* Proofs about the agent-probe broker, for every budget, every set of     *)
(* action codes and every length of the log, and about the sealed          *)
(* transcript of its guest, for every budget and every record length.      *)
(*                                                                         *)
(* FirstTripDecides is not inductive: it says nothing of the call that     *)
(* still holds the lock.  BrokerInv adds what that call has established    *)
(* (CallInv), and how the trip flag, the revocation and the log go         *)
(* together between two calls (TripInv).                                   *)
(*                                                                         *)
(* AcceptedOpens says nothing of a bundle that is still on its way.        *)
(* StreamInv adds the chain of the chunks the sealer made (Linked), its    *)
(* accounting (SizeInv), and what damage can have made of the list         *)
(* (BundleInv); FileInv follows the file through the host's stages.        *)
(***************************************************************************)
EXTENDS AgentBroker, EvidenceStream, FiniteSetTheorems, TLAPS

-------------------------------------------------------------------------------
(* The broker.                                                                 *)

\* The trip flag, the revocation and the log: an untripped broker has only
\* granted; a tripped one has revoked, except while the callback runs.
TripInv ==
  /\ ~tripped => \A i \in DOMAIN events : Allowed(i)
  /\ revoked => tripped
  /\ tripped /\ call.step # "revoke" => revoked

\* What the call in progress has established when it reaches each step.
CallInv ==
  /\ call.step = "revoke" =>
       /\ tripped /\ ~revoked
       /\ call.event.disposition = "tripped"
       /\ call.event.reason = trip_reason
       /\ \A i \in DOMAIN events : Allowed(i)
  /\ call.step = "record" =>
       /\ call.event.disposition = "allowed" => ~tripped /\ Len(events) < MaxCalls
       /\ call.event.disposition # "allowed" => tripped
       /\ (\A i \in DOMAIN events : Allowed(i)) /\ tripped =>
            call.event.disposition = "tripped" /\ call.event.reason = trip_reason
       /\ call.event.disposition = "denied" => call.event.reason = trip_reason
  /\ call.step = "none" /\ tripped => \E i \in DOMAIN events : ~Allowed(i)

\* The log itself: its first refusal is the trip, and refusals quote its reason.
LogInv ==
  /\ \A i \in DOMAIN events :
        (~Allowed(i) /\ \A j \in 1..(i - 1) : Allowed(j)) =>
           events[i].disposition = "tripped" /\ events[i].reason = trip_reason
  /\ \A k \in DOMAIN events :
        events[k].disposition = "denied" => events[k].reason = trip_reason

BrokerInv == BrokerTypeOK /\ TripInv /\ CallInv /\ LogInv

-----------------------------------------------------------------------------
\* The reason table only holds reasons a trip may have.
LEMMA ProhibitedReasonType ==
  ASSUME NEW a \in Prohibited
  PROVE  ProhibitedReason[a] \in Reasons /\ ProhibitedReason[a] # "NONE"
BY SMTT(20) DEF Prohibited, ProhibitedReason, Reasons

\* Every evaluate() call keeps the types.
LEMMA EvaluateType ==
  ASSUME NEW p \in Proposal, BrokerTypeOK, Evaluate(p)
  PROVE  BrokerTypeOK'
<1> USE BrokerAssumption DEF BrokerTypeOK, Proposal, Event, Reasons
<1>1. CASE EvaluateGap(p)
  <2>1. CASE tripped
    BY <1>1, <2>1 DEF EvaluateGap, Decide, NoCall
  <2>2. CASE ~tripped
    BY <1>1, <2>2 DEF EvaluateGap, Trip, Decide, NoCall
  <2>3. QED
    BY Zenon, <2>1, <2>2
<1>2. CASE EvaluateAlreadyTripped(p)
  BY Zenon, <1>2 DEF EvaluateAlreadyTripped, Decide, NoCall
<1>3. CASE EvaluateOverBudget(p)
  BY Zenon, <1>3 DEF EvaluateOverBudget, Trip, Decide, NoCall
<1>4. CASE EvaluateProhibited(p)
  BY Zenon, <1>4, ProhibitedReasonType DEF EvaluateProhibited, Trip, Decide, NoCall
<1>5. CASE EvaluateDeclared(p)
  BY Zenon, <1>5 DEF EvaluateDeclared, Decide, NoCall
<1>6. CASE EvaluateUndeclared(p)
  BY Zenon, <1>6 DEF EvaluateUndeclared, Trip, Decide, NoCall
<1>7. QED
  BY Zenon, <1>1, <1>2, <1>3, <1>4, <1>5, <1>6 DEF Evaluate

\* A call that is only being decided leaves the log alone, and establishes
\* what its next step relies on.
LEMMA EvaluateKeepsInv ==
  ASSUME NEW p \in Proposal, BrokerInv, Evaluate(p)
  PROVE  BrokerInv'
<1> USE DEF NoCall
<1>0. BrokerTypeOK'
  BY Zenon, EvaluateType DEF BrokerInv
<1>a. call = NoCall /\ events' = events /\ revoked' = revoked
  BY Zenon DEF Evaluate, EvaluateGap, EvaluateAlreadyTripped, EvaluateOverBudget,
         EvaluateProhibited, EvaluateDeclared, EvaluateUndeclared, Enter
<1>b. call.step = "none"
  BY Zenon, <1>a
<1>1. ASSUME NEW r, ~tripped, Trip(p, r)
      PROVE  TripInv' /\ CallInv' /\ LogInv'
  BY Zenon, <1>1, <1>a, <1>b DEF BrokerInv, BrokerTypeOK, TripInv, CallInv, LogInv, Trip, Decide,
     Allowed
<1>2. ASSUME tripped, Decide(p, "tripped", "MISSING_EVIDENCE_SEQUENCE", "record"),
             UNCHANGED <<tripped, trip_reason>>
      PROVE  TripInv' /\ CallInv' /\ LogInv'
  BY Zenon, <1>2, <1>a, <1>b DEF BrokerInv, BrokerTypeOK, TripInv, CallInv, LogInv, Decide, Allowed
<1>3. CASE EvaluateGap(p)
  BY Zenon, <1>0, <1>1, <1>2, <1>3 DEF EvaluateGap, BrokerInv
<1>4. CASE EvaluateAlreadyTripped(p)
  BY <1>0, <1>4, <1>a, <1>b DEF EvaluateAlreadyTripped, Decide, BrokerInv, BrokerTypeOK, TripInv,
     CallInv, LogInv, Allowed
<1>5. CASE EvaluateOverBudget(p)
  BY Zenon, <1>0, <1>1, <1>5 DEF EvaluateOverBudget, BrokerInv
<1>6. CASE EvaluateProhibited(p)
  BY Zenon, <1>0, <1>1, <1>6 DEF EvaluateProhibited, BrokerInv
<1>7. CASE EvaluateDeclared(p)
  BY <1>0, <1>7, <1>a, <1>b DEF EvaluateDeclared, InOrder, Decide, BrokerInv, BrokerTypeOK,
     TripInv, CallInv, LogInv, Allowed
<1>8. CASE EvaluateUndeclared(p)
  BY Zenon, <1>0, <1>1, <1>8 DEF EvaluateUndeclared, BrokerInv
<1>9. QED
  BY Zenon, <1>3, <1>4, <1>5, <1>6, <1>7, <1>8 DEF Evaluate

\* The revoke callback turns the tripped, unrevoked call into a revoked one.
LEMMA RunRevokeKeepsInv ==
  ASSUME BrokerInv, RunRevoke
  PROVE  BrokerInv'
<1>1. call \in [step : {"revoke", "record"}, event : Event]
  BY DEF BrokerInv, BrokerTypeOK, RunRevoke, NoCall
<1>2. call'.step = "record" /\ call'.event = call.event
      /\ call' \in [step : {"revoke", "record"}, event : Event]
  BY Zenon, <1>1 DEF RunRevoke
<1>3. BrokerTypeOK'
  BY Zenon, <1>2 DEF BrokerInv, BrokerTypeOK, RunRevoke
<1>4. TripInv' /\ CallInv' /\ LogInv'
  BY Zenon, <1>2 DEF BrokerInv, TripInv, CallInv, LogInv, RunRevoke, Allowed
<1>5. QED
  BY Zenon, <1>3, <1>4 DEF BrokerInv

\* Appending the event keeps the shape of the log.
LEMMA RecordEventKeepsInv ==
  ASSUME BrokerInv, RecordEvent
  PROVE  BrokerInv'
<1>1. call \in [step : {"revoke", "record"}, event : Event] /\ events \in Seq(Event)
  BY DEF BrokerInv, BrokerTypeOK, RecordEvent, NoCall
<1>n. PICK n \in Nat : n = Len(events)
  BY <1>1
<1>2. /\ events' \in Seq(Event)
      /\ DOMAIN events' = 1..(n + 1) /\ DOMAIN events = 1..n
      /\ \A i \in 1..n : events'[i] = events[i]
      /\ events'[n + 1] = call.event
  BY <1>1, <1>n DEF RecordEvent
<1>3. BrokerTypeOK'
  BY Zenon, <1>2 DEF BrokerInv, BrokerTypeOK, RecordEvent
<1>4. /\ \A i \in 1..n : Allowed(i)' <=> Allowed(i)
      /\ Allowed(n + 1)' <=> call.event.disposition = "allowed"
  BY Zenon, <1>2 DEF Allowed
<1>5. TripInv'
  BY <1>n, <1>2, <1>4 DEF BrokerInv, TripInv, CallInv, RecordEvent, NoCall
<1>6. CallInv'
  BY <1>n, <1>2, <1>4 DEF BrokerInv, TripInv, CallInv, RecordEvent, NoCall
<1>7. LogInv'
  BY <1>n, <1>2, <1>4, SMTT(30) DEF BrokerInv, CallInv, LogInv, RecordEvent
<1>8. QED
  BY Zenon, <1>3, <1>5, <1>6, <1>7 DEF BrokerInv

\* Nothing has happened yet in the state a new broker starts in.
LEMMA InitInv == BrokerInit => BrokerInv
<1> SUFFICES ASSUME BrokerInit PROVE BrokerInv
  BY Zenon
<1>1. BrokerTypeOK
  <2>1. tripped \in BOOLEAN /\ revoked \in BOOLEAN /\ (tripped <=> trip_reason # "NONE")
    BY Zenon DEF BrokerInit
  <2>2. events \in Seq(Event) /\ call \in {NoCall} /\ trip_reason \in {"NONE"}
    BY DEF BrokerInit
  <2>3. QED
    BY Zenon, <2>1, <2>2 DEF BrokerTypeOK
<1>2. call.step = "none" /\ DOMAIN events = {}
  BY DEF BrokerInit, NoCall
<1>3. TripInv /\ CallInv /\ LogInv
  BY Zenon, <1>2 DEF BrokerInit, TripInv, CallInv, LogInv
<1>4. QED
  BY Zenon, <1>1, <1>3 DEF BrokerInv

\* One step of the broker, or a stutter, keeps the inductive invariant.
LEMMA NextInv == BrokerInv /\ [BrokerNext]_brokerVars => BrokerInv'
<1> SUFFICES ASSUME BrokerInv, [BrokerNext]_brokerVars PROVE BrokerInv'
  BY Zenon
<1>1. ASSUME NEW p \in Proposal, Evaluate(p) PROVE BrokerInv'
  BY Zenon, <1>1, EvaluateKeepsInv
<1>2. CASE RunRevoke
  BY Zenon, <1>2, RunRevokeKeepsInv
<1>3. CASE RecordEvent
  BY Zenon, <1>3, RecordEventKeepsInv
<1>4. CASE UNCHANGED brokerVars
  BY <1>4 DEF brokerVars, BrokerInv, BrokerTypeOK, TripInv, CallInv, LogInv, Allowed
<1>5. QED
  BY Zenon, <1>1, <1>2, <1>3, <1>4 DEF BrokerNext

\* The inductive invariant holds throughout every run of the broker
\* (agent_probe/broker.py, evaluate and _event).
THEOREM BrokerInvariant == BrokerSpec => []BrokerInv
BY InitInv, NextInv, PTL DEF BrokerSpec

\* Type correctness of the broker's state, with a reason kept exactly when the
\* trip flag is set (broker.py:111-112, 87).
THEOREM BrokerTypeCorrect == BrokerSpec => []BrokerTypeOK
<1>1. BrokerInv => BrokerTypeOK
  BY Zenon DEF BrokerInv
<1>2. QED
  BY <1>1, BrokerInvariant, PTL

\* The first refusal in the broker's log is a trip and every later denial
\* repeats its reason, however many calls follow and however out of order
\* their sequence numbers are (broker.py:78-89).
THEOREM FirstTripAlwaysDecides == BrokerSpec => []FirstTripDecides
<1>1. BrokerInv => FirstTripDecides
  <2> SUFFICES ASSUME BrokerInv, NEW i \in DOMAIN events, ~Allowed(i),
                      \A j \in 1..(i - 1) : Allowed(j)
               PROVE  /\ events[i].disposition = "tripped"
                      /\ events[i].reason = trip_reason
                      /\ \A k \in DOMAIN events : events[k].disposition = "denied" =>
                            k > i /\ events[k].reason = events[i].reason
    BY Zenon DEF FirstTripDecides
  <2>1. events[i].disposition = "tripped" /\ events[i].reason = trip_reason
    BY Zenon DEF BrokerInv, LogInv
  <2>2. DOMAIN events = 1..Len(events) /\ Len(events) \in Nat
    BY DEF BrokerInv, BrokerTypeOK
  <2>3. ASSUME NEW k \in DOMAIN events, events[k].disposition = "denied"
        PROVE  k > i /\ events[k].reason = events[i].reason
    BY <2>1, <2>2, <2>3 DEF BrokerInv, LogInv, Allowed
  <2>4. QED
    BY Zenon, <2>1, <2>3
<1>2. QED
  BY <1>1, BrokerInvariant, PTL

-----------------------------------------------------------------------------
\* What the proposer has been told, as AgentAuthority sees the log.
Answers == [i \in DOMAIN events |-> IF Allowed(i) THEN "granted" ELSE "refused"]

\* Appending one event appends one answer.
LEMMA AnswersAppend ==
  ASSUME BrokerInv, RecordEvent
  PROVE  Answers' = Append(Answers, IF call.event.disposition = "allowed"
                                    THEN "granted" ELSE "refused")
         /\ Len(Answers) = Len(events)
<1>1. call \in [step : {"revoke", "record"}, event : Event] /\ events \in Seq(Event)
  BY DEF BrokerInv, BrokerTypeOK, RecordEvent, NoCall
<1>n. PICK n \in Nat : n = Len(events)
  BY <1>1
<1>2. /\ DOMAIN events' = 1..(n + 1) /\ DOMAIN events = 1..n
      /\ \A i \in 1..n : events'[i] = events[i]
      /\ events'[n + 1] = call.event
  BY <1>1, <1>n DEF RecordEvent
<1>3. Answers \in Seq({"granted", "refused"}) /\ Len(Answers) = n
  BY <1>2 DEF Answers
<1>4. Answers' = [i \in 1..(n + 1) |-> IF events'[i].disposition = "allowed" THEN "granted" ELSE "refused"]
  BY Zenon, <1>2 DEF Answers, Allowed
<1>5. QED
  BY <1>n, <1>2, <1>3, <1>4 DEF Answers, Allowed

\* The broker implements AgentAuthority: it grants in order and within the
\* budget, stops for good at the first trip, and answers no refusal before the
\* egress worker is stopped (broker.py:110-115).
THEOREM BrokerKeepsAuthority == BrokerSpec => AuthorityKept
<1>1. BrokerInit => Authority!Init
  BY DEF BrokerInit, Authority!Init
<1>2. BrokerInv /\ [BrokerNext]_brokerVars => [Authority!Next]_(Authority!authorityVars)
  <2> SUFFICES ASSUME BrokerInv, [BrokerNext]_brokerVars
               PROVE  [Authority!Next]_(Authority!authorityVars)
    BY Zenon
  <2>1. ASSUME NEW p \in Proposal, Evaluate(p)
        PROVE  Authority!Cut \/ UNCHANGED Authority!authorityVars
    <3>1. events' = events /\ revoked' = revoked
      BY Zenon, <2>1 DEF Evaluate, EvaluateGap, EvaluateAlreadyTripped, EvaluateOverBudget,
             EvaluateProhibited, EvaluateDeclared, EvaluateUndeclared
    <3>2. (~tripped /\ tripped') \/ tripped' = tripped
      BY Zenon, <2>1 DEF Evaluate, EvaluateGap, EvaluateAlreadyTripped, EvaluateOverBudget,
             EvaluateProhibited, EvaluateDeclared, EvaluateUndeclared, Trip
    <3>3. QED
      BY <3>1, <3>2 DEF Authority!Cut, Authority!authorityVars, Allowed
  <2>2. CASE RunRevoke
    BY Zenon, <2>2 DEF RunRevoke, BrokerInv, CallInv, Authority!Next, Authority!GoDown, Allowed
  <2>3. CASE RecordEvent
    <3>1. CASE call.event.disposition = "allowed"
      <4>1. ~tripped /\ Len(events) < MaxCalls
        BY Zenon, <2>3, <3>1 DEF RecordEvent, BrokerInv, CallInv
      <4>2. Answers' = Append(Answers, "granted") /\ Len(Answers) < MaxCalls
        BY Zenon, <2>3, <3>1, <4>1, AnswersAppend
      <4>3. QED
        BY Zenon, <2>3, <4>1, <4>2 DEF RecordEvent, Authority!Next, Authority!Grant, Answers
    <3>2. CASE call.event.disposition # "allowed"
      <4>1. tripped /\ revoked
        BY Zenon, <2>3, <3>2 DEF RecordEvent, BrokerInv, TripInv, CallInv
      <4>2. Answers' = Append(Answers, "refused")
        BY Zenon, <2>3, <3>2, AnswersAppend
      <4>3. QED
        BY Zenon, <2>3, <4>1, <4>2 DEF RecordEvent, Authority!Next, Authority!Refuse, Answers
    <3>3. QED
      BY Zenon, <3>1, <3>2
  <2>4. CASE UNCHANGED brokerVars
    BY Zenon, <2>4 DEF brokerVars, Authority!authorityVars, Allowed
  <2>5. QED
    BY Zenon, <2>1, <2>2, <2>3, <2>4 DEF BrokerNext, Authority!Next
<1>3. QED
  BY <1>1, <1>2, BrokerInvariant, PTL DEF BrokerSpec, AuthorityKept, Authority!Spec

-------------------------------------------------------------------------------
(* The sealed transcript.                                                      *)

ChunkRecords ==
  [sequence : Nat, ciphertext : Nat, size : Nat, final : BOOLEAN,
   aad : [sequence : Nat, previous : Nat, final : BOOLEAN]]

\* What the sealer has made: the i-th chunk is the i-th ciphertext of the
\* stream, names its predecessor, and carries the final tag only when it is the
\* last of a finished stream.
Linked ==
  \A i \in DOMAIN chunks :
    /\ chunks[i].sequence = i - 1 /\ chunks[i].ciphertext = i
    /\ chunks[i].size = records[i] + Overhead
    /\ chunks[i].final = (finalized /\ i = Len(chunks))
    /\ chunks[i].aad = [sequence |-> i - 1, previous |-> i - 1, final |-> chunks[i].final]

SealTypeOK ==
  /\ chunks \in Seq(ChunkRecords) /\ records \in Seq(Nat) /\ Len(records) = Len(chunks)
  /\ cipher \in Nat /\ finalized \in BOOLEAN
  /\ guest \in {"start", "probing", "sealed", "sent", "failed"}
  /\ target \in Nat /\ budget \in Nat

\* The running count is the size of the chunks and within the budget.
SizeInv ==
  /\ ciphertext_bytes \in Nat /\ ciphertext_bytes <= budget
  /\ IsFiniteSet(Units(chunks)) /\ Total(chunks) = ciphertext_bytes

\* The cipher stands at the last chunk unless the guest has failed, the stream is
\* finished once it is sealed, and its length leaves room for the last record.
StageInv ==
  /\ guest # "failed" => cipher = Len(chunks)
  /\ guest = "start" => chunks = <<>>
  /\ guest \in {"start", "probing"} => ~finalized /\ Len(chunks) <= MaxRecords
  /\ guest \in {"sealed", "sent"} =>
       finalized /\ Len(chunks) \in 1..(MaxRecords + 1)

\* The frame was not too long for the guest, the manifest is the sealer's, and a
\* list of the right length holds only records that the sealer made.
BundleInv ==
  guest = "sent" =>
    /\ FrameLength(chunks) <= MaxFrame
    /\ bundle \in [chunks : Seq(ChunkRecords), root : {Sealed.root},
                   count : {Len(chunks)}, total : {ciphertext_bytes}]
    /\ Len(bundle.chunks) = Len(chunks) =>
         \A i \in DOMAIN bundle.chunks : \E k \in DOMAIN chunks : bundle.chunks[i] = chunks[k]

Accepting == {"create", "write", "sync", "rename", "syncdir", "admitted", "lost_admitted"}

HostInv ==
  /\ host \in Accepting \cup {"refused"} => guest = "sent"
  /\ AcceptedOpens /\ HonestAccepted

\* What is on the disk at every stage of the host.
FileInv ==
  /\ file \in [content : {"none", "partial", "whole"}, synced : BOOLEAN,
               entry : {"none", "cached", "durable"}]
  /\ file.synced => file.content = "whole"
  /\ file.entry # "none" => file.synced
  /\ host \in {"control", "create", "write", "sync"} => ~file.synced
  /\ host = "sync" => file.content = "whole"
  /\ host \in {"rename", "syncdir", "admitted", "lost_admitted"} => file.synced
  /\ host \in {"admitted", "lost_admitted"} => file.entry = "durable"

StreamInv == SealTypeOK /\ Linked /\ SizeInv /\ StageInv /\ BundleInv /\ HostInv /\ FileInv
-------------------------------------------------------------------------------
(* Chunk lists                                                                 *)

LEMMA Column ==
  ASSUME NEW n, NEW m \in Nat
  PROVE  IsFiniteSet({n} \X (1..m)) /\ Cardinality({n} \X (1..m)) = m
<1> DEFINE A == {n}
           B == 1..m
<1>1. IsFiniteSet(A) /\ Cardinality(A) = 1
  BY Zenon, FS_Singleton
<1>2. IsFiniteSet(B) /\ Cardinality(B) = m
  <2>1. 1 \in Int /\ m \in Int
    OBVIOUS
  <2>2. IsFiniteSet(B) /\ Cardinality(B) = IF 1 > m THEN 0 ELSE m - 1 + 1
    BY <2>1, FS_Interval, Zenon
  <2> HIDE DEF B
  <2>3. QED
    BY <2>2
<1> HIDE DEF A, B
<1>3. IsFiniteSet(A \X B) /\ Cardinality(A \X B) = Cardinality(A) * Cardinality(B)
  BY <1>1, <1>2, FS_Product, Zenon
<1>4. IsFiniteSet(A \X B) /\ Cardinality(A \X B) = m
  BY <1>1, <1>2, <1>3
<1>5. QED
  BY Zenon, <1>4 DEF A, B

\* The units of a list with one more chunk are as many more as that chunk holds.
LEMMA AppendUnits ==
  ASSUME NEW cs \in Seq(ChunkRecords), NEW c \in ChunkRecords, IsFiniteSet(Units(cs))
  PROVE  /\ IsFiniteSet(Units(Append(cs, c)))
         /\ Total(Append(cs, c)) = Total(cs) + c.size
<1> DEFINE n == Len(cs) + 1
           New == {n} \X (1..c.size)
<1>1. c.size \in Nat /\ n \in Nat /\ n \notin DOMAIN cs
  BY DEF ChunkRecords
<1>2. Units(Append(cs, c)) = Units(cs) \cup New
  <2>1. DOMAIN Append(cs, c) = DOMAIN cs \cup {n}
    OBVIOUS
  <2>2. Append(cs, c)[n] = c /\ \A i \in DOMAIN cs : Append(cs, c)[i] = cs[i]
    OBVIOUS
  <2>3. QED
    BY <1>1, <2>1, <2>2 DEF Units
<1>3. Units(cs) \cap New = {}
  BY <1>1 DEF Units
<1>4. IsFiniteSet(New) /\ Cardinality(New) = c.size
  BY Zenon, <1>1, Column
<1> HIDE DEF New
<1>5. Cardinality(Units(cs)) \in Nat
  BY Zenon, FS_CardinalityType
<1>6. IsFiniteSet(Units(cs) \cup New)
      /\ Cardinality(Units(cs) \cup New) =
           Cardinality(Units(cs)) + Cardinality(New) - Cardinality(Units(cs) \cap New)
  BY Zenon, <1>4, FS_Union
<1>7. Cardinality(Units(cs) \cap New) = 0
  BY Zenon, <1>3, FS_EmptySet
<1>8. QED
  BY <1>1, <1>2, <1>4, <1>5, <1>6, <1>7 DEF Total

LEMMA Joined ==
  ASSUME NEW s \in Seq(ChunkRecords), NEW t \in Seq(ChunkRecords)
  PROVE  s \o t \in Seq(ChunkRecords) /\ Len(s \o t) = Len(s) + Len(t)
OBVIOUS

\* A list that lost a record is one shorter, one with a record doubled one
\* longer.
LEMMA Shorter ==
  ASSUME NEW s \in Seq(ChunkRecords), NEW i \in DOMAIN s
  PROVE  RemoveAt(s, i) \in Seq(ChunkRecords) /\ Len(RemoveAt(s, i)) = Len(s) - 1
<1> DEFINE p == SubSeq(s, 1, i - 1)
           q == SubSeq(s, i + 1, Len(s))
<1>1. i \in 1..Len(s) /\ Len(s) \in Nat
  OBVIOUS
<1>2. p \in Seq(ChunkRecords) /\ Len(p) = i - 1
  BY <1>1
<1>3. q \in Seq(ChunkRecords) /\ Len(q) = Len(s) - i
  BY <1>1
<1>4. RemoveAt(s, i) = p \o q
  BY Zenon DEF RemoveAt
<1> HIDE DEF p, q
<1>5. QED
  BY <1>1, <1>2, <1>3, <1>4

LEMMA Longer ==
  ASSUME NEW s \in Seq(ChunkRecords), NEW i \in DOMAIN s, NEW e \in ChunkRecords
  PROVE  InsertAt(s, i, e) \in Seq(ChunkRecords) /\ Len(InsertAt(s, i, e)) = Len(s) + 1
<1> DEFINE p == SubSeq(s, 1, i - 1)
           q == SubSeq(s, i, Len(s))
           r == p \o <<e>>
<1>1. i \in 1..Len(s) /\ Len(s) \in Nat
  OBVIOUS
<1>2. p \in Seq(ChunkRecords) /\ Len(p) = i - 1
  BY <1>1
<1>3. q \in Seq(ChunkRecords) /\ Len(q) = Len(s) - i + 1
  BY <1>1
<1>4. InsertAt(s, i, e) = r \o q
  BY Zenon DEF InsertAt
<1> HIDE DEF p, q
<1>5. r \in Seq(ChunkRecords) /\ Len(r) = i
  BY <1>1, <1>2
<1> HIDE DEF r
<1>6. r \o q \in Seq(ChunkRecords) /\ Len(r \o q) = Len(r) + Len(q)
  BY Zenon, <1>3, <1>5, Joined
<1>7. Len(r) + Len(q) = Len(s) + 1
  <2>1. Len(r) = i /\ Len(q) = Len(s) - i + 1
    BY Zenon, <1>3, <1>5
  <2>2. i \in Int /\ Len(s) \in Int
    BY SMTT(20), <1>1
  <2>3. QED
    BY <2>1, <2>2
<1>8. QED
  BY <1>4, <1>6, <1>7, Zenon

-------------------------------------------------------------------------------
(* The guest                                                                   *)

\* One more record: the chunk made of it continues the chain.
LEMMA AppendKeepsLinks ==
  ASSUME SealTypeOK, Linked, cipher = Len(chunks), ~finalized,
         NEW size \in Nat, NEW final \in BOOLEAN,
         chunks' = Append(chunks, Chunk(size, final)),
         records' = Append(records, size), finalized' = final
  PROVE  /\ Chunk(size, final) \in ChunkRecords /\ Chunk(size, final).size = size + Overhead
         /\ chunks' \in Seq(ChunkRecords) /\ records' \in Seq(Nat)
         /\ Len(chunks') = Len(chunks) + 1 /\ Len(records') = Len(chunks')
         /\ Linked'
<1> DEFINE c == Chunk(size, final)
           n == Len(chunks) + 1
<1>1. Len(chunks) \in Nat /\ Len(records) = Len(chunks) /\ Overhead \in Nat
  BY Zenon, EvidenceAssumption DEF SealTypeOK
<1>2. Previous = Len(chunks)
  <2>1. CASE chunks = <<>>
    BY Zenon, <2>1 DEF Previous
  <2>2. CASE chunks # <<>>
    <3>1. Len(chunks) \in DOMAIN chunks
      BY SMTT(20), <2>2 DEF SealTypeOK
    <3>2. QED
      BY Zenon, <2>2, <3>1 DEF Previous, Last, Linked
  <2>3. QED
    BY Zenon, <2>1, <2>2
<1>3. /\ c.sequence = n - 1 /\ c.ciphertext = n /\ c.size = size + Overhead /\ c.final = final
      /\ c.aad = [sequence |-> n - 1, previous |-> n - 1, final |-> final]
  BY <1>1, <1>2 DEF Chunk
<1>4. c \in ChunkRecords
  BY <1>1, <1>2 DEF Chunk, ChunkRecords
<1> HIDE DEF c
<1>5. chunks' \in Seq(ChunkRecords) /\ Len(chunks') = n
      /\ chunks'[n] = c /\ \A i \in 1..Len(chunks) : chunks'[i] = chunks[i]
  BY <1>4 DEF SealTypeOK, c
<1>6. records' \in Seq(Nat) /\ Len(records') = n
      /\ records'[n] = size /\ \A i \in 1..Len(chunks) : records'[i] = records[i]
  BY <1>1 DEF SealTypeOK
<1>7. Linked'
  <2>0. DOMAIN chunks' = 1..n /\ Len(chunks') = n /\ finalized' = final
    BY <1>5
  <2> HIDE DEF n
  <2> SUFFICES ASSUME NEW i \in 1..n
               PROVE  /\ chunks'[i].sequence = i - 1 /\ chunks'[i].ciphertext = i
                      /\ chunks'[i].size = records'[i] + Overhead
                      /\ chunks'[i].final = (finalized' /\ i = Len(chunks'))
                      /\ chunks'[i].aad = [sequence |-> i - 1, previous |-> i - 1,
                                           final |-> chunks'[i].final]
    BY <2>0, Zenon DEF Linked
  <2>1. CASE i = n
    <3>1. chunks'[i] = c /\ records'[i] = size
      BY Zenon, <1>5, <1>6, <2>1
    <3>2. chunks'[i].final = (finalized' /\ i = Len(chunks'))
      <4>1. CASE final
        BY Zenon, <1>3, <2>0, <2>1, <3>1, <4>1
      <4>2. CASE ~final
        BY <1>3, <2>0, <2>1, <3>1, <4>2
      <4>3. QED
        BY Zenon, <4>1, <4>2
    <3>3. QED
      BY Zenon, <1>3, <2>1, <3>1, <3>2
  <2>2. CASE i \in 1..Len(chunks)
    <3>1. i # n /\ i \in DOMAIN chunks /\ chunks'[i] = chunks[i] /\ records'[i] = records[i]
      BY <1>1, <1>5, <1>6, <2>2 DEF SealTypeOK, n
    <3>2. /\ chunks[i].sequence = i - 1 /\ chunks[i].ciphertext = i
          /\ chunks[i].size = records[i] + Overhead /\ chunks[i].final = FALSE
          /\ chunks[i].aad = [sequence |-> i - 1, previous |-> i - 1,
                              final |-> chunks[i].final]
      BY Zenon, <3>1 DEF Linked
    <3>3. QED
      BY Zenon, <2>0, <3>1, <3>2
  <2>3. i = n \/ i \in 1..Len(chunks)
    <3>1. Len(chunks) \in Nat /\ i \in 1..(Len(chunks) + 1)
      BY Zenon, <1>1 DEF n
    <3>2. QED
      BY <3>1 DEF n
  <2>4. QED
    BY Zenon, <2>1, <2>2, <2>3
<1>8. QED
  BY <1>3, <1>4, <1>5, <1>6, <1>7 DEF c

\* The sealer's part of the invariant.
SealInv == SealTypeOK /\ Linked /\ SizeInv /\ StageInv

\* What append does to the sealer, whatever the record.
LEMMA AppendKeepsSeal ==
  ASSUME SealInv, guest \in {"start", "probing"}, UNCHANGED contract,
         NEW size \in Nat, NEW final \in BOOLEAN, NEW next,
         AppendRecord(size, final, next),
         next = IF final THEN "sealed" ELSE "probing",
         ~final => guest = "start" \/ Len(records) < MaxRecords
  PROVE  SealInv' /\ guest' # "sent"
<1>1. /\ cipher = Len(chunks) /\ ~finalized /\ Len(chunks) \in Nat /\ Len(chunks) <= MaxRecords
      /\ Len(records) = Len(chunks) /\ MaxRecords \in Nat \ {0} /\ Overhead \in Nat
      /\ guest = "start" => Len(chunks) = 0
  BY Zenon, EvidenceAssumption DEF SealInv, SealTypeOK, StageInv
<1>2. CASE size > MaxChunk \/ ~FitsBudget(size)
  <2>1. guest' = "failed" /\ cipher' \in {cipher, cipher + 1}
        /\ UNCHANGED <<target, budget, chunks, ciphertext_bytes, finalized, records>>
    BY Zenon, <1>2 DEF AppendRecord, sealVars, contract
  <2>2. SealTypeOK'
    BY SMTT(20), <1>1, <2>1 DEF SealInv, SealTypeOK
  <2>3. Linked'
    BY Zenon, <2>1 DEF SealInv, Linked
  <2>4. SizeInv'
    BY Zenon, <2>1 DEF SealInv, SizeInv
  <2>5. StageInv'
    BY Zenon, <2>1 DEF StageInv
  <2>6. QED
    BY Zenon, <2>1, <2>2, <2>3, <2>4, <2>5 DEF SealInv
<1>4. CASE ~(size > MaxChunk) /\ FitsBudget(size)
  <2>1. /\ chunks' = Append(chunks, Chunk(size, final)) /\ records' = Append(records, size)
        /\ ciphertext_bytes' = ciphertext_bytes + size + Overhead
        /\ finalized' = final /\ guest' = next /\ cipher' = cipher + 1
    BY Zenon, <1>4 DEF AppendRecord
  <2>2. /\ Chunk(size, final) \in ChunkRecords /\ Chunk(size, final).size = size + Overhead
        /\ chunks' \in Seq(ChunkRecords) /\ records' \in Seq(Nat)
        /\ Len(chunks') = Len(chunks) + 1 /\ Len(records') = Len(chunks')
        /\ Linked'
    BY Zenon, <1>1, <2>1, AppendKeepsLinks DEF SealInv
  <2>3. SealTypeOK'
    BY <1>1, <2>1, <2>2 DEF contract, SealInv, SealTypeOK
  <2>4. SizeInv'
    <3>1. IsFiniteSet(Units(chunks')) /\ Total(chunks') = Total(chunks) + (size + Overhead)
      BY Zenon, <2>1, <2>2, AppendUnits DEF SealInv, SealTypeOK, SizeInv
    <3>2. Total(chunks) = ciphertext_bytes /\ ciphertext_bytes \in Nat
      BY Zenon DEF SealInv, SizeInv
    <3>3. ciphertext_bytes' \in Nat /\ Total(chunks') = ciphertext_bytes'
      BY <1>1, <2>1, <3>1, <3>2
    <3>4. ciphertext_bytes' <= budget'
      BY Zenon, <1>4, <2>1 DEF FitsBudget, contract
    <3>5. QED
      BY Zenon, <3>1, <3>3, <3>4 DEF SizeInv
  <2>5. StageInv'
    <3>1. cipher' = Len(chunks')
      BY Zenon, <1>1, <2>1, <2>2
    <3>2. CASE final
      <4>1. guest' = "sealed" /\ finalized'
        BY Zenon, <2>1, <3>2
      <4>2. Len(chunks') \in 1..(MaxRecords + 1)
        BY <1>1, <2>2
      <4>3. QED
        BY Zenon, <3>1, <4>1, <4>2 DEF StageInv
    <3>3. CASE ~final
      <4>1. guest' = "probing" /\ ~finalized'
        BY Zenon, <2>1, <3>3
      <4>2. Len(chunks') <= MaxRecords
        BY <1>1, <2>2, <3>3
      <4>3. QED
        BY Zenon, <3>1, <4>1, <4>2 DEF StageInv
    <3>4. QED
      BY Zenon, <3>2, <3>3
  <2>6. QED
    BY Zenon, <2>1, <2>2, <2>3, <2>4, <2>5 DEF SealInv
<1>5. QED
  BY Zenon, <1>2, <1>4

-------------------------------------------------------------------------------
(* The bundle and the host                                                     *)

LEMMA InitStream ==
  ASSUME Init PROVE StreamInv
<1>1. Units(chunks) = {}
  BY SMTT(20) DEF Init, Units
<1>2. IsFiniteSet(Units(chunks)) /\ Total(chunks) = 0
  BY Zenon, <1>1, FS_EmptySet DEF Total
<1>3. SealTypeOK /\ Linked
  <2>1. chunks = <<>> /\ records = <<>> /\ DOMAIN chunks = {}
        /\ target \in Nat /\ budget \in Nat
    BY EvidenceAssumption DEF Init
  <2>2. chunks \in Seq(ChunkRecords) /\ records \in Seq(Nat) /\ Len(records) = Len(chunks)
    BY <2>1
  <2>3. QED
    BY Zenon, <2>1, <2>2 DEF Init, SealTypeOK, Linked
<1>4. SizeInv /\ StageInv
  BY <1>2, EvidenceAssumption DEF Init, SizeInv, StageInv
<1>5. BundleInv /\ HostInv
  BY Zenon DEF Init, BundleInv, HostInv, Accepting, AcceptedOpens, HonestAccepted
<1>6. FileInv
  BY Zenon DEF Init, NoFile, FileInv
<1>7. QED
  BY Zenon, <1>3, <1>4, <1>5, <1>6 DEF StreamInv

\* Until the guest has sent its bundle the host waits, so what the guest does
\* leaves the rest of the invariant alone.
LEMMA GuestKeepsHost ==
  ASSUME StreamInv, guest # "sent", UNCHANGED <<bundle, host, file>>, guest' # "sent"
  PROVE  BundleInv' /\ HostInv' /\ FileInv'
<1>1. host \notin Accepting \cup {"refused"}
  BY Zenon DEF StreamInv, HostInv
<1>2. BundleInv'
  BY Zenon DEF BundleInv
<1>3. HostInv'
  BY Zenon, <1>1 DEF HostInv, Accepting, AcceptedOpens, HonestAccepted
<1>4. FileInv'
  BY Zenon DEF StreamInv, FileInv
<1>5. QED
  BY Zenon, <1>2, <1>3, <1>4

LEMMA GuestKeepsInv ==
  ASSUME StreamInv, GuestPrompt \/ GuestRecord \/ GuestStatus
  PROVE  StreamInv'
<1>1. SealInv /\ UNCHANGED <<contract, bundle, host, file>> /\ guest \in {"start", "probing"}
  BY Zenon DEF StreamInv, SealInv, GuestPrompt, GuestRecord, GuestStatus
<1>2. target \in Nat /\ MaxRecord \in Nat
  BY Zenon, EvidenceAssumption DEF StreamInv, SealTypeOK
<1>3. SealInv' /\ guest' # "sent"
  <2>1. CASE GuestPrompt
    BY Zenon, <1>1, <1>2, <2>1, AppendKeepsSeal DEF GuestPrompt
  <2>2. CASE GuestRecord
    <3>1. PICK size \in 0..MaxRecord : AppendRecord(size, FALSE, "probing")
      BY Zenon, <2>2 DEF GuestRecord
    <3>2. size \in Nat
      BY <1>2
    <3>3. QED
      BY Zenon, <1>1, <2>2, <3>1, <3>2, AppendKeepsSeal DEF GuestRecord
  <2>3. CASE GuestStatus
    BY Zenon, <1>1, <2>3, AppendKeepsSeal DEF GuestStatus
  <2>4. QED
    BY Zenon, <2>1, <2>2, <2>3
<1>4. BundleInv' /\ HostInv' /\ FileInv'
  BY Zenon, <1>1, <1>3, GuestKeepsHost
<1>5. QED
  BY Zenon, <1>3, <1>4 DEF SealInv, StreamInv

\* A step that leaves the sealer alone.
LEMMA SealStays ==
  ASSUME SealInv, UNCHANGED <<contract, sealVars>>,
         guest' = guest \/ (guest = "sealed" /\ guest' \in {"sent", "failed"})
  PROVE  SealInv' /\ Sealed' = Sealed
<1>1. UNCHANGED <<target, budget, cipher, chunks, ciphertext_bytes, finalized, records>>
  BY Zenon DEF contract, sealVars
<1>2. SealTypeOK'
  BY Zenon, <1>1 DEF SealInv, SealTypeOK
<1>3. Linked'
  BY Zenon, <1>1 DEF SealInv, Linked
<1>4. SizeInv'
  BY Zenon, <1>1 DEF SealInv, SizeInv, Units, Total
<1>5. StageInv'
  BY Zenon, <1>1 DEF SealInv, StageInv
<1>6. Sealed' = Sealed
  BY Zenon, <1>1 DEF Sealed
<1>7. QED
  BY Zenon, <1>2, <1>3, <1>4, <1>5, <1>6 DEF SealInv

LEMMA SendKeepsInv ==
  ASSUME StreamInv, GuestSends
  PROVE  StreamInv'
<1>1. /\ UNCHANGED <<contract, sealVars, host, file>> /\ guest = "sealed"
      /\ \/ guest' = "failed" /\ bundle' = bundle
         \/ guest' = "sent" /\ bundle' = Sealed /\ ~(FrameLength(chunks) > MaxFrame)
  BY Zenon DEF GuestSends
<1>2. SealTypeOK' /\ Linked' /\ SizeInv' /\ StageInv' /\ Sealed' = Sealed
  BY Zenon, <1>1, SealStays DEF StreamInv, SealInv
<1>3. host \notin Accepting \cup {"refused"}
  BY Zenon, <1>1 DEF StreamInv, HostInv
<1>4. HostInv'
  BY Zenon, <1>1, <1>3 DEF HostInv, Accepting, AcceptedOpens, HonestAccepted
<1>5. FileInv'
  BY Zenon, <1>1 DEF StreamInv, FileInv
<1>6. BundleInv'
  <2>1. CASE guest' = "failed"
    BY Zenon, <2>1 DEF BundleInv
  <2>2. CASE bundle' = Sealed /\ ~(FrameLength(chunks) > MaxFrame)
    <3> chunks' = chunks
      BY Zenon, <1>1 DEF sealVars
    <3>0. FrameLength(chunks') <= MaxFrame
      <4>1. Total(chunks) \in Nat /\ MaxFrame \in Nat
        BY Zenon, EvidenceAssumption DEF StreamInv, SizeInv, SealTypeOK
      <4>2. QED
        BY <2>2, <4>1 DEF FrameLength
    <3>1. bundle' = Sealed'
      BY Zenon, <1>2, <2>2
    <3>2. /\ bundle'.chunks = chunks' /\ chunks' \in Seq(ChunkRecords)
          /\ bundle' \in [chunks : Seq(ChunkRecords), root : {Sealed'.root},
                          count : {Len(chunks')}, total : {ciphertext_bytes'}]
      BY Zenon, <1>2, <3>1 DEF Sealed, SealTypeOK
    <3>3. QED
      BY Zenon, <3>0, <3>2 DEF BundleInv, FrameLength, Total, Units
  <2>3. QED
    BY <1>1, <2>1, <2>2
<1>7. QED
  BY <1>2, <1>4, <1>5, <1>6 DEF StreamInv

LEMMA DamageKeepsInv ==
  ASSUME StreamInv, Damage
  PROVE  StreamInv'
<1>1. /\ UNCHANGED <<guest, contract, sealVars, host, file>>
      /\ guest = "sent" /\ host = "control" /\ bundle = Sealed
  BY Zenon DEF Damage
<1>2. SealInv' /\ Sealed' = Sealed /\ chunks' = chunks /\ ciphertext_bytes' = ciphertext_bytes
  BY Zenon, <1>1, SealStays DEF StreamInv, SealInv, sealVars
<1>3. HostInv'
  BY Zenon, <1>1 DEF HostInv, Accepting, AcceptedOpens, HonestAccepted
<1>4. FileInv'
  BY Zenon, <1>1 DEF StreamInv, FileInv
<1>5. chunks \in Seq(ChunkRecords) /\ Len(chunks) \in Nat
  BY DEF StreamInv, SealTypeOK
<1>6. PICK i \in DOMAIN chunks :
        \/ bundle' = [bundle EXCEPT !.chunks = RemoveAt(@, i)]
        \/ bundle' = [bundle EXCEPT !.chunks = InsertAt(@, i, chunks[i])]
        \/ \E k \in DOMAIN chunks \ {i} :
             bundle' = [bundle EXCEPT !.chunks = [@ EXCEPT ![i] = chunks[k], ![k] = chunks[i]]]
  BY Zenon DEF Damage
<1>7. ASSUME NEW cs \in Seq(ChunkRecords), bundle' = [bundle EXCEPT !.chunks = cs],
             Len(cs) = Len(chunks) =>
               \A n \in DOMAIN cs : \E k \in DOMAIN chunks : cs[n] = chunks[k]
      PROVE  BundleInv'
  <2>1. bundle' = [chunks |-> cs, root |-> Sealed.root, count |-> Len(chunks),
                   total |-> ciphertext_bytes]
    BY Zenon, <1>1, <1>7 DEF Sealed
  <2> HIDE DEF Sealed
  <2>2. bundle' \in [chunks : Seq(ChunkRecords), root : {Sealed'.root},
                     count : {Len(chunks')}, total : {ciphertext_bytes'}]
    BY Zenon, <1>2, <2>1
  <2>3. bundle'.chunks = cs
    BY Zenon, <2>1
  <2>4. FrameLength(chunks') <= MaxFrame
    BY Zenon, <1>1, <1>2 DEF StreamInv, BundleInv
  <2>5. QED
    BY Zenon, <1>2, <1>7, <2>2, <2>3, <2>4 DEF BundleInv
<1>8. bundle.chunks = chunks
  BY Zenon, <1>1 DEF Sealed
<1>9. BundleInv'
  <2>1. CASE bundle' = [bundle EXCEPT !.chunks = RemoveAt(@, i)]
    <3>1. /\ RemoveAt(chunks, i) \in Seq(ChunkRecords)
          /\ Len(RemoveAt(chunks, i)) # Len(chunks)
      BY <1>5, Shorter
    <3>2. bundle' = [bundle EXCEPT !.chunks = RemoveAt(chunks, i)]
      BY Zenon, <1>8, <2>1
    <3>3. QED
      BY Zenon, <1>7, <3>1, <3>2
  <2>2. CASE bundle' = [bundle EXCEPT !.chunks = InsertAt(@, i, chunks[i])]
    <3>1. /\ InsertAt(chunks, i, chunks[i]) \in Seq(ChunkRecords)
          /\ Len(InsertAt(chunks, i, chunks[i])) # Len(chunks)
      BY <1>5, Longer
    <3>2. bundle' = [bundle EXCEPT !.chunks = InsertAt(chunks, i, chunks[i])]
      BY Zenon, <1>8, <2>2
    <3>3. QED
      BY <1>7, <3>1, <3>2
  <2>3. ASSUME NEW k \in DOMAIN chunks \ {i},
               bundle' = [bundle EXCEPT !.chunks = [@ EXCEPT ![i] = chunks[k], ![k] = chunks[i]]]
        PROVE  BundleInv'
    <3> DEFINE cs == [chunks EXCEPT ![i] = chunks[k], ![k] = chunks[i]]
    <3>1. cs \in Seq(ChunkRecords) /\ DOMAIN cs = DOMAIN chunks
      BY <1>5
    <3>2. \A n \in DOMAIN cs : \E m \in DOMAIN chunks : cs[n] = chunks[m]
      BY Zenon, <1>5
    <3>3. bundle' = [bundle EXCEPT !.chunks = cs]
      BY Zenon, <1>8, <2>3
    <3> HIDE DEF cs
    <3>4. QED
      BY Zenon, <1>7, <3>1, <3>2, <3>3
  <2>4. QED
    BY <1>6, <2>1, <2>2, <2>3
<1>10. QED
  BY <1>2, <1>3, <1>4, <1>9 DEF StreamInv, SealInv

\* What validate_bundle accepts is the list that the sealer made.
LEMMA ValidIsSealed ==
  ASSUME StreamInv, guest = "sent", ValidBundle(bundle)
  PROVE  bundle.chunks = chunks
<1>1. bundle.chunks \in Seq(ChunkRecords) /\ bundle.count = Len(chunks)
      /\ chunks \in Seq(ChunkRecords)
  BY Zenon DEF StreamInv, BundleInv, SealTypeOK
<1>2. Len(bundle.chunks) = Len(chunks)
  BY Zenon, <1>1 DEF ValidBundle
<1>3. DOMAIN bundle.chunks = DOMAIN chunks
  BY <1>1, <1>2
<1>4. ASSUME NEW i \in DOMAIN chunks PROVE bundle.chunks[i] = chunks[i]
  <2>1. PICK k \in DOMAIN chunks : bundle.chunks[i] = chunks[k]
    BY Zenon, <1>2, <1>3 DEF StreamInv, BundleInv
  <2>2. chunks[k].sequence = i - 1
    BY Zenon, <1>3, <2>1 DEF ValidBundle, Bound
  <2>3. chunks[k].sequence = k - 1
    BY Zenon DEF StreamInv, Linked
  <2>4. i \in Int /\ k \in Int
    BY <1>1
  <2>5. QED
    BY <2>1, <2>2, <2>3, <2>4
<1>5. QED
  BY SMTT(20), <1>1, <1>2, <1>4

\* What the sealer finished opens, and yields what was appended.
LEMMA SealedOpens ==
  ASSUME StreamInv, guest = "sent"
  PROVE  Opens(chunks) /\ Plaintexts(chunks) = records
<1>1. /\ chunks \in Seq(ChunkRecords) /\ records \in Seq(Nat) /\ Len(records) = Len(chunks)
      /\ finalized /\ Len(chunks) >= 1 /\ Overhead \in Nat
  BY EvidenceAssumption DEF StreamInv, SealTypeOK, StageInv
<1>2. Opens(chunks)
  <2>1. \A i \in DOMAIN chunks : /\ chunks[i].ciphertext = i /\ chunks[i].sequence = i - 1
                                /\ chunks[i].final = (i = Len(chunks))
    BY Zenon, <1>1 DEF StreamInv, Linked
  <2>2. chunks # <<>>
    BY <1>1
  <2>3. QED
    BY Zenon, <2>1, <2>2 DEF Opens
<1>3. ASSUME NEW i \in DOMAIN chunks PROVE chunks[i].size - Overhead = records[i]
  <2>1. chunks[i].size = records[i] + Overhead
    BY Zenon DEF StreamInv, Linked
  <2>2. records[i] \in Nat
    BY <1>1
  <2>3. QED
    BY <1>1, <2>1, <2>2
<1>4. Plaintexts(chunks) = [i \in DOMAIN chunks |-> records[i]]
  BY Zenon, <1>3 DEF Plaintexts
<1>5. QED
  BY <1>1, <1>2, <1>4

\* What the sealer finished passes every test of validate_bundle.
LEMMA SealedIsValid ==
  ASSUME StreamInv, guest = "sent"
  PROVE  ValidBundle(Sealed)
<1> DEFINE b == Sealed
<1>1. /\ b.chunks = chunks /\ b.count = Len(chunks) /\ b.total = ciphertext_bytes
      /\ b.root = [i \in DOMAIN chunks |-> chunks[i].ciphertext]
  BY Zenon DEF Sealed
<1>2. /\ chunks \in Seq(ChunkRecords) /\ records \in Seq(Nat) /\ Len(records) = Len(chunks)
      /\ finalized /\ Len(chunks) \in 1..(MaxRecords + 1)
      /\ Overhead \in Nat /\ MaxRecords \in Nat /\ MaxChunks \in Nat /\ MaxRecords < MaxChunks
  BY Zenon, EvidenceAssumption DEF StreamInv, SealTypeOK, StageInv
<1>3. chunks # <<>> /\ Len(chunks) <= MaxChunks
  BY <1>2
<1>4. Total(chunks) = ciphertext_bytes /\ ciphertext_bytes <= budget
  BY Zenon DEF StreamInv, SizeInv
<1>5. ASSUME NEW i \in DOMAIN chunks PROVE Bound(chunks, i)
  <2>1. /\ chunks[i].sequence = i - 1 /\ chunks[i].size = records[i] + Overhead
        /\ chunks[i].final = (i = Len(chunks))
        /\ chunks[i].aad = [sequence |-> i - 1, previous |-> i - 1, final |-> chunks[i].final]
    BY Zenon, <1>2 DEF StreamInv, Linked
  <2>2. chunks[i].size >= Overhead
    <3>1. records[i] \in Nat
      BY <1>2
    <3>2. chunks[i].size = records[i] + Overhead /\ Overhead \in Nat
      BY <1>2, <2>1, Zenon
    <3>3. QED
      BY <3>1, <3>2
  <2>3. i - 1 = IF i = 1 THEN 0 ELSE chunks[i - 1].ciphertext
    <3>1. CASE i = 1
      BY <3>1
    <3>2. CASE i # 1
      <4>1. i - 1 \in DOMAIN chunks
        BY <1>2, <3>2
      <4>2. QED
        BY Zenon, <3>2, <4>1 DEF StreamInv, Linked
    <3>3. QED
      BY Zenon, <3>1, <3>2
  <2>4. QED
    BY Zenon, <2>1, <2>2, <2>3 DEF Bound
<1> HIDE DEF b
<1>6. ValidBundle(b)
  BY <1>1, <1>3, <1>4, <1>5 DEF ValidBundle
<1>7. QED
  BY Zenon, <1>6 DEF b

LEMMA ReceiveKeepsInv ==
  ASSUME StreamInv, HostReceives
  PROVE  StreamInv'
<1>1. /\ UNCHANGED <<guest, contract, sealVars, bundle, file>> /\ host = "control"
      /\ \/ guest = "sent" /\ ValidBundle(bundle) /\ host' = "create"
         \/ /\ guest = "sent" /\ ~(Readable(bundle) /\ ValidBundle(bundle))
            /\ host' = "refused"
         \/ guest = "failed" /\ host' = "no_evidence"
  BY Zenon DEF HostReceives
<1>2. SealInv' /\ Sealed' = Sealed /\ chunks' = chunks /\ records' = records
      /\ ciphertext_bytes' = ciphertext_bytes
  BY Zenon, <1>1, SealStays DEF StreamInv, SealInv, sealVars
<1>3. BundleInv'
  BY Zenon, <1>1, <1>2 DEF StreamInv, BundleInv
<1>4. FileInv'
  BY Zenon, <1>1 DEF StreamInv, FileInv
<1>5. host' = "create" => Opens(bundle.chunks) /\ Plaintexts(bundle.chunks) = records
  BY <1>1, ValidIsSealed, SealedOpens
<1>6. host' = "refused" /\ bundle = Sealed => FrameLength(chunks) = MaxFrame
  <2> SUFFICES ASSUME host' = "refused", bundle = Sealed PROVE FrameLength(chunks) = MaxFrame
    BY Zenon
  <2>1. ~Readable(bundle) /\ bundle.chunks = chunks /\ guest = "sent"
    BY Zenon, <1>1, SealedIsValid DEF Sealed
  <2>2. ~(FrameLength(chunks) < MaxFrame) /\ FrameLength(chunks) <= MaxFrame
    BY Zenon, <2>1 DEF Readable, StreamInv, BundleInv
  <2>3. Total(chunks) \in Nat /\ MaxFrame \in Nat
    BY Zenon, EvidenceAssumption DEF StreamInv, SizeInv, SealTypeOK
  <2>4. QED
    BY <2>2, <2>3 DEF FrameLength
<1>7. HostInv'
  <2>1. CASE host' = "create"
    BY <1>1, <1>2, <1>5, <2>1 DEF HostInv, AcceptedOpens, HonestAccepted
  <2>2. CASE host' = "refused"
    BY <1>1, <1>2, <1>6, <2>2 DEF HostInv, Accepting, AcceptedOpens, HonestAccepted
  <2>3. CASE host' = "no_evidence"
    BY Zenon, <2>3 DEF HostInv, Accepting, AcceptedOpens, HonestAccepted
  <2>4. QED
    BY <1>1, <2>1, <2>2, <2>3
<1>8. QED
  BY <1>2, <1>3, <1>4, <1>7 DEF StreamInv, SealInv

\* From the acceptance on, only the disk changes.
LEMMA DiskKeepsStream ==
  ASSUME StreamInv, UNCHANGED <<guest, contract, sealVars, bundle>>,
         host' \in Accepting => host \in Accepting,
         host' = "refused" => host = "refused"
  PROVE  SealInv' /\ BundleInv' /\ HostInv'
<1>1. SealInv' /\ Sealed' = Sealed /\ chunks' = chunks /\ records' = records
      /\ ciphertext_bytes' = ciphertext_bytes
  BY Zenon, SealStays DEF StreamInv, SealInv, sealVars
<1>2. BundleInv'
  BY Zenon, <1>1 DEF StreamInv, BundleInv
<1>3. HostInv'
  BY Zenon, <1>1 DEF StreamInv, HostInv, Accepting, AcceptedOpens, HonestAccepted
<1>4. QED
  BY Zenon, <1>1, <1>2, <1>3

LEMMA PersistKeepsInv ==
  ASSUME StreamInv,
         CreateTemporary \/ WriteBundle \/ SyncBundle \/ RenameBundle \/ SyncQuarantine
  PROVE  StreamInv'
<1> USE DEF Persists
<1>1. /\ UNCHANGED <<guest, contract, sealVars, bundle>>
      /\ host \in Accepting /\ host' \in Accepting /\ host' # "refused"
  BY Zenon DEF CreateTemporary, WriteBundle, SyncBundle, RenameBundle, SyncQuarantine, Accepting
<1>2. SealInv' /\ BundleInv' /\ HostInv'
  BY Zenon, <1>1, DiskKeepsStream
<1>3. FileInv'
  <2>1. FileInv
    BY Zenon DEF StreamInv
  <2>2. CASE CreateTemporary
    BY Zenon, <2>1, <2>2 DEF FileInv, CreateTemporary
  <2>3. CASE WriteBundle
    BY Zenon, <2>1, <2>3 DEF FileInv, WriteBundle
  <2>4. CASE SyncBundle
    BY Zenon, <2>1, <2>4 DEF FileInv, SyncBundle
  <2>5. CASE RenameBundle
    BY Zenon, <2>1, <2>5 DEF FileInv, RenameBundle
  <2>6. CASE SyncQuarantine
    BY Zenon, <2>1, <2>6 DEF FileInv, SyncQuarantine
  <2>7. QED
    BY <2>2, <2>3, <2>4, <2>5, <2>6
<1>4. QED
  BY Zenon, <1>2, <1>3 DEF StreamInv, SealInv

LEMMA PowerLossKeepsInv ==
  ASSUME StreamInv, PowerLoss
  PROVE  StreamInv'
<1>1. /\ UNCHANGED <<guest, contract, sealVars, bundle>>
      /\ host' = IF host = "admitted" THEN "lost_admitted" ELSE "lost"
  BY Zenon DEF PowerLoss
<1>2. SealInv' /\ BundleInv' /\ HostInv'
  BY Zenon, <1>1, DiskKeepsStream DEF Accepting
<1>3. FileInv'
  <2>1. FileInv
    BY Zenon DEF StreamInv
  <2>2. PICK entry \in IF file.entry = "cached" THEN {"none", "durable"} ELSE {file.entry},
             content \in IF file.synced THEN {file.content} ELSE {file.content, "partial"} :
          file' = [file EXCEPT !.entry = entry, !.content = content]
    BY Zenon DEF PowerLoss
  <2>3. /\ file' \in [content : {"none", "partial", "whole"}, synced : BOOLEAN,
                      entry : {"none", "cached", "durable"}]
        /\ file'.entry = entry /\ file'.content = content /\ file'.synced = file.synced
    BY Zenon, <2>1, <2>2 DEF FileInv
  <2>4. file.synced => content = file.content
    BY Zenon, <2>2
  <2>5. entry # "none" => file.entry # "none"
    BY Zenon, <2>2
  <2>6. file.entry = "durable" => entry = "durable"
    BY <2>2
  <2>7. QED
    BY <1>1, <2>1, <2>3, <2>4, <2>5, <2>6 DEF FileInv
<1>4. QED
  BY Zenon, <1>2, <1>3 DEF StreamInv, SealInv

\* The invariant of the sealed stream.
THEOREM StreamInvariant == Spec => []StreamInv
<1>1. Init => StreamInv
  BY Zenon, InitStream
<1>2. StreamInv /\ [Next]_vars => StreamInv'
  <2> SUFFICES ASSUME StreamInv, [Next]_vars PROVE StreamInv'
    BY Zenon
  <2>1. CASE GuestPrompt \/ GuestRecord \/ GuestStatus
    BY <2>1, GuestKeepsInv
  <2>2. CASE GuestSends
    BY Zenon, <2>2, SendKeepsInv
  <2>3. CASE Damage
    BY Zenon, <2>3, DamageKeepsInv
  <2>4. CASE HostReceives
    BY Zenon, <2>4, ReceiveKeepsInv
  <2>5. CASE CreateTemporary \/ WriteBundle \/ SyncBundle \/ RenameBundle \/ SyncQuarantine
    BY <2>5, PersistKeepsInv
  <2>6. CASE PowerLoss
    BY Zenon, <2>6, PowerLossKeepsInv
  <2>7. CASE UNCHANGED vars
    <3>1. UNCHANGED <<guest, contract, sealVars, bundle>> /\ host' = host /\ file' = file
      BY Zenon, <2>7 DEF vars
    <3>2. SealInv' /\ BundleInv' /\ HostInv'
      BY Zenon, <3>1, DiskKeepsStream
    <3>3. FileInv'
      BY <3>1 DEF StreamInv, FileInv
    <3>4. QED
      BY Zenon, <3>2, <3>3 DEF StreamInv, SealInv
  <2>8. QED
    BY <2>1, <2>2, <2>3, <2>4, <2>5, <2>6, <2>7 DEF Next, Done
<1>3. QED
  BY <1>1, <1>2, PTL DEF Spec

\* AcceptedOpens: whatever happened to the records on the way, a bundle that
\* validate_bundle lets through opens and is the guest's transcript.
THEOREM AcceptedAlwaysOpens == Spec => []AcceptedOpens
<1>1. StreamInv => AcceptedOpens
  BY Zenon DEF StreamInv, HostInv
<1>2. QED
  BY <1>1, StreamInvariant, PTL

\* HonestAccepted: the host refuses no bundle that arrives as
\* GuestEvidenceSealer made it, for every budget and every record length,
\* unless its frame has exactly MAX_CONTROL_LINE bytes before the newline.
THEOREM HonestNeverRefused == Spec => []HonestAccepted
<1>1. StreamInv => HonestAccepted
  BY Zenon DEF StreamInv, HostInv
<1>2. QED
  BY <1>1, StreamInvariant, PTL

\* QuarantineHolds: _persist_ciphertext_bundle leaves a whole file or none, and
\* an admitted run keeps its file through a power loss.
THEOREM QuarantineAlwaysHolds == Spec => []QuarantineHolds
<1>1. StreamInv => QuarantineHolds
  BY Zenon DEF StreamInv, FileInv, QuarantineHolds
<1>2. QED
  BY <1>1, StreamInvariant, PTL

===============================================================================
