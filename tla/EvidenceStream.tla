----------------------------- MODULE EvidenceStream -----------------------------
(***************************************************************************)
(* The sealed transcript of an agent probe on its way from the guest to    *)
(* the quarantine: GuestEvidenceSealer, validate_bundle and decrypt_bundle *)
(* (agent_probe/evidence.py) on libsodium's stream (secretstream.py), the  *)
(* control frame that carries the bundle (guest/agent_probe_agent.py), and *)
(* _persist_ciphertext_bundle (agent_probe/firecracker_runtime.py).        *)
(*                                                                         *)
(* Lengths are in units of three bytes, which base64 turns into four; a    *)
(* ciphertext is the position of the cipher at which it was made, and its  *)
(* hash is that position too.  A bundle may be damaged before it is        *)
(* validated: a record lost, doubled or out of place.                      *)
(***************************************************************************)
EXTENDS Integers, Sequences, FiniteSets, SequencesExt

CONSTANTS
  MaxChunk,      \* MAX_CHUNK_BYTES of the stream
  MaxTarget,     \* the longest target that is admitted
  MaxRecord,     \* bound: the longest record the guest appends
  Overhead,      \* ABYTES, what the cipher adds to a record
  Budgets,       \* the values of max_evidence_bytes that are admitted
  MaxFrame,      \* MAX_CONTROL_LINE, in bytes
  MaxRecords,    \* records before the last that the guest's other budgets allow
  MaxChunks      \* the longest chunk list that the host looks at

\* With 16 requests and 64 calls (_validated_budgets) a guest appends 145 records and
\* the last one; the host takes 1024.
ASSUME EvidenceAssumption ==
  /\ {MaxChunk, MaxTarget, MaxRecord, MaxFrame, MaxChunks} \cup Budgets \subseteq Nat
  /\ {Overhead, MaxRecords} \subseteq Nat \ {0} /\ MaxRecords < MaxChunks

VARIABLES
  guest,      \* the guest agent: where it stands
  target,     \* length of the admitted target, which the first record holds
  budget,     \* max_evidence_bytes of the manifest
  cipher,     \* records the stream has encrypted
  chunks,     \* the sealer's chunks
  ciphertext_bytes,
  finalized,
  records,    \* the plaintext lengths it was told to seal, in order
  bundle,     \* the chunk list and the manifest as they reach the host
  host,
  file        \* the quarantined bundle

\* What was frozen before the guest started.
contract == <<target, budget>>

sealVars == <<cipher, chunks, ciphertext_bytes, finalized, records>>
vars == <<guest, contract, sealVars, bundle, host, file>>

\* The units of the ciphertexts of a chunk list, and how many they are.
Units(cs) == UNION {{i} \X (1..cs[i].size) : i \in DOMAIN cs}
Total(cs) == Cardinality(Units(cs))

NoBundle == [chunks |-> <<>>, root |-> <<>>, count |-> 0, total |-> 0]
NoFile == [content |-> "none", synced |-> FALSE, entry |-> "none"]

Init ==
  /\ guest = "start" /\ target \in 0..MaxTarget /\ budget \in Budgets
  /\ cipher = 0 /\ chunks = <<>> /\ ciphertext_bytes = 0
  /\ finalized = FALSE /\ records = <<>>
  /\ bundle = NoBundle /\ host = "control" /\ file = NoFile

-------------------------------------------------------------------------------
(* GuestEvidenceSealer.append                                                  *)

Previous == IF chunks = <<>> THEN 0 ELSE Last(chunks).ciphertext

Chunk(size, final) ==
  [sequence |-> cipher, ciphertext |-> cipher + 1, size |-> size + Overhead, final |-> final,
   aad |-> [sequence |-> Len(chunks), previous |-> Previous, final |-> final]]

\* Mutant: the guest lets one unit more through than the host.
Mut_FitsBudget(size) == ciphertext_bytes + size + Overhead <= budget + 1

FitsBudget(size) == ciphertext_bytes + size + Overhead <= budget

\* push refuses a record that is too long; the cipher moves on before the
\* budget is looked at, and either refusal ends the guest's run.
AppendRecord(size, final, next) ==
  IF size > MaxChunk
  THEN guest' = "failed" /\ UNCHANGED sealVars
  ELSE /\ cipher' = cipher + 1
       /\ IF FitsBudget(size)
            THEN /\ chunks' = Append(chunks, Chunk(size, final))
                 /\ ciphertext_bytes' = ciphertext_bytes + size + Overhead
                 /\ records' = Append(records, size)
                 /\ finalized' = final /\ guest' = next
            ELSE guest' = "failed" /\ UNCHANGED <<chunks, ciphertext_bytes, finalized, records>>

GuestPrompt ==
  /\ guest = "start" /\ AppendRecord(target, FALSE, "probing")
  /\ UNCHANGED <<contract, bundle, host, file>>

GuestRecord ==
  /\ guest = "probing" /\ Len(records) < MaxRecords
  /\ \E size \in 0..MaxRecord : AppendRecord(size, FALSE, "probing")
  /\ UNCHANGED <<contract, bundle, host, file>>

GuestStatus ==
  /\ guest = "probing" /\ AppendRecord(0, TRUE, "sealed")
  /\ UNCHANGED <<contract, bundle, host, file>>

\* finalize, and the frame that carries the bundle in base64; its newline is not
\* counted.
FrameLength(cs) == 4 * Total(cs)

Sealed == [chunks |-> chunks, root |-> [i \in DOMAIN chunks |-> chunks[i].ciphertext],
           count |-> Len(chunks), total |-> ciphertext_bytes]

GuestSends ==
  /\ guest = "sealed"
  /\ IF FrameLength(chunks) > MaxFrame THEN guest' = "failed" /\ bundle' = bundle
     ELSE guest' = "sent" /\ bundle' = Sealed
  /\ UNCHANGED <<contract, sealVars, host, file>>

\* External: a record of the bundle is lost, doubled or exchanged.
Damage ==
  /\ guest = "sent" /\ host = "control" /\ bundle = Sealed
  /\ \E i \in DOMAIN chunks :
       \/ bundle' = [bundle EXCEPT !.chunks = RemoveAt(@, i)]
       \/ bundle' = [bundle EXCEPT !.chunks = InsertAt(@, i, chunks[i])]
       \/ \E k \in DOMAIN chunks \ {i} :
            bundle' = [bundle EXCEPT !.chunks = [@ EXCEPT ![i] = chunks[k], ![k] = chunks[i]]]
  /\ UNCHANGED <<guest, contract, sealVars, host, file>>

-------------------------------------------------------------------------------
(* validate_bundle, decrypt_bundle                                             *)

\* Sequence, final tag, least length and chain of one record.
Bound(cs, i) ==
  /\ cs[i].sequence = i - 1 /\ cs[i].final = (i = Len(cs)) /\ cs[i].size >= Overhead
  /\ cs[i].aad = [sequence |-> i - 1, final |-> cs[i].final,
                  previous |-> IF i = 1 THEN 0 ELSE cs[i - 1].ciphertext]

\* Mutant: only the manifest's accounting is compared.
Mut_ValidBundle(b) == b.chunks # <<>> /\ b.count = Len(b.chunks) /\ Total(b.chunks) <= budget

ValidBundle(b) ==
  /\ b.chunks # <<>> /\ Len(b.chunks) <= MaxChunks /\ Total(b.chunks) <= budget
  /\ \A i \in DOMAIN b.chunks : Bound(b.chunks, i)
  /\ b.root = [i \in DOMAIN b.chunks |-> b.chunks[i].ciphertext]
  /\ b.count = Len(b.chunks) /\ b.total = Total(b.chunks)

\* The stream opens the n-th record only with the n-th ciphertext, and the
\* last one has to carry the final tag.
Opens(cs) ==
  /\ \A i \in DOMAIN cs : cs[i].ciphertext = i /\ cs[i].sequence = i - 1
  /\ cs # <<>> /\ \A i \in DOMAIN cs : cs[i].final = (i = Len(cs))

Plaintexts(cs) == [i \in DOMAIN cs |-> cs[i].size - Overhead]

-------------------------------------------------------------------------------
(* The host: _read_line, _bounded_guest_result, _persist_ciphertext_bundle     *)

\* _read_line wants the newline among the first MaxFrame bytes.
Readable(b) == FrameLength(b.chunks) < MaxFrame

HostReceives ==
  /\ host = "control"
  /\ \/ /\ guest = "sent"
        /\ host' = IF Readable(bundle) /\ ValidBundle(bundle) THEN "create" ELSE "refused"
     \/ guest = "failed" /\ host' = "no_evidence"
  /\ UNCHANGED <<guest, contract, sealVars, bundle, file>>

Persists(from, to, f) ==
  host = from /\ host' = to /\ file' = f /\ UNCHANGED <<guest, contract, sealVars, bundle>>

CreateTemporary == Persists("create", "write", [file EXCEPT !.content = "partial"])
WriteBundle == Persists("write", "sync", [file EXCEPT !.content = "whole"])

SyncBundle == Persists("sync", "rename", [file EXCEPT !.synced = TRUE])
RenameBundle == Persists("rename", "syncdir", [file EXCEPT !.entry = "cached"])

\* Mutant: the directory is left to the kernel.
Mut_SyncQuarantine == Persists("syncdir", "admitted", file)

SyncQuarantine == Persists("syncdir", "admitted", [file EXCEPT !.entry = "durable"])

\* External: power is lost.  A cached entry, and contents that were not
\* fsynced, may be gone.
PowerLoss ==
  /\ host \notin {"lost", "lost_admitted"}
  /\ host' = IF host = "admitted" THEN "lost_admitted" ELSE "lost"
  /\ \E entry \in IF file.entry = "cached" THEN {"none", "durable"} ELSE {file.entry} :
     \E content \in IF file.synced THEN {file.content} ELSE {file.content, "partial"} :
       file' = [file EXCEPT !.entry = entry, !.content = content]
  /\ UNCHANGED <<guest, contract, sealVars, bundle>>

Done ==
  /\ host \in {"admitted", "refused", "no_evidence", "lost", "lost_admitted"}
  /\ UNCHANGED vars

Next ==
  \/ GuestPrompt \/ GuestRecord \/ GuestStatus \/ GuestSends \/ Damage
  \/ HostReceives \/ CreateTemporary \/ WriteBundle \/ SyncBundle \/ RenameBundle
  \/ SyncQuarantine \/ PowerLoss \/ Done

Spec == Init /\ [][Next]_vars

-------------------------------------------------------------------------------
(* Properties                                                                  *)

\* A bundle the host accepts opens, and yields what the guest appended, all
\* of it and in its order, whatever happened to its records on the way
\* (validate_bundle against pull_all).
AcceptedOpens ==
  host \in {"create", "write", "sync", "rename", "syncdir", "admitted", "lost_admitted"} =>
    Opens(bundle.chunks) /\ Plaintexts(bundle.chunks) = records

\* A bundle that arrives as it was sealed is refused in one case only: its frame
\* is exactly as long as the guest may send (_write_json_line does not count the
\* newline, _read_line does).  Otherwise the guest's accounting and the host's
\* agree to the last byte of the budget, although the cipher moves before the
\* budget is looked at.
HonestAccepted ==
  host = "refused" /\ bundle = Sealed => FrameLength(chunks) = MaxFrame

\* The quarantined file is whole under its name at every moment, a power loss
\* included, and a run that was admitted never loses it
\* (ciphertext_persisted_before_teardown).
QuarantineHolds ==
  /\ file.entry # "none" => file.content = "whole"
  /\ host \in {"admitted", "lost_admitted"} => file.entry = "durable"

===============================================================================
