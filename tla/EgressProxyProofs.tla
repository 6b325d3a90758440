--------------------------- MODULE EgressProxyProofs ---------------------------
(***************************************************************************)
(* Proofs about EgressProxy, for any clients and any limits: what the      *)
(* canonical stream says of a connection is true, a telemetry that calls   *)
(* itself complete is whole, no limit is passed, and nothing crosses or is *)
(* left after a shutdown.  Whoever waits in shutdown() waits for somebody  *)
(* who can go on, and a closed proxy only winds down.                      *)
(***************************************************************************)
EXTENDS EgressProxy, FiniteSetTheorems, TLAPS

\* Where the client of a handler is registered.
Served == {"registered", "reserved", "request", "connect", "connected", "register_up", "relay",
           "forward", "reading", "release", "unregister"}

HandlerFields == {"pc", "seq", "dest", "disposition", "reason", "up", "performed", "bytes"}

ProxyTypeOK ==
  /\ DOMAIN h = Clients
  /\ \A c \in Clients : /\ DOMAIN h[c] = HandlerFields
                        /\ h[c].pc \in {"none", "started", "record", "leave", "gone"} \cup Served
                        /\ h[c].seq \in Int
  /\ next \in Nat /\ rejections \in Nat
  /\ DOMAIN shut = Callers
  /\ accepting # Nobody => accepting \in Clients /\ h[accepting].pc = "none"

\* What is known of a connection, and what its event says, at each point of its
\* handler.  Between the connection and its registration no destination is
\* named, so a rejection there is a loss of telemetry and not a block.
Honest(c) ==
  /\ h[c].pc \in {"none", "started", "registered", "reserved", "request", "connect"} =>
       ~h[c].performed /\ ~h[c].dest /\ h[c].disposition = "blocked"
  /\ h[c].pc \in {"connected", "register_up"} => h[c].performed /\ ~h[c].dest
  /\ h[c].pc \in {"relay", "forward", "reading", "release"} => h[c].performed
  /\ h[c].pc = "release" => h[c].disposition = "allowed"
  /\ h[c].pc \in {"unregister", "record"} =>
       /\ h[c].dest /\ h[c].disposition = "blocked" => ~h[c].performed
       /\ h[c].disposition = "allowed" => h[c].performed

HonestInv == \A c \in Clients : Honest(c)

EventInv ==
  \A s \in DOMAIN events :
    /\ events[s].client \in Clients /\ h[events[s].client].pc \in {"leave", "gone"}
    /\ h[events[s].client].seq = s
    /\ events[s].dest /\ events[s].disposition = "blocked" => ~h[events[s].client].performed
    /\ events[s].disposition = "allowed" => h[events[s].client].performed

\* A client with a place in the ledger has it alone, and keeps it until its event
\* is written; one without left a mark that telemetry is not complete, or was
\* turned away at the door.
LedgerInv ==
  /\ \A c \in Clients :
       /\ h[c].seq >= -1 /\ h[c].seq < next
       /\ h[c].pc \in {"none", "started", "registered"} => h[c].seq = -1
       /\ h[c].pc \in (Served \cup {"record"}) \ {"registered", "unregister"} => h[c].seq # -1
       /\ h[c].pc \in Served \cup {"record"} /\ h[c].seq # -1 => h[c].seq \in inflight
       /\ h[c].pc = "unregister" /\ h[c].seq = -1 => overflow
       /\ h[c].pc \in Served => c \in clients
       /\ h[c].pc \in {"leave", "gone"} =>
            \/ overflow \/ rejections > 0 \/ (TurnedAway(c) /\ ~h[c].performed)
            \/ \E s \in DOMAIN events : events[s].client = c
  /\ \A c, d \in Clients : c # d /\ h[c].seq # -1 => h[c].seq # h[d].seq

\* After _closed is set nobody registers, so what shutdown() closes is all there
\* is; after the accept loop has ended no handler starts.
ShutInv ==
  /\ ~closed => \A s \in Callers : shut[s] = "idle"
  /\ closed /\ (\A s \in Callers : shut[s] # "revoke") =>
       \A c \in Clients : h[c].pc \in Served => c \in revoked
  /\ \A c \in Clients : h[c].pc \in {"none", "gone"} => ~h[c].up
  /\ \A s \in Callers :
       /\ shut[s] \in {"join", "ok"} => accepting = Nobody /\ serve # "serving"
       /\ shut[s] = "ok" => \A c \in Clients : h[c].pc \in {"none", "gone"}

ProxyInv == ProxyTypeOK /\ HonestInv /\ EventInv /\ LedgerInv /\ ShutInv

\* The accept loop: a client turned away is counted.
LEMMA AcceptKeepsInv ==
  ASSUME NEW c \in Clients, ProxyInv,
         \/ AcceptChecks(c) \/ AcceptStarts(c)
  PROVE  ProxyInv'
<1> USE ProxyAssumption
    DEF ProxyInv, ProxyTypeOK, HandlerFields, Served, Callers, Nobody, serverVars, ledgerVars,
        socketVars, byteVars, stopVars
<1>1. CASE AcceptChecks(c)
  <2>1. /\ serve = "serving" /\ accepting = Nobody /\ h[c].pc = "none"
        /\ UNCHANGED <<serve, expired, events, inflight, next, attempts, socketVars, byteVars,
                       stopVars>>
        /\ overflow => overflow'
    BY Zenon, <1>1 DEF AcceptChecks
  <2>2. CASE Reject(c)
    <3>1. UNCHANGED accepting /\ rejections' \in Nat /\ rejections' > 0
      BY <1>1, <2>1, <2>2 DEF AcceptChecks, Reject
    <3>2. ProxyTypeOK' /\ HonestInv'
      BY <2>1, <2>2, <3>1 DEF Reject, HonestInv, Honest
    <3>3. EventInv' /\ LedgerInv'
      BY <2>1, <2>2, <3>1 DEF Reject, EventInv, LedgerInv
    <3>4. ShutInv'
      BY <2>1, <2>2, <3>1 DEF Reject, ShutInv
    <3> QED BY Zenon, <3>2, <3>3, <3>4
  <2>3. CASE ~Reject(c)
    <3>1. accepting' = c /\ UNCHANGED <<overflow, rejections, h>>
      BY Zenon, <1>1, <2>3 DEF AcceptChecks
    <3>2. ProxyTypeOK' /\ HonestInv' /\ EventInv'
      BY <2>1, <3>1 DEF HonestInv, Honest, EventInv
    <3>3. LedgerInv' /\ ShutInv'
      BY <2>1, <3>1 DEF LedgerInv, TurnedAway, ShutInv
    <3> QED BY Zenon, <3>2, <3>3
  <2> QED BY Zenon, <2>2, <2>3
<1>2. CASE AcceptStarts(c)
  <2>1. /\ accepting = c /\ accepting' = Nobody
        /\ \/ h' = [h EXCEPT ![c].pc = "started"] /\ UNCHANGED rejections
           \/ /\ h' = [h EXCEPT ![c].pc = "gone", ![c].reason = "no_thread"]
              /\ UNCHANGED rejections
           \/ Reject(c)
        /\ UNCHANGED <<serve, events, inflight, next, overflow, socketVars, stopVars>>
    BY Zenon, <1>2 DEF AcceptStarts
  <2>2. CASE h' = [h EXCEPT ![c].pc = "gone", ![c].reason = "no_thread"] /\ UNCHANGED rejections
    <3>1. h[c].pc = "none"
      BY Zenon, <2>1
    <3>2. /\ DOMAIN h' = Clients /\ \A d \in Clients \ {c} : h'[d] = h[d]
          /\ DOMAIN h'[c] = HandlerFields /\ h'[c].pc = "gone" /\ h'[c].reason = "no_thread"
          /\ h'[c].seq = h[c].seq /\ h'[c].up = h[c].up /\ h'[c].performed = h[c].performed
      BY Zenon, <2>2
    <3>3. ProxyTypeOK' /\ HonestInv' /\ EventInv'
      BY <2>1, <2>2, <3>1, <3>2 DEF HonestInv, Honest, EventInv
    <3>4. h[c].seq = -1 /\ ~h[c].performed
      BY Zenon, <3>1 DEF LedgerInv, HonestInv, Honest
    <3>5. LedgerInv'
      BY <2>1, <2>2, <3>1, <3>2, <3>4 DEF LedgerInv, TurnedAway
    <3>6. ShutInv'
      BY Zenon, <2>1, <3>1, <3>2 DEF ShutInv
    <3> QED BY Zenon, <3>3, <3>5, <3>6
  <2>3. CASE Reject(c) \/ (h' = [h EXCEPT ![c].pc = "started"] /\ UNCHANGED rejections)
    <3>1. ProxyTypeOK' /\ HonestInv' /\ EventInv'
      BY <2>1, <2>3 DEF Reject, HonestInv, Honest, EventInv
    <3>2. LedgerInv' /\ ShutInv'
      BY <2>1, <2>3 DEF Reject, LedgerInv, TurnedAway, ShutInv
    <3> QED BY Zenon, <3>1, <3>2
  <2> QED BY Zenon, <2>1, <2>2, <2>3
<1> QED BY Zenon, <1>1, <1>2

\* A step of c's handler, between its registration and its end, that leaves the
\* ledger, the register of clients and the shutdown alone.
Within(c) ==
  /\ h[c].pc \in Served \ {"registered", "unregister"}
  /\ DOMAIN h' = Clients /\ \A d \in Clients \ {c} : h'[d] = h[d]
  /\ DOMAIN h'[c] = HandlerFields /\ h'[c].pc \in Served \ {"registered"}
  /\ h'[c].seq = h[c].seq
  /\ UNCHANGED <<serverVars, events, inflight, next, overflow, rejections, clients, revoked,
                 stopVars>>

LEMMA WithinKeepsInv ==
  ASSUME NEW c \in Clients, ProxyInv, Within(c), Honest(c)'
  PROVE  ProxyInv'
<1> USE DEF ProxyInv, ProxyTypeOK, Within, HandlerFields, Served, serverVars, stopVars
<1>1. ProxyTypeOK'
  OBVIOUS
<1>2. HonestInv'
  BY DEF HonestInv, Honest
<1>3. EventInv'
  BY DEF EventInv
<1>4. LedgerInv'
  BY DEF LedgerInv, TurnedAway
<1>5. ShutInv'
  BY DEF ShutInv
<1> QED BY Zenon, <1>1, <1>2, <1>3, <1>4, <1>5

\* A handler up to the registration of its upstream.
LEMMA RequestKeepsInv ==
  ASSUME NEW c \in Clients, ProxyInv,
         \/ Registers(c) \/ ReservesEvent(c) \/ CountsAttempt(c) \/ ReadsRequest(c)
         \/ Connects(c) \/ ChecksPeer(c) \/ RegistersUpstream(c)
  PROVE  ProxyInv'
<1> USE ProxyAssumption
    DEF ProxyInv, ProxyTypeOK, HandlerFields, Served, Callers, Nobody, serverVars, ledgerVars,
        socketVars, byteVars, stopVars
<1>0. Honest(c)
  BY Zenon DEF HonestInv
<1> USE <1>0
<1>1. CASE Registers(c)
  <2>0. /\ h[c].pc = "started" /\ DOMAIN h' = Clients /\ DOMAIN h'[c] = HandlerFields
        /\ \A d \in Clients \ {c} : h'[d] = h[d]
        /\ \/ /\ h'[c].pc = "leave" /\ UNCHANGED clients
              /\ h'[c].reason \in {"unauthorized_client", "proxy_closed"}
           \/ ~closed /\ h'[c].pc = "registered" /\ clients' = clients \cup {c}
        /\ h'[c].seq = h[c].seq /\ h'[c].up = h[c].up /\ h'[c].performed = h[c].performed
        /\ h'[c].dest = h[c].dest /\ h'[c].disposition = h[c].disposition
        /\ UNCHANGED <<serverVars, expired, ledgerVars, upstreams, revoked, byteVars, stopVars>>
    <3>1. CASE \E reason \in {"unauthorized_client", "proxy_closed"} : TurnsAway(c, reason)
      <4>1. PICK reason \in {"unauthorized_client", "proxy_closed"} :
              h' = [h EXCEPT ![c].pc = "leave", ![c].reason = reason] /\ UNCHANGED clients
        BY Zenon, <3>1 DEF TurnsAway
      <4>2. h[c].pc = "started"
            /\ UNCHANGED <<serverVars, expired, ledgerVars, upstreams, revoked, byteVars, stopVars>>
        BY Zenon, <1>1 DEF Registers
      <4> QED BY Zenon, <4>1, <4>2
    <3>2. CASE ~\E reason \in {"unauthorized_client", "proxy_closed"} : TurnsAway(c, reason)
      <4>1. /\ h[c].pc = "started" /\ ~closed /\ clients' = clients \cup {c}
            /\ h' = [h EXCEPT ![c].pc = "registered"]
            /\ UNCHANGED <<serverVars, expired, ledgerVars, upstreams, revoked, byteVars, stopVars>>
        BY Zenon, <1>1, <3>2 DEF Registers
      <4> QED BY Zenon, <4>1
    <3> QED BY Zenon, <3>1, <3>2
  <2>1. ProxyTypeOK' /\ HonestInv'
    BY <2>0 DEF HonestInv, Honest
  <2>2. EventInv'
    BY <2>0 DEF EventInv
  <2>3. h[c].seq = -1 /\ ~h[c].performed
    BY Zenon, <2>0 DEF LedgerInv, Honest
  <2>4. LedgerInv'
    BY <2>0, <2>3 DEF LedgerInv, TurnedAway
  <2>5. ShutInv'
    BY <2>0 DEF ShutInv
  <2> QED BY Zenon, <2>1, <2>2, <2>4, <2>5
<1>2. CASE ReservesEvent(c)
  <2>1. ProxyTypeOK' /\ HonestInv'
    BY <1>2 DEF ReservesEvent, HonestInv, Honest
  <2>2. EventInv'
    BY <1>2 DEF ReservesEvent, EventInv
  <2>3. LedgerInv'
    BY <1>2 DEF ReservesEvent, LedgerInv
  <2>4. ShutInv'
    BY <1>2 DEF ReservesEvent, ShutInv
  <2> QED BY Zenon, <2>1, <2>2, <2>3, <2>4
<1>3. CASE CountsAttempt(c)
  <2>1. Within(c)
    BY <1>3 DEF CountsAttempt, Ends, Within
  <2>2. /\ h[c].pc = "reserved"
        /\ h'[c].pc \in {"request", "unregister"} /\ h'[c].disposition = "blocked"
        /\ h'[c].performed = h[c].performed /\ h'[c].dest = h[c].dest
    BY Zenon, <1>3 DEF CountsAttempt, Ends, Honest
  <2>3. Honest(c)'
    BY Zenon, <2>2 DEF Honest
  <2> QED BY Zenon, <2>1, <2>3, WithinKeepsInv
<1>4. CASE ReadsRequest(c)
  <2>1. Within(c)
    BY <1>4 DEF ReadsRequest, Ends, Within
  <2>2. Honest(c)'
    BY <1>4 DEF ReadsRequest, Ends, Honest
  <2> QED BY Zenon, <2>1, <2>2, WithinKeepsInv
<1>5. CASE Connects(c)
  <2>1. Within(c)
    BY <1>5 DEF Connects, Ends, Within
  <2>2. /\ h[c].pc = "connect"
        /\ \/ /\ h'[c].pc = "unregister" /\ h'[c].disposition = "blocked"
              /\ h'[c].performed = h[c].performed
           \/ h'[c].pc = "connected" /\ h'[c].performed /\ h'[c].dest = h[c].dest
    BY <1>5 DEF Connects, Ends
  <2>3. Honest(c)'
    BY Zenon, <2>2 DEF Honest
  <2> QED BY Zenon, <2>1, <2>3, WithinKeepsInv
<1>6. CASE ChecksPeer(c)
  <2>1. Within(c)
    BY <1>6 DEF ChecksPeer, Ends, Within
  <2>2. Honest(c)'
    BY <1>6 DEF ChecksPeer, Ends, Honest
  <2> QED BY Zenon, <2>1, <2>2, WithinKeepsInv
<1>7. CASE RegistersUpstream(c)
  <2>1. Within(c)
    BY <1>7 DEF RegistersUpstream, Ends, Within
  <2>2. Honest(c)'
    BY <1>7 DEF RegistersUpstream, Ends, Honest
  <2> QED BY Zenon, <2>1, <2>2, WithinKeepsInv
<1> QED BY Zenon, <1>1, <1>2, <1>3, <1>4, <1>5, <1>6, <1>7

\* The relay of bytes and its end.
LEMMA RelayKeepsInv ==
  ASSUME NEW c \in Clients, ProxyInv,
         \/ Consumes(c) \/ Reserves(c) \/ Reads(c) \/ Forwards(c) \/ ReleasesUpstream(c)
  PROVE  ProxyInv'
<1> USE ProxyAssumption
    DEF ProxyInv, ProxyTypeOK, HandlerFields, Served, Callers, Nobody, serverVars, ledgerVars,
        socketVars, byteVars, stopVars
<1>0. Honest(c)
  BY Zenon DEF HonestInv
<1> USE <1>0
<1>1. CASE Consumes(c)
  <2>1. Within(c)
    BY <1>1 DEF Consumes, Releases, Within
  <2>2. Honest(c)'
    BY <1>1 DEF Consumes, Releases, Honest
  <2> QED BY Zenon, <2>1, <2>2, WithinKeepsInv
<1>2. CASE Reserves(c)
  <2>1. Within(c)
    BY <1>2 DEF Reserves, Releases, Within
  <2>2. Honest(c)'
    BY <1>2 DEF Reserves, Releases, Honest
  <2> QED BY Zenon, <2>1, <2>2, WithinKeepsInv
<1>3. CASE Reads(c)
  <2>1. /\ h[c].pc = "reading"
        /\ \/ \E reason \in {"upstream_failure", "deadline", "completed"} : h' = Releases(c, reason)
           \/ \E pc \in {"relay", "forward"}, n \in 0..h[c].bytes :
                h' = [h EXCEPT ![c].pc = pc, ![c].bytes = n]
        /\ UNCHANGED <<serverVars, ledgerVars, socketVars, stopVars>>
    BY Zenon, <1>3 DEF Reads
  <2>2. Within(c)
    BY <2>1 DEF Releases, Within
  <2>3. Honest(c)'
    BY <2>1 DEF Releases, Honest
  <2> QED BY Zenon, <2>2, <2>3, WithinKeepsInv
<1>4. CASE Forwards(c)
  <2>1. Within(c)
    BY <1>4 DEF Forwards, Releases, Within
  <2>2. Honest(c)'
    BY <1>4 DEF Forwards, Releases, Honest
  <2> QED BY Zenon, <2>1, <2>2, WithinKeepsInv
<1>5. CASE ReleasesUpstream(c)
  <2>1. Within(c)
    BY Zenon, <1>5 DEF ReleasesUpstream, Within
  <2>2. Honest(c)'
    BY <1>5 DEF ReleasesUpstream, Honest
  <2> QED BY Zenon, <2>1, <2>2, WithinKeepsInv
<1> QED BY Zenon, <1>1, <1>2, <1>3, <1>4, <1>5

\* The end of a handler: its client leaves the register before its event is
\* written.
LEMMA RecordKeepsInv ==
  ASSUME NEW c \in Clients, ProxyInv,
         \/ Unregisters(c) \/ FinishesEvent(c) \/ Leaves(c)
  PROVE  ProxyInv'
<1> USE ProxyAssumption
    DEF ProxyInv, ProxyTypeOK, HandlerFields, Served, Callers, Nobody, serverVars, ledgerVars,
        socketVars, byteVars, stopVars
<1>1. CASE Unregisters(c)
  <2>1. ProxyTypeOK' /\ HonestInv'
    BY <1>1 DEF Unregisters, HonestInv, Honest
  <2>2. EventInv'
    BY Zenon, <1>1 DEF Unregisters, EventInv
  <2>3. LedgerInv'
    BY <1>1 DEF Unregisters, LedgerInv, TurnedAway
  <2>4. ShutInv'
    BY <1>1 DEF Unregisters, ShutInv
  <2> QED BY Zenon, <2>1, <2>2, <2>3, <2>4
<1>2. CASE FinishesEvent(c)
  <2> DEFINE q == h[c].seq
  <2>1. /\ h[c].pc = "record" /\ q # -1
        /\ inflight' = inflight \ {q}
        /\ h' = [h EXCEPT ![c].pc = "leave"]
        /\ UNCHANGED <<serverVars, expired, next, overflow, attempts, rejections, socketVars,
                       byteVars, stopVars>>
    BY Zenon, <1>2 DEF FinishesEvent, LedgerInv
  <2>2. q \notin DOMAIN events
    BY <2>1 DEF EventInv, LedgerInv
  <2>3. /\ DOMAIN events' = DOMAIN events \cup {q}
        /\ \A s \in DOMAIN events : events'[s] = events[s]
        /\ events'[q].client = c
        /\ events'[q].disposition = h[c].disposition
    BY Zenon, <1>2, <2>2 DEF FinishesEvent
  <2>4. events'[q].dest = h[c].dest
    BY Zenon, <1>2 DEF FinishesEvent
  <2>5. ProxyTypeOK' /\ HonestInv'
    BY SMTT(20), <2>1 DEF HonestInv, Honest
  <2>6. EventInv'
    BY <2>1, <2>2, <2>3, <2>4 DEF EventInv, HonestInv, Honest
  <2>7. LedgerInv'
    BY <2>1, <2>2, <2>3 DEF LedgerInv, TurnedAway, EventInv
  <2>8. ShutInv'
    BY <2>1 DEF ShutInv
  <2> QED BY Zenon, <2>5, <2>6, <2>7, <2>8
<1>3. CASE Leaves(c)
  <2>1. ProxyTypeOK' /\ HonestInv'
    BY <1>3 DEF Leaves, HonestInv, Honest
  <2>2. EventInv'
    BY <1>3 DEF Leaves, EventInv
  <2>3. LedgerInv'
    BY <1>3 DEF Leaves, LedgerInv, TurnedAway
  <2>4. ShutInv'
    BY <1>3 DEF Leaves, ShutInv
  <2> QED BY Zenon, <2>1, <2>2, <2>3, <2>4
<1> QED BY Zenon, <1>1, <1>2, <1>3

\* A step that leaves the handlers, the ledger and the shutdown alone; a
\* supervisor that begins to serve finds the proxy open.
LEMMA QuietKeepsInv ==
  ASSUME ProxyInv, UNCHANGED <<accepting, h, ledgerVars, socketVars, stopVars>>,
         serve' = serve \/ serve' # "serving" \/ ~closed
  PROVE  ProxyInv'
<1> USE DEF ProxyInv, ledgerVars, socketVars, stopVars
<1>1. ProxyTypeOK'
  BY Zenon DEF ProxyTypeOK
<1>2. HonestInv' /\ EventInv'
  BY Zenon DEF HonestInv, Honest, EventInv
<1>3. LedgerInv'
  BY Zenon DEF LedgerInv, TurnedAway
<1>4. ShutInv'
  BY Zenon DEF ShutInv, Callers
<1> QED BY Zenon, <1>1, <1>2, <1>3, <1>4

\* shutdown(), by stop() or by the timer.
LEMMA ShutdownKeepsInv ==
  ASSUME NEW s \in Callers, ProxyInv, Shutdown(s)
  PROVE  ProxyInv'
<1> USE ProxyAssumption
    DEF ProxyInv, ProxyTypeOK, HandlerFields, Served, Callers, Nobody, serverVars, ledgerVars,
        socketVars, byteVars, stopVars
<1>1. UNCHANGED <<accepting, h, ledgerVars, clients>> /\ DOMAIN shut' = Callers
  BY Zenon DEF Shutdown, ShutBegins, ShutRevokes, ShutDrains, ShutJoins, ShutWaits, At
<1>2. ProxyTypeOK' /\ HonestInv'
  BY Zenon, <1>1 DEF HonestInv, Honest
<1>3. EventInv' /\ LedgerInv'
  <2>1. EventInv'
    BY Zenon, <1>1 DEF EventInv
  <2>2. LedgerInv'
    BY <1>1 DEF LedgerInv, TurnedAway
  <2> QED BY Zenon, <2>1, <2>2
<1>4. ShutInv'
  <2>1. CASE ShutBegins(s)
    BY <2>1 DEF ShutInv, LedgerInv, At, ShutBegins
  <2>2. CASE ShutRevokes(s)
    BY Zenon, <2>2 DEF ShutInv, LedgerInv, At, ShutRevokes
  <2>3. CASE ShutDrains(s)
    BY Zenon, <2>3 DEF ShutInv, LedgerInv, At, ShutDrains
  <2>4. CASE ShutJoins(s)
    BY <2>4 DEF ShutInv, LedgerInv, At, ShutJoins, Alive
  <2>5. CASE ShutWaits(s)
    BY <2>5 DEF ShutInv, LedgerInv, At, ShutWaits, Owner
  <2> QED BY Zenon, <2>1, <2>2, <2>3, <2>4, <2>5 DEF Shutdown
<1> QED BY Zenon, <1>2, <1>3, <1>4

\* The invariant, for any clients and any limits (EgressProxy, Init and Next).
THEOREM ProxyInvariant == Spec => []ProxyInv
<1>1. Init => ProxyInv
  <2> SUFFICES ASSUME Init PROVE ProxyInv
    BY Zenon
  <2> USE ProxyAssumption DEF Init, NewHandler, HandlerFields, Served, Callers, Nobody
  <2>1. ProxyTypeOK
    BY DEF ProxyTypeOK
  <2>2. HonestInv /\ EventInv /\ ShutInv
    BY DEF HonestInv, Honest, EventInv, ShutInv
  <2>3. LedgerInv
    BY DEF LedgerInv
  <2> QED BY Zenon, <2>1, <2>2, <2>3 DEF ProxyInv
<1>2. ProxyInv /\ [Next]_vars => ProxyInv'
  <2> SUFFICES ASSUME ProxyInv, [Next]_vars PROVE ProxyInv'
    BY Zenon
  <2>1. CASE Start \/ ServeBegins \/ DeadlinePasses \/ UNCHANGED vars
    <3>1. /\ UNCHANGED <<accepting, h, ledgerVars, socketVars, stopVars>>
          /\ serve' = serve \/ serve' # "serving" \/ ~closed
      BY Zenon, <2>1 DEF Start, ServeBegins, DeadlinePasses, vars, serverVars
    <3> QED BY Zenon, <3>1, QuietKeepsInv
  <2>2. ASSUME NEW c \in Clients, Handle(c) PROVE ProxyInv'
    BY Zenon, <2>2, RequestKeepsInv, RelayKeepsInv, RecordKeepsInv DEF Handle
  <2> QED BY Zenon, <2>1, <2>2, AcceptKeepsInv, ShutdownKeepsInv DEF Next
<1> QED BY <1>1, <1>2, PTL DEF Spec

\* Whatever the interleaving of handlers, deadline and shutdown, the canonical
\* stream calls no performed connection blocked and no missing one allowed
\* (browser_events_snapshot).
THEOREM CanonicalIsHonest == Spec => []CanonicalHonest
<1>1. ProxyInv => CanonicalHonest
  BY Zenon DEF ProxyInv, EventInv, CanonicalHonest, Canonical
<1> QED BY <1>1, ProxyInvariant, PTL

\* A telemetry that calls itself complete has an event for every client the proxy
\* registered, and so for every egress performed; it is silent only about clients
\* that wait for their handler or were turned away at the door
\* (telemetry_snapshot).
THEOREM CompleteLeavesNothingOut == Spec => []CompleteIsWhole
<1>1. ProxyInv => CompleteIsWhole
  <2> SUFFICES ASSUME ProxyInv, Complete, NEW c \in Clients
               PROVE  \/ \E s \in DOMAIN events : events[s].client = c
                      \/ ~h[c].performed /\ (h[c].pc \in {"none", "started"} \/ TurnedAway(c))
    BY Zenon DEF CompleteIsWhole
  <2>1. h[c].pc \in {"none", "started", "record", "leave", "gone"} \cup Served
    BY Zenon DEF ProxyInv, ProxyTypeOK
  <2>2. CASE h[c].pc \in {"none", "started"}
    BY Zenon, <2>2 DEF ProxyInv, HonestInv, Honest
  <2>3. h[c].pc \notin Served
    BY Zenon DEF ProxyInv, LedgerInv, Complete
  <2>4. h[c].pc # "record"
    BY Zenon DEF ProxyInv, LedgerInv, Complete, Served
  <2>5. CASE h[c].pc \in {"leave", "gone"}
    <3>1. ~overflow /\ ~(rejections > 0)
      BY DEF Complete
    <3> QED BY Zenon, <2>5, <3>1 DEF ProxyInv, LedgerInv
  <2> QED BY Zenon, <2>1, <2>2, <2>3, <2>4, <2>5
<1> QED BY <1>1, ProxyInvariant, PTL

\* From the moment shutdown() begins no socket is registered anew; after it has closed
\* the registered ones no byte crosses; after it has returned without an error nothing
\* of the proxy is left (shutdown).
THEOREM NothingAfterShutdown == Spec => ShutdownIsFinal
<1> DEFINE NoneNew == closed => clients' \subseteq clients /\ upstreams' \subseteq upstreams
           Quiet == closed /\ (\A s \in Callers : shut[s] # "revoke") => sent' = sent
           Over == (\E s \in Callers : shut[s] = "ok") =>
                     /\ \A c \in Clients : ~Alive(c) /\ ~h[c].up
                     /\ accepting = Nobody /\ serve # "serving"
<1>1. ProxyInv => Over
  BY Zenon DEF ProxyInv, ShutInv, Alive
<1>2. ProxyInv /\ [Next]_vars => [Quiet]_vars
  <2> SUFFICES ASSUME ProxyInv, Next, closed, \A s \in Callers : shut[s] # "revoke"
               PROVE  sent' = sent
    BY Zenon DEF vars
  <2>1. ASSUME NEW c \in Clients, Forwards(c) PROVE sent' = sent
    <3>1. c \in revoked
      BY Zenon, <2>1 DEF ProxyInv, ShutInv, Served, Forwards
    <3> QED BY Zenon, <2>1, <3>1 DEF Forwards
  <2>2. ASSUME NEW c \in Clients, Handle(c), ~Forwards(c) PROVE sent' = sent
    BY Zenon, <2>2 DEF Handle, Registers, ReservesEvent, CountsAttempt, ReadsRequest, Connects,
       ChecksPeer, RegistersUpstream, Consumes, Reserves, Reads, ReleasesUpstream, Unregisters,
       FinishesEvent, Leaves, byteVars
  <2>3. ASSUME NEW c \in Clients, AcceptChecks(c) \/ AcceptStarts(c) PROVE sent' = sent
    BY Zenon, <2>3 DEF AcceptChecks, AcceptStarts, byteVars
  <2>4. ASSUME NEW s \in Callers, Shutdown(s) PROVE sent' = sent
    BY Zenon, <2>4 DEF Shutdown, ShutBegins, ShutRevokes, ShutDrains, ShutJoins, ShutWaits, byteVars
  <2>5. CASE Start \/ ServeBegins \/ DeadlinePasses
    BY Zenon, <2>5 DEF Start, ServeBegins, DeadlinePasses, byteVars
  <2> QED BY Zenon, <2>1, <2>2, <2>3, <2>4, <2>5 DEF Next
<1>3. Spec => [][Quiet]_vars
  BY <1>2, ProxyInvariant, PTL DEF Spec
<1>4. Spec => []Over
  BY <1>1, ProxyInvariant, PTL
<1>5. [Next]_vars => [NoneNew]_vars
  <2> SUFFICES ASSUME Next, closed
               PROVE  clients' \subseteq clients /\ upstreams' \subseteq upstreams
    BY Zenon DEF vars
  <2>1. ASSUME NEW c \in Clients, Handle(c)
        PROVE  clients' \subseteq clients /\ upstreams' \subseteq upstreams
    BY Zenon, <2>1 DEF Handle, Registers, ReservesEvent, CountsAttempt, ReadsRequest, Connects,
       ChecksPeer, RegistersUpstream, Consumes, Reserves, Reads, Forwards, ReleasesUpstream,
       Unregisters, FinishesEvent, Leaves, TurnsAway, socketVars
  <2>2. ASSUME NEW c \in Clients, AcceptChecks(c) \/ AcceptStarts(c)
        PROVE  clients' \subseteq clients /\ upstreams' \subseteq upstreams
    BY Zenon, <2>2 DEF AcceptChecks, AcceptStarts, socketVars
  <2>3. ASSUME NEW s \in Callers, Shutdown(s)
        PROVE  clients' \subseteq clients /\ upstreams' \subseteq upstreams
    BY Zenon, <2>3 DEF Shutdown, ShutBegins, ShutRevokes, ShutDrains, ShutJoins, ShutWaits,
       socketVars
  <2>4. CASE Start \/ ServeBegins \/ DeadlinePasses
    BY Zenon, <2>4 DEF Start, ServeBegins, DeadlinePasses, socketVars
  <2> QED BY Zenon, <2>1, <2>2, <2>3, <2>4 DEF Next
<1>6. Spec => [][NoneNew]_vars
  BY <1>5, PTL DEF Spec
<1> QED BY Zenon, <1>3, <1>4, <1>6 DEF ShutdownIsFinal

-------------------------------------------------------------------------------
(* Why shutdown() ends: somebody can always go on, and only so many times.     *)

\* A caller that owns the shutdown, or has ended it.
Owns == {"revoke", "drain", "join", "ok", "error"}

\* Whoever waits, waits for an owner; and the clock runs only once the proxy is up.
OwnerInv ==
  /\ \A s \in Callers : shut[s] = "wait" => shut[Owner(s)] \in Owns
  /\ closed => \E s \in Callers : shut[s] \in Owns
  /\ expired => serve # "new"

\* What ThreadStep asks for: a client just accepted, a handler that has not ended (at each
\* point of it some step is open to it), a caller whose next step is not blocked, or a
\* timer that is due.
SomeoneCanGoOn ==
  \/ accepting \in Clients \/ \E c \in Clients : Alive(c)
  \/ \E s \in Callers :
       \/ shut[s] \in {"revoke", "join"} \/ (shut[s] = "drain" /\ accepting = Nobody)
       \/ shut[s] = "wait" /\ shut[Owner(s)] \in Owns
  \/ shut["timer"] = "idle" /\ expired /\ serve # "new"

LEMMA TheOther ==
  ASSUME NEW s \in Callers
  PROVE  Owner(s) \in Callers /\ \A t \in Callers : t = s \/ t = Owner(s)
BY Zenon DEF Owner, Callers

LEMMA ShutdownKeepsOwner ==
  ASSUME NEW s \in Callers, ProxyInv, OwnerInv, Shutdown(s)
  PROVE  OwnerInv'
<1>1. /\ UNCHANGED expired /\ DOMAIN shut = Callers
      /\ serve' = serve \/ (serve = "serving" /\ serve' = "ended")
  BY Zenon DEF Shutdown, ShutBegins, ShutRevokes, ShutDrains, ShutJoins, ShutWaits, ProxyInv,
     ProxyTypeOK, serverVars
<1>2. \A t \in Callers : shut'[t] = "wait" => shut'[Owner(t)] \in Owns
  <2>1. CASE ShutBegins(s)
    BY SMTT(20), <1>1, <2>1, TheOther DEF ShutBegins, At, OwnerInv, Owns, ProxyInv, ShutInv
  <2>2. CASE ShutRevokes(s)
    BY Zenon, <1>1, <2>2, TheOther DEF ShutRevokes, OwnerInv, Owns
  <2>3. CASE ShutDrains(s) \/ ShutJoins(s) \/ ShutWaits(s)
    <3>1. PICK pc \in {"join", "ok", "error"} : shut' = [shut EXCEPT ![s] = pc]
      BY Zenon, <2>3 DEF ShutDrains, ShutJoins, ShutWaits, At
    <3> QED BY Zenon, <1>1, <3>1, TheOther DEF OwnerInv, Owns
  <2> QED BY Zenon, <2>1, <2>2, <2>3 DEF Shutdown
<1>3. closed' => \E t \in Callers : shut'[t] \in Owns
  <2>1. CASE ShutBegins(s)
    BY Zenon, <1>1, <2>1 DEF ShutBegins, At, OwnerInv, Owns
  <2>2. CASE ShutRevokes(s)
    BY Zenon, <1>1, <2>2 DEF ShutRevokes, OwnerInv, Owns
  <2>3. CASE ShutDrains(s) \/ ShutJoins(s) \/ ShutWaits(s)
    <3>1. PICK pc \in {"join", "ok", "error"} : shut' = [shut EXCEPT ![s] = pc]
      BY Zenon, <2>3 DEF ShutDrains, ShutJoins, ShutWaits, At
    <3> QED BY Zenon, <1>1, <3>1 DEF Owns
  <2> QED BY Zenon, <2>1, <2>2, <2>3 DEF Shutdown
<1> QED BY Zenon, <1>1, <1>2, <1>3 DEF OwnerInv

LEMMA HandlerLeavesShutdown ==
  ASSUME NEW c \in Clients, AcceptChecks(c) \/ AcceptStarts(c) \/ Handle(c)
  PROVE  UNCHANGED <<serve, expired, closed, shut>>
<1> USE DEF serverVars, stopVars
<1>1. CASE AcceptChecks(c) \/ AcceptStarts(c)
  BY Zenon, <1>1 DEF AcceptChecks, AcceptStarts
<1>2. CASE Registers(c) \/ ReservesEvent(c) \/ CountsAttempt(c) \/ ReadsRequest(c) \/ Connects(c)
  BY Zenon, <1>2 DEF Registers, ReservesEvent, CountsAttempt, ReadsRequest, Connects
<1>3. CASE ChecksPeer(c) \/ RegistersUpstream(c) \/ Consumes(c) \/ Reserves(c) \/ Reads(c)
  BY Zenon, <1>3 DEF ChecksPeer, RegistersUpstream, Consumes, Reserves, Reads
<1>4. CASE Forwards(c) \/ ReleasesUpstream(c) \/ Unregisters(c) \/ FinishesEvent(c) \/ Leaves(c)
  BY Zenon, <1>4 DEF Forwards, ReleasesUpstream, Unregisters, FinishesEvent, Leaves
<1> QED BY Zenon, <1>1, <1>2, <1>3, <1>4 DEF Handle

\* Whoever waits in shutdown() waits for somebody who can go on, or has: the two callers
\* never wait for each other, and a cancelled timer is never waited for (shutdown, stop).
\* This is what StopNeverStuck asks of ThreadStep, with its guards spelt out.
THEOREM ShutdownNeverWaitsAlone ==
  Spec => []((\E s \in Callers : shut[s] \in {"revoke", "drain", "join", "wait"})
               \/ (expired /\ ~closed) => SomeoneCanGoOn)
<1> DEFINE Waits == (\E s \in Callers : shut[s] \in {"revoke", "drain", "join", "wait"})
                      \/ (expired /\ ~closed)
<1>1. Init => OwnerInv
  BY Zenon DEF Init, OwnerInv, Owns, Callers
<1>2. ProxyInv /\ OwnerInv /\ [Next]_vars => OwnerInv'
  <2> SUFFICES ASSUME ProxyInv, OwnerInv, [Next]_vars PROVE OwnerInv'
    BY Zenon
  <2>1. ASSUME NEW c \in Clients, AcceptChecks(c) \/ AcceptStarts(c) \/ Handle(c)
        PROVE  OwnerInv'
    BY Zenon, <2>1, HandlerLeavesShutdown DEF OwnerInv
  <2>2. ASSUME NEW s \in Callers, Shutdown(s) PROVE OwnerInv'
    BY Zenon, <2>2, ShutdownKeepsOwner
  <2>3. CASE Start \/ ServeBegins \/ DeadlinePasses \/ UNCHANGED vars
    BY SMTT(20), <2>3 DEF Start, ServeBegins, DeadlinePasses, vars, serverVars, stopVars, OwnerInv
  <2> QED BY Zenon, <2>1, <2>2, <2>3 DEF Next
<1>3. ProxyInv /\ OwnerInv => (Waits => SomeoneCanGoOn)
  <2> SUFFICES ASSUME ProxyInv, OwnerInv, Waits PROVE SomeoneCanGoOn
    BY Zenon
  <2>1. accepting = Nobody \/ accepting \in Clients
    BY Zenon DEF ProxyInv, ProxyTypeOK
  <2>2. CASE \E s \in Callers : shut[s] \in {"revoke", "drain", "join", "wait"}
    BY Zenon, <2>1, <2>2 DEF SomeoneCanGoOn, OwnerInv
  <2>3. CASE expired /\ ~closed
    <3>1. shut["timer"] = "idle"
      BY Zenon, <2>3 DEF ProxyInv, ShutInv, Callers
    <3> QED BY Zenon, <2>3, <3>1 DEF SomeoneCanGoOn, OwnerInv
  <2> QED BY Zenon, <2>2, <2>3
<1> QED BY <1>1, <1>2, <1>3, ProxyInvariant, PTL DEF Spec

\* The steps a handler of a closed proxy, and a caller of shutdown(), have left at most.
HandlerLeft(pc) ==
  CASE pc = "none" -> 14 [] pc = "started" -> 13 [] pc = "registered" -> 12
    [] pc = "reserved" -> 11 [] pc = "request" -> 10 [] pc = "connect" -> 9
    [] pc = "connected" -> 8 [] pc = "register_up" -> 7 [] pc \in {"reading", "forward"} -> 6
    [] pc = "relay" -> 5 [] pc = "release" -> 4 [] pc = "unregister" -> 3
    [] pc = "record" -> 2 [] pc = "leave" -> 1 [] OTHER -> 0

CallerLeft(pc) ==
  CASE pc = "idle" -> 4 [] pc = "revoke" -> 3 [] pc = "drain" -> 2
    [] pc \in {"join", "wait"} -> 1 [] OTHER -> 0

\* c moves on, alone, from pc to one of pcs.
Moves(c, pc, pcs) ==
  /\ h[c].pc = pc /\ h'[c].pc \in pcs
  /\ \A d \in Clients \ {c} : h'[d] = h[d]

LEMMA ClosedHandlerMoves ==
  ASSUME NEW c \in Clients, ProxyInv, closed, AcceptChecks(c) \/ AcceptStarts(c) \/ Handle(c)
  PROVE  \/ Moves(c, "none", {"started", "gone"})
         \/ Moves(c, "started", {"leave"})
         \/ Moves(c, "registered", {"reserved", "unregister"})
         \/ Moves(c, "reserved", {"unregister"})
         \/ Moves(c, "request", {"unregister"})
         \/ Moves(c, "connect", {"unregister"})
         \/ Moves(c, "connected", {"unregister"})
         \/ Moves(c, "register_up", {"unregister"})
         \/ Moves(c, "reading", {"release"})
         \/ Moves(c, "forward", {"release", "relay"})
         \/ Moves(c, "relay", {"release"})
         \/ Moves(c, "release", {"unregister"})
         \/ Moves(c, "unregister", {"record", "leave"})
         \/ Moves(c, "record", {"leave"})
         \/ Moves(c, "leave", {"gone"})
<1>0. DOMAIN h = Clients /\ DOMAIN h[c] = HandlerFields
  BY Zenon DEF ProxyInv, ProxyTypeOK
<1> USE <1>0 DEF Moves, HandlerFields
<1>1. CASE AcceptChecks(c)
  BY Zenon, <1>1 DEF AcceptChecks, Reject
<1>2. CASE AcceptStarts(c)
  <2>1. h[c].pc = "none"
    BY Zenon, <1>2, ProxyAssumption DEF AcceptStarts, ProxyInv, ProxyTypeOK, Nobody
  <2> QED BY Zenon, <1>2, <2>1 DEF AcceptStarts, Reject
<1>3. CASE Registers(c) \/ ReservesEvent(c)
  BY Zenon, <1>3 DEF Registers, TurnsAway, ReservesEvent
<1>4. CASE CountsAttempt(c) \/ ReadsRequest(c)
  BY SMTT(20), <1>4 DEF CountsAttempt, ReadsRequest, Ends, NoTime
<1>5. CASE Connects(c) \/ ChecksPeer(c)
  BY SMTT(20), <1>5 DEF Connects, ChecksPeer, Ends, NoTime
<1>6. CASE RegistersUpstream(c) \/ ReleasesUpstream(c)
  BY SMTT(20), <1>6 DEF RegistersUpstream, ReleasesUpstream, Ends
<1>7. CASE Consumes(c) \/ Reserves(c)
  <2>1. h[c].pc = "relay" /\ \E reason : h' = Releases(c, reason)
    BY Zenon, <1>7 DEF Consumes, Reserves, NoTime
  <2> QED BY SMTT(20), <2>1 DEF Releases
<1>8. CASE Reads(c)
  <2>1. h[c].pc = "reading" /\ \E reason : h' = Releases(c, reason)
    BY Zenon, <1>8 DEF Reads, NoTime
  <2> QED BY SMTT(20), <2>1 DEF Releases
<1>9. CASE Forwards(c)
  BY SMTT(20), <1>9 DEF Forwards, Releases
<1>10. CASE Unregisters(c) \/ FinishesEvent(c) \/ Leaves(c)
  BY Zenon, <1>10 DEF Unregisters, FinishesEvent, Leaves
<1> QED BY Zenon, <1>1, <1>2, <1>3, <1>4, <1>5, <1>6, <1>7, <1>8, <1>9, <1>10 DEF Handle

LEMMA ClosedHandlerWindsDown ==
  ASSUME NEW c \in Clients, ProxyInv, closed, AcceptChecks(c) \/ AcceptStarts(c) \/ Handle(c)
  PROVE  /\ HandlerLeft(h'[c].pc) < HandlerLeft(h[c].pc)
         /\ \A d \in Clients \ {c} : h'[d] = h[d]
<1>1. PICK pc, pcs : Moves(c, pc, pcs) /\ \A q \in pcs : HandlerLeft(q) < HandlerLeft(pc)
  <2>1. /\ HandlerLeft("none") = 14 /\ HandlerLeft("started") = 13
        /\ HandlerLeft("registered") = 12 /\ HandlerLeft("reserved") = 11
        /\ HandlerLeft("request") = 10 /\ HandlerLeft("connect") = 9
        /\ HandlerLeft("connected") = 8 /\ HandlerLeft("register_up") = 7
        /\ HandlerLeft("reading") = 6 /\ HandlerLeft("forward") = 6
        /\ HandlerLeft("relay") = 5 /\ HandlerLeft("release") = 4
        /\ HandlerLeft("unregister") = 3 /\ HandlerLeft("record") = 2
        /\ HandlerLeft("leave") = 1 /\ HandlerLeft("gone") = 0
    BY Zenon DEF HandlerLeft
  <2> QED BY SMTT(20), <2>1, ClosedHandlerMoves
<1> QED BY Zenon, <1>1 DEF Moves

LEMMA ShutdownWindsDown ==
  ASSUME NEW s \in Callers, ProxyInv, Shutdown(s)
  PROVE  /\ CallerLeft(shut'[s]) < CallerLeft(shut[s])
         /\ \A t \in Callers : CallerLeft(shut'[t]) <= CallerLeft(shut[t])
         /\ UNCHANGED h
<1>0. DOMAIN shut = Callers
  BY Zenon DEF ProxyInv, ProxyTypeOK
<1>1. CASE ShutRevokes(s)
  BY SMTT(20), <1>0, <1>1 DEF ShutRevokes, CallerLeft
<1>2. CASE ~ShutRevokes(s)
  <2>1. PICK pc : /\ shut' = [shut EXCEPT ![s] = pc] /\ UNCHANGED h
                  /\ \/ shut[s] = "idle" /\ pc \in {"wait", "revoke"}
                     \/ shut[s] = "drain" /\ pc = "join"
                     \/ shut[s] \in {"join", "wait"} /\ pc \in {"ok", "error"}
    BY Zenon, <1>2 DEF Shutdown, ShutBegins, ShutDrains, ShutJoins, ShutWaits, At
  <2> QED BY SMTT(20), <1>0, <2>1 DEF CallerLeft
<1> QED BY Zenon, <1>1, <1>2

\* Once _closed is set the proxy only winds down: no step of any thread gives a handler or
\* a caller of shutdown() more to do, and each step of a handler, of the accept loop or of
\* shutdown() leaves one of them less, whatever the clients and the origins send.  So
\* shutdown() ends after at most fourteen steps of each client and four of each caller
\* (handle_client, _remaining_time, shutdown).
THEOREM ClosedProxyWindsDown ==
  Spec => [][closed =>
    /\ \A c \in Clients : HandlerLeft(h'[c].pc) <= HandlerLeft(h[c].pc)
    /\ \A s \in Callers : CallerLeft(shut'[s]) <= CallerLeft(shut[s])
    /\ ThreadStep => \/ \E c \in Clients : HandlerLeft(h'[c].pc) < HandlerLeft(h[c].pc)
                     \/ \E s \in Callers : CallerLeft(shut'[s]) < CallerLeft(shut[s])]_vars
<1> DEFINE Down == closed =>
             /\ \A c \in Clients : HandlerLeft(h'[c].pc) <= HandlerLeft(h[c].pc)
             /\ \A s \in Callers : CallerLeft(shut'[s]) <= CallerLeft(shut[s])
             /\ ThreadStep => \/ \E c \in Clients : HandlerLeft(h'[c].pc) < HandlerLeft(h[c].pc)
                              \/ \E s \in Callers : CallerLeft(shut'[s]) < CallerLeft(shut[s])
<1>0. \A pc : HandlerLeft(pc) \in Nat /\ CallerLeft(pc) \in Nat
  BY Zenon DEF HandlerLeft, CallerLeft
<1>1. ProxyInv /\ [Next]_vars => [Down]_vars
  <2> SUFFICES ASSUME ProxyInv, Next, closed PROVE Down
    BY Zenon
  <2>1. ASSUME NEW c \in Clients, AcceptChecks(c) \/ AcceptStarts(c) \/ Handle(c)
        PROVE  Down
    <3>1. UNCHANGED shut
      BY Zenon, <2>1, HandlerLeavesShutdown
    <3>2. /\ HandlerLeft(h'[c].pc) < HandlerLeft(h[c].pc)
          /\ \A d \in Clients \ {c} : h'[d] = h[d]
      BY Zenon, <2>1, ClosedHandlerWindsDown
    <3> QED BY SMTT(20), <1>0, <3>1, <3>2
  <2>2. ASSUME NEW s \in Callers, Shutdown(s) PROVE Down
    <3>1. /\ CallerLeft(shut'[s]) < CallerLeft(shut[s])
          /\ \A t \in Callers : CallerLeft(shut'[t]) <= CallerLeft(shut[t])
          /\ UNCHANGED h
      BY Zenon, <2>2, ShutdownWindsDown
    <3> QED BY SMTT(20), <1>0, <3>1
  <2>3. CASE ~ThreadStep /\ (Start \/ ServeBegins \/ DeadlinePasses)
    <3>1. UNCHANGED <<h, shut>>
      BY Zenon, <2>3 DEF Start, ServeBegins, DeadlinePasses, stopVars
    <3> QED BY SMTT(20), <1>0, <2>3, <3>1
  <2>4. ThreadStep => \/ \E c \in Clients : AcceptStarts(c) \/ Handle(c)
                      \/ \E s \in Callers : Shutdown(s)
    BY Zenon DEF ThreadStep, ShutStep, Shutdown, Callers
  <2> QED BY Zenon, <2>1, <2>2, <2>3, <2>4 DEF Next
<1> QED BY <1>1, ProxyInvariant, PTL DEF Spec

-------------------------------------------------------------------------------
(* The limits.                                                                 *)

\* The bytes that handlers at pc hold, one by one, as pairs of client and number:
\* the reservation of a reader, or what is paid for and not yet sent.
Held(pc) == {t \in Clients \X Nat : h[t[1]].pc = pc /\ t[2] \in 1..h[t[1]].bytes}

\* The budget counts every reservation and no more, and what was sent and what is
\* about to be sent is paid for.
BudgetInv ==
  /\ used \in Int /\ reserved \in Int /\ sent \in Int
  /\ \A c \in Clients : h[c].bytes \in Nat
  /\ used + reserved <= MaxBytes
  /\ IsFiniteSet(Held("reading")) /\ reserved = Cardinality(Held("reading"))
  /\ IsFiniteSet(Held("forward")) /\ sent + Cardinality(Held("forward")) <= used

\* The clients that may connect to an origin, or have.
Admitted == {c \in Clients : h[c].performed \/ h[c].pc \in {"request", "connect"}}

\* Each of them was counted, and none was counted beyond the limit.
AttemptInv ==
  /\ attempts \in Nat /\ IsFiniteSet(Admitted)
  /\ Cardinality(Admitted) <= attempts /\ Cardinality(Admitted) <= MaxConnections

LimitsInv == BudgetInv /\ AttemptInv

\* The bytes one handler holds are as many as it says.
LEMMA OwnBytes ==
  ASSUME NEW c \in Clients, NEW n \in Nat
  PROVE  IsFiniteSet({c} \X (1..n)) /\ Cardinality({c} \X (1..n)) = n
<1>1. IsFiniteSet({c}) /\ Cardinality({c}) = 1
  BY Zenon, FS_Singleton
<1>2. IsFiniteSet(1..n) /\ Cardinality(1..n) = n
  BY FS_Interval
<1>3. /\ IsFiniteSet({c} \X (1..n))
      /\ Cardinality({c} \X (1..n)) = Cardinality({c}) * Cardinality(1..n)
  BY Zenon, <1>1, <1>2, FS_Product
<1> QED BY <1>1, <1>2, <1>3

\* Handlers that neither come to pc nor leave it hold what they held.
LEMMA HeldUnmoved ==
  ASSUME NEW pc, \A d \in Clients : h'[d].pc = pc <=> h[d].pc = pc,
         \A d \in Clients : h[d].pc = pc => h'[d].bytes = h[d].bytes
  PROVE  Held(pc)' = Held(pc)
BY Zenon DEF Held

\* A handler that comes to pc with n bytes adds them.
LEMMA HeldGrows ==
  ASSUME NEW pc, NEW c \in Clients, NEW n \in Nat, IsFiniteSet(Held(pc)),
         \A d \in Clients \ {c} : h'[d] = h[d],
         h[c].pc # pc, h'[c].pc = pc, h'[c].bytes = n
  PROVE  IsFiniteSet(Held(pc)') /\ Cardinality(Held(pc)') = Cardinality(Held(pc)) + n
<1> DEFINE Own == {c} \X (1..n)
<1>1. Held(pc)' = Held(pc) \cup Own
  BY DEF Held
<1>2. Held(pc) \cap Own = {}
  BY Zenon DEF Held
<1>3. IsFiniteSet(Own) /\ Cardinality(Own) = n
  BY Zenon, OwnBytes
<1>4. Cardinality(Held(pc)) \in Nat /\ Cardinality({}) = 0
  BY Zenon, FS_CardinalityType, FS_EmptySet
<1> HIDE DEF Own
<1>5. /\ IsFiniteSet(Held(pc) \cup Own)
      /\ Cardinality(Held(pc) \cup Own) =
           Cardinality(Held(pc)) + Cardinality(Own) - Cardinality(Held(pc) \cap Own)
  BY Zenon, <1>3, FS_Union
<1>6. Cardinality(Held(pc) \cap Own) = 0
  BY Zenon, <1>2, <1>4
<1> QED BY <1>1, <1>3, <1>4, <1>5, <1>6

\* A handler that leaves pc takes its bytes away.
LEMMA HeldShrinks ==
  ASSUME NEW pc, NEW c \in Clients, IsFiniteSet(Held(pc)),
         \A d \in Clients \ {c} : h'[d] = h[d],
         h[c].pc = pc, h'[c].pc # pc, h[c].bytes \in Nat
  PROVE  IsFiniteSet(Held(pc)') /\ Cardinality(Held(pc)') = Cardinality(Held(pc)) - h[c].bytes
<1> DEFINE Own == {c} \X (1..h[c].bytes)
<1>1. Held(pc)' = Held(pc) \ Own
  BY DEF Held
<1>2. Held(pc) \cap Own = Own
  BY DEF Held
<1>3. IsFiniteSet(Own) /\ Cardinality(Own) = h[c].bytes
  BY Zenon, OwnBytes
<1> HIDE DEF Own
<1>4. /\ IsFiniteSet(Held(pc) \ Own)
      /\ Cardinality(Held(pc) \ Own) = Cardinality(Held(pc)) - Cardinality(Held(pc) \cap Own)
  BY Zenon, FS_Difference
<1> QED BY Zenon, <1>1, <1>2, <1>3, <1>4

\* A step that moves no handler to or from a transfer, nor the budget.
LEMMA BudgetUntouched ==
  ASSUME BudgetInv, UNCHANGED byteVars,
         \A d \in Clients : h'[d].bytes \in Nat,
         \A d \in Clients : h'[d] = h[d] \/ {h[d].pc, h'[d].pc} \cap {"reading", "forward"} = {}
  PROVE  BudgetInv'
<1>1. Held("reading")' = Held("reading")
  BY Zenon, HeldUnmoved
<1>2. Held("forward")' = Held("forward")
  BY Zenon, HeldUnmoved
<1> QED BY Zenon, <1>1, <1>2 DEF BudgetInv, byteVars

\* A step that admits nobody new.
LEMMA NobodyAdmitted ==
  ASSUME AttemptInv, attempts' = attempts,
         \A d \in Clients : d \in Admitted' => d \in Admitted
  PROVE  AttemptInv'
<1>1. Admitted' \in SUBSET Admitted
  BY Zenon DEF Admitted
<1>2. IsFiniteSet(Admitted') /\ Cardinality(Admitted') <= Cardinality(Admitted)
  BY Zenon, <1>1, FS_Subset DEF AttemptInv
<1>3. Cardinality(Admitted') \in Nat /\ Cardinality(Admitted) \in Nat
  BY Zenon, <1>2, FS_CardinalityType DEF AttemptInv
<1> QED BY <1>2, <1>3, ProxyAssumption DEF AttemptInv

\* The handler that is counted within the limit is admitted, and nobody else.
LEMMA CountKeepsLimits ==
  ASSUME NEW c \in Clients, ProxyInv, LimitsInv, CountsAttempt(c)
  PROVE  LimitsInv'
<1> USE ProxyAssumption DEF ProxyInv, ProxyTypeOK, HandlerFields
<1>0. /\ h[c].pc = "reserved" /\ attempts' = attempts + 1 /\ UNCHANGED byteVars
      /\ \/ h' = [h EXCEPT ![c].pc = "request"] /\ ~(attempts' > MaxConnections)
         \/ \E reason : h' = Ends(c, "blocked", reason)
  BY Zenon DEF CountsAttempt
<1>1. /\ h[c].pc = "reserved" /\ h'[c].pc \in {"request", "unregister"}
      /\ h'[c].pc = "request" => attempts + 1 <= MaxConnections
      /\ h'[c].performed = h[c].performed /\ h'[c].bytes = h[c].bytes
      /\ \A d \in Clients \ {c} : h'[d] = h[d]
      /\ attempts' = attempts + 1 /\ UNCHANGED byteVars
  BY SMTT(20), <1>0 DEF Ends, LimitsInv, AttemptInv
<1>2. BudgetInv'
  BY Zenon, <1>1, BudgetUntouched DEF LimitsInv, BudgetInv
<1>3. AttemptInv'
  <2>1. Cardinality(Admitted) \in Nat /\ IsFiniteSet(Admitted)
    BY Zenon, FS_CardinalityType DEF LimitsInv, AttemptInv
  <2>2. CASE h'[c].pc = "unregister"
    <3>1. Admitted' \in SUBSET Admitted
      BY Zenon, <1>1, <2>2 DEF Admitted
    <3>2. IsFiniteSet(Admitted') /\ Cardinality(Admitted') <= Cardinality(Admitted)
      BY Zenon, <2>1, <3>1, FS_Subset
    <3>3. Cardinality(Admitted') \in Nat
      BY Zenon, <3>2, FS_CardinalityType
    <3> QED BY <1>1, <2>1, <3>2, <3>3 DEF LimitsInv, AttemptInv
  <2>3. CASE h'[c].pc = "request"
    <3>1. Admitted' = Admitted \cup {c}
      BY Zenon, <1>1, <2>3 DEF Admitted
    <3>2. /\ IsFiniteSet(Admitted \cup {c})
          /\ Cardinality(Admitted \cup {c}) =
               IF c \in Admitted THEN Cardinality(Admitted) ELSE Cardinality(Admitted) + 1
      BY Zenon, <2>1, FS_AddElement
    <3>3. IsFiniteSet(Admitted') /\ Cardinality(Admitted') <= Cardinality(Admitted) + 1
      BY <2>1, <3>1, <3>2
    <3>4. Cardinality(Admitted') \in Nat
      BY Zenon, <3>3, FS_CardinalityType
    <3> QED BY <1>1, <2>1, <2>3, <3>3, <3>4 DEF LimitsInv, AttemptInv
  <2> QED BY Zenon, <1>1, <2>2, <2>3
<1> QED BY Zenon, <1>2, <1>3 DEF LimitsInv

\* A step of c's handler outside the transfers that counts nothing.
Aside(c) ==
  /\ \A d \in Clients \ {c} : h'[d] = h[d]
  /\ {h[c].pc, h'[c].pc} \cap {"reading", "forward"} = {} /\ h'[c].bytes \in Nat
  /\ h'[c].performed => h[c].performed \/ h[c].pc = "connect"
  /\ h'[c].pc \in {"request", "connect"} => h[c].pc = "request"
  /\ UNCHANGED <<byteVars, attempts>>

LEMMA AsideKeepsLimits ==
  ASSUME NEW c \in Clients, LimitsInv, Aside(c)
  PROVE  LimitsInv'
<1>1. BudgetInv'
  <2>1. \A d \in Clients : h'[d].bytes \in Nat
    BY Zenon DEF Aside, LimitsInv, BudgetInv
  <2>2. \A d \in Clients : h'[d] = h[d] \/ {h[d].pc, h'[d].pc} \cap {"reading", "forward"} = {}
    BY Zenon DEF Aside
  <2> QED BY Zenon, <2>1, <2>2, BudgetUntouched DEF Aside, LimitsInv
<1>2. \A d \in Clients : d \in Admitted' => d \in Admitted
  BY Zenon DEF Aside, Admitted
<1>3. AttemptInv'
  BY Zenon, <1>2, NobodyAdmitted DEF Aside, LimitsInv
<1> QED BY Zenon, <1>1, <1>3 DEF LimitsInv

\* A step of c's handler in a transfer: the budget is what has to be shown.
Transfer(c) ==
  /\ \A d \in Clients \ {c} : h'[d] = h[d]
  /\ h'[c].bytes \in Nat /\ h'[c].performed = h[c].performed
  /\ h'[c].pc \notin {"request", "connect"} /\ attempts' = attempts

LEMMA TransferKeepsLimits ==
  ASSUME NEW c \in Clients, LimitsInv, Transfer(c), BudgetInv'
  PROVE  LimitsInv'
<1>1. \A d \in Clients : d \in Admitted' => d \in Admitted
  BY Zenon DEF Transfer, Admitted
<1> QED BY Zenon, <1>1, NobodyAdmitted DEF Transfer, LimitsInv

\* A transfer that ends without one byte more: what its handler held is given up.
LEMMA EndKeepsLimits ==
  ASSUME NEW c \in Clients, ProxyInv, LimitsInv, NEW reason, h' = Releases(c, reason),
         h[c].pc = "relay", UNCHANGED <<byteVars, attempts>>
  PROVE  LimitsInv'
<1>1. Aside(c)
  BY Zenon DEF Aside, Releases, ProxyInv, ProxyTypeOK, HandlerFields
<1> QED BY Zenon, <1>1, AsideKeepsLimits

\* Every step of a transfer keeps within the budget.
LEMMA RelayKeepsLimits ==
  ASSUME NEW c \in Clients, ProxyInv, LimitsInv,
         \/ Consumes(c) \/ Reserves(c) \/ Reads(c) \/ Forwards(c)
  PROVE  LimitsInv'
<1> USE ProxyAssumption DEF byteVars, ledgerVars
<1>0. /\ DOMAIN h = Clients /\ DOMAIN h[c] = HandlerFields
      /\ used \in Int /\ reserved \in Int /\ sent \in Int /\ h[c].bytes \in Nat
      /\ used + reserved <= MaxBytes
      /\ IsFiniteSet(Held("reading")) /\ reserved = Cardinality(Held("reading"))
      /\ IsFiniteSet(Held("forward")) /\ sent + Cardinality(Held("forward")) <= used
      /\ Cardinality(Held("forward")) \in Nat
  BY Zenon, FS_CardinalityType DEF ProxyInv, ProxyTypeOK, LimitsInv, BudgetInv
<1>1. CASE Consumes(c)
  <2>1. PICK n \in 1..Chunk :
          IF NoTime \/ used + reserved + n > MaxBytes
          THEN h' = Releases(c, IF NoTime THEN "deadline" ELSE "byte_limit") /\ UNCHANGED used
          ELSE used' = used + n /\ h' = [h EXCEPT ![c].pc = "forward", ![c].bytes = n]
    BY Zenon, <1>1 DEF Consumes
  <2>2. h[c].pc = "relay" /\ UNCHANGED <<reserved, sent, attempts>>
    BY Zenon, <1>1 DEF Consumes
  <2>3. CASE NoTime \/ used + reserved + n > MaxBytes
    BY Zenon, <2>1, <2>2, <2>3, EndKeepsLimits
  <2>4. CASE ~(NoTime \/ used + reserved + n > MaxBytes)
    <3>1. /\ used' = used + n /\ h' = [h EXCEPT ![c].pc = "forward", ![c].bytes = n]
          /\ n \in Nat /\ used + reserved + n <= MaxBytes
      BY <1>0, <2>1, <2>4
    <3>2. /\ \A d \in Clients \ {c} : h'[d] = h[d]
          /\ h'[c].pc = "forward" /\ h'[c].bytes = n /\ h'[c].performed = h[c].performed
      BY Zenon, <1>0, <3>1 DEF HandlerFields
    <3>3. IsFiniteSet(Held("forward")') /\ Cardinality(Held("forward")') = Cardinality(Held("forward")) + n
      BY SMTT(20), <1>0, <2>2, <3>1, <3>2, HeldGrows
    <3>4. Held("reading")' = Held("reading")
      BY Zenon, <2>2, <3>2, HeldUnmoved
    <3>5. BudgetInv'
      BY <1>0, <2>2, <3>1, <3>2, <3>3, <3>4 DEF LimitsInv, BudgetInv
    <3>6. Transfer(c)
      BY Zenon, <2>2, <3>1, <3>2 DEF Transfer
    <3> QED BY Zenon, <3>5, <3>6, TransferKeepsLimits
  <2> QED BY Zenon, <2>3, <2>4
<1>2. CASE Reserves(c)
  <2> DEFINE available == MaxBytes - used - reserved
             n == IF Chunk < available THEN Chunk ELSE available
  <2>2. h[c].pc = "relay" /\ UNCHANGED <<used, sent, attempts>>
    BY Zenon, <1>2 DEF Reserves
  <2>3. CASE NoTime \/ available <= 0
    BY Zenon, <1>2, <2>2, <2>3, EndKeepsLimits DEF Reserves
  <2>4. CASE ~(NoTime \/ available <= 0)
    <3>1. reserved' = reserved + n /\ h' = [h EXCEPT ![c].pc = "reading", ![c].bytes = n]
      BY Zenon, <1>2, <2>4 DEF Reserves
    <3>2. n \in Nat /\ used + reserved + n <= MaxBytes
      BY <1>0, <2>4
    <3> HIDE DEF n
    <3>3. /\ \A d \in Clients \ {c} : h'[d] = h[d]
          /\ h'[c].pc = "reading" /\ h'[c].bytes = n /\ h'[c].performed = h[c].performed
      BY Zenon, <1>0, <3>1 DEF HandlerFields
    <3>4. IsFiniteSet(Held("reading")') /\ Cardinality(Held("reading")') = Cardinality(Held("reading")) + n
      BY Zenon, <1>0, <2>2, <3>2, <3>3, HeldGrows
    <3>5. Held("forward")' = Held("forward")
      BY Zenon, <2>2, <3>3, HeldUnmoved
    <3>6. BudgetInv'
      BY <1>0, <2>2, <3>1, <3>2, <3>3, <3>4, <3>5 DEF LimitsInv, BudgetInv
    <3>7. Transfer(c)
      BY Zenon, <2>2, <3>2, <3>3 DEF Transfer
    <3> QED BY Zenon, <3>6, <3>7, TransferKeepsLimits
  <2> QED BY Zenon, <2>3, <2>4
<1>3. CASE Reads(c)
  <2>1. PICK n \in 0..h[c].bytes :
          /\ used' = used + n
          /\ \/ \E reason : h' = Releases(c, reason)
             \/ n = 0 /\ h' = [h EXCEPT ![c].pc = "relay", ![c].bytes = 0]
             \/ h' = [h EXCEPT ![c].pc = "forward", ![c].bytes = n]
    BY <1>0, <1>3 DEF Reads
  <2>2. h[c].pc = "reading" /\ reserved' = reserved - h[c].bytes /\ UNCHANGED <<sent, attempts>>
    BY Zenon, <1>3 DEF Reads
  <2>3. n \in Nat /\ n <= h[c].bytes
    BY <1>0, <2>1
  <2> DEFINE Moved ==
        /\ \A d \in Clients \ {c} : h'[d] = h[d]
        /\ h'[c].pc \in {"release", "relay", "forward"} /\ h'[c].bytes \in Nat
        /\ h'[c].pc = "forward" => h'[c].bytes = n
        /\ h'[c].performed = h[c].performed
  <2>4. Moved
    <3>1. ASSUME NEW reason, h' = Releases(c, reason) PROVE Moved
      BY Zenon, <1>0, <3>1 DEF Releases, HandlerFields
    <3>2. ASSUME NEW pc \in {"relay", "forward"}, h' = [h EXCEPT ![c].pc = pc, ![c].bytes = n]
          PROVE  Moved
      BY Zenon, <1>0, <2>3, <3>2 DEF HandlerFields
    <3> QED BY Zenon, <2>1, <3>1, <3>2
  <2>5. IsFiniteSet(Held("reading")') /\ Cardinality(Held("reading")') = Cardinality(Held("reading")) - h[c].bytes
    BY Zenon, <1>0, <2>2, <2>4, HeldShrinks
  <2>6. IsFiniteSet(Held("forward")') /\ Cardinality(Held("forward")') <= Cardinality(Held("forward")) + n
    <3>0. h[c].pc # "forward" /\ \A d \in Clients \ {c} : h'[d] = h[d]
      BY Zenon, <2>2, <2>4
    <3>1. CASE h'[c].pc = "forward"
      <4>1. h'[c].bytes = n /\ IsFiniteSet(Held("forward"))
        BY Zenon, <1>0, <2>4, <3>1
      <4>2. /\ IsFiniteSet(Held("forward")')
            /\ Cardinality(Held("forward")') = Cardinality(Held("forward")) + n
        BY Zenon, <2>3, <3>0, <3>1, <4>1, HeldGrows
      <4> QED BY <1>0, <2>3, <4>2
    <3>2. CASE h'[c].pc # "forward"
      <4>1. /\ \A d \in Clients : h'[d].pc = "forward" <=> h[d].pc = "forward"
            /\ \A d \in Clients : h[d].pc = "forward" => h'[d].bytes = h[d].bytes
        BY Zenon, <3>0, <3>2
      <4>2. Held("forward")' = Held("forward")
        BY Zenon, <4>1, HeldUnmoved
      <4> QED BY <1>0, <2>3, <4>2
    <3> QED BY Zenon, <3>1, <3>2
  <2>7. Cardinality(Held("forward")') \in Nat
    BY Zenon, <2>6, FS_CardinalityType
  <2>8. BudgetInv'
    BY <1>0, <2>1, <2>2, <2>3, <2>4, <2>5, <2>6, <2>7 DEF LimitsInv, BudgetInv
  <2>9. Transfer(c)
    BY Zenon, <2>2, <2>4 DEF Transfer
  <2> QED BY Zenon, <2>8, <2>9, TransferKeepsLimits
<1>4. CASE Forwards(c)
  <2>1. /\ h[c].pc = "forward" /\ UNCHANGED <<used, reserved, attempts>>
        /\ \/ h' = Releases(c, "upstream_failure") /\ sent' = sent
           \/ sent' = sent + h[c].bytes /\ h' = [h EXCEPT ![c].pc = "relay", ![c].bytes = 0]
    BY Zenon, <1>4 DEF Forwards
  <2>2. /\ \A d \in Clients \ {c} : h'[d] = h[d]
        /\ h'[c].pc \in {"release", "relay"} /\ h'[c].bytes \in Nat
        /\ h'[c].performed = h[c].performed
    BY <1>0, <2>1 DEF Releases, HandlerFields
  <2>3. sent' \in Int /\ sent' <= sent + h[c].bytes
    BY <1>0, <2>1
  <2>4. IsFiniteSet(Held("forward")') /\ Cardinality(Held("forward")') = Cardinality(Held("forward")) - h[c].bytes
    BY Zenon, <1>0, <2>1, <2>2, HeldShrinks
  <2>5. Held("reading")' = Held("reading")
    BY Zenon, <2>1, <2>2, HeldUnmoved
  <2>6. BudgetInv'
    BY <1>0, <2>1, <2>2, <2>3, <2>4, <2>5 DEF LimitsInv, BudgetInv
  <2>7. Transfer(c)
    BY Zenon, <2>1, <2>2 DEF Transfer
  <2> QED BY Zenon, <2>6, <2>7, TransferKeepsLimits
<1> QED BY Zenon, <1>1, <1>2, <1>3, <1>4

\* The other steps of a handler.
LEMMA HandlerKeepsLimits ==
  ASSUME NEW c \in Clients, ProxyInv, LimitsInv,
         \/ Registers(c) \/ ReservesEvent(c) \/ ReadsRequest(c) \/ Connects(c) \/ ChecksPeer(c)
         \/ RegistersUpstream(c) \/ ReleasesUpstream(c) \/ Unregisters(c) \/ FinishesEvent(c)
         \/ Leaves(c)
  PROVE  LimitsInv'
<1> USE DEF Aside, byteVars, ledgerVars, HandlerFields
<1>0. DOMAIN h = Clients /\ DOMAIN h[c] = HandlerFields /\ h[c].bytes \in Nat
  BY Zenon DEF ProxyInv, ProxyTypeOK, LimitsInv, BudgetInv
<1>1. CASE Registers(c) \/ ReservesEvent(c)
  <2>1. Aside(c)
    BY <1>0, <1>1 DEF Registers, TurnsAway, ReservesEvent
  <2> QED BY Zenon, <2>1, AsideKeepsLimits
<1>2. CASE ReadsRequest(c) \/ Connects(c)
  <2>1. CASE ReadsRequest(c)
    <3>1. Aside(c)
      BY <1>0, <2>1 DEF ReadsRequest, Ends
    <3> QED BY Zenon, <3>1, AsideKeepsLimits
  <2>2. CASE Connects(c)
    <3>1. Aside(c)
      BY <1>0, <2>2 DEF Connects, Ends
    <3> QED BY Zenon, <3>1, AsideKeepsLimits
  <2> QED BY Zenon, <1>2, <2>1, <2>2
<1>3. CASE ChecksPeer(c) \/ RegistersUpstream(c)
  <2>1. CASE ChecksPeer(c)
    <3>1. Aside(c)
      BY <1>0, <2>1 DEF ChecksPeer, Ends
    <3> QED BY Zenon, <3>1, AsideKeepsLimits
  <2>2. CASE RegistersUpstream(c)
    <3>1. Aside(c)
      BY <1>0, <2>2 DEF RegistersUpstream, Ends
    <3> QED BY Zenon, <3>1, AsideKeepsLimits
  <2> QED BY Zenon, <1>3, <2>1, <2>2
<1>4. CASE ReleasesUpstream(c) \/ Unregisters(c) \/ FinishesEvent(c) \/ Leaves(c)
  <2>1. Aside(c)
    BY <1>0, <1>4 DEF ReleasesUpstream, Unregisters, FinishesEvent, Leaves
  <2> QED BY Zenon, <2>1, AsideKeepsLimits
<1> QED BY Zenon, <1>1, <1>2, <1>3, <1>4

\* However many readers and clients race for the last byte and the last
\* connection, the byte budget and the connection limit hold and every byte that
\* crossed was paid for (_consume_transfer, _recv_transfer, handle_client).
THEOREM LimitsAlwaysHold == Spec => []LimitsHold
<1>1. Init => LimitsInv
  <2> SUFFICES ASSUME Init PROVE LimitsInv
    BY Zenon
  <2>1. Held("reading") = {} /\ Held("forward") = {} /\ Admitted = {}
    BY Zenon DEF Init, NewHandler, Held, Admitted
  <2>2. \A c \in Clients : h[c].bytes \in Nat
    BY Zenon DEF Init, NewHandler
  <2>3. /\ IsFiniteSet(Held("reading")) /\ Cardinality(Held("reading")) = 0
        /\ IsFiniteSet(Held("forward")) /\ Cardinality(Held("forward")) = 0
        /\ IsFiniteSet(Admitted) /\ Cardinality(Admitted) = 0
    BY Zenon, <2>1, FS_EmptySet
  <2>4. /\ used = 0 /\ reserved = 0 /\ sent = 0 /\ attempts = 0
        /\ MaxBytes \in Nat /\ MaxConnections \in Nat
    BY Zenon, ProxyAssumption DEF Init
  <2>5. BudgetInv
    BY <2>2, <2>3, <2>4 DEF BudgetInv
  <2>6. AttemptInv
    BY <2>3, <2>4 DEF AttemptInv
  <2> QED BY Zenon, <2>5, <2>6 DEF LimitsInv
<1>2. ProxyInv /\ LimitsInv /\ [Next]_vars => LimitsInv'
  <2> SUFFICES ASSUME ProxyInv, LimitsInv, [Next]_vars PROVE LimitsInv'
    BY Zenon
  <2>1. ASSUME UNCHANGED <<h, byteVars, attempts>> PROVE LimitsInv'
    <3>1. BudgetInv'
      BY Zenon, <2>1, BudgetUntouched DEF LimitsInv, BudgetInv
    <3>2. AttemptInv'
      BY Zenon, <2>1, NobodyAdmitted DEF LimitsInv, Admitted
    <3> QED BY Zenon, <3>1, <3>2 DEF LimitsInv
  <2>2. CASE Start \/ ServeBegins \/ DeadlinePasses \/ UNCHANGED vars
    BY Zenon, <2>1, <2>2 DEF Start, ServeBegins, DeadlinePasses, vars, ledgerVars
  <2>3. ASSUME NEW s \in Callers, Shutdown(s) PROVE LimitsInv'
    BY Zenon, <2>1, <2>3 DEF Shutdown, ShutBegins, ShutRevokes, ShutDrains, ShutJoins, ShutWaits,
       ledgerVars
  <2>4. ASSUME NEW c \in Clients, AcceptChecks(c) \/ AcceptStarts(c) PROVE LimitsInv'
    <3>1. /\ \/ UNCHANGED h \/ \E pc \in {"started", "gone"} : h' = [h EXCEPT ![c].pc = pc]
             \/ h' = [h EXCEPT ![c].pc = "gone", ![c].reason = "no_thread"]
          /\ UNCHANGED <<byteVars, attempts>>
      BY Zenon, <2>4 DEF AcceptChecks, AcceptStarts, Reject
    <3>2. CASE UNCHANGED h
      BY Zenon, <2>1, <3>1, <3>2
    <3>3. ASSUME NEW pc \in {"started", "gone"},
                 \/ h' = [h EXCEPT ![c].pc = pc]
                 \/ h' = [h EXCEPT ![c].pc = pc, ![c].reason = "no_thread"]
          PROVE  LimitsInv'
      <4>1. DOMAIN h = Clients /\ DOMAIN h[c] = HandlerFields /\ h[c].bytes \in Nat
        BY Zenon DEF ProxyInv, ProxyTypeOK, LimitsInv, BudgetInv
      <4>2. h[c].pc = "none"
        BY Zenon, <2>4, ProxyAssumption DEF AcceptChecks, AcceptStarts, ProxyInv, ProxyTypeOK,
           Nobody
      <4>3. Aside(c)
        BY <3>1, <3>3, <4>1, <4>2 DEF Aside, HandlerFields
      <4> QED BY Zenon, <4>3, AsideKeepsLimits
    <3> QED BY Zenon, <3>1, <3>2, <3>3
  <2>5. ASSUME NEW c \in Clients, Handle(c) PROVE LimitsInv'
    BY Zenon, <2>5, HandlerKeepsLimits, CountKeepsLimits, RelayKeepsLimits DEF Handle
  <2> QED BY Zenon, <2>2, <2>3, <2>4, <2>5 DEF Next
<1>3. LimitsInv => LimitsHold
  <2> SUFFICES ASSUME LimitsInv PROVE LimitsHold
    BY Zenon
  <2>1. {c \in Clients : h[c].performed} \in SUBSET Admitted
    BY Zenon DEF Admitted
  <2>2. Cardinality({c \in Clients : h[c].performed}) <= Cardinality(Admitted)
        /\ IsFiniteSet({c \in Clients : h[c].performed})
    BY Zenon, <2>1, FS_Subset DEF LimitsInv, AttemptInv
  <2>3. /\ Cardinality({c \in Clients : h[c].performed}) \in Nat /\ Cardinality(Admitted) \in Nat
        /\ Cardinality(Held("reading")) \in Nat /\ Cardinality(Held("forward")) \in Nat
    BY Zenon, <2>2, FS_CardinalityType DEF LimitsInv, BudgetInv, AttemptInv
  <2>4. /\ MaxBytes \in Nat /\ MaxConnections \in Nat
        /\ used \in Int /\ reserved \in Int /\ sent \in Int
        /\ used + reserved <= MaxBytes /\ reserved = Cardinality(Held("reading"))
        /\ sent + Cardinality(Held("forward")) <= used
        /\ Cardinality(Admitted) <= MaxConnections
    BY Zenon, ProxyAssumption DEF LimitsInv, BudgetInv, AttemptInv
  <2>5. sent <= used /\ reserved >= 0
    BY <2>3, <2>4
  <2>6. Cardinality({c \in Clients : h[c].performed}) <= MaxConnections
    BY <2>2, <2>3, <2>4
  <2> QED BY Zenon, <2>4, <2>5, <2>6 DEF LimitsHold
<1> QED BY <1>1, <1>2, <1>3, ProxyInvariant, PTL DEF Spec
===============================================================================
