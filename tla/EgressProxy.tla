------------------------------ MODULE EgressProxy ------------------------------
(***************************************************************************)
(* The egress proxy inside the worker (broker/browser_egress_proxy.py):    *)
(* the accept loop, one handler thread per accepted client, the deadline   *)
(* timer and the callers of stop() share a ledger of events, two registers *)
(* of open sockets and a byte budget.                                      *)
(*                                                                         *)
(* Each action is what happens between two acquisitions of the state lock, *)
(* or one call to the network.  A request is abstracted to its outcome     *)
(* (malformed, refused, authorised), a transfer to a number of bytes, and  *)
(* the several addresses of an origin to one attempt to connect.           *)
(***************************************************************************)
EXTENDS Integers, Sequences, FiniteSets

CONSTANTS
  Clients,         \* the connections clients attempt, each served once
  MaxEvents,       \* _event_limit
  MaxConnections,  \* max_connections
  MaxConcurrent,   \* max_concurrent_connections
  MaxBytes,        \* budgets.max_network_bytes
  Chunk            \* the largest read, _IO_CHUNK_BYTES

ASSUME ProxyAssumption ==
  /\ {MaxEvents, MaxConnections, MaxConcurrent, MaxBytes} \subseteq Nat
  /\ Chunk \in Nat \ {0}
  /\ "nobody" \notin Clients

VARIABLES
  serve,       \* the supervisor thread
  accepting,   \* the client the accept loop is dealing with, or Nobody
  h,           \* the handler of each client
  closed,      \* _closed
  expired,     \* the wall-clock deadline has passed
  events,      \* _events: sequence number -> event
  inflight,    \* _inflight_events
  next,        \* _next_sequence
  overflow,    \* _event_overflow
  attempts,    \* _connection_attempts
  rejections,  \* _listener_rejections
  clients,     \* _active_clients
  upstreams,   \* _active_upstreams
  used,        \* _byte_budget._used
  reserved,    \* _byte_budget._reserved
  sent,        \* bytes that have crossed the proxy
  shut,        \* the two callers of shutdown(): stop() and the timer
  revoked      \* sockets shutdown() has closed, once it has

Nobody == "nobody"
Callers == {"stop", "timer"}

serverVars == <<serve, accepting>>
ledgerVars == <<events, inflight, next, overflow, attempts, rejections>>
socketVars == <<clients, upstreams, revoked>>
byteVars == <<used, reserved, sent>>
stopVars == <<closed, shut>>
vars == <<serverVars, h, expired, ledgerVars, socketVars, byteVars, stopVars>>

NewHandler == [pc |-> "none", seq |-> -1, dest |-> FALSE, disposition |-> "blocked",
               reason |-> "malformed_request", up |-> FALSE, performed |-> FALSE,
               bytes |-> 0]

Init ==
  /\ serve = "new" /\ accepting = Nobody
  /\ h = [c \in Clients |-> NewHandler]
  /\ closed = FALSE /\ expired = FALSE
  /\ events = <<>> /\ inflight = {} /\ next = 0 /\ overflow = FALSE
  /\ attempts = 0 /\ rejections = 0
  /\ clients = {} /\ upstreams = {} /\ revoked = {}
  /\ used = 0 /\ reserved = 0 /\ sent = 0
  /\ shut = [s \in Callers |-> "idle"]

Alive(c) == h[c].pc \notin {"none", "gone"}

-------------------------------------------------------------------------------
(* The supervisor and its accept loop.                                         *)

\* start(): bind() and the supervisor thread; refused once closed.
Start ==
  /\ serve = "new" /\ ~closed
  /\ serve' = "bound"
  /\ UNCHANGED <<accepting, h, expired, ledgerVars, socketVars, byteVars, stopVars>>

\* serve_forever: a stop() may have won the race.
ServeBegins ==
  /\ serve = "bound"
  /\ serve' = IF closed THEN "ended" ELSE "serving"
  /\ UNCHANGED <<accepting, h, expired, ledgerVars, socketVars, byteVars, stopVars>>

Reject(c) ==
  /\ rejections' = IF rejections < MaxConnections + MaxEvents + 1 THEN rejections + 1 ELSE rejections
  /\ h' = [h EXCEPT ![c].pc = "gone"]

\* _transport_rejection_status: a stranger, a closed or expired proxy, or one
\* whose connections or events are used up.
AcceptChecks(c) ==
  /\ serve = "serving" /\ accepting = Nobody /\ h[c].pc = "none"
  /\ \/ Reject(c) /\ UNCHANGED <<accepting, overflow>>
     \/ /\ ~closed /\ ~expired
        /\ IF attempts >= MaxConnections \/ next >= MaxEvents
           THEN /\ overflow' = (overflow \/ next >= MaxEvents)
                /\ Reject(c)
                /\ UNCHANGED accepting
           ELSE accepting' = c /\ UNCHANGED <<overflow, rejections, h>>
  /\ UNCHANGED <<serve, expired, events, inflight, next, attempts, socketVars, byteVars, stopVars>>

\* A slot is taken and the handler thread registered and started.  When no
\* thread can be started the slot is given back and the socket closed: neither
\* a rejection nor an event is counted, and the accept loop goes on.
AcceptStarts(c) ==
  /\ accepting = c
  /\ accepting' = Nobody
  /\ IF Cardinality({d \in Clients : Alive(d)}) < MaxConcurrent
     THEN /\ \/ h' = [h EXCEPT ![c].pc = "started"]
             \/ h' = [h EXCEPT ![c].pc = "gone", ![c].reason = "no_thread"]
          /\ UNCHANGED rejections
     ELSE Reject(c)
  /\ UNCHANGED <<serve, expired, events, inflight, next, overflow, attempts, socketVars,
                 byteVars, stopVars>>

-------------------------------------------------------------------------------
(* A handler thread: handle_client.                                            *)

Ends(c, disposition, reason) ==
  [h EXCEPT ![c].pc = "unregister", ![c].disposition = disposition, ![c].reason = reason]

\* _remaining_time raises.
NoTime == closed \/ expired

TurnsAway(c, reason) ==
  /\ h' = [h EXCEPT ![c].pc = "leave", ![c].reason = reason]
  /\ UNCHANGED clients

\* A client whose peer address cannot be read any more (it has hung up), or is
\* not the allowed one, and a client of a closed proxy are turned away without
\* an event.
Registers(c) ==
  /\ h[c].pc = "started"
  /\ \/ TurnsAway(c, "unauthorized_client")
     \/ closed /\ TurnsAway(c, "proxy_closed")
     \/ /\ ~closed
        /\ clients' = clients \cup {c}
        /\ h' = [h EXCEPT ![c].pc = "registered"]
  /\ UNCHANGED <<serverVars, expired, ledgerVars, upstreams, revoked, byteVars, stopVars>>

\* Mutant: an event too many is dropped without a trace.
Mut_OverflowForgotten(c) ==
  /\ h[c].pc = "registered"
  /\ IF next >= MaxEvents
     THEN h' = [h EXCEPT ![c].pc = "unregister"] /\ UNCHANGED <<next, inflight, overflow>>
     ELSE /\ next' = next + 1 /\ inflight' = inflight \cup {next}
          /\ h' = [h EXCEPT ![c].pc = "reserved", ![c].seq = next]
          /\ UNCHANGED overflow
  /\ UNCHANGED <<serverVars, expired, events, attempts, rejections, socketVars, byteVars, stopVars>>

ReservesEvent(c) ==
  /\ h[c].pc = "registered"
  /\ IF next >= MaxEvents
     THEN /\ overflow' = TRUE
          /\ h' = [h EXCEPT ![c].pc = "unregister"]
          /\ UNCHANGED <<next, inflight>>
     ELSE /\ next' = next + 1 /\ inflight' = inflight \cup {next}
          /\ h' = [h EXCEPT ![c].pc = "reserved", ![c].seq = next]
          /\ UNCHANGED overflow
  /\ UNCHANGED <<serverVars, expired, events, attempts, rejections, socketVars, byteVars, stopVars>>

\* The accept loop checked the limit before this handler was counted.
CountsAttempt(c) ==
  /\ h[c].pc = "reserved"
  /\ attempts' = attempts + 1
  /\ h' = IF attempts' > MaxConnections THEN Ends(c, "blocked", "connection_limit")
          ELSE IF NoTime THEN Ends(c, "blocked", "deadline")
          ELSE [h EXCEPT ![c].pc = "request"]
  /\ UNCHANGED <<serverVars, expired, events, inflight, next, overflow, rejections, socketVars,
                 byteVars, stopVars>>

\* The request head is read and judged; a refusal may name its destination.
ReadsRequest(c) ==
  /\ h[c].pc = "request"
  /\ \/ h' = Ends(c, "blocked", "malformed_request")
     \/ h' = [Ends(c, "blocked", "unauthorized_origin") EXCEPT ![c].dest = TRUE]
     \/ ~NoTime /\ h' = [h EXCEPT ![c].pc = "connect"]
  /\ UNCHANGED <<serverVars, expired, ledgerVars, socketVars, byteVars, stopVars>>

\* _connect up to the connector: no bytes left, no time left (the rejection of
\* _remaining_time names no destination), no address answers, or a connection.
Connects(c) ==
  /\ h[c].pc = "connect"
  /\ IF MaxBytes - used - reserved <= 0
     THEN h' = [Ends(c, "blocked", "byte_limit") EXCEPT ![c].dest = TRUE]
     ELSE \/ NoTime /\ h' = Ends(c, "blocked", "deadline")
          \/ /\ ~NoTime
             /\ \/ h' = [Ends(c, "blocked", "upstream_failure") EXCEPT ![c].dest = TRUE]
                \/ h' = [h EXCEPT ![c].pc = "connected", ![c].up = TRUE, ![c].performed = TRUE]
  /\ UNCHANGED <<serverVars, expired, ledgerVars, socketVars, byteVars, stopVars>>

\* Mutant: a rejection after the connection names its destination, still
\* without saying that egress was performed.
Mut_LateRejectionNamed(c) ==
  /\ h[c].pc = "connected"
  /\ \/ h' = [Ends(c, "allowed", "peer_mismatch") EXCEPT ![c].dest = TRUE, ![c].up = FALSE]
     \/ NoTime /\ h' = [Ends(c, "blocked", "deadline") EXCEPT ![c].dest = TRUE]
     \/ ~NoTime /\ h' = [h EXCEPT ![c].pc = "register_up"]
  /\ UNCHANGED <<serverVars, expired, ledgerVars, socketVars, byteVars, stopVars>>

\* The peer is checked against the pinned addresses.  The rejection of
\* _remaining_time is not among the exceptions caught here: it leaves the
\* upstream open and says nothing of the egress performed.
ChecksPeer(c) ==
  /\ h[c].pc = "connected"
  /\ \/ h' = [Ends(c, "allowed", "peer_mismatch") EXCEPT ![c].dest = TRUE, ![c].up = FALSE]
     \/ NoTime /\ h' = Ends(c, "blocked", "deadline")
     \/ ~NoTime /\ h' = [h EXCEPT ![c].pc = "register_up"]
  /\ UNCHANGED <<serverVars, expired, ledgerVars, socketVars, byteVars, stopVars>>

\* The upstream is registered, unless the proxy was closed in the meantime.
RegistersUpstream(c) ==
  /\ h[c].pc = "register_up"
  /\ IF closed
     THEN /\ h' = [Ends(c, "allowed", "proxy_closed") EXCEPT ![c].dest = TRUE, ![c].up = FALSE]
          /\ UNCHANGED upstreams
     ELSE /\ upstreams' = upstreams \cup {c}
          /\ h' = [h EXCEPT ![c].pc = "relay", ![c].dest = TRUE]
  /\ UNCHANGED <<serverVars, expired, ledgerVars, clients, revoked, byteVars, stopVars>>

Releases(c, reason) ==
  [h EXCEPT ![c].pc = "release", ![c].disposition = "allowed", ![c].reason = reason, ![c].bytes = 0]

\* _consume_transfer: the request head (or what came with a CONNECT) is paid
\* for before it is sent.
Consumes(c) ==
  /\ h[c].pc = "relay"
  /\ \E n \in 1..Chunk :
        IF NoTime \/ used + reserved + n > MaxBytes
        THEN h' = Releases(c, IF NoTime THEN "deadline" ELSE "byte_limit") /\ UNCHANGED used
        ELSE used' = used + n /\ h' = [h EXCEPT ![c].pc = "forward", ![c].bytes = n]
  /\ UNCHANGED <<serverVars, expired, ledgerVars, socketVars, reserved, sent, stopVars>>

\* Mutant: a reservation overlooks what others have reserved.
Mut_ReservesOverOthers(c) ==
  /\ h[c].pc = "relay"
  /\ LET available == MaxBytes - used IN
     IF NoTime \/ available <= 0
     THEN h' = Releases(c, IF NoTime THEN "deadline" ELSE "byte_limit") /\ UNCHANGED reserved
     ELSE LET n == IF Chunk < available THEN Chunk ELSE available IN
          reserved' = reserved + n /\ h' = [h EXCEPT ![c].pc = "reading", ![c].bytes = n]
  /\ UNCHANGED <<serverVars, expired, ledgerVars, socketVars, used, sent, stopVars>>

\* _recv_transfer reserves what it may read.
Reserves(c) ==
  /\ h[c].pc = "relay"
  /\ LET available == MaxBytes - used - reserved IN
     IF NoTime \/ available <= 0
     THEN h' = Releases(c, IF NoTime THEN "deadline" ELSE "byte_limit") /\ UNCHANGED reserved
     ELSE LET n == IF Chunk < available THEN Chunk ELSE available IN
          reserved' = reserved + n /\ h' = [h EXCEPT ![c].pc = "reading", ![c].bytes = n]
  /\ UNCHANGED <<serverVars, expired, ledgerVars, socketVars, used, sent, stopVars>>

\* The read fails (a timeout, a closed socket) and the reservation is undone;
\* or it brings n bytes, none at the end of a stream: a tunnel goes on until
\* both its directions have ended.  Bytes that arrive after the authority is
\* gone are paid for and dropped.
Reads(c) ==
  /\ h[c].pc = "reading"
  /\ reserved' = reserved - h[c].bytes
  /\ \/ h' = Releases(c, "upstream_failure") /\ UNCHANGED used
     \/ /\ c \notin revoked
        /\ \E n \in 0..h[c].bytes :
              /\ used' = used + n
              /\ \/ NoTime /\ h' = Releases(c, "deadline")
                 \/ ~NoTime /\ n = 0 /\ h' = Releases(c, "completed")
                 \/ ~NoTime /\ n = 0 /\ h' = [h EXCEPT ![c].pc = "relay", ![c].bytes = 0]
                 \/ ~NoTime /\ n > 0 /\ h' = [h EXCEPT ![c].pc = "forward", ![c].bytes = n]
  /\ UNCHANGED <<serverVars, expired, ledgerVars, socketVars, sent, stopVars>>

\* sendall.  The look at the clock precedes it, so the authority may end in
\* between; a closed socket takes nothing more.
Forwards(c) ==
  /\ h[c].pc = "forward"
  /\ \/ h' = Releases(c, "upstream_failure") /\ UNCHANGED sent
     \/ /\ c \notin revoked
        /\ sent' = sent + h[c].bytes
        /\ h' = [h EXCEPT ![c].pc = "relay", ![c].bytes = 0]
  /\ UNCHANGED <<serverVars, expired, ledgerVars, socketVars, used, reserved, stopVars>>

\* The finally block around an upstream.
ReleasesUpstream(c) ==
  /\ h[c].pc = "release"
  /\ upstreams' = upstreams \ {c}
  /\ h' = [h EXCEPT ![c].pc = "unregister", ![c].up = FALSE]
  /\ UNCHANGED <<serverVars, expired, ledgerVars, clients, revoked, byteVars, stopVars>>

\* The finally block of handle_client: first the register ...
Unregisters(c) ==
  /\ h[c].pc = "unregister"
  /\ clients' = clients \ {c}
  /\ h' = [h EXCEPT ![c].pc = IF h[c].seq = -1 THEN "leave" ELSE "record"]
  /\ UNCHANGED <<serverVars, expired, ledgerVars, upstreams, revoked, byteVars, stopVars>>

\* ... then _finish_event ...
FinishesEvent(c) ==
  /\ h[c].pc = "record"
  /\ inflight' = inflight \ {h[c].seq}
  /\ events' = [s \in DOMAIN events \cup {h[c].seq} |->
                  IF s = h[c].seq
                  THEN [client |-> c, dest |-> h[c].dest, disposition |-> h[c].disposition,
                        reason |-> h[c].reason]
                  ELSE events[s]]
  /\ h' = [h EXCEPT ![c].pc = "leave"]
  /\ UNCHANGED <<serverVars, expired, next, overflow, attempts, rejections, socketVars,
                 byteVars, stopVars>>

\* ... and the thread ends; an upstream it never closed goes with its frame.
Leaves(c) ==
  /\ h[c].pc = "leave"
  /\ h' = [h EXCEPT ![c].pc = "gone", ![c].up = FALSE]
  /\ UNCHANGED <<serverVars, expired, ledgerVars, socketVars, byteVars, stopVars>>

Handle(c) ==
  \/ Registers(c) \/ ReservesEvent(c) \/ CountsAttempt(c) \/ ReadsRequest(c) \/ Connects(c)
  \/ ChecksPeer(c) \/ RegistersUpstream(c) \/ Consumes(c) \/ Reserves(c) \/ Reads(c)
  \/ Forwards(c) \/ ReleasesUpstream(c) \/ Unregisters(c) \/ FinishesEvent(c) \/ Leaves(c)

-------------------------------------------------------------------------------
(* shutdown(), called by stop() and by the deadline timer.                     *)

At(s, pc) == shut' = [shut EXCEPT ![s] = pc]

DeadlinePasses ==
  /\ ~expired /\ serve # "new"
  /\ expired' = TRUE
  /\ UNCHANGED <<serverVars, h, ledgerVars, socketVars, byteVars, stopVars>>

\* The first caller owns the shutdown; the other waits for it.
ShutBegins(s) ==
  /\ shut[s] = "idle" /\ serve # "new"
  /\ s = "timer" => expired
  /\ closed' = TRUE
  /\ At(s, IF closed THEN "wait" ELSE "revoke")
  /\ UNCHANGED <<serverVars, h, expired, ledgerVars, socketVars, byteVars>>

\* Mutant: the handlers are left to notice by themselves.
Mut_SocketsLeftOpen(s) ==
  /\ shut[s] = "revoke"
  /\ shut' = [t \in Callers |-> IF t = s THEN "drain"
                                ELSE IF t = "timer" /\ shut[t] = "idle" THEN "cancelled"
                                ELSE shut[t]]
  /\ UNCHANGED <<serverVars, h, expired, ledgerVars, socketVars, byteVars, closed>>

\* The timer is cancelled and every registered socket closed.  Nothing is
\* registered once _closed is set, so the registers are no larger by now than
\* the lists copied under the lock.
ShutRevokes(s) ==
  /\ shut[s] = "revoke"
  /\ revoked' = clients \cup upstreams
  /\ shut' = [t \in Callers |-> IF t = s THEN "drain"
                                ELSE IF t = "timer" /\ shut[t] = "idle" THEN "cancelled"
                                ELSE shut[t]]
  /\ UNCHANGED <<serverVars, h, expired, ledgerVars, clients, upstreams, byteVars, closed>>

\* Mutant: server.shutdown() is also called when the loop was never entered.
Mut_DrainsUnserved(s) ==
  /\ shut[s] = "drain"
  /\ accepting = Nobody
  /\ serve = "serving" /\ serve' = "ended"
  /\ At(s, "join")
  /\ UNCHANGED <<accepting, h, expired, ledgerVars, socketVars, byteVars, closed>>

\* server.shutdown() waits for the accept loop, then the listener is closed.  A
\* supervisor that has not begun to serve will find the proxy closed.
ShutDrains(s) ==
  /\ shut[s] = "drain"
  /\ accepting = Nobody
  /\ serve' = IF serve = "serving" THEN "ended" ELSE serve
  /\ At(s, "join")
  /\ UNCHANGED <<accepting, h, expired, ledgerVars, socketVars, byteVars, closed>>

\* join_handlers: within two seconds, or not.
ShutJoins(s) ==
  /\ shut[s] = "join"
  /\ \/ (\A c \in Clients : ~Alive(c)) /\ At(s, "ok")
     \/ (\E c \in Clients : Alive(c)) /\ At(s, "error")
  /\ UNCHANGED <<serverVars, h, expired, ledgerVars, socketVars, byteVars, closed>>

Owner(s) == CHOOSE t \in Callers : t # s

\* The other caller takes over the owner's outcome, or gives up waiting.
ShutWaits(s) ==
  /\ shut[s] = "wait"
  /\ \/ shut[Owner(s)] \in {"ok", "error"} /\ At(s, shut[Owner(s)])
     \/ shut[Owner(s)] \in {"revoke", "drain", "join"} /\ At(s, "error")
  /\ UNCHANGED <<serverVars, h, expired, ledgerVars, socketVars, byteVars, closed>>

Shutdown(s) == ShutBegins(s) \/ ShutRevokes(s) \/ ShutDrains(s) \/ ShutJoins(s) \/ ShutWaits(s)

ShutStep(s) == ShutRevokes(s) \/ ShutDrains(s) \/ ShutJoins(s) \/ ShutWaits(s)

-------------------------------------------------------------------------------
ThreadStep ==
  \/ \E c \in Clients : AcceptStarts(c) \/ Handle(c)
  \/ \E s \in Callers : ShutStep(s)
  \/ ShutBegins("timer")

Next ==
  \/ Start \/ ServeBegins \/ DeadlinePasses
  \/ \E c \in Clients : AcceptChecks(c) \/ AcceptStarts(c) \/ Handle(c)
  \/ \E s \in Callers : Shutdown(s)

\* Every socket call has a timeout and every wait of shutdown() a bound; time
\* passes, and the timer fires when it is due.  No client and no caller of
\* stop() owes anything.
Spec ==
  /\ Init /\ [][Next]_vars
  /\ \A c \in Clients : WF_vars(AcceptStarts(c)) /\ WF_vars(Handle(c))
  /\ \A s \in Callers : WF_vars(ShutStep(s))
  /\ WF_vars(DeadlinePasses) /\ WF_vars(ShutBegins("timer"))

-------------------------------------------------------------------------------
(* What the child reports.                                                      *)

\* telemetry_snapshot()["complete"].
Complete ==
  /\ serve # "new" /\ closed
  /\ ~overflow /\ inflight = {} /\ clients = {} /\ upstreams = {} /\ rejections = 0

\* browser_events_snapshot: what the canonical stream says of an event.
Canonical(e) ==
  IF ~e.dest \/ (e.disposition = "allowed" /\ e.reason # "completed")
  THEN "telemetry_loss" ELSE e.disposition

-------------------------------------------------------------------------------
(* Properties.                                                                 *)

\* A client that got no further than the door: no thread could be started for it,
\* its peer address was refused, or the proxy was closed before it registered.
TurnedAway(c) ==
  h[c].seq = -1 /\ h[c].reason \in {"no_thread", "unauthorized_client", "proxy_closed"}

\* A complete telemetry leaves no request out: every client that was registered
\* has its event in the ledger, so every egress performed is there, and no event
\* is still to be added (telemetry_snapshot).  The connections it is silent about
\* are those still waiting for their handler and those turned away at the door,
\* none of which was performed.
CompleteIsWhole ==
  Complete => \A c \in Clients :
    \/ \E s \in DOMAIN events : events[s].client = c
    \/ ~h[c].performed /\ (h[c].pc \in {"none", "started"} \/ TurnedAway(c))

\* The canonical stream never calls a performed connection blocked, nor one
\* allowed that was not made: "Never relabel performed egress blocked"
\* (browser_egress_proxy.py:819-821).
CanonicalHonest ==
  \A s \in DOMAIN events : LET e == events[s] IN
    /\ Canonical(e) = "blocked" => ~h[e.client].performed
    /\ Canonical(e) = "allowed" => h[e.client].performed

\* Concurrent readers together never exceed the byte budget, and no byte crosses
\* the proxy that was not paid for (_ByteBudget); and however many clients pass
\* the accept loop's check at once, no more than max_connections of them are
\* connected to an origin.
LimitsHold ==
  /\ used + reserved <= MaxBytes /\ sent <= used /\ reserved >= 0
  /\ Cardinality({c \in Clients : h[c].performed}) <= MaxConnections

\* Once shutdown() has begun no socket is registered that its lists, taken under the
\* lock, would miss; once it has closed those no byte crosses any more; and when it
\* has returned without an error no handler thread, accept loop or open upstream is
\* left.
ShutdownIsFinal ==
  /\ [][closed => clients' \subseteq clients /\ upstreams' \subseteq upstreams]_vars
  /\ [][closed /\ (\A s \in Callers : shut[s] # "revoke") => sent' = sent]_vars
  /\ []((\E s \in Callers : shut[s] = "ok") =>
         /\ \A c \in Clients : ~Alive(c) /\ ~h[c].up
         /\ accepting = Nobody /\ serve # "serving")

\* Nobody waits for ever in shutdown(): while stop() or the deadline timer is in
\* it, or the deadline has passed on an open proxy, some thread of the proxy can
\* go on, also when both shut down at the same time and when the supervisor was
\* never scheduled.  Every such step takes its thread nearer to its end.
StopNeverStuck ==
  (\E s \in Callers : shut[s] \in {"revoke", "drain", "join", "wait"}) \/ (expired /\ ~closed)
    => ENABLED ThreadStep
===============================================================================
