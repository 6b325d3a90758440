# Cindermote: a TLA+ verification project

Cindermote runs untrusted material in a disposable sandbox and turns what it
witnessed into a signed decision. This directory holds TLA+ modules that model
the parts of it that have state and control, the TLC configurations that check
them on small instances, and TLAPS proofs for every instance. Paths below are
relative to the repository root.

## The system

| part | code | what it does |
|---|---|---|
| host broker | `agent_probe/broker.py`, `protocol.py` | grants or refuses each proposal of the guest; the first refusal trips the run |
| guest agent | `guest/agent_probe_agent.py` | model calls, batches of tool calls, the sealed transcript, the final frame |
| host runtime | `agent_probe/firecracker_runtime.py` | launch, control loop, revocation, persistence, teardown |
| roads and receipt | `agent_probe/ksl.py`, `runner.py`, `receipt.py` | reduce the run to a decision and write four artefacts |
| sealed evidence | `agent_probe/evidence.py`, `secretstream.py` | append, finalize, validate, open |
| egress worker | `broker/browser_egress_worker.py` | a handle on a sandboxed child process that runs the proxy |
| egress proxy | `broker/browser_egress_proxy.py` | accept loop, handler threads, deadline timer, `shutdown` |
| microVM jobs | `mote/firecracker_runtime.py` | host lock, reconciliation, network, supervised jailer, purge verdict |
| browser guest | `guest/browser_agent.py` | drives Chromium over DevTools and collects evidence |
| browser evidence | `mote/browser_evidence.py` | reduces four event streams to findings |
| legacy runner | `mote/detonate.py`, `observer/` | launch handshake, ptrace loop, cleanup, receipt |
| policy gate | `gate/policy_gate.py`, `broker/broker.py` | scores findings, applies overrides, bounds the report |
| incident gate | `incident_gate.py`, `scripts/verify-incident-gate-evidence.py` | runs the canonical probes, writes and verifies their evidence |

There are three ways in. The **agent probe** takes the host lock, reconciles what
earlier jobs left, starts an egress worker (whose child runs the proxy) and a
supervised jailer, and serves the guest's control channel; each proposal goes
through the broker, and a trip stops the worker before the answer leaves. The
**browser probe** uses the same microVM jobs and the same worker, with a browser
collector as its guest. The **legacy runner** detonates an artifact under ptrace
in namespaces; the incident gate calls it for each of its probes. Teardown always
runs, and its verdict is one of the inputs of the decision.

What can go wrong that a test would hardly reach is listed, at its line, under
`hazards` in `PROJECT.json`, with the properties that would catch it.

## Modules

| module | models |
|---|---|
| `AgentAuthority` | abstract: authority is open, then cut once; egress goes down before a refusal is told |
| `AgentBroker` | `AgentProbeBroker.evaluate`, one action per branch, then the revoke callback and the log |
| `EgressWorkerContract` | abstract: what `BrowserEgressWorker` promises its owner |
| `EgressWorker` | the handle, the two pipes and the child behind that promise |
| `EgressProxy` | the proxy's threads and what they share |
| `AgentProbe` | composition: guest, runtime, runner, with `INSTANCE AgentBroker` and `INSTANCE EgressWorkerContract` |
| `EvidenceStream` | the transcript from the sealer through the control frame to the quarantine, with power loss |
| `MicroVMJobs` | several jobs on one host, with crashes of their orchestrators |
| `BrowserAgent` | the collector: nested commands and handlers, budgets, the ways to stop |
| `BrowserVerdict` | `run_browser_probe`, the reduction, the gate and the receipt of the browser profile |
| `LegacyAdmission` | the handshake of host, wrapper and sandbox up to the artifact's `exec` |
| `LegacyTrace` | the trace loop and the cleanup against a forking sandbox |
| `LegacyVerdict` | detectors, event budget, observation, gate and receipt of the legacy profile |
| `Detonation` | composition: one command of `mote/detonate.py` through either profile to its exit code |
| `IncidentGate` | doctor, runs in threads, evidence scope, manifest, exit code, verifier |
| `BrokerEvidenceProofs` | the theorems about `AgentBroker` and `EvidenceStream` |
| `BrowserProofs` | the theorems about `EgressWorker` and `BrowserAgent` |
| `LegacyProofs` | the theorems about `LegacyAdmission` and `LegacyTrace` |
| other `*Proofs` | the theorems about the module they are named after |
| `MC*` | small instances for TLC |

How state and actions correspond to the code:

**AgentBroker.** `evaluate` holds an RLock throughout, so one call is under way at
a time (`call`). Deciding, the revoke callback and the append are separate steps
because the callback takes seconds. The sequence check comes before the trip
check, as in the code.

**AgentProbe.** `stage` is the runtime's, then the runner's program counter;
`guest.pc` the guest's. Each direction of the control channel holds one frame,
because each side waits for the other's answer. `RoadWalked`, `RoadDiff`,
`GateDecision`, `ReceiptRefused` and `ExitCode` are the reducers as operators. The
host may crash once something is on disk.

**EvidenceStream.** Lengths are in units of three bytes, so that base64 is a factor
of 4/3 exactly. A ciphertext is the position of the cipher that made it, which is
what the chain and the additional data depend on. A record may be lost, doubled
or moved before the host validates. The quarantine file has contents and a
directory entry that become durable separately: `fsync` of the file keeps its
contents, `fsync` of the directory its name, and a power loss may take whatever
was not synced.

**EgressWorker.** `op` is the point at which the lifecycle call stands, `child.pc`
the child's. Frames are their type and the completeness claim. A descendant may
appear in the child's process group. `SIGKILL` takes effect later than it is sent.

**EgressProxy.** Each action is what happens between two acquisitions of the state
lock, or one network call. A request is its outcome, a transfer a number of bytes.
A connection may get no thread, and a client whose peer address cannot be read or
is not the allowed one is turned away; neither leaves an event.

**MicroVMJobs.** Each job is an orchestrator with its own token and up to four
traces on the host. The jailer and Firecracker are external. `cgroup.events` may
be unreadable, which the code takes as empty; `rmdir` of a populated cgroup fails.

**BrowserAgent.** `stack` holds the DevTools commands waiting for an answer,
innermost last; a handler may push another. `exc` is a Python exception on its way
out through them, and each frame either catches it or passes it on, as its `except`
clauses do. Answers to outer commands are set aside, up to `MaxResponses` (1024 in
the code); one more, or one that is there already, raises. Chromium is external: it
may answer a command that was given up, and repeat an answer still set aside. A
repeat of one already taken would only take up a place, as a late answer does.
`losses` is a history variable.

**LegacyAdmission.** Host, wrapper and sandbox are three processes with a launch
gate pipe, a control socket and an admission pipe between them. Any of them may
be killed, and the pid of a reaped process may be given to a stranger.

**LegacyTrace.** The kernel side keeps to what ptrace promises: descendants are
traced from birth, stops are collected in any order between processes, and a
process that dies takes an uncollected stop with it. What a syscall was is
`LegacyVerdict`'s subject; here it matters only whether it was looked at. `place`
is the host's position in one turn of its loop: the check of the budget, the drain
of pending stops, and the check of the grace period behind it.

**LegacyVerdict, BrowserVerdict, Detonation.** Events are their rules or kinds.
Counting, budgets, the gate's matrix, overrides, the bounds of the outward report
and the receipt's validator are operators applied in the order of the code. What
lies outside a run and can still cost it its receipt is in the model too: an
override file that is no JSON object, a key or a receipt file that cannot be used.

**IncidentGate.** Runs are threads of one process that share the module globals
of `mote/detonate.py`; `_EVIDENCE_LOCK` and the directories saved and put back are
modelled step by step. A detonation may return, raise or be interrupted; one that
never executed may have run out of its time or budget before.

## Runs

| run | instance | states | properties |
|---|---|---|---|
| `broker` | budget 2, log up to 4, one action code of each class | 337 k | `FirstTripDecides`, `AuthorityKept` (refinement) |
| `agent_probe` | 2 calls, 2 requests, 2 tokens, batches of 2 | 1.4 M | `ReceiptIsEarned`, `ReceiptNeverRefused`, `EgressCutBeforeTripTold`, `FirstTripDecidesGate`, `NoModelCallAfterTrip`, `RunEnds` |
| `egress_worker` | no constants | 1.4 k | `ReportIsHonest`, `OrphanNeverServes`, `ContractKept` (refinement), `CallReturns` |
| `egress_proxy` | 3 clients, 2 connections, 2 at once, 2 events, 1 byte | 2.7 M | `CanonicalHonest`, `LimitsHold`, `CompleteIsWhole`, `StopNeverStuck`, `ShutdownIsFinal` |
| `microvm_jobs` | 2 jobs | 72 k | `JobsKeptApart`, `VerifiedIsFinal`, `OrphanVmmDies` |
| `browser_agent` | 2 page events, 5 events kept, 9 commands, 1 answer set aside | 1.1 M | `AnswersKept`, `CleanIsWhole`, `InterceptionHeld`, `AgentEnds` |
| `detonation` | 2 destinations of which 1 fits the report, 2 events, 4 observations; 2 deviations | 6.0 M | `AllowIsFailClosed`, `HostileIsReported`, `BrowserAllowIsEarned`, `RunEndsInReceipt` |
| `legacy_admission` | both modes, every policy | 11 k | `PayloadOnlyAdmitted`, `HostDecides`, `HandshakeCompletes` |
| `legacy_trace` | 2 processes, both modes | 379 k | `NothingUnobserved`, `VerifiedIsDead`, `RunEnds` |
| `incident_gate` | 2 runs of 1 probe, 7 outcomes, 4 hosts, 1 damaged receipt | 1.9 M | `ExitZeroIsEarned`, `EvidenceStaysHome`, `VerifierIsExact` |
| `evidence_stream` | 5 records of up to 4 units and the last, chunks of 3, budgets 6 and 12 | 39 k | `AcceptedOpens`, `HonestAccepted`, `QuarantineHolds` |
| `hard_trip_decided` | 1 call, 1 request | | `HardTripIsDecided`, violated (see below) |

Each property is stated in words above its definition. What the runs show, in
short: a run is allowed only when everything it rests on has really happened;
what a component reports stays true after it was reported; a failure leaves a
trace that the decision reads; concurrent jobs, threads and callers do not get
into each other's way; and whoever waits, waits for a bounded time, with the one
condition `RunEnds` of `LegacyTrace` states.

Why the bounds are enough to be interesting:

* Budget 2 with a log of 4 has proposals below, at and past the budget, and
  proposals after a trip, in sequence and out of it. Batches of 2 with 2 requests
  have a trip as the first and as the last call of a batch, in the first and in a
  later batch; usages leave the token budget alone or pass it by their sum.
* Three clients against two slots, two connections, two events and one byte put
  every limit of the proxy within reach of a race: clients pass the accept check
  before any is counted, and readers compete for the last byte.
* Two jobs let the second meet the traces of a crashed first one while its guest
  runs. The proofs cover any number of them.
* Two page events let a handler interrupt a command that interrupts another; the
  event and the command budget both run out in some behaviours and in others not.
  Room for one answer set aside is room for that of an outer command and none for a
  late one beside it.
* Four observations against an event budget of two let findings come before, at
  and after the overflow; two destinations exceed a report that may list one.
* Two processes are what the races of fork, exit and collection are between. One
  fork event collected late, or never because the parent died, is the hard case.
* Records of 0 to 4 units against chunks of 3, a budget below what the frame holds
  and one above it put every limit on both sides of a case.
* Of the outcomes of a detonation the incident gate's run has one for each answer
  of its receipt evaluation, and one killed by the clock before it executed; the
  hosts are one that can run, one that cannot isolate, one whose snapshot was
  altered, and one run as root without unprivileged user namespaces.

Symmetry over clients and over runs is used where only safety is checked
(`egress_proxy`, `incident_gate`: `ShutdownIsFinal` and `VerifierIsExact` are
safety properties). `StopNeverStuck` stands in for "every shutdown returns" in the
largest model: it says that some thread can always go on, and each such step
takes its thread nearer to its end. Deadlock checking is off where a finished
run has no step left; in `browser_agent`, `detonation`, `legacy_admission`,
`legacy_trace`, `incident_gate` and `evidence_stream` the end is a state that
repeats itself, and deadlock is checked.

**Fairness** is only what the code's own timeouts justify. `agent_probe`: the host's
steps, each of whose waits has a deadline, and the clock. `egress_worker`: the
steps of a lifecycle call, and that a killed process goes. `microvm_jobs`: the
orchestrator while it lives, the supervisor, which only waits for its child, and
that a killed process goes. `browser_agent`: the collector's steps and its
deadline; Chromium owes nothing. `legacy_admission`: the host's steps; the clock,
or the job, only where the property says so. `legacy_trace`: the clock and the
loop's own steps, which poll and never block; the sandbox may do as it likes. Weak
fairness of the loop says that it goes on, not that its drain runs dry: as long as
processes supply a next stop with every stop collected, the drain does not come to
the check of the clock behind it, and `RunEnds` excludes just that. The
guest, the worker's child, clients and callers of `stop()` owe nothing anywhere.

### Where documents and code disagree

`hard_trip_decided` checks one documented statement and ends in a counterexample:
`README.md:24-26` says that a hard trip is decided `DENY` (or `RESCOPE_REQUIRED`).
A guest that dies after it was told leaves no result, and `runner.py:240-249`
decides `EVALUATION_INCOMPLETE`. The run is still no ALLOW and exits with 3
(`EXIT_RUNTIME_FAILURE`); `FirstTripDecidesGate` holds for every completed run.

Other places where the wording is stronger than the code were met while
modelling. The properties named with them are stated as the code keeps them.

* A performed connection whose deadline passes before its peer is checked has a
  raw event that reads "blocked" (`browser_egress_proxy.py:1473` against the comment
  at 819). The canonical stream reports a loss (`CanonicalHonest`).
* If the supervisor gets no CPU for two seconds, `_terminate` kills it before it has
  killed a jailer that is not yet in its cgroup, and the purge is verified while
  the jailer lives (`mote/firecracker_runtime.py:1543`). It can start no guest
  (`VerifiedIsFinal`).
* A child target reported while a request decision waits raises an error that the
  decision's `except AgentError` takes for its own (`guest/browser_agent.py:671`). A
  loss is in the evidence, so the verdict is the same (`CleanIsWhole`).
* Without root, a descendant that left the process group and whose parent died
  before its fork event was collected is not among the processes a verified purge
  answers for (`VerifiedIsDead`).
* An exceeded event budget is no finding: a run of baseline events only is allowed
  with `telemetry_incomplete` (`observer/detectors.py:245`). Known-bad behaviour is
  still reported (`HostileIsReported`).
* A finding that may be overridden hides that the payload never executed
  (`mote/detonate.py:2814`); `AllowIsFailClosed` asks for execution only of the gate
  left to itself.
* More than 256 destinations leave no receipt in either profile; nor do an override
  file that is no JSON object and a key or a receipt file that cannot be used. In
  the browser profile the receipt's validator refuses what the runner assembles when
  a cgroup limit could not be read back, when the guest calls its attestation partial
  without a loss in its own stream, and when a human allows a failed navigation
  (`RunEndsInReceipt` names each of them and excludes every other).
* The guest compares a control line with its limit before it adds the newline, the
  host with the newline in it: a frame of exactly `MAX_CONTROL_LINE` bytes leaves the
  guest and is refused (`HonestAccepted` names this one length).
* A connection for which no thread can be started, and a client whose peer address
  is refused or cannot be read, leave neither an event nor a counted rejection, so a
  telemetry may be complete without them. They performed nothing
  (`CompleteIsWhole`).
* The drain of pending stops in the trace loop looks at no clock
  (`RunEnds` of `LegacyTrace`; see the fairness above).
* A target over 64 KiB is admitted, but its first record cannot be sealed; the run
  ends as a guest failure.
* The doctor calls a host without a golden snapshot unfit, although a run would
  build it, and so does one run as root without unprivileged user namespaces, which
  a detonation as root does not use (`incident_gate.py:647`; `ExitZeroIsEarned`).

## Proofs

TLC decides small instances; these hold for every value of the constants, under
the named `ASSUME`s (bounds are naturals, sets that must be finite are, and the
names for "nobody" are not members of the sets they stand beside), which TLC
evaluates on every run. One is about two limits of the code: the guest's request
and call budgets let it append fewer records (146) than `validate_bundle` looks at
(1024), without which an honest transcript could be refused for its length.

| module | theorems | for every |
|---|---|---|
| `BrokerEvidenceProofs` | `FirstTripAlwaysDecides`, `BrokerKeepsAuthority` (refinement), `BrokerTypeCorrect` | budget, action codes, log length |
| | `AcceptedAlwaysOpens`, `HonestNeverRefused`, `QuarantineAlwaysHolds` | budget, record lengths, transcript |
| `BrowserProofs` | `ReportsAreHonest`, `OrphansNeverServe`, `WorkerImplementsContract` (refinement) | number of calls, frames, descendants |
| | `AnswersAlwaysKept`, `CleanAlwaysWhole`, `InterceptionAlwaysHeld`, `CollectorNeverStuck`, `CollectorWindsDown` (action property) | budgets, page events, nested handlers |
| `AgentProbeProofs` | `ReceiptsAreEarned`, `ReceiptsNeverRefused`, `EgressIsCutFirst`, `FirstTripAlwaysDecidesGate`, `NoCallAfterTrip` (action property) | budgets, action codes, usages, batches |
| | `ProbeRunsBroker`, `ProbeRunsWorker` (composition), `HostNeverStuck`, `HostStepsBounded` (action property) | the same |
| `EgressProxyProofs` | `CanonicalIsHonest`, `CompleteLeavesNothingOut`, `LimitsAlwaysHold`, `NothingAfterShutdown` | clients and limits |
| | `ShutdownNeverWaitsAlone`, `ClosedProxyWindsDown` (action property) | the same |
| `MicroVMJobsProofs` | `JobsAreKeptApart`, `VerifiedPurgeIsFinal` | number of jobs and crashes |
| `LegacyProofs` | `ArtifactIsAdmitted`, `HandshakeNeverStuck` | order of deaths and reuse of pids |
| | `EverySyscallObserved`, `VerifiedPurgeIsReal` | number of processes |
| `DetonationProofs` | `LegacyAllowIsFailClosed`, `HostileNeverLost`, `BrowserAllowEarned`, `RunsEndInReceipts` | destinations, budgets, observations, deviations |
| `IncidentGateProofs` | `EvidenceNeverMixed`, `ExitZeroEarned`, `VerifierAlwaysExact` (action property) | runs, probes, outcomes, hosts, damage |

None of these properties is inductive as it stands. The invariants, and why they
are needed:

* `BrokerInv`: the log says nothing of the call that still holds the lock. `CallInv`
  adds what that call has established at each step, `TripInv` how flag, revocation
  and log go together, `LogInv` that denials quote the first trip. For the
  refinement, a decision that trips maps to `Cut`, `RunRevoke` to `GoDown`,
  `RecordEvent` to `Grant` or `Refuse`, every other decision to a stutter.
* `ProbeInv`: each property speaks of the end of a chain through guest, channel,
  broker, worker and runtime. `LockstepInv` is the heart: guest and host take turns,
  so the one frame or call under way tells how far the guest's count of proposals
  may be behind the log. `TripInv` ties the trip flag to the log, the revocation and
  what the guest can still do, `WorkerInv` is what the worker's contract gives,
  `RuntimeInv` and `ReceiptInv` carry what was witnessed into the receipt.
  `ReducersAgree` and `AllowNeeds` are the lemmas about the reducers as functions.
* `WorkerInv` (of `BrowserProofs`): a report rests on both sides of two pipes. `CallInv`
  and `ChildInv` say where each side stands, `FrameInv` what a frame in the pipe
  tells of the child that wrote it, `FinalInv` what the `stop()` under way knows. The refinement maps
  the handle's state and flags directly; the child's steps are stutters except for
  the opening and the end of its listener.
* `StreamInv`: acceptance is about a list that was damaged on its way, or was not.
  `Linked` is the chain of what the sealer made, `SizeInv` its accounting and
  `StageInv` its length; `BundleInv` says that a damaged list has another length or
  holds only the sealer's records, so that sequence numbers give the list away.
  `ValidIsSealed` and `SealedIsValid` are the two directions of validation,
  `SealedOpens` is the opener's. `FileInv` follows the file through the host's stages.
  The total of a list is the number of its single units (`Units`), so that one more
  chunk adds its units to a finite set and no induction over the list is needed.
* `CollectorInv`: an answer is kept for a command further out only if commands are
  numbered in the order they nest (`StackInv`), also while an exception unwinds
  them; `KeptInv` adds the answer there was no room for. `WholeInv` says what the
  evidence tells at each point, or that it calls itself truncated; a dropped answer
  is told once the exception it raises has been caught (`Due`). `HoldInv` says who
  still has to stop a browser that may run. `Unwinds` is the one shape that all ways
  back through the stack have.
* `ProxyInv`: an event is written long after the connection. `HonestInv` follows what
  a handler knows; `EventInv` keeps it once written; `LedgerInv` gives each client
  its own place in the ledger, or a mark that telemetry is incomplete; `ShutInv`
  says that nobody registers after `_closed`, so that the sockets closed are all
  (which `ShutdownIsFinal` also asks for by itself).
* `LimitsInv`: `reserved` is a sum over all handlers, which the prover cannot do by
  induction. It is stated as the cardinality of the set `Held` of the single bytes
  held, pairs of a client and a number, which grows and shrinks by one handler's
  pairs at a time; so a reservation that is undone is undone once. `AttemptInv`
  counts the clients that may connect, before they do.
* `JobsInv`: a guest can outlive its orchestrator and with it the lock. `SweepInv` says
  that it is then still on the list the next job took, `ProcessInv` that it is in
  its cgroup, `PurgeInv` that what a purge found out stays true while it lasts.
* `AdmissionInv`: one conjunct for each thing host or sandbox has come to rely on by
  the time the artifact may run: who was born, who is in the cgroup, what was
  heard, what stopped, who is traced, what the token means.
* `TraceInv`: the tracer tells entries from exits by a flag it toggles, and a late
  fork event resets it in the middle of a syscall. `ToggleInv` says how far it can
  be trusted; `BornInv` that the host names no process yet to be born.
* `FindingInv` and `BrowserInv`: the gate reads findings, so each failure must have
  left its finding by the time the receipt is put together; `GateIsFailClosed` and
  `ReduceFinds` are the lemmas about the gate and the reduction as functions.
* `CountInv`, `ProbeInv` (of `DetonationProofs`) and `ExitInv`: the receipt's validator
  recomputes the status from the findings, so the runner's flags must have moved
  together with the counts at every exit. `AssembledIsValid` and `GatedIsValid` say
  that what is put together then passes.
* `EvidenceInv`: the discipline of `_EVIDENCE_LOCK`. Who is inside the scope holds the
  lock, has its own directories in place and has the repository's to put back.
* `GateInv`: the verifier sees only what is on disk. `OrderInv` says which probes have
  a result, `TruthInv` that each result was read from the receipt beside it, except
  for as many as were damaged since, `ManifestInv` that the manifest says what the
  results say. `DerivationsAgree` is the lemma that run and verifier derive the same
  status.

### Components proved alone and the run that uses them

`AgentProbe` is composed from the broker's own actions and from
`EgressWorkerContract`, but its next-state relation decides when they happen.
`ProbeRunsBroker` (`Spec => Broker!BrokerSpec`) and `ProbeRunsWorker`
(`Spec => Worker!Spec`) show that it never does to them what they do not allow: a
sequence number out of range, a second `start()`, traffic of a stopped worker. So
what `BrokerEvidenceProofs` shows of the broker alone, its authority included, holds
inside every run; and with `WorkerImplementsContract` the worker that runs there may
be the real handle with its pipes and its child.

### What termination rests on

That a run ends is liveness, and TLC's. What the argument needs besides fairness is
proved for every value of the constants:

| liveness, checked by TLC | somebody can go on | and not for ever |
|---|---|---|
| `RunEnds` of `AgentProbe` | `HostNeverStuck` | `HostStepsBounded`: at most 4 `MaxCalls` + 16 steps of the host |
| `StopNeverStuck` of `EgressProxy` | `ShutdownNeverWaitsAlone`, with the guards of `ThreadStep` spelt out instead of `ENABLED` | `ClosedProxyWindsDown` |
| `AgentEnds` of `BrowserAgent` | `CollectorNeverStuck` | `CollectorWindsDown`: `CollectorLeft` is a natural number and falls |
| `HandshakeCompletes` of `LegacyAdmission` | `HandshakeNeverStuck` | only TLC (`LegacyAdmission` has no constants) |

`ReadyInv` and `BudgetInv` add to `ProbeInv` that the worker is there to be started
and stopped, and that the log has room for the proposal under way. `NestInv` says
that a command of `_run_probe` itself is the outermost on the collector's stack;
`CollectorLeft` adds up the phases left, the commands that wait and what the
innermost has still to do. It falls because nothing new is read from Chromium once
the time is up, so that no event starts another command.
`CalmInv` says how far wrapper and sandbox are at each step of the host while
nothing has gone wrong; without it a host that waits for a status, a wrapper at its
gate and a sandbox at its pipe could all be waiting.

### Only model-checked

Every other property of a passing run is a theorem. Left to TLC are liveness
(`RunEnds` of both modules, `CallReturns`, `OrphanVmmDies`, `AgentEnds`,
`HostDecides`, `HandshakeCompletes`) and `StopNeverStuck`, which uses `ENABLED`:
fairness and `ENABLED` are out of the prover's reach.

## Not modelled

Cryptographic primitives, key encapsulation, signatures and hashing: external,
assumed to do what their names say. Shape checks of JSON, the frozen manifest and
the request contract (`agent_probe/contract.py`, `mote/browser_contract.py`): they
keep no state. DNS pinning and HTTP parsing, beyond their outcome. Preflight,
image building and the pool of staged executables, the golden snapshot and the
receipt directory: files other processes may change, whose contents no property
here is about. The MCP dialogue of the legacy runner and the seccomp program:
data for the tracer that `LegacyTrace` and `LegacyVerdict` abstract. The
Firecracker API client's framing, the sinkhole DNS (one packet in, one out), the
rule tables of the legacy probes, the retired MCP controller, probe discovery,
the command line's parsing and logging. `PROJECT.json` gives the reason for each.
