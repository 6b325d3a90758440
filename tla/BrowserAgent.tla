----------------------------- MODULE BrowserAgent ------------------------------
(***************************************************************************)
(* The evidence collector in the browser guest (guest/browser_agent.py).   *)
(* It drives Chromium over one DevTools socket: a command waits for its    *)
(* answer in a loop that also handles events, and the handlers send        *)
(* commands of their own.  The stack holds the commands that are waiting,  *)
(* innermost last; exc is a Python exception on its way through them.      *)
(*                                                                         *)
(* What Chromium reports is bounded by MaxPage; a message is its kind, and *)
(* evidence is what the host can tell from it.                             *)
(***************************************************************************)
EXTENDS Integers, Sequences, FiniteSets

CONSTANTS
  MaxPage,       \* events that Chromium reports of the page
  MaxResponses,  \* answers that may be set aside, 1024 in the code
  MaxEvents,     \* budgets.max_events: what Evidence.add keeps
  MaxCommands    \* MAX_CDP_COMMANDS

ASSUME AgentAssumption == {MaxPage, MaxResponses, MaxEvents, MaxCommands} \subseteq Nat \ {0}

VARIABLES
  phase,        \* where _run_probe is
  stack,        \* the commands waiting for their answers
  exc,          \* none, agent (AgentError and the like), timeout
  next_id,
  answered,     \* commands Chromium has answered
  responses,    \* of those, the ones set aside for the command they answer
  loaded, expired,
  evidence,
  attested,     \* artifacts.attestation_complete
  browser, websocket,
  guarded,      \* _termination_guards is not empty
  outcome,      \* what _run_probe came to
  result,       \* what the host was sent
  page,         \* number of events reported so far
  met,          \* requests of the page with an origin that were decided
  losses        \* ghost: what went wrong in the observation

cdpVars == <<stack, exc, next_id, answered, responses>>
pageVars == <<page, met, loaded>>
endVars == <<browser, websocket, guarded, outcome, result>>
agentVars == <<phase, cdpVars, pageVars, endVars, expired, evidence, attested, losses>>

Main == {"setup", "navigate", "freeze", "attest", "screenshot"}
Running == phase \in Main \cup {"load"}

-------------------------------------------------------------------------------
(* Evidence                                                                    *)

\* change is e with the event in it; over the budget it is not kept.
Add(e, change) ==
  IF e.count >= MaxEvents THEN [e EXCEPT !.truncated = TRUE]
  ELSE [change EXCEPT !.count = e.count + 1]

AddOther(e) == Add(e, e)
AddLoss(e) == Add(e, [e EXCEPT !.loss = TRUE])
AddRequest(e, r) == Add(e, [e EXCEPT !.requests = @ \cup {r}])
AddFailed(e) == Add(e, [e EXCEPT !.failed = TRUE])

\* Mutant: the bundle of a truncated run keeps its stream status.
Mut_Bundle(e) == IF e.truncated THEN AddLoss(e) ELSE e

\* The loss of a truncated run is itself over the budget; the status tells it.
Bundle(e) ==
  IF e.truncated THEN [AddLoss(e) EXCEPT !.cdp = FALSE] ELSE e

\* What the host finds nothing against.
Clean(e) == e.browser /\ e.cdp /\ ~e.loss /\ ~e.failed

AgentInit ==
  /\ phase = "start" /\ stack = <<>> /\ exc = "none"
  /\ next_id = 1 /\ answered = {} /\ responses = {}
  /\ loaded = FALSE /\ expired = FALSE /\ attested = FALSE
  /\ evidence = [count |-> 1, truncated |-> FALSE, loss |-> FALSE, failed |-> FALSE,
                 requests |-> {}, browser |-> FALSE, cdp |-> FALSE]
  /\ browser = "alive" /\ websocket = "none" /\ guarded = FALSE
  /\ outcome = "none" /\ result = "none"
  /\ page = 0 /\ met = {} /\ losses = {}

-------------------------------------------------------------------------------
(* Commands                                                                    *)

Frame(kind, arg) == [id |-> next_id, kind |-> kind, arg |-> arg]

\* command() on top of frames: refused inside the caller when over the budget.
Command(frames, kind, arg) ==
  /\ stack' = Append(frames, Frame(kind, arg))
  /\ IF next_id > MaxCommands THEN exc' = "agent" /\ next_id' = next_id
                              ELSE exc' = "none" /\ next_id' = next_id + 1

Raise(frames, e) == stack' = frames /\ exc' = e /\ next_id' = next_id
Return(frames) == Raise(frames, "none")

Top == stack[Len(stack)]
Below == SubSeq(stack, 1, Len(stack) - 1)
Awaited == IF stack = <<>> THEN {} ELSE {Top.id}

\* Chromium is up and DevTools answers, or not.
Start ==
  /\ phase = "start"
  /\ \/ websocket' = "open" /\ phase' = "setup" /\ Command(<<>>, "setup", 0)
     \/ websocket' = websocket /\ phase' = "setup" /\ Raise(<<>>, "agent")
  /\ UNCHANGED <<answered, responses, pageVars, browser, guarded, outcome, result,
                 expired, evidence, attested, losses>>

\* The steps of _run_probe after a command of its own was answered; a sequence
\* of commands with nothing but checks in between is one.
MainAnswered ==
  /\ \/ /\ Top.kind = "setup" /\ phase' = "navigate" /\ Command(<<>>, "navigate", 0)
        /\ UNCHANGED <<evidence, attested, losses, outcome>>
     \/ /\ Top.kind = "navigate" /\ phase' = "load" /\ Return(<<>>)
        /\ UNCHANGED <<evidence, attested, losses, outcome>>
     \/ /\ Top.kind = "freeze" /\ phase' = "attest" /\ Command(<<>>, "attest", 0)
        /\ UNCHANGED <<evidence, attested, losses, outcome>>
     \/ /\ Top.kind = "attest" /\ phase' = "screenshot"
        /\ attested' \in BOOLEAN
        /\ LET e == IF attested' THEN evidence ELSE AddLoss(evidence) IN
             evidence' \in {e, AddOther(e)}      \* a prompt marker, maybe
        /\ losses' = IF attested' THEN losses ELSE losses \cup {"attestation"}
        /\ Command(<<>>, "screenshot", 0) /\ UNCHANGED outcome
     \/ /\ Top.kind = "screenshot" /\ phase' = "stopping" /\ Return(<<>>)
        /\ \E sandboxed \in BOOLEAN :
             evidence' = AddOther(AddOther([evidence EXCEPT !.browser = sandboxed,
                                                            !.cdp = TRUE]))
        /\ outcome' = "ok" /\ UNCHANGED <<attested, losses>>
  /\ UNCHANGED met

\* A request was continued or failed as told, or a document let through.
DecisionAnswered ==
  /\ Top.kind \in {"decide", "fulfil"} /\ Return(Below)
  /\ UNCHANGED <<phase, evidence, attested, losses, outcome, met>>

\* A child target is closed; unless it was paused all the while, that is a loss.
ChildAnswered ==
  /\ Top.kind = "close"
  /\ \E closed \in BOOLEAN :
       IF closed /\ Top.arg = "paused"
         THEN Return(Below) /\ UNCHANGED <<evidence, losses>>
         ELSE /\ evidence' = AddLoss(evidence) /\ losses' = losses \cup {"child"}
              /\ Raise(Below, "agent")
  /\ UNCHANGED <<phase, attested, outcome, met>>

\* The body of a document: fit to be fulfilled with the policy added, or not.
BodyAnswered ==
  /\ Top.kind = "body"
  /\ Command(Below, "fulfil", 0) \/ Raise(stack, "agent")
  /\ UNCHANGED <<phase, evidence, attested, losses, outcome, met>>

\* However the refusal of a document is answered, the handler raises.
RefusalAnswered ==
  /\ Top.kind = "refuse" /\ Raise(Below, "agent")
  /\ UNCHANGED <<phase, evidence, attested, losses, outcome, met>>

\* An error answer, and an answer to navigate or attest that will not do, is
\* an exception out of the command.
Answered ==
  \/ MainAnswered \/ DecisionAnswered \/ ChildAnswered \/ BodyAnswered \/ RefusalAnswered
  \/ Raise(stack, "agent") /\ UNCHANGED <<phase, evidence, attested, losses, outcome, met>>

Listening == Running /\ exc = "none"
Waiting == Listening /\ stack # <<>>
Receiving ==
  /\ Listening /\ ~expired /\ browser = "alive" /\ websocket = "open"
  /\ Awaited \cap responses = {} /\ ~(stack = <<>> /\ loaded)

\* An answer that arrived while a nested command was waiting.
TakeBuffered ==
  /\ Waiting /\ Top.id \in responses
  /\ responses' = responses \ {Top.id} /\ Answered
  /\ UNCHANGED <<answered, loaded, page, browser, websocket, guarded, result, expired>>

ReceiveAnswer ==
  /\ Receiving /\ stack # <<>> /\ Top.id \notin answered
  /\ answered' = answered \cup {Top.id} /\ Answered
  /\ UNCHANGED <<responses, loaded, page, browser, websocket, guarded, result, expired>>

\* Mutant: an answer for which there is no room is passed over.
Mut_SetAside(id) ==
  /\ answered' = answered \cup {id} /\ Return(stack)
  /\ responses' = IF Cardinality(responses) >= MaxResponses THEN responses ELSE responses \cup {id}
  /\ UNCHANGED losses

\* One answer too many, and a second answer to the same command, are dropped and
\* raise an exception in whatever is waiting.
SetAside(id) ==
  /\ answered' = answered \cup {id}
  /\ IF Cardinality(responses) >= MaxResponses \/ id \in responses
     THEN Raise(stack, "agent") /\ responses' = responses /\ losses' = losses \cup {"answer"}
     ELSE Return(stack) /\ responses' = responses \cup {id} /\ losses' = losses

\* The answer to a command further down the stack, or to one that was given up,
\* or once more an answer that is still set aside.
ReceiveOther ==
  /\ Receiving
  /\ \E id \in 1..(next_id - 1) :
       (id \in responses \/ id \notin answered \cup Awaited) /\ SetAside(id)
  /\ UNCHANGED <<phase, pageVars, endVars, expired, evidence, attested>>

-------------------------------------------------------------------------------
(* Events                                                                      *)

\* The page runs from the navigation on; what it did may be reported later.
Reported ==
  /\ Receiving /\ phase # "setup" /\ page < MaxPage /\ page' = page + 1
  /\ UNCHANGED <<phase, answered, responses, endVars, expired, attested>>

\* Fetch.requestPaused for a request: recorded by its origin, if it has one,
\* and again if it is not passive; then continued or failed.
HandlePaused ==
  /\ Reported
  /\ \E origin, passive \in BOOLEAN :
       LET noted == IF passive THEN evidence ELSE AddOther(evidence) IN
       /\ evidence' = IF origin THEN AddRequest(noted, page')
                      ELSE IF passive THEN noted ELSE AddOther(noted)
       /\ met' = IF origin THEN met \cup {page'} ELSE met
  /\ Command(stack, "decide", 0) /\ UNCHANGED <<loaded, losses>>

\* A document's response: a redirect is let go on, a body is asked for, and
\* one that is malformed or not authorised is refused.
HandleDocument ==
  /\ Reported /\ UNCHANGED <<loaded, met>>
  /\ \/ /\ Command(stack, "fulfil", 0) \/ Command(stack, "body", 0)
        /\ UNCHANGED <<evidence, losses>>
     \/ /\ evidence' = AddLoss(evidence) /\ losses' = losses \cup {"document"}
        /\ Command(stack, "refuse", 0)

\* Target.attachedToTarget: recorded, and closed while it is still paused.
CloseAttachedChild ==
  /\ Reported /\ UNCHANGED <<loaded, met, losses>>
  /\ evidence' = AddOther(evidence)
  /\ \E waiting \in {"paused", "running"} : Command(stack, "close", waiting)

\* Malformed metadata of a child, a paused request or an audit issue.
HandleMalformed ==
  /\ Reported /\ UNCHANGED <<loaded, met>>
  /\ evidence' = AddLoss(evidence)
  /\ \E what \in {"child", "metadata"} : losses' = losses \cup {what}
  /\ Raise(stack, "agent")

\* A navigation, redirect, download, popup, upload, channel or mixed content.
HandleObserved ==
  /\ Reported /\ UNCHANGED <<loaded, met, losses>>
  /\ evidence' = AddOther(evidence) /\ Return(stack)

\* The load event of the page navigated to.
HandleLoad ==
  /\ Receiving /\ phase \in {"navigate", "load"} /\ ~loaded /\ loaded' = TRUE
  /\ UNCHANGED <<phase, cdpVars, page, met, endVars, expired, evidence, attested, losses>>

\* pump_until_loaded is done, and the page is frozen.
Loaded ==
  /\ Listening /\ phase = "load" /\ stack = <<>> /\ loaded
  /\ phase' = "freeze"
  /\ Command(<<>>, "freeze", 0) \/ Raise(<<>>, "agent")
  /\ UNCHANGED <<answered, responses, pageVars, endVars, expired, evidence, attested, losses>>

\* Mutant: the wait for the load event starts over when it times out.
Mut_TimesOut ==
  /\ Waiting /\ expired /\ websocket = "open"
  /\ Top.id \notin responses
  /\ Raise(stack, "timeout")
  /\ UNCHANGED <<phase, answered, responses, pageVars, endVars, expired, evidence,
                 attested, losses>>

\* Nothing is read once the deadline has passed.
TimesOut ==
  /\ Listening /\ expired /\ websocket = "open"
  /\ Awaited \cap responses = {} /\ ~(stack = <<>> /\ loaded)
  /\ Raise(stack, "timeout")
  /\ UNCHANGED <<phase, answered, responses, pageVars, endVars, expired, evidence,
                 attested, losses>>

SocketClosed ==
  /\ Listening /\ browser = "dead" /\ websocket = "open"
  /\ Awaited \cap responses = {} /\ ~(stack = <<>> /\ loaded)
  /\ Raise(stack, "agent")
  /\ UNCHANGED <<phase, answered, responses, pageVars, endVars, expired, evidence,
                 attested, losses>>

-------------------------------------------------------------------------------
(* Exceptions: each handler on the stack does with them what it does.          *)

Raising == exc # "none" /\ stack # <<>>
Unwinding == UNCHANGED <<phase, answered, responses, pageVars, endVars, expired, attested>>

PassThrough ==
  /\ Raising /\ (exc = "timeout" \/ Top.kind \in Main) /\ Raise(Below, exc)
  /\ UNCHANGED <<evidence, losses>> /\ Unwinding

\* _handle_paused notes the loss and goes on.
DecisionRaises ==
  /\ Raising /\ exc = "agent" /\ Top.kind = "decide" /\ Return(Below)
  /\ evidence' = AddLoss(evidence) /\ losses' = losses \cup {"decision"} /\ Unwinding

ChildRaises ==
  /\ Raising /\ exc = "agent" /\ Top.kind = "close" /\ Raise(Below, "agent")
  /\ evidence' = AddLoss(evidence) /\ losses' = losses \cup {"child"} /\ Unwinding

\* _handle_document_response refuses the document before it raises.
DocumentRaises ==
  /\ Raising /\ exc = "agent" /\ Top.kind \in {"body", "fulfil"}
  /\ Command(Below, "refuse", 0)
  /\ evidence' = AddLoss(evidence) /\ losses' = losses \cup {"document"} /\ Unwinding

RefusalRaises ==
  /\ Raising /\ exc = "agent" /\ Top.kind = "refuse" /\ Raise(Below, "agent")
  /\ UNCHANGED <<evidence, losses>> /\ Unwinding

-------------------------------------------------------------------------------
(* The end of _run_probe, and main                                             *)

Failed(e) == [AddLoss(AddFailed(e)) EXCEPT !.browser = FALSE, !.cdp = FALSE]

\* The version file cannot be read after all was collected.
VersionUnread ==
  /\ phase = "stopping" /\ outcome = "ok" /\ websocket = "open"
  /\ evidence' = Failed(evidence) /\ outcome' = "failed"
  /\ UNCHANGED <<phase, cdpVars, pageVars, browser, websocket, guarded, result, expired,
                 attested, losses>>

ProbeFails ==
  /\ Running /\ exc # "none" /\ stack = <<>>
  /\ phase' = "stopping" /\ outcome' = "failed" /\ exc' = "none"
  /\ evidence' = Failed(evidence)
  /\ UNCHANGED <<stack, next_id, answered, responses, pageVars, browser, websocket,
                 guarded, result, expired, attested, losses>>

\* Mutant: the socket is closed before the browser is waited for.
Mut_StopBrowser ==
  /\ phase = "stopping" /\ phase' = "report"
  /\ \/ /\ browser' = "dead" /\ UNCHANGED <<guarded, evidence, outcome>>
     \/ /\ browser = "alive" /\ guarded' = TRUE /\ browser' = browser
        /\ evidence' = Failed(evidence) /\ outcome' = "failed"
  /\ websocket' = IF websocket = "open" THEN "closed" ELSE websocket
  /\ UNCHANGED <<cdpVars, pageVars, result, expired, attested, losses>>

\* Killed and seen to exit, then detached; or kept attached by a guard.
StopBrowser ==
  /\ phase = "stopping" /\ phase' = "report"
  /\ \/ /\ browser' = "dead" /\ UNCHANGED <<guarded, evidence, outcome>>
        /\ websocket' = IF websocket = "open" THEN "closed" ELSE websocket
     \/ /\ browser = "alive" /\ guarded' = TRUE /\ UNCHANGED <<browser, websocket>>
        /\ evidence' = Failed(evidence) /\ outcome' = "failed"
  /\ UNCHANGED <<cdpVars, pageVars, result, expired, attested, losses>>

\* The result may be too long for the channel, or the channel gone.
Report ==
  /\ phase = "report" /\ phase' = "end"
  /\ evidence' = Bundle(evidence) /\ result' \in {outcome, "unsent"}
  /\ UNCHANGED <<cdpVars, pageVars, browser, websocket, guarded, outcome, expired,
                 attested, losses>>

\* _hold_for_host_termination: with a guard the process does not end.
End ==
  /\ phase = "end" /\ phase' = IF guarded THEN "held" ELSE "exited"
  /\ UNCHANGED <<cdpVars, pageVars, endVars, expired, evidence, attested, losses>>

BrowserDies ==
  /\ browser = "alive" /\ browser' = "dead"
  /\ UNCHANGED <<phase, cdpVars, pageVars, websocket, guarded, outcome, result, expired,
                 evidence, attested, losses>>

Expire ==
  /\ ~expired /\ expired' = TRUE
  /\ UNCHANGED <<phase, cdpVars, pageVars, endVars, evidence, attested, losses>>

Over == phase \in {"held", "exited"} /\ UNCHANGED agentVars

AgentStep ==
  \/ Start \/ TakeBuffered \/ Loaded \/ TimesOut \/ SocketClosed \/ ProbeFails
  \/ PassThrough \/ DecisionRaises \/ ChildRaises \/ DocumentRaises \/ RefusalRaises
  \/ StopBrowser \/ VersionUnread \/ Report \/ End

ChromiumStep ==
  \/ ReceiveAnswer \/ ReceiveOther \/ HandlePaused \/ HandleDocument
  \/ CloseAttachedChild \/ HandleMalformed \/ HandleObserved \/ HandleLoad

AgentNext == AgentStep \/ ChromiumStep \/ BrowserDies \/ Expire \/ Over

AgentSpec == AgentInit /\ [][AgentNext]_agentVars

\* The collector runs and its deadline passes; Chromium owes it nothing.
FairAgentSpec == AgentSpec /\ WF_agentVars(AgentStep) /\ WF_agentVars(Expire)

-------------------------------------------------------------------------------
(* Properties                                                                  *)

\* The evidence says that something was not observed.
LossTold == evidence.loss \/ evidence.truncated

\* No command waits, unnoticed, for an answer that has been read and dropped:
\* however handlers nest in CDP.command, what answers an outer one is kept for
\* it.  Only the bound on the answers set aside drops one, and then an exception
\* is under way or the evidence has the loss.
AnswersKept ==
  \A i \in 1..Len(stack) :
    (i < Len(stack) \/ exc = "none") /\ stack[i].id \in answered
      => \/ stack[i].id \in responses
         \/ "answer" \in losses /\ (exc = "agent" \/ LossTold)

\* A result the host finds nothing against is the whole story: it names every
\* request that was decided, also where Evidence.add drops over its budget, and
\* nothing was lost, at whatever depth of nested handlers, in the page's
\* attestation or while deciding a request.
CleanIsWhole ==
  result = "ok" /\ Clean(evidence) => met \subseteq evidence.requests /\ losses = {}

\* "Keep interception attached until the browser has exited": the DevTools
\* socket is not closed, by _stop_browser or by the end of the process, while
\* Chromium may be running.
InterceptionHeld == (websocket = "closed" \/ phase = "exited") => browser = "dead"

\* The collector reports, or holds the browser for the host to end, whatever
\* Chromium sends or does not send.
AgentEnds == <>(phase \in {"held", "exited"})
===============================================================================
