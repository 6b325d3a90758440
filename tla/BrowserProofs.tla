----------------------------- MODULE BrowserProofs -----------------------------
(***************************************************************************)
(* Proofs about the two programs that serve a run: the egress worker and   *)
(* the collector of the browser guest.                                     *)
(*                                                                         *)
(* The worker: what its handle reports is true, an orphaned child never    *)
(* serves, and the handle and its child together implement the contract    *)
(* AgentProbe relies on.  Nothing bounds the number of calls, frames or    *)
(* descendants here.  The invariant ties the two sides together: where the *)
(* lifecycle call stands and what that says of the handle's state          *)
(* (CallInv), what the child has been through at each of its steps         *)
(* (ChildInv), what the frames in the status pipe tell of it (FrameInv),   *)
(* and what the stop() under way has established (FinalInv).               *)
(*                                                                         *)
(* The collector: no answer is lost or given to another command, a bundle  *)
(* that says it is whole tells all that was met, and interception stays    *)
(* attached while Chromium may run, for every number of commands, events   *)
(* and nested waits.  CollectorInv adds to that how the waiting commands   *)
(* are numbered (StackInv), what the evidence tells (WholeInv) and where   *)
(* the connection may be closed (HoldInv).                                 *)
(*                                                                         *)
(* That the collector ends is a matter of its fairness, which TLC checks.  *)
(* What it needs from the code is proved: past its deadline the collector  *)
(* can always go on (CollectorNeverStuck), and it cannot do so for ever    *)
(* (CollectorWindsDown).  NestInv says whose command is the outermost one. *)
(***************************************************************************)
EXTENDS EgressWorker, BrowserAgent, TLAPS

-------------------------------------------------------------------------------
(* The egress worker.                                                          *)

Stages == {"none", "boot", "armed", "config", "announce", "serving", "closing", "report",
           "exiting", "exited"}
Starting == {"spawn", "await_ready", "start_kill", "start_reap"}
Stopping == {"stop_write", "stop_read", "stop_wait", "stop_kill", "stop_reap"}
StatusFrame == [type : {"ready", "error"}] \cup [type : {"final"}, complete : BOOLEAN]

WorkerTypeOK ==
  /\ state \in {"new", "starting", "running", "stopping", "stopped", "failed"}
  /\ op \in {"idle", "gone"} \cup Starting \cup Stopping
  /\ status \in Seq(StatusFrame) /\ listening \in BOOLEAN
  /\ child \in [pc : Stages, failed : BOOLEAN, ready : BOOLEAN,
                cause : {"none", "told", "failed"}, exit : {"none", "0", "1", "signal"}]

\* The call under way, the state it goes with, and the one child there ever is.
CallInv ==
  /\ op \in Starting => state = "starting"
  /\ op \in Stopping => state = "stopping"
  /\ op = "gone" <=> ~parent
  /\ state = "new" \/ op = "spawn" => child.pc = "none"
  /\ op = "idle" /\ state = "starting" => child.pc = "none"
  /\ op = "start_reap" => killed

\* The child: when its proxy may be up, that it does not get past the look at its
\* parent without one, and why it is closing.
ChildInv ==
  /\ listening => child.pc \in {"announce", "serving", "closing", "report", "exiting"}
  /\ child.pc \in {"boot", "armed", "config"} /\ ~killed => state = "starting"
  /\ ~parent /\ child.pc \in {"config", "announce", "serving", "closing", "report"} => killed
  /\ child.pc \in {"closing", "report"} => child.cause = "told" \/ child.failed
  /\ descendant => child.pc # "none"

\* A frame in the pipe tells how far the child has come, and a complete final frame
\* that it was told to stop.
FrameInv ==
  \A i \in 1..Len(status) :
    /\ status[i].type \in {"ready", "final"} =>
         child.pc \in {"serving", "closing", "report", "exiting", "exited"}
    /\ status[i].type = "final" =>
         child.pc \in {"exiting", "exited"} /\ (status[i].complete => child.cause = "told")

\* What the final frame and the wait have established for stop().
FinalInv ==
  /\ final => child.pc \in {"exiting", "exited"} /\ child.cause = "told"
  /\ op \in Stopping /\ valid => Exited /\ child.exit = "0" /\ ~descendant
  /\ complete => Exited

WorkerInv ==
  /\ WorkerTypeOK /\ CallInv /\ ChildInv /\ FrameInv /\ FinalInv
  /\ ReportIsHonest /\ OrphanNeverServes

-------------------------------------------------------------------------------
\* The frames the child writes.
LEMMA FrameTypes ==
  /\ [type |-> "ready"] \in StatusFrame /\ [type |-> "error"] \in StatusFrame
  /\ \A b \in BOOLEAN : [type |-> "final", complete |-> b] \in StatusFrame
BY Zenon DEF StatusFrame

\* A frame appended to the pipe is behind the others.
LEMMA AppendFrame ==
  ASSUME status \in Seq(StatusFrame), NEW f \in StatusFrame, status' = Append(status, f)
  PROVE  /\ status' \in Seq(StatusFrame)
         /\ \A i \in 1..Len(status') :
              (i \in 1..Len(status) /\ status'[i] = status[i]) \/ status'[i] = f
OBVIOUS

\* The steps of start() and stop().
LEMMA CallKeepsInv ==
  ASSUME WorkerInv, CallStep \/ Caller
  PROVE  WorkerInv'
<1> USE DEF WorkerInv, WorkerTypeOK, CallInv, ChildInv, FrameInv, FinalInv, ReportIsHonest,
            OrphanNeverServes, Exited, Goto, Runs, Gives, Stages, Starting, Stopping,
            handleVars, pipeVars, childVars
<1>1. CASE StartBegins
  BY <1>1 DEF StartBegins
<1>2. CASE StopNothing
  BY <1>2 DEF StopNothing
<1>3. CASE StopBegins
  BY <1>3 DEF StopBegins
<1>4. CASE StartHasNoPipes
  BY <1>4 DEF StartHasNoPipes
<1>5. CASE StartHasNoProcess
  BY <1>5 DEF StartHasNoProcess
<1>6. CASE StartSpawns
  BY Zenon, <1>6 DEF StartSpawns
<1>7. CASE StartReady
  BY <1>7 DEF StartReady
<1>8. CASE StartFails
  BY <1>8 DEF StartFails
<1>9. CASE StartKills
  BY <1>9 DEF StartKills, KillGroup
<1>10. CASE StartReaps
  <2>1. WorkerTypeOK' /\ CallInv' /\ ChildInv'
    BY <1>10 DEF StartReaps, GroupPurged
  <2>2. FrameInv'
    BY Zenon, <1>10 DEF StartReaps, GroupPurged
  <2>3. FinalInv' /\ ReportIsHonest' /\ OrphanNeverServes'
    BY Zenon, <1>10 DEF StartReaps, GroupPurged
  <2>4. QED
    BY Zenon, <2>1, <2>2, <2>3
<1>11. CASE StopWrites
  BY <1>11 DEF StopWrites
<1>12. CASE StopReads
  BY <1>12, SMTT(30) DEF StopReads
<1>13. CASE StopWaits
  BY <1>13 DEF StopWaits
<1>14. CASE StopKills
  BY <1>14 DEF StopKills, KillGroup
<1>15. CASE StopPublishes
  <2>1. WorkerTypeOK' /\ CallInv' /\ ChildInv'
    BY <1>15 DEF StopPublishes, GroupPurged
  <2>2. FrameInv'
    BY Zenon, <1>15 DEF StopPublishes, GroupPurged
  <2>3. FinalInv' /\ ReportIsHonest' /\ OrphanNeverServes'
    BY Zenon, <1>15 DEF StopPublishes, GroupPurged
  <2>4. QED
    BY Zenon, <2>1, <2>2, <2>3
<1>16. QED
  BY Zenon, <1>1, <1>2, <1>3, <1>4, <1>5, <1>6, <1>7, <1>8, <1>9, <1>10, <1>11, <1>12, <1>13,
     <1>14, <1>15 DEF CallStep, Caller

\* The steps of the child, of its descendants, and the death of its parent.
LEMMA ChildKeepsInv ==
  ASSUME WorkerInv, ChildStep \/ ChildForks \/ ChildDies \/ DescendantDies \/ ParentDies
  PROVE  WorkerInv'
<1> USE DEF WorkerInv, WorkerTypeOK, CallInv, ChildInv, FrameInv, FinalInv, ReportIsHonest,
            OrphanNeverServes, Exited, Goto, Runs, Gives, Stages, Starting, Stopping,
            handleVars, pipeVars, childVars
<1>1. CASE ChildArms
  BY Zenon, <1>1 DEF ChildArms
<1>2. CASE ChildRechecksParent
  BY Zenon, <1>2 DEF ChildRechecksParent
<1>3. CASE ChildFailsEntry
  <2>1. UNCHANGED status \/ status' = Append(status, [type |-> "error"])
    BY Zenon, <1>3 DEF ChildFailsEntry
  <2>2. /\ status' \in Seq(StatusFrame)
        /\ \A i \in 1..Len(status') :
             (i \in 1..Len(status) /\ status'[i] = status[i]) \/ status'[i].type = "error"
    BY <2>1, AppendFrame, FrameTypes
  <2>3. WorkerTypeOK' /\ CallInv' /\ ChildInv'
    BY Zenon, <1>3, <2>2 DEF ChildFailsEntry
  <2>4. FrameInv'
    BY <1>3, <2>2 DEF ChildFailsEntry
  <2>5. FinalInv' /\ ReportIsHonest' /\ OrphanNeverServes'
    BY Zenon, <1>3, <2>2 DEF ChildFailsEntry
  <2>6. QED
    BY Zenon, <2>3, <2>4, <2>5
<1>4. CASE ChildOpens
  BY Zenon, <1>4 DEF ChildOpens
<1>5. CASE ChildAnnounces
  <2>1. CASE UNCHANGED status
    BY <1>5, <2>1, ZenonT(40) DEF ChildAnnounces
  <2>2. CASE status' = Append(status, [type |-> "ready"]) /\ child'.pc = "serving"
    <3>1. /\ status' \in Seq(StatusFrame)
          /\ \A i \in 1..Len(status') :
               (i \in 1..Len(status) /\ status'[i] = status[i]) \/ status'[i].type = "ready"
      BY <2>2, AppendFrame, FrameTypes
    <3>2. WorkerTypeOK' /\ CallInv' /\ ChildInv'
      BY Zenon, <1>5, <2>2, <3>1 DEF ChildAnnounces
    <3>3. FrameInv'
      BY <1>5, <2>2, <3>1 DEF ChildAnnounces
    <3>4. FinalInv' /\ ReportIsHonest' /\ OrphanNeverServes'
      BY Zenon, <1>5, <2>2, <3>1 DEF ChildAnnounces
    <3>5. QED
      BY Zenon, <3>2, <3>3, <3>4
  <2>3. QED
    BY Zenon, <1>5, <2>1, <2>2 DEF ChildAnnounces
<1>6. CASE ChildToldToStop
  BY <1>6, ZenonT(40) DEF ChildToldToStop
<1>7. CASE ChildGivesUp
  BY <1>7, ZenonT(40) DEF ChildGivesUp
<1>8. CASE ChildCloses
  BY <1>8, ZenonT(40) DEF ChildCloses
<1>9. CASE ChildReports
  <2>1. child.pc = "report" /\ child'.pc = "exiting" /\ child'.cause = child.cause
    BY <1>9 DEF ChildReports
  <2>2. /\ status' \in Seq(StatusFrame)
        /\ \A i \in 1..Len(status') :
             \/ i \in 1..Len(status) /\ status'[i] = status[i]
             \/ status'[i].type = "error"
             \/ status'[i].type = "final" /\ (status'[i].complete => ~child.failed)
    <3>1. PICK failed \in (IF child.failed THEN {TRUE} ELSE BOOLEAN), claim \in BOOLEAN :
            \/ UNCHANGED status
            \/ status' = Append(status, [type |-> "error"])
            \/ status' = Append(status, [type |-> "final", complete |-> claim /\ ~failed])
      BY Zenon, <1>9 DEF ChildReports
    <3>2. (claim /\ ~failed) \in BOOLEAN /\ (child.failed => failed)
      BY Zenon
    <3>3. CASE status' = Append(status, [type |-> "final", complete |-> claim /\ ~failed])
      <4> DEFINE f == [type |-> "final", complete |-> claim /\ ~failed]
      <4>1. f \in StatusFrame /\ f.type = "final" /\ (f.complete => ~child.failed)
        BY Zenon, <3>2, FrameTypes
      <4>2. status' = Append(status, f)
        BY Zenon, <3>3
      <4> HIDE DEF f
      <4>3. QED
        BY <4>1, <4>2, AppendFrame
    <3>4. QED
      BY <3>1, <3>3, AppendFrame, FrameTypes
  <2>3. WorkerTypeOK'
    <3>1. \E code \in {"0", "1"} : child' = [child EXCEPT !.pc = "exiting", !.exit = code]
      BY Zenon, <1>9 DEF ChildReports
    <3>2. UNCHANGED <<state, op, listening>>
      BY Zenon, <1>9 DEF ChildReports
    <3>3. QED
      BY <2>2, <3>1, <3>2, ZenonT(40)
  <2>4. CallInv' /\ ChildInv'
    BY Zenon, <1>9, <2>1 DEF ChildReports
  <2>5. FrameInv'
    BY <1>9, <2>1, <2>2 DEF ChildReports
  <2>6. FinalInv' /\ ReportIsHonest' /\ OrphanNeverServes'
    BY Zenon, <1>9, <2>1, <2>2 DEF ChildReports
  <2>7. QED
    BY Zenon, <2>3, <2>4, <2>5, <2>6
<1>10. CASE ChildExits
  BY Zenon, <1>10 DEF ChildExits
<1>11. CASE ChildDies
  <2>1. WorkerTypeOK' /\ CallInv' /\ ChildInv'
    BY Zenon, <1>11 DEF ChildDies
  <2>2. FrameInv'
    BY Zenon, <1>11 DEF ChildDies
  <2>3. FinalInv' /\ ReportIsHonest' /\ OrphanNeverServes'
    BY Zenon, <1>11 DEF ChildDies
  <2>4. QED
    BY Zenon, <2>1, <2>2, <2>3
<1>12. CASE ChildForks
  BY <1>12 DEF ChildForks
<1>13. CASE DescendantDies
  BY <1>13 DEF DescendantDies
<1>14. CASE ParentDies
  <2>1. WorkerTypeOK' /\ FrameInv'
    BY <1>14 DEF ParentDies
  <2>2. CallInv'
    BY Zenon, <1>14 DEF ParentDies
  <2>3. ChildInv'
    BY Zenon, <1>14 DEF ParentDies
  <2>4. FinalInv' /\ ReportIsHonest' /\ OrphanNeverServes'
    BY Zenon, <1>14 DEF ParentDies
  <2>5. QED
    BY Zenon, <2>1, <2>2, <2>3, <2>4
<1>15. QED
  BY Zenon, <1>1, <1>2, <1>3, <1>4, <1>5, <1>6, <1>7, <1>8, <1>9, <1>10, <1>11, <1>12, <1>13,
     <1>14 DEF ChildStep

\* The inductive invariant of handle, pipes and child.
THEOREM WorkerInvariant == Spec => []WorkerInv
<1>1. Init => WorkerInv
  <2> SUFFICES ASSUME Init PROVE WorkerInv
    BY Zenon
  <2>1. WorkerTypeOK
    <3>1. listening \in BOOLEAN
      BY Zenon DEF Init
    <3>2. status \in Seq(StatusFrame)
      BY DEF Init
    <3>3. child \in [pc : Stages, failed : BOOLEAN, ready : BOOLEAN,
                     cause : {"none", "told", "failed"}, exit : {"none", "0", "1", "signal"}]
      BY Zenon DEF Init, NoChild, Stages
    <3>4. QED
      BY Zenon, <3>1, <3>2, <3>3 DEF Init, WorkerTypeOK
  <2>2. CallInv /\ ChildInv /\ FrameInv /\ FinalInv
    BY DEF Init, NoChild, CallInv, ChildInv, FrameInv, FinalInv, Exited, Starting, Stopping
  <2>3. ReportIsHonest /\ OrphanNeverServes
    BY Zenon DEF Init, NoChild, ReportIsHonest, OrphanNeverServes, Exited
  <2>4. QED
    BY Zenon, <2>1, <2>2, <2>3 DEF WorkerInv
<1>2. WorkerInv /\ [Next]_vars => WorkerInv'
  <2> SUFFICES ASSUME WorkerInv, [Next]_vars PROVE WorkerInv'
    BY Zenon
  <2>1. CASE UNCHANGED vars
    BY <2>1 DEF vars, handleVars, pipeVars, childVars, WorkerInv, WorkerTypeOK, CallInv,
       ChildInv, FrameInv, FinalInv, ReportIsHonest, OrphanNeverServes, Exited
  <2>2. QED
    BY Zenon, <2>1, CallKeepsInv, ChildKeepsInv DEF Next
<1>3. QED
  BY <1>1, <1>2, PTL DEF Spec
\* purge_verified and complete telemetry are true whenever they are reported, for as
\* long as they are (_terminate_process, _stop_impl and _child_proxy_loop).
THEOREM ReportsAreHonest == Spec => []ReportIsHonest
<1>1. WorkerInv => ReportIsHonest
  BY Zenon DEF WorkerInv
<1>2. QED
  BY <1>1, WorkerInvariant, PTL

\* However the death of the parent falls in the child's start, the child does not
\* go on to serve (_child_entry).
THEOREM OrphansNeverServe == Spec => []OrphanNeverServes
<1>1. WorkerInv => OrphanNeverServes
  BY Zenon DEF WorkerInv
<1>2. QED
  BY <1>1, WorkerInvariant, PTL

\* Handle, pipes and child together implement EgressWorkerContract, through which
\* AgentProbe owns its worker: every step is one of the contract's, or none.
THEOREM WorkerImplementsContract == Spec => ContractKept
<1> USE DEF Contract!contractVars
<1>1. Init => Contract!Init
  BY Zenon DEF Init, Contract!Init
<1>2. WorkerInv /\ [Next]_vars => [Contract!Next]_(Contract!contractVars)
  <2> SUFFICES ASSUME WorkerInv, [Next]_vars
               PROVE  Contract!Next \/ UNCHANGED Contract!contractVars
    BY Zenon
  <2> USE DEF handleVars, pipeVars, childVars, Goto
  <2>1. CASE StartBegins
    BY Zenon, <2>1 DEF StartBegins, Contract!Next, Contract!BeginStart
  <2>2. CASE StartHasNoProcess \/ StartReaps
    <3>1. state = "starting" /\ state' = "failed" /\ UNCHANGED <<listening, purge, complete>>
      BY Zenon, <2>2 DEF StartHasNoProcess, StartReaps, WorkerInv, CallInv, Starting
    <3>2. pending' \in IF listening THEN {FALSE} ELSE BOOLEAN
      BY Zenon, <2>2 DEF StartHasNoProcess, StartReaps, GroupPurged, Exited, WorkerInv, ChildInv
    <3>3. QED
      BY Zenon, <3>1, <3>2 DEF Contract!Next, Contract!StartFails
  <2>3. CASE StartReady
    BY Zenon, <2>3 DEF StartReady, WorkerInv, CallInv, Starting, Contract!Next,
       Contract!StartSucceeds
  <2>4. CASE StopNothing
    BY Zenon, <2>4 DEF StopNothing, Contract!Next, Contract!StopUnstarted
  <2>5. CASE StopBegins
    BY Zenon, <2>5 DEF StopBegins, Contract!Next, Contract!BeginStop
  <2>6. CASE StopPublishes
    <3>1. state = "stopping" /\ pending' = purge' /\ UNCHANGED listening
      BY Zenon, <2>6 DEF StopPublishes, WorkerInv, CallInv, Stopping
    <3>2. purge' \in IF listening THEN {FALSE} ELSE BOOLEAN
      BY Zenon, <2>6 DEF StopPublishes, GroupPurged, Exited, WorkerInv, ChildInv
    <3>3. CASE valid
      <4>1. ~listening
        BY Zenon, <2>6, <3>3 DEF StopPublishes, Exited, WorkerInv, FinalInv, ChildInv, Stopping
      <4>2. state' = "stopped" /\ complete' \in BOOLEAN
        BY Zenon, <2>6, <3>3 DEF StopPublishes
      <4>3. QED
        BY Zenon, <3>1, <3>2, <4>1, <4>2 DEF Contract!Next, Contract!StopClean
    <3>4. CASE ~valid
      <4>1. state' = "failed" /\ complete' = FALSE
        BY Zenon, <2>6, <3>4 DEF StopPublishes
      <4>2. QED
        BY Zenon, <3>1, <3>2, <4>1 DEF Contract!Next, Contract!StopDirty
    <3>5. QED
      BY Zenon, <3>3, <3>4
  <2>7. CASE ChildOpens
    <3>1. state = "starting"
      BY Zenon, <2>7 DEF ChildOpens, Runs, WorkerInv, ChildInv
    <3>2. QED
      BY Zenon, <2>7, <3>1 DEF ChildOpens, Contract!Next, Contract!Listen
  <2>8. CASE ChildCloses \/ ChildExits \/ ChildDies
    <3>1. UNCHANGED <<state, pending, purge, complete>>
      BY Zenon, <2>8 DEF ChildCloses, ChildExits, ChildDies
    <3>2. listening' = FALSE \/ listening' = listening
      BY Zenon, <2>8 DEF ChildCloses, ChildExits, ChildDies
    <3>3. CASE listening /\ listening' = FALSE
      BY Zenon, <3>1, <3>3 DEF Contract!Next, Contract!Close
    <3>4. CASE listening' = listening
      BY Zenon, <3>1, <3>4
    <3>5. QED
      BY Zenon, <3>2, <3>3, <3>4 DEF WorkerInv, WorkerTypeOK
  <2>9. CASE \/ StartHasNoPipes \/ StartSpawns \/ StartFails \/ StartKills
             \/ StopWrites \/ StopReads \/ StopWaits \/ StopKills
    BY Zenon, <2>9 DEF StartHasNoPipes, StartSpawns, StartFails, StartKills, StopWrites, StopReads,
       StopWaits, StopKills
  <2>10. CASE \/ ChildArms \/ ChildRechecksParent \/ ChildFailsEntry \/ ChildAnnounces
              \/ ChildToldToStop \/ ChildGivesUp \/ ChildReports \/ ChildForks
              \/ DescendantDies \/ ParentDies
    BY Zenon, <2>10 DEF ChildArms, ChildRechecksParent, ChildFailsEntry, ChildAnnounces,
       ChildToldToStop, ChildGivesUp, ChildReports, ChildForks, DescendantDies, ParentDies
  <2>11. CASE UNCHANGED vars
    BY Zenon, <2>11 DEF vars
  <2>12. QED
    BY Zenon, <2>1, <2>2, <2>3, <2>4, <2>5, <2>6, <2>7, <2>8, <2>9, <2>10, <2>11
       DEF Next, CallStep, Caller, ChildStep
<1>3. QED
  BY <1>1, <1>2, WorkerInvariant, PTL DEF Spec, ContractKept, Contract!Spec

-------------------------------------------------------------------------------
(* The collector.                                                              *)

Excs == {"none", "agent", "timeout"}
Args == {0, "paused", "running"}
Kinds == Main \cup {"decide", "close", "body", "fulfil", "refuse"}
Frames == [id : Nat, kind : Kinds, arg : Args]
Evidence == [count : Int, truncated : BOOLEAN, loss : BOOLEAN, failed : BOOLEAN,
             requests : SUBSET Int, browser : BOOLEAN, cdp : BOOLEAN]

\* The commands that wait were sent one after the other, and each but one that was
\* just refused has its number; only numbers that were given out are answered.
StackInv ==
  /\ \A i \in 1..Len(stack) : \A j \in 1..(i - 1) : stack[j].id < stack[i].id
  /\ \A i \in 1..Len(stack) :
       /\ stack[i].id <= next_id
       /\ i < Len(stack) \/ exc = "none" => stack[i].id < next_id
  /\ \A id \in answered : id \in Nat /\ id < next_id

\* An answer that was read is kept for the command that waits for it, or was one
\* too many.
KeptInv ==
  \A i \in 1..Len(stack) :
    (i < Len(stack) \/ exc = "none") /\ stack[i].id \in answered
      => stack[i].id \in responses \/ "answer" \in losses

CdpInv ==
  stack \in Seq(Frames) /\ next_id \in Nat /\ exc \in Excs /\ StackInv /\ KeptInv

\* Nothing waits or is raised outside the part of _run_probe that talks to Chromium.
PhaseInv ==
  /\ ~Running => stack = <<>> /\ exc = "none"
  /\ result # "none" => phase \in {"end", "held", "exited"}

\* The evidence tells of every request in m, and of a loss if there was one in l, or
\* says that it is not whole.
Tells(e, m, l) == ~e.truncated => m \subseteq e.requests /\ (l # {} => e.loss)

\* The losses that are on record: all, unless the exception that a dropped answer
\* raises is still under way.
Due == IF exc = "agent" THEN losses \ {"answer"} ELSE losses

\* What was met and what was lost is told, and the status of a bundle that is not
\* whole says so.
WholeInv ==
  /\ evidence \in Evidence /\ page \in Int /\ Tells(evidence, met, Due)
  /\ phase \in {"end", "held", "exited"} /\ evidence.truncated => ~evidence.cdp

\* Who has a browser that may run holds on to it.
HoldInv ==
  /\ websocket = "closed" => browser = "dead"
  /\ phase \in {"report", "end", "exited"} => guarded \/ browser = "dead"
  /\ phase = "exited" => ~guarded

CollectorInv == CdpInv /\ PhaseInv /\ WholeInv /\ HoldInv

-------------------------------------------------------------------------------
(* The evidence.                                                               *)

LEMMA TellsDue ==
  ASSUME Tells(evidence', met', losses')
  PROVE  Tells(evidence', met', Due')
BY Zenon DEF Tells, Due

\* Evidence.add, of an event that is kept or dropped: what is in stays in.
LEMMA AddKeeps ==
  ASSUME NEW e \in Evidence, NEW c \in Evidence, NEW m, NEW l,
         c.truncated = e.truncated, Tells(c, m, l)
  PROVE  Add(e, c) \in Evidence /\ Tells(Add(e, c), m, l)
<1>1. CASE e.count >= MaxEvents
  BY Zenon, <1>1 DEF Add, Evidence, Tells
<1>2. CASE ~(e.count >= MaxEvents)
  <2>1. Add(e, c) = [c EXCEPT !.count = e.count + 1]
    BY Zenon, <1>2 DEF Add
  <2>2. [c EXCEPT !.count = e.count + 1] \in Evidence
    BY DEF Evidence
  <2>3. Tells([c EXCEPT !.count = e.count + 1], m, l)
    BY Zenon DEF Evidence, Tells
  <2> QED
    BY Zenon, <2>1, <2>2, <2>3
<1> QED
  BY Zenon, <1>1, <1>2

LEMMA AddOtherTells ==
  ASSUME NEW e \in Evidence, NEW m, NEW l, Tells(e, m, l)
  PROVE  AddOther(e) \in Evidence /\ Tells(AddOther(e), m, l)
BY Zenon, AddKeeps DEF AddOther

LEMMA AddLossTells ==
  ASSUME NEW e \in Evidence, NEW m, NEW l, NEW lost, Tells(e, m, l)
  PROVE  AddLoss(e) \in Evidence /\ Tells(AddLoss(e), m, lost)
<1> DEFINE c == [e EXCEPT !.loss = TRUE]
<1>1. c \in Evidence /\ c.truncated = e.truncated /\ Tells(c, m, lost)
  BY Zenon DEF Evidence, Tells
<1>2. AddLoss(e) = Add(e, c)
  BY Zenon DEF AddLoss
<1> HIDE DEF c
<1> QED
  BY <1>1, <1>2, AddKeeps

LEMMA AddRequestTells ==
  ASSUME NEW e \in Evidence, NEW m, NEW l, NEW r \in Int, Tells(e, m, l)
  PROVE  AddRequest(e, r) \in Evidence /\ Tells(AddRequest(e, r), m \cup {r}, l)
<1> DEFINE c == [e EXCEPT !.requests = @ \cup {r}]
<1>1. c \in Evidence /\ c.truncated = e.truncated
  BY Zenon DEF Evidence
<1>2. Tells(c, m \cup {r}, l)
  BY Zenon DEF Evidence, Tells
<1>3. AddRequest(e, r) = Add(e, c)
  BY Zenon DEF AddRequest
<1> HIDE DEF c
<1> QED
  BY <1>1, <1>2, <1>3, AddKeeps

\* A failed run tells what it has told, and a loss.
LEMMA FailedTells ==
  ASSUME NEW e \in Evidence, NEW m, NEW l, NEW lost, Tells(e, m, l)
  PROVE  Failed(e) \in Evidence /\ Tells(Failed(e), m, lost)
<1> DEFINE c == [e EXCEPT !.failed = TRUE]
           a == AddFailed(e)
           b == AddLoss(a)
<1>1. c \in Evidence /\ c.truncated = e.truncated /\ Tells(c, m, l)
  BY Zenon DEF Evidence, Tells
<1>2. a = Add(e, c)
  BY Zenon DEF AddFailed
<1>3. Failed(e) = [b EXCEPT !.browser = FALSE, !.cdp = FALSE]
  BY Zenon DEF Failed
<1> HIDE DEF a, c
<1>4. a \in Evidence /\ Tells(a, m, l)
  BY Zenon, <1>1, <1>2, AddKeeps
<1>5. b \in Evidence /\ Tells(b, m, lost)
  BY Zenon, <1>4, AddLossTells
<1> HIDE DEF b
<1>6. [b EXCEPT !.browser = FALSE, !.cdp = FALSE] \in Evidence
  BY Zenon, <1>5 DEF Evidence
<1>7. Tells([b EXCEPT !.browser = FALSE, !.cdp = FALSE], m, lost)
  BY Zenon, <1>5 DEF Evidence, Tells
<1> QED
  BY Zenon, <1>3, <1>6, <1>7

\* The bundle of a truncated run has an incomplete stream.
LEMMA BundleTells ==
  ASSUME NEW e \in Evidence, NEW m, NEW l, Tells(e, m, l)
  PROVE  /\ Bundle(e) \in Evidence /\ Tells(Bundle(e), m, l)
         /\ Bundle(e).truncated => ~Bundle(e).cdp
<1>1. CASE e.truncated
  <2> DEFINE a == AddLoss(e)
  <2>1. Bundle(e) = [a EXCEPT !.cdp = FALSE]
    BY Zenon, <1>1 DEF Bundle
  <2>2. a \in Evidence /\ Tells(a, m, l)
    BY Zenon, AddLossTells
  <2> HIDE DEF a
  <2> QED
    BY Zenon, <2>1, <2>2 DEF Evidence, Tells
<1>2. CASE ~e.truncated
  BY Zenon, <1>2 DEF Bundle
<1> QED
  BY Zenon, <1>1, <1>2
-------------------------------------------------------------------------------
(* The commands.                                                               *)

\* A step that leaves n commands waiting, and perhaps sends one more.
Unwinds(n) ==
  /\ n \in 0..Len(stack) /\ (n < Len(stack) \/ exc = "none")
  /\ \/ \E e \in Excs : Raise(SubSeq(stack, 1, n), e)
     \/ \E kind \in Kinds, arg \in Args : Command(SubSeq(stack, 1, n), kind, arg)

LEMMA Cut ==
  ASSUME stack \in Seq(Frames), NEW n \in 0..Len(stack)
  PROVE  /\ SubSeq(stack, 1, n) \in Seq(Frames) /\ Len(SubSeq(stack, 1, n)) = n
         /\ \A i \in 1..n : SubSeq(stack, 1, n)[i] = stack[i]
OBVIOUS

LEMMA StackTypes ==
  ASSUME stack \in Seq(Frames), NEW i \in 1..Len(stack)
  PROVE  stack[i] \in Frames /\ stack[i].id \in Nat
<1>1. stack[i] \in Frames
  OBVIOUS
<1>2. \A f \in Frames : f.id \in Nat
  BY Zenon DEF Frames
<1> QED
  BY Zenon, <1>1, <1>2

LEMMA RaiseKeepsCdp ==
  ASSUME CdpInv, NEW n \in 0..Len(stack), n < Len(stack) \/ exc = "none",
         NEW e \in Excs, Raise(SubSeq(stack, 1, n), e),
         \A id \in answered' : id \in Nat /\ id < next_id,
         \A i \in 1..n : i < n \/ e = "none" =>
           (stack[i].id \in answered' => stack[i].id \in responses' \/ "answer" \in losses')
  PROVE  CdpInv'
<1> DEFINE s == SubSeq(stack, 1, n)
<1>1. s \in Seq(Frames) /\ Len(s) = n /\ \A i \in 1..n : s[i] = stack[i]
  BY Zenon, Cut DEF CdpInv
<1>2. stack' = s /\ exc' = e /\ next_id' = next_id
  BY Zenon DEF Raise
<1> HIDE DEF s
<1>3. n \in Nat /\ Len(stack) \in Nat
  BY DEF CdpInv
<1>4. \A i \in 1..n : i \in 1..Len(stack) /\ stack[i].id \in Nat /\ next_id \in Nat
  BY <1>3, StackTypes DEF CdpInv
<1>5. StackInv'
  <2>1. \A i \in 1..n : \A j \in 1..(i - 1) : s[j].id < s[i].id
    <3> SUFFICES ASSUME NEW i \in 1..n, NEW j \in 1..(i - 1) PROVE s[j].id < s[i].id
      BY Zenon
    <3>1. i \in 1..Len(stack) /\ j \in 1..n
      BY <1>3
    <3> QED
      BY Zenon, <3>1, <1>1 DEF CdpInv, StackInv
  <2>2. \A i \in 1..n : s[i].id < next_id
    BY <1>1, <1>3 DEF CdpInv, StackInv
  <2>3. \A i \in 1..n : s[i].id <= next_id
    BY <2>2, <1>1, <1>4
  <2> QED
    BY Zenon, <2>1, <2>2, <2>3, <1>1, <1>2 DEF StackInv
<1>6. KeptInv'
  BY Zenon, <1>1, <1>2 DEF KeptInv
<1> QED
  BY Zenon, <1>1, <1>2, <1>5, <1>6 DEF CdpInv

LEMMA CommandKeepsCdp ==
  ASSUME CdpInv, NEW n \in 0..Len(stack), n < Len(stack) \/ exc = "none",
         NEW kind \in Kinds, NEW arg \in Args, Command(SubSeq(stack, 1, n), kind, arg),
         \A id \in answered' : id \in Nat /\ id < next_id,
         \A i \in 1..n : stack[i].id \in answered'
                          => stack[i].id \in responses' \/ "answer" \in losses'
  PROVE  CdpInv'
<1> DEFINE s == SubSeq(stack, 1, n)
           f == Frame(kind, arg)
<1>1. s \in Seq(Frames) /\ Len(s) = n /\ \A i \in 1..n : s[i] = stack[i]
  BY Zenon, Cut DEF CdpInv
<1>2. f \in Frames /\ f.id = next_id /\ next_id \in Nat
  BY Zenon DEF CdpInv, Frames, Frame, Args
<1>3. /\ stack' = Append(s, f) /\ exc' \in Excs
      /\ next_id' \in {next_id, next_id + 1} /\ (exc' = "none" => next_id' = next_id + 1)
  BY Zenon DEF Command, Excs
<1> HIDE DEF s, f
<1>4. n \in Nat /\ Len(stack) \in Nat
  BY DEF CdpInv
<1>5. /\ stack' \in Seq(Frames) /\ Len(stack') = n + 1 /\ stack'[n + 1] = f
      /\ \A i \in 1..n : stack'[i] = stack[i]
  BY <1>1, <1>2, <1>3, <1>4
<1>6. \A i \in 1..n : stack[i].id \in Nat /\ stack[i].id < next_id
  BY <1>4, StackTypes DEF CdpInv, StackInv
<1>7. StackInv'
  <2>1. \A i \in 1..n : \A j \in 1..(i - 1) : stack'[j].id < stack'[i].id
    <3> SUFFICES ASSUME NEW i \in 1..n, NEW j \in 1..(i - 1)
                 PROVE  stack'[j].id < stack'[i].id
      BY Zenon
    <3>1. i \in 1..Len(stack) /\ j \in 1..n
      BY <1>4
    <3>2. stack[j].id < stack[i].id
      BY Zenon, <3>1 DEF CdpInv, StackInv
    <3> QED
      BY Zenon, <1>5, <3>1, <3>2
  <2>2. \A j \in 1..n : stack'[j].id < stack'[n + 1].id
    BY Zenon, <1>2, <1>5, <1>6
  <2>3. \A i \in 1..(n + 1) : \A j \in 1..(i - 1) : stack'[j].id < stack'[i].id
    <3>1. \A i \in 1..(n + 1) : i \in 1..n \/ (i = n + 1 /\ i - 1 = n)
      BY <1>4
    <3> QED
      BY Zenon, <2>1, <2>2, <3>1
  <2>4. next_id' \in Nat /\ next_id <= next_id'
    BY <1>2, <1>3
  <2>5. \A i \in 1..n : stack'[i].id < next_id' /\ stack'[i].id <= next_id'
    BY <2>4, <1>2, <1>5, <1>6
  <2>6. stack'[n + 1].id <= next_id' /\ (exc' = "none" => stack'[n + 1].id < next_id')
    BY <2>4, <1>2, <1>3, <1>5
  <2>7. \A id \in answered' : id \in Nat /\ id < next_id'
    BY <2>4, <1>2
  <2> QED
    BY <2>3, <2>5, <2>6, <2>7, <1>4, <1>5 DEF StackInv
<1>8. KeptInv'
  <2>1. next_id \notin answered'
    BY SMTT(20), <1>2
  <2> QED
    BY <2>1, <1>2, <1>4, <1>5 DEF KeptInv
<1> QED
  BY <1>3, <1>5, <1>2, <1>7, <1>8 DEF CdpInv

\* No answer is read in the step: those to the commands left waiting are kept.
LEMMA UnwindKeepsCdp ==
  ASSUME CdpInv, NEW n, Unwinds(n), UNCHANGED <<answered, responses>>, losses \subseteq losses'
  PROVE  CdpInv'
<1>1. \A i \in 1..n : stack[i].id \in answered'
                       => stack[i].id \in responses' \/ "answer" \in losses'
  BY DEF Unwinds, CdpInv, KeptInv
<1>2. \A id \in answered' : id \in Nat /\ id < next_id
  BY Zenon DEF CdpInv, StackInv
<1> QED
  BY Zenon, <1>1, <1>2, RaiseKeepsCdp, CommandKeepsCdp DEF Unwinds
\* Nothing, all, and all but the innermost of the stack are cuts of it.
LEMMA Cuts ==
  ASSUME stack \in Seq(Frames)
  PROVE  /\ Len(stack) \in Nat /\ SubSeq(stack, 1, 0) = <<>>
         /\ SubSeq(stack, 1, Len(stack)) = stack
         /\ Below = SubSeq(stack, 1, Len(stack) - 1)
         /\ stack # <<>> => Len(stack) - 1 \in 0..Len(stack) /\ Len(stack) - 1 < Len(stack)
<1>1. Len(stack) \in Nat /\ SubSeq(stack, 1, 0) = <<>> /\ SubSeq(stack, 1, Len(stack)) = stack
  OBVIOUS
<1>2. stack # <<>> => Len(stack) > 0
  OBVIOUS
<1> QED
  BY <1>1, <1>2 DEF Below

\* The ways to go on from an answer.
LEMMA AnsweredUnwinds ==
  ASSUME stack \in Seq(Frames), stack # <<>>, exc = "none", Answered
  PROVE  \/ Unwinds(Len(stack) - 1)
         \/ Unwinds(0) /\ 0 < Len(stack)
         \/ Raise(SubSeq(stack, 1, Len(stack)), "agent")
<1> DEFINE n == Len(stack) - 1
<1>1. /\ n \in 0..Len(stack) /\ n < Len(stack) /\ 0 \in 0..Len(stack) /\ 0 < Len(stack)
      /\ Below = SubSeq(stack, 1, n)
      /\ SubSeq(stack, 1, 0) = <<>> /\ SubSeq(stack, 1, Len(stack)) = stack
  BY Cuts
<1> HIDE DEF n
<1>2. CASE MainAnswered
  <2>1. \/ Return(<<>>)
        \/ \E kind \in Main : Command(<<>>, kind, 0)
    BY Zenon, <1>2 DEF MainAnswered, Main
  <2> QED
    BY Zenon, <2>1, <1>1 DEF Unwinds, Return, Excs, Args, Kinds
<1>3. CASE DecisionAnswered \/ RefusalAnswered
  BY Zenon, <1>1, <1>3 DEF n, DecisionAnswered, RefusalAnswered, Unwinds, Return, Excs
<1>4. CASE ChildAnswered
  <2>1. Return(Below) \/ Raise(Below, "agent")
    BY Zenon, <1>4 DEF ChildAnswered
  <2> QED
    BY Zenon, <2>1, <1>1 DEF n, Unwinds, Return, Excs
<1>5. CASE BodyAnswered
  BY Zenon, <1>1, <1>5 DEF n, BodyAnswered, Unwinds, Kinds, Args
<1> QED
  BY Zenon, <1>1, <1>2, <1>3, <1>4, <1>5 DEF Answered

\* An answer read from the socket or from those set aside is the one to the innermost
\* command, and that command is left.
LEMMA AnswerKeepsCdp ==
  ASSUME CdpInv, stack # <<>>, exc = "none", Answered,
         \/ answered' = answered /\ responses' = responses \ {Top.id}
         \/ answered' = answered \cup {Top.id} /\ responses' = responses,
         losses \subseteq losses'
  PROVE  CdpInv'
<1>1. Len(stack) \in Nat /\ Len(stack) \in 1..Len(stack)
  BY DEF CdpInv
<1>2. Top.id \in Nat /\ Top.id < next_id
  BY Zenon, <1>1, StackTypes DEF CdpInv, StackInv, Top
<1>3. \A id \in answered' : id \in Nat /\ id < next_id
  BY Zenon, <1>2 DEF CdpInv, StackInv
<1>4. \A i \in 1..(Len(stack) - 1) :
        stack[i].id \in answered' => stack[i].id \in responses' \/ "answer" \in losses'
  <2> SUFFICES ASSUME NEW i \in 1..(Len(stack) - 1), stack[i].id \in answered'
               PROVE  stack[i].id \in responses' \/ "answer" \in losses'
    BY Zenon
  <2>1. i \in 1..Len(stack) /\ i < Len(stack)
    BY <1>1
  <2>2. stack[i].id \in Nat /\ stack[i].id < Top.id
    BY Zenon, <1>1, <2>1, StackTypes DEF CdpInv, StackInv, Top
  <2>3. stack[i].id # Top.id
    BY <2>2, <1>2
  <2>4. stack[i].id \in answered => stack[i].id \in responses \/ "answer" \in losses
    BY Zenon, <2>1 DEF CdpInv, KeptInv
  <2> QED
    BY Zenon, <2>3, <2>4
<1>5. CASE Unwinds(Len(stack) - 1)
  <2> DEFINE n == Len(stack) - 1
  <2>1. \A i \in 1..n : stack[i].id \in answered'
                         => stack[i].id \in responses' \/ "answer" \in losses'
    BY Zenon, <1>4
  <2>2. Unwinds(n)
    BY Zenon, <1>5
  <2> HIDE DEF n
  <2> QED
    BY Zenon, <1>3, <2>1, <2>2, RaiseKeepsCdp, CommandKeepsCdp DEF Unwinds
<1>6. CASE Unwinds(0)
  <2>1. \A i \in 1..0 : stack[i].id \in answered'
                         => stack[i].id \in responses' \/ "answer" \in losses'
    OBVIOUS
  <2> QED
    BY Zenon, <1>3, <1>6, <2>1, RaiseKeepsCdp, CommandKeepsCdp DEF Unwinds
<1>7. CASE Raise(SubSeq(stack, 1, Len(stack)), "agent")
  <2> DEFINE n == Len(stack)
  <2>1. \A i \in 1..n : i < n \/ "agent" = "none" =>
          (stack[i].id \in answered' => stack[i].id \in responses' \/ "answer" \in losses')
    BY <1>1, <1>4
  <2>2. n \in 0..Len(stack) /\ Raise(SubSeq(stack, 1, n), "agent")
    BY <1>1, <1>7
  <2> HIDE DEF n
  <2> QED
    BY Zenon, <1>3, <2>1, <2>2, RaiseKeepsCdp DEF Excs
<1> QED
  BY Zenon, <1>5, <1>6, <1>7, AnsweredUnwinds DEF CdpInv

\* An answer to another command is set aside for it, or dropped and noted.
LEMMA OtherKeepsCdp ==
  ASSUME CdpInv, ReceiveOther
  PROVE  CdpInv'
<1>1. PICK id \in 1..(next_id - 1) : SetAside(id)
  BY Zenon DEF ReceiveOther
<1>2. /\ exc = "none" /\ UNCHANGED <<stack, next_id>> /\ exc' \in Excs
      /\ answered' = answered \cup {id}
      /\ \/ responses' = responses \cup {id} /\ losses' = losses
         \/ "answer" \in losses'
  BY Zenon, <1>1 DEF ReceiveOther, Receiving, Listening, SetAside, Raise, Return, Excs
<1>3. id \in Nat /\ id < next_id
  BY DEF CdpInv
<1>4. StackInv'
  BY Zenon, <1>2, <1>3 DEF CdpInv, StackInv
<1>5. KeptInv'
  BY Zenon, <1>2 DEF CdpInv, KeptInv
<1> QED
  BY Zenon, <1>2, <1>4, <1>5 DEF CdpInv
-------------------------------------------------------------------------------
(* Every action keeps the invariant.                                           *)

\* A step of the loop that reads the socket, or of a handler in it.
LEMMA LoopKeepsInv ==
  ASSUME CollectorInv, Running,
         \/ phase' \in Main \cup {"load"}
         \/ phase' = "stopping" /\ stack' = <<>> /\ exc' = "none",
         CdpInv', evidence' \in Evidence, page' \in Int, Tells(evidence', met', Due'),
         UNCHANGED <<browser, websocket, guarded, result>>
  PROVE  CollectorInv'
<1>1. PhaseInv'
  BY Zenon DEF CollectorInv, PhaseInv, Running, Main
<1>2. WholeInv'
  BY Zenon DEF WholeInv, Main
<1>3. HoldInv'
  BY Zenon DEF CollectorInv, HoldInv, Main
<1> QED
  BY Zenon, <1>1, <1>2, <1>3 DEF CollectorInv

\* What an answer leads to, apart from the stack.
LEMMA AnsweredTells ==
  ASSUME CollectorInv, Running, exc = "none", Answered
  PROVE  /\ \/ phase' \in Main \cup {"load"}
            \/ phase' = "stopping" /\ stack' = <<>> /\ exc' = "none"
         /\ evidence' \in Evidence /\ Tells(evidence', met', losses')
         /\ losses \subseteq losses'
<1>0. evidence \in Evidence /\ Tells(evidence, met, losses)
  BY Zenon DEF CollectorInv, WholeInv, Due
<1>1. CASE MainAnswered
  <2>1. CASE Top.kind \in {"setup", "navigate", "freeze"}
    <3>1. phase' \in Main \cup {"load"} /\ UNCHANGED <<evidence, losses, met>>
      BY Zenon, <1>1, <2>1 DEF MainAnswered, Main
    <3> QED
      BY Zenon, <1>0, <3>1
  <2>2. CASE Top.kind = "attest"
    <3> DEFINE e == IF attested' THEN evidence ELSE AddLoss(evidence)
               l == IF attested' THEN losses ELSE losses \cup {"attestation"}
    <3>1. /\ phase' = "screenshot" /\ evidence' \in {e, AddOther(e)}
          /\ losses' = l /\ met' = met
      BY Zenon, <1>1, <2>2 DEF MainAnswered
    <3>2. e \in Evidence /\ Tells(e, met, l) /\ losses \subseteq l
      BY Zenon, <1>0, AddLossTells
    <3> HIDE DEF e, l
    <3> QED
      BY Zenon, <3>1, <3>2, AddOtherTells DEF Main
  <2>3. CASE Top.kind = "screenshot"
    <3>1. PICK sandboxed \in BOOLEAN :
            /\ phase' = "stopping" /\ Return(<<>>) /\ UNCHANGED <<losses, met>>
            /\ evidence' = AddOther(AddOther([evidence EXCEPT !.browser = sandboxed,
                                                              !.cdp = TRUE]))
      BY Zenon, <1>1, <2>3 DEF MainAnswered
    <3> DEFINE e == [evidence EXCEPT !.browser = sandboxed, !.cdp = TRUE]
    <3>2. e \in Evidence
      BY Zenon, <1>0 DEF Evidence
    <3>3. Tells(e, met, losses)
      BY Zenon, <1>0 DEF Evidence, Tells
    <3>4. evidence' = AddOther(AddOther(e))
      BY Zenon, <3>1
    <3> HIDE DEF e
    <3>5. evidence' \in Evidence /\ Tells(evidence', met, losses)
      BY Zenon, <3>2, <3>3, <3>4, AddOtherTells
    <3> QED
      BY Zenon, <3>1, <3>5 DEF Return, Raise
  <2> QED
    BY Zenon, <1>1, <2>1, <2>2, <2>3 DEF MainAnswered
<1>2. CASE ChildAnswered
  <2>1. /\ phase' = phase /\ met' = met
        /\ \/ UNCHANGED <<evidence, losses>>
           \/ evidence' = AddLoss(evidence) /\ losses' = losses \cup {"child"}
    BY Zenon, <1>2 DEF ChildAnswered
  <2> QED
    BY Zenon, <1>0, <2>1, AddLossTells DEF Running
<1>3. CASE ~MainAnswered /\ ~ChildAnswered
  <2>1. UNCHANGED <<phase, evidence, losses, met>>
    BY Zenon, <1>3 DEF Answered, DecisionAnswered, BodyAnswered, RefusalAnswered
  <2> QED
    BY Zenon, <1>0, <2>1 DEF Running
<1> QED
  BY Zenon, <1>1, <1>2, <1>3

LEMMA AnswersKeepInv ==
  ASSUME CollectorInv, TakeBuffered \/ ReceiveAnswer
  PROVE  CollectorInv'
<1>1. /\ Running /\ exc = "none" /\ stack # <<>> /\ Answered
      /\ \/ answered' = answered /\ responses' = responses \ {Top.id}
         \/ answered' = answered \cup {Top.id} /\ responses' = responses
      /\ UNCHANGED <<page, browser, websocket, guarded, result>>
  BY Zenon DEF TakeBuffered, ReceiveAnswer, Waiting, Receiving, Listening
<1>2. CdpInv'
  BY Zenon, <1>1, AnswerKeepsCdp, AnsweredTells DEF CollectorInv
<1>3. page' \in Int
  BY Zenon, <1>1 DEF CollectorInv, WholeInv
<1> QED
  BY Zenon, <1>1, <1>2, <1>3, AnsweredTells, TellsDue, LoopKeepsInv

\* What Chromium reports of the page.
LEMMA EventsKeepInv ==
  ASSUME CollectorInv,
         HandlePaused \/ HandleDocument \/ CloseAttachedChild \/ HandleMalformed \/ HandleObserved
  PROVE  CollectorInv'
<1>1. Reported
  BY Zenon DEF HandlePaused, HandleDocument, CloseAttachedChild, HandleMalformed, HandleObserved
<1>0. /\ evidence \in Evidence /\ Tells(evidence, met, losses)
      /\ stack \in Seq(Frames) /\ page \in Int
  BY Zenon, <1>1 DEF Reported, Receiving, Listening, CollectorInv, WholeInv, CdpInv, Due
<1>2. /\ Running /\ exc = "none" /\ page' = page + 1
      /\ UNCHANGED <<phase, answered, responses, browser, websocket, guarded, result>>
  BY Zenon, <1>1 DEF Reported, Receiving, Listening, endVars
<1>3. page' \in Int /\ phase' \in Main \cup {"load"}
  BY <1>0, <1>2 DEF Running
<1>4. Unwinds(Len(stack))
  <2>1. /\ Len(stack) \in 0..Len(stack) /\ SubSeq(stack, 1, Len(stack)) = stack
    BY <1>0, Cuts
  <2>2. \/ \E e \in Excs : Raise(stack, e)
        \/ \E kind \in Kinds, arg \in Args : Command(stack, kind, arg)
    <3>1. CASE HandlePaused
      BY Zenon, <3>1 DEF HandlePaused, Kinds, Args
    <3>2. CASE HandleDocument
      BY Zenon, <3>2 DEF HandleDocument, Kinds, Args
    <3>3. CASE CloseAttachedChild
      BY Zenon, <3>3 DEF CloseAttachedChild, Kinds, Args
    <3>4. CASE HandleMalformed \/ HandleObserved
      BY Zenon, <3>4 DEF HandleMalformed, HandleObserved, Return, Excs
    <3> QED
      BY Zenon, <3>1, <3>2, <3>3, <3>4
  <2> QED
    BY Zenon, <1>2, <2>1, <2>2 DEF Unwinds
<1>5. CdpInv'
  <2>1. losses \subseteq losses'
    BY Zenon DEF HandlePaused, HandleDocument, CloseAttachedChild, HandleMalformed, HandleObserved
  <2> QED
    BY Zenon, <1>2, <1>4, <2>1, UnwindKeepsCdp DEF CollectorInv
<1>6. evidence' \in Evidence /\ Tells(evidence', met', losses')
  <2>1. CASE HandlePaused
    <3>1. PICK origin \in BOOLEAN, passive \in BOOLEAN :
            LET noted == IF passive THEN evidence ELSE AddOther(evidence) IN
            /\ evidence' = IF origin THEN AddRequest(noted, page')
                           ELSE IF passive THEN noted ELSE AddOther(noted)
            /\ met' = IF origin THEN met \cup {page'} ELSE met
      BY Zenon, <2>1 DEF HandlePaused
    <3>2. losses' = losses
      BY Zenon, <2>1 DEF HandlePaused
    <3> DEFINE noted == IF passive THEN evidence ELSE AddOther(evidence)
    <3>3. noted \in Evidence /\ Tells(noted, met, losses)
      BY Zenon, <1>0, AddOtherTells
    <3>4. /\ evidence' = IF origin THEN AddRequest(noted, page')
                         ELSE IF passive THEN noted ELSE AddOther(noted)
          /\ met' = IF origin THEN met \cup {page'} ELSE met
      BY Zenon, <3>1
    <3> HIDE DEF noted
    <3>5. CASE origin
      BY Zenon, <1>3, <3>2, <3>3, <3>4, <3>5, AddRequestTells
    <3>6. CASE ~origin
      BY Zenon, <3>2, <3>3, <3>4, <3>6, AddOtherTells
    <3> QED
      BY Zenon, <3>5, <3>6
  <2>2. CASE HandleDocument
    <3>1. met' = met /\ \/ UNCHANGED <<evidence, losses>>
                        \/ evidence' = AddLoss(evidence)
      BY Zenon, <2>2 DEF HandleDocument
    <3> QED
      BY Zenon, <1>0, <3>1, AddLossTells
  <2>3. CASE CloseAttachedChild \/ HandleObserved
    <3>1. UNCHANGED <<met, losses>> /\ evidence' = AddOther(evidence)
      BY Zenon, <2>3 DEF CloseAttachedChild, HandleObserved
    <3> QED
      BY Zenon, <1>0, <3>1, AddOtherTells
  <2>4. CASE HandleMalformed
    <3>1. met' = met /\ evidence' = AddLoss(evidence)
      BY Zenon, <2>4 DEF HandleMalformed
    <3> QED
      BY Zenon, <1>0, <3>1, AddLossTells
  <2> QED
    BY Zenon, <2>1, <2>2, <2>3, <2>4
<1> QED
  BY Zenon, <1>2, <1>3, <1>5, <1>6, TellsDue, LoopKeepsInv

\* An exception on its way through the handlers.
LEMMA UnwindingKeepsInv ==
  ASSUME CollectorInv,
         PassThrough \/ DecisionRaises \/ ChildRaises \/ DocumentRaises \/ RefusalRaises
  PROVE  CollectorInv'
<1>0. /\ evidence \in Evidence /\ Tells(evidence, met, Due)
      /\ stack \in Seq(Frames) /\ page \in Int /\ exc \in Excs
  BY Zenon DEF CollectorInv, WholeInv, CdpInv
<1>1. Raising /\ Unwinding
  BY Zenon DEF PassThrough, DecisionRaises, ChildRaises, DocumentRaises, RefusalRaises
<1>2. /\ stack # <<>>
      /\ UNCHANGED <<phase, answered, responses, page, met, browser, websocket, guarded, result>>
  BY Zenon, <1>1 DEF Raising, Unwinding, pageVars, endVars
<1>3. Running
  BY Zenon, <1>2 DEF CollectorInv, PhaseInv
<1>4. Unwinds(Len(stack) - 1)
  <2>1. /\ Len(stack) - 1 \in 0..Len(stack) /\ Len(stack) - 1 < Len(stack)
        /\ Below = SubSeq(stack, 1, Len(stack) - 1)
    BY Zenon, <1>0, <1>2, Cuts
  <2>2. \/ \E e \in Excs : Raise(Below, e)
        \/ \E kind \in Kinds, arg \in Args : Command(Below, kind, arg)
    <3>1. CASE PassThrough \/ DecisionRaises \/ ChildRaises \/ RefusalRaises
      BY Zenon, <1>0, <3>1
        DEF PassThrough, DecisionRaises, ChildRaises, RefusalRaises, Return, Excs
    <3>2. CASE DocumentRaises
      BY Zenon, <3>2 DEF DocumentRaises, Kinds, Args
    <3> QED
      BY Zenon, <3>1, <3>2
  <2> QED
    BY Zenon, <2>1, <2>2 DEF Unwinds
<1>5. CdpInv'
  <2>1. losses \subseteq losses'
    BY Zenon DEF PassThrough, DecisionRaises, ChildRaises, DocumentRaises, RefusalRaises
  <2> QED
    BY Zenon, <1>2, <1>4, <2>1, UnwindKeepsCdp DEF CollectorInv
<1>6. evidence' \in Evidence /\ Tells(evidence', met', Due')
  <2>1. UNCHANGED <<evidence, losses, exc>> \/ evidence' = AddLoss(evidence)
    BY Zenon DEF PassThrough, DecisionRaises, ChildRaises, DocumentRaises, RefusalRaises, Raise
  <2> QED
    BY Zenon, <1>0, <1>2, <2>1, AddLossTells DEF Due
<1>7. page' \in Int /\ phase' \in Main \cup {"load"}
  BY Zenon, <1>0, <1>2, <1>3 DEF Running
<1> QED
  BY Zenon, <1>2, <1>3, <1>5, <1>6, <1>7, LoopKeepsInv

\* The answer to another command: a loss it may be is told by its exception first.
LEMMA OtherKeepsInv ==
  ASSUME CollectorInv, ReceiveOther
  PROVE  CollectorInv'
<1>1. /\ Running /\ exc = "none"
      /\ UNCHANGED <<phase, evidence, met, page, browser, websocket, guarded, result>>
      /\ losses' = losses \/ (exc' = "agent" /\ losses' = losses \cup {"answer"})
  BY Zenon DEF ReceiveOther, Receiving, Listening, SetAside, Raise, pageVars, endVars
<1>2. evidence \in Evidence /\ page \in Int /\ Tells(evidence, met, losses)
  BY Zenon, <1>1 DEF CollectorInv, WholeInv, Due
<1>3. Tells(evidence', met', Due')
  BY Zenon, <1>1, <1>2 DEF Tells, Due
<1>4. phase' \in Main \cup {"load"} /\ CdpInv'
  BY Zenon, <1>1, OtherKeepsCdp DEF CollectorInv, Running
<1> QED
  BY Zenon, <1>1, <1>2, <1>3, <1>4, LoopKeepsInv

\* The other steps of the loop: its start, its end, and what ends a wait.
LEMMA WaitingKeepsInv ==
  ASSUME CollectorInv, Start \/ Loaded \/ TimesOut \/ SocketClosed \/ HandleLoad
  PROVE  CollectorInv'
<1>0. /\ evidence \in Evidence /\ Tells(evidence, met, losses)
      /\ stack \in Seq(Frames) /\ page \in Int
  <2>1. exc = "none"
    BY Zenon DEF Start, Loaded, TimesOut, SocketClosed, HandleLoad, Receiving, Listening,
       CollectorInv, PhaseInv, Running, Main
  <2> QED
    BY Zenon, <2>1 DEF CollectorInv, WholeInv, CdpInv, Due
<1>1. UNCHANGED <<evidence, met, losses, page, browser, guarded, result>>
  <2>1. CASE Start \/ Loaded
    BY Zenon, <2>1 DEF Start, Loaded, pageVars, endVars
  <2>2. CASE TimesOut \/ SocketClosed \/ HandleLoad
    BY Zenon, <2>2 DEF TimesOut, SocketClosed, HandleLoad, pageVars, endVars
  <2> QED
    BY Zenon, <2>1, <2>2
<1>2. phase' \in Main \cup {"load"}
  BY Zenon DEF Start, Loaded, TimesOut, SocketClosed, HandleLoad, Receiving, Listening, Running,
     Main
<1>3. CdpInv'
  <2>1. /\ SubSeq(stack, 1, 0) = <<>> /\ SubSeq(stack, 1, Len(stack)) = stack
        /\ 0 \in 0..Len(stack) /\ Len(stack) \in 0..Len(stack)
    BY <1>0, Cuts
  <2>2. CASE Start
    <3>1. exc = "none"
      BY Zenon, <2>2 DEF Start, CollectorInv, PhaseInv, Running, Main
    <3>2. UNCHANGED <<answered, responses>>
      BY Zenon, <2>2 DEF Start
    <3>3. Raise(<<>>, "agent") \/ Command(<<>>, "setup", 0)
      BY Zenon, <2>2 DEF Start
    <3>4. Unwinds(0)
      BY Zenon, <2>1, <3>1, <3>3 DEF Unwinds, Excs, Kinds, Main, Args
    <3> QED
      BY Zenon, <3>2, <3>4, <1>1, UnwindKeepsCdp DEF CollectorInv
  <2>3. CASE Loaded
    <3>1. exc = "none" /\ UNCHANGED <<answered, responses>>
      BY Zenon, <2>3 DEF Loaded, Listening
    <3>2. Raise(<<>>, "agent") \/ Command(<<>>, "freeze", 0)
      BY Zenon, <2>3 DEF Loaded
    <3>3. Unwinds(0)
      BY Zenon, <2>1, <3>1, <3>2 DEF Unwinds, Excs, Kinds, Main, Args
    <3> QED
      BY Zenon, <3>1, <3>3, <1>1, UnwindKeepsCdp DEF CollectorInv
  <2>4. CASE TimesOut \/ SocketClosed
    <3>1. /\ exc = "none" /\ UNCHANGED <<answered, responses>>
          /\ Raise(stack, "timeout") \/ Raise(stack, "agent")
      BY Zenon, <2>4 DEF TimesOut, SocketClosed, Listening
    <3>2. Unwinds(Len(stack))
      BY Zenon, <2>1, <3>1 DEF Unwinds, Excs
    <3> QED
      BY Zenon, <3>1, <3>2, <1>1, UnwindKeepsCdp DEF CollectorInv
  <2>5. CASE HandleLoad
    BY Zenon, <1>1, <2>5 DEF HandleLoad, cdpVars, CollectorInv, CdpInv, StackInv, KeptInv
  <2> QED
    BY Zenon, <2>2, <2>3, <2>4, <2>5
<1>4. PhaseInv'
  <2>1. result = "none"
    BY Zenon DEF CollectorInv, PhaseInv, Start, Loaded, TimesOut, SocketClosed, HandleLoad,
       Receiving, Listening, Running, Main
  <2> QED
    BY Zenon, <1>1, <1>2, <2>1 DEF PhaseInv, Running
<1>5. WholeInv'
  BY Zenon, <1>0, <1>1, <1>2, TellsDue DEF WholeInv, Main
<1>6. HoldInv'
  <2>1. websocket' \in {websocket, "open"}
    BY Zenon DEF Start, Loaded, TimesOut, SocketClosed, HandleLoad, endVars
  <2> QED
    BY Zenon, <1>1, <1>2, <2>1 DEF CollectorInv, HoldInv, Main
<1> QED
  BY Zenon, <1>3, <1>4, <1>5, <1>6 DEF CollectorInv

\* The commands are done with: nothing of them changes.
LEMMA QuietKeepsCdp ==
  ASSUME CdpInv, UNCHANGED <<cdpVars, losses>>
  PROVE  CdpInv'
BY Zenon DEF CdpInv, cdpVars, StackInv, KeptInv

\* The end of _run_probe, the stop of the browser, the report, and what happens outside.
LEMMA EndingKeepsInv ==
  ASSUME CollectorInv, ProbeFails \/ VersionUnread \/ StopBrowser \/ Report \/ End
  PROVE  CollectorInv'
<1>0. /\ evidence \in Evidence /\ Tells(evidence, met, Due)
      /\ stack \in Seq(Frames) /\ page \in Int /\ CdpInv /\ PhaseInv /\ WholeInv /\ HoldInv
  BY Zenon DEF CollectorInv, WholeInv, CdpInv
<1>1. CASE ProbeFails
  <2>1. /\ Running /\ stack = <<>> /\ phase' = "stopping" /\ stack' = <<>> /\ exc' = "none"
        /\ evidence' = Failed(evidence)
        /\ UNCHANGED <<next_id, answered, responses, page, met, browser, websocket, guarded,
                       result, losses>>
    BY Zenon, <1>1 DEF ProbeFails, pageVars
  <2>2. CdpInv'
    <3>1. Len(stack') = 0 /\ stack' \in Seq(Frames) /\ next_id' \in Nat
      BY Zenon, <1>0, <2>1 DEF CdpInv
    <3>2. \A id \in answered' : id \in Nat /\ id < next_id'
      BY Zenon, <1>0, <2>1 DEF CdpInv, StackInv
    <3>3. StackInv'
      BY <3>1, <3>2 DEF StackInv
    <3>4. KeptInv'
      BY <3>1 DEF KeptInv
    <3> QED
      BY Zenon, <2>1, <3>1, <3>3, <3>4 DEF CdpInv, Excs
  <2>3. evidence' \in Evidence /\ Tells(evidence', met', losses') /\ page' \in Int
    BY Zenon, <1>0, <2>1, FailedTells
  <2> QED
    BY Zenon, <2>1, <2>2, <2>3, TellsDue, LoopKeepsInv
<1>2. CASE ~ProbeFails
  <2>1. UNCHANGED <<cdpVars, page, met, losses>> /\ phase \in {"stopping", "report", "end"}
    BY Zenon, <1>2 DEF VersionUnread, StopBrowser, Report, End, pageVars
  <2>2. CdpInv'
    BY Zenon, <1>0, <2>1, QuietKeepsCdp
  <2>3. phase' \in {"stopping", "report", "end", "held", "exited"}
    BY Zenon, <1>2, <2>1 DEF VersionUnread, StopBrowser, Report, End
  <2>4. PhaseInv'
    <3>1. stack' = <<>> /\ exc' = "none"
      BY Zenon, <1>0, <2>1 DEF PhaseInv, Running, Main, cdpVars
    <3>2. result' # "none" => phase' \in {"end", "held", "exited"}
      BY Zenon, <1>0, <1>2 DEF PhaseInv, VersionUnread, StopBrowser, Report, End, endVars
    <3> QED
      BY Zenon, <3>1, <3>2 DEF PhaseInv
  <2>5. WholeInv'
    <3>0. Due' = Due
      BY Zenon, <2>1 DEF Due, cdpVars
    <3>1. CASE VersionUnread \/ StopBrowser
      <4>1. evidence' \in {evidence, Failed(evidence)} /\ phase' \in {"stopping", "report"}
        BY Zenon, <3>1 DEF VersionUnread, StopBrowser
      <4> QED
        BY Zenon, <1>0, <2>1, <3>0, <4>1, FailedTells DEF WholeInv
    <3>2. CASE Report
      <4>1. evidence' = Bundle(evidence)
        BY Zenon, <3>2 DEF Report
      <4> QED
        BY Zenon, <1>0, <2>1, <3>0, <4>1, BundleTells DEF WholeInv
    <3>3. CASE End
      <4>1. evidence' = evidence /\ phase = "end"
        BY Zenon, <3>3 DEF End
      <4> QED
        BY Zenon, <1>0, <2>1, <3>0, <4>1 DEF WholeInv
    <3> QED
      BY Zenon, <1>2, <3>1, <3>2, <3>3
  <2>6. HoldInv'
    <3>1. CASE VersionUnread \/ Report \/ End
      <4>1. UNCHANGED <<browser, websocket, guarded>>
        BY Zenon, <3>1 DEF VersionUnread, Report, End, endVars
      <4>2. \/ phase = "stopping" /\ phase' = "stopping"
            \/ phase = "report" /\ phase' = "end"
            \/ phase = "end" /\ phase' = IF guarded THEN "held" ELSE "exited"
        BY Zenon, <3>1 DEF VersionUnread, Report, End
      <4> QED
        BY Zenon, <1>0, <4>1, <4>2 DEF HoldInv
    <3>2. CASE StopBrowser
      BY Zenon, <1>0, <3>2 DEF HoldInv, StopBrowser
    <3> QED
      BY Zenon, <1>2, <3>1, <3>2
  <2> QED
    BY Zenon, <2>2, <2>4, <2>5, <2>6 DEF CollectorInv
<1> QED
  BY Zenon, <1>1, <1>2

LEMMA OutsideKeepsInv ==
  ASSUME CollectorInv, BrowserDies \/ Expire \/ UNCHANGED agentVars
  PROVE  CollectorInv'
<1>1. /\ UNCHANGED <<cdpVars, phase, evidence, page, met, losses, websocket, guarded, result>>
      /\ browser' \in {browser, "dead"}
  BY Zenon DEF BrowserDies, Expire, agentVars, pageVars, endVars
<1>2. CdpInv'
  BY Zenon, <1>1, QuietKeepsCdp DEF CollectorInv
<1>3. PhaseInv'
  BY Zenon, <1>1 DEF CollectorInv, PhaseInv, Running, cdpVars
<1>4. WholeInv'
  BY Zenon, <1>1 DEF CollectorInv, WholeInv, Due, cdpVars
<1>5. HoldInv'
  BY Zenon, <1>1 DEF CollectorInv, HoldInv
<1> QED
  BY Zenon, <1>2, <1>3, <1>4, <1>5 DEF CollectorInv

-------------------------------------------------------------------------------

\* The inductive invariant of the collector (guest/browser_agent.py).
THEOREM CollectorInvariant == AgentSpec => []CollectorInv
<1>1. AgentInit => CollectorInv
  <2> SUFFICES ASSUME AgentInit PROVE CollectorInv
    BY Zenon
  <2>1. CdpInv
    <3>1. stack = <<>> /\ Len(stack) = 0 /\ answered = {} /\ next_id = 1 /\ exc = "none"
      BY Zenon DEF AgentInit
    <3>2. stack \in Seq(Frames)
      BY <3>1
    <3>3. StackInv /\ KeptInv
      BY <3>1 DEF StackInv, KeptInv
    <3> QED
      BY Zenon, <3>1, <3>2, <3>3 DEF CdpInv, Excs
  <2>2. PhaseInv /\ HoldInv
    BY Zenon DEF AgentInit, PhaseInv, HoldInv
  <2>3. WholeInv
    <3>1. evidence = [count |-> 1, truncated |-> FALSE, loss |-> FALSE, failed |-> FALSE,
                      requests |-> {}, browser |-> FALSE, cdp |-> FALSE]
          /\ page = 0 /\ met = {} /\ losses = {} /\ phase = "start"
      BY Zenon DEF AgentInit
    <3>2. evidence \in Evidence
      BY <3>1 DEF Evidence
    <3> QED
      BY <3>1, <3>2 DEF WholeInv, Tells, Due
  <2> QED
    BY Zenon, <2>1, <2>2, <2>3 DEF CollectorInv
<1>2. CollectorInv /\ [AgentNext]_agentVars => CollectorInv'
  <2> SUFFICES ASSUME CollectorInv, [AgentNext]_agentVars PROVE CollectorInv'
    BY Zenon
  <2>1. CASE AgentStep
    BY Zenon, <2>1, AnswersKeepInv, UnwindingKeepsInv, WaitingKeepsInv, EndingKeepsInv DEF AgentStep
  <2>2. CASE ChromiumStep
    BY Zenon, <2>2, AnswersKeepInv, EventsKeepInv, OtherKeepsInv, WaitingKeepsInv DEF ChromiumStep
  <2> QED
    BY Zenon, <2>1, <2>2, OutsideKeepsInv DEF AgentNext, Over
<1> QED
  BY <1>1, <1>2, PTL DEF AgentSpec

\* However deep handlers nest in CDP.command, and whatever the budget of commands and
\* the room for answers, one that was read while an inner command waited is there for
\* the outer one, or there was no room for it and that does not go untold.
THEOREM AnswersAlwaysKept == AgentSpec => []AnswersKept
<1>1. CollectorInv => AnswersKept
  <2>1. ASSUME CollectorInv, "answer" \in losses PROVE exc = "agent" \/ LossTold
    BY Zenon, <2>1 DEF CollectorInv, WholeInv, Tells, Due, LossTold
  <2> QED
    BY Zenon, <2>1 DEF CollectorInv, CdpInv, KeptInv, AnswersKept
<1> QED
  BY <1>1, CollectorInvariant, PTL

\* Whatever the budgets of events and commands and however many events the page has, a
\* result without a mark against it names every request that was decided and comes of
\* a run in which nothing was lost (Evidence.add, bundle).
THEOREM CleanAlwaysWhole == AgentSpec => []CleanIsWhole
<1>1. CollectorInv => CleanIsWhole
  <2> SUFFICES ASSUME CollectorInv, result = "ok", Clean(evidence)
               PROVE  met \subseteq evidence.requests /\ losses = {}
    BY Zenon DEF CleanIsWhole
  <2>1. phase \in {"end", "held", "exited"} /\ exc = "none"
    BY Zenon DEF CollectorInv, PhaseInv, Running, Main
  <2> QED
    BY Zenon, <2>1 DEF CollectorInv, WholeInv, Tells, Due, Clean
<1> QED
  BY <1>1, CollectorInvariant, PTL

\* Neither _stop_browser nor the end of the process lets go of a browser that may run.
THEOREM InterceptionAlwaysHeld == AgentSpec => []InterceptionHeld
<1>1. CollectorInv => InterceptionHeld
  BY Zenon DEF CollectorInv, HoldInv, InterceptionHeld
<1> QED
  BY <1>1, CollectorInvariant, PTL

-------------------------------------------------------------------------------
(* The collector ends.  That it does is checked with TLC, under its fairness;  *)
(* what that rests on is proved here for any number of events and commands.    *)

\* A command of _run_probe itself is the outermost one and the one its phase is
\* about; only the wait for the load event has none.
NestInv ==
  /\ \A i \in 1..Len(stack) : stack[i].kind \in Main => i = 1 /\ stack[i].kind = phase
  /\ phase \in Main => IF stack = <<>> THEN exc # "none" ELSE stack[1].kind \in Main

\* Whoever talks to Chromium has a socket, and what is set aside was answered.
SocketInv ==
  /\ Running => websocket = "open" \/ (stack = <<>> /\ exc # "none")
  /\ responses \subseteq answered

\* The innermost command is one of _run_probe's, and then there is no other, or it
\* has one below it wherever _run_probe waits for one of its own.
LEMMA Innermost ==
  ASSUME stack \in Seq(Frames), stack # <<>>, NestInv
  PROVE  /\ Len(stack) \in Nat /\ Len(stack) >= 1 /\ Top \in Frames
         /\ Top.kind \in Main => Len(stack) = 1 /\ phase = Top.kind
         /\ Top.kind \notin Main /\ phase \in Main => Len(stack) - 1 # 0
<1>1. Len(stack) \in Nat /\ Len(stack) >= 1 /\ Len(stack) \in 1..Len(stack)
  OBVIOUS
<1>2. Top \in Frames
  BY <1>1 DEF Top
<1>3. Top.kind \in Main => Len(stack) = 1 /\ phase = Top.kind
  BY Zenon, <1>1 DEF NestInv, Top
<1>4. Len(stack) = 1 /\ phase \in Main => Top.kind \in Main
  BY Zenon, <1>1 DEF NestInv, Top
<1>5. Len(stack) - 1 = 0 => Len(stack) = 1
  BY SMTT(20), <1>1
<1> QED
  BY Zenon, <1>1, <1>2, <1>3, <1>4, <1>5

\* The handlers cut the stack back and may send a command on top; they never take
\* away the command of _run_probe without an exception.
Handles ==
  /\ phase' = phase
  /\ \E n \in 0..Len(stack) :
       \/ \E e \in Excs : Raise(SubSeq(stack, 1, n), e) /\ (n = 0 /\ phase \in Main => e # "none")
       \/ \E kind \in Kinds \ Main, arg \in Args :
            Command(SubSeq(stack, 1, n), kind, arg) /\ (n = 0 => phase \notin Main)

\* _run_probe goes on to its next command, or waits for none.
GoesOn ==
  \/ \E kind \in Main : phase' = kind /\ Command(<<>>, kind, 0)
  \/ stack' = <<>> /\ (phase' \in Main => exc' # "none")

LEMMA HandlingNests ==
  ASSUME stack \in Seq(Frames), NestInv, Handles
  PROVE  NestInv'
<1>1. PICK n \in 0..Len(stack) :
        \/ \E e \in Excs : Raise(SubSeq(stack, 1, n), e) /\ (n = 0 /\ phase \in Main => e # "none")
        \/ \E kind \in Kinds \ Main, arg \in Args :
             Command(SubSeq(stack, 1, n), kind, arg) /\ (n = 0 => phase \notin Main)
  BY Zenon DEF Handles
<1> DEFINE s == SubSeq(stack, 1, n)
<1>2. s \in Seq(Frames) /\ Len(s) = n /\ \A i \in 1..n : s[i] = stack[i]
  BY Zenon, Cut
<1>3. phase' = phase /\ Len(stack) \in Nat
  BY DEF Handles
<1>4. \A i \in 1..n : s[i].kind \in Main => i = 1 /\ s[i].kind = phase
  BY SMTT(20), <1>2, <1>3 DEF NestInv
<1>5. n > 0 /\ phase \in Main => s[1].kind \in Main /\ s # <<>>
  BY SMTT(20), <1>2, <1>3 DEF NestInv
<1> HIDE DEF s
<1>6. CASE \E e \in Excs : Raise(s, e) /\ (n = 0 /\ phase \in Main => e # "none")
  <2>1. stack' = s /\ (n = 0 /\ phase \in Main => exc' # "none")
    BY Zenon, <1>6 DEF Raise
  <2> QED
    BY SMTT(20), <1>2, <1>3, <1>4, <1>5, <2>1 DEF NestInv
<1>7. CASE \E kind \in Kinds \ Main, arg \in Args : Command(s, kind, arg) /\ (n = 0 => phase \notin Main)
  <2>1. PICK kind \in Kinds \ Main, arg \in Args :
          stack' = Append(s, Frame(kind, arg)) /\ (n = 0 => phase \notin Main)
    BY Zenon, <1>7 DEF Command
  <2>2. Frame(kind, arg).kind \notin Main
    BY Zenon DEF Frame
  <2>3. /\ Len(stack') = n + 1 /\ stack'[n + 1] = Frame(kind, arg) /\ stack' # <<>>
        /\ \A i \in 1..n : stack'[i] = s[i]
    BY SMTT(20), <1>2, <2>1
  <2>4. \A i \in 1..(n + 1) : stack'[i].kind \in Main => i = 1 /\ stack'[i].kind = phase
    BY SMTT(20), <1>4, <2>2, <2>3
  <2>5. phase \in Main => stack'[1].kind \in Main
    BY SMTT(20), <1>5, <2>1, <2>3
  <2> QED
    BY Zenon, <1>3, <2>3, <2>4, <2>5 DEF NestInv
<1> QED
  BY Zenon, <1>1, <1>6, <1>7 DEF s

LEMMA GoingOnNests ==
  ASSUME GoesOn
  PROVE  NestInv'
<1>1. CASE \E kind \in Main : phase' = kind /\ Command(<<>>, kind, 0)
  <2>1. PICK kind \in Main : phase' = kind /\ stack' = Append(<<>>, Frame(kind, 0))
    BY Zenon, <1>1 DEF Command
  <2>2. Frame(kind, 0).kind = kind
    BY Zenon DEF Frame
  <2>3. Len(stack') = 1 /\ stack'[1].kind = kind /\ stack' # <<>>
    BY SMTT(20), <2>1, <2>2
  <2> QED
    BY SMTT(20), <2>1, <2>3 DEF NestInv
<1>2. CASE stack' = <<>> /\ (phase' \in Main => exc' # "none")
  BY SMTT(20), <1>2 DEF NestInv
<1> QED
  BY Zenon, <1>1, <1>2 DEF GoesOn

\* A handler is left, or all stays as it is but for an exception.
LEMMA HandlerLeft ==
  ASSUME stack \in Seq(Frames), stack # <<>>, NestInv, phase' = phase,
         \/ \E e \in Excs : Raise(Below, e) /\ (Top.kind \notin Main \/ e # "none")
         \/ Top.kind \notin Main /\ \E kind \in Kinds \ Main, arg \in Args : Command(Below, kind, arg)
         \/ \E e \in Excs : Raise(stack, e) /\ e # "none"
  PROVE  Handles
<1> DEFINE n == Len(stack) - 1
           m == Len(stack)
<1>1. /\ n \in 0..Len(stack) /\ Below = SubSeq(stack, 1, n)
      /\ m \in 0..Len(stack) /\ stack = SubSeq(stack, 1, m)
  BY SMTT(20), Cuts
<1>2. Top.kind \notin Main /\ n = 0 => phase \notin Main
  BY Zenon, Innermost
<1> HIDE DEF n, m
<1>3. CASE \E e \in Excs : Raise(Below, e) /\ (Top.kind \notin Main \/ e # "none")
  <2>1. \E e \in Excs : Raise(SubSeq(stack, 1, n), e) /\ (n = 0 /\ phase \in Main => e # "none")
    BY Zenon, <1>1, <1>2, <1>3
  <2> QED
    BY Zenon, <1>1, <2>1 DEF Handles
<1>4. CASE Top.kind \notin Main /\ \E kind \in Kinds \ Main, arg \in Args : Command(Below, kind, arg)
  <2>1. \E kind \in Kinds \ Main, arg \in Args :
          Command(SubSeq(stack, 1, n), kind, arg) /\ (n = 0 => phase \notin Main)
    BY Zenon, <1>1, <1>2, <1>4
  <2> QED
    BY Zenon, <1>1, <2>1 DEF Handles
<1>5. CASE \E e \in Excs : Raise(stack, e) /\ e # "none"
  <2>1. \E e \in Excs : Raise(SubSeq(stack, 1, m), e) /\ (m = 0 /\ phase \in Main => e # "none")
    BY Zenon, <1>1, <1>5
  <2> QED
    BY Zenon, <1>1, <2>1 DEF Handles
<1> QED
  BY Zenon, <1>3, <1>4, <1>5

LEMMA AnswersNest ==
  ASSUME stack \in Seq(Frames), stack # <<>>, NestInv, Answered
  PROVE  NestInv'
<1>1. CASE MainAnswered
  <2>1. \/ \E kind \in Main : phase' = kind /\ Command(<<>>, kind, 0)
        \/ phase' \in {"load", "stopping"} /\ Return(<<>>)
    BY Zenon, <1>1 DEF MainAnswered, Main
  <2>2. GoesOn
    BY Zenon, <2>1 DEF GoesOn, Return, Raise, Main
  <2> QED
    BY Zenon, <2>2, GoingOnNests
<1>2. CASE ~MainAnswered
  <2>1. phase' = phase
    BY Zenon, <1>2 DEF Answered, DecisionAnswered, ChildAnswered, BodyAnswered, RefusalAnswered
  <2>2. \/ Top.kind \in {"decide", "fulfil", "close", "refuse"}
           /\ (Raise(Below, "none") \/ Raise(Below, "agent"))
        \/ Top.kind = "body" /\ Command(Below, "fulfil", 0)
        \/ Raise(stack, "agent")
    BY Zenon, <1>2 DEF Answered, DecisionAnswered, ChildAnswered, BodyAnswered, RefusalAnswered,
       Return
  <2>3. /\ Top.kind \in {"decide", "fulfil", "close", "refuse", "body"} => Top.kind \notin Main
        /\ "fulfil" \in Kinds \ Main /\ 0 \in Args /\ "none" \in Excs /\ "agent" \in Excs
        /\ "agent" # "none"
    BY Zenon DEF Main, Kinds, Args, Excs
  <2>4. Handles
    BY Zenon, <2>1, <2>2, <2>3, HandlerLeft
  <2> QED
    BY Zenon, <2>4, HandlingNests
<1> QED
  BY Zenon, <1>1, <1>2

LEMMA EventsNest ==
  ASSUME CollectorInv, NestInv,
         HandlePaused \/ HandleDocument \/ CloseAttachedChild \/ HandleMalformed \/ HandleObserved
  PROVE  NestInv'
<1>1. Reported
  BY Zenon DEF HandlePaused, HandleDocument, CloseAttachedChild, HandleMalformed, HandleObserved
<1>2. Running /\ exc = "none" /\ phase' = phase /\ stack \in Seq(Frames)
  BY Zenon, <1>1 DEF Reported, Receiving, Listening, CollectorInv, CdpInv
<1> DEFINE n == Len(stack)
<1>3. /\ n \in 0..Len(stack) /\ stack = SubSeq(stack, 1, n) /\ (n = 0 => stack = <<>>)
  BY SMTT(20), <1>2, Cuts
<1> HIDE DEF n
<1>4. n = 0 => phase \notin Main
  BY Zenon, <1>2, <1>3 DEF NestInv
<1>5. \/ \E e \in Excs : Raise(stack, e)
      \/ \E kind \in Kinds \ Main, arg \in Args : Command(stack, kind, arg)
  <2>1. CASE HandlePaused
    BY Zenon, <2>1 DEF HandlePaused, Kinds, Args, Main
  <2>2. CASE HandleDocument
    BY Zenon, <2>2 DEF HandleDocument, Kinds, Args, Main
  <2>3. CASE CloseAttachedChild
    BY Zenon, <2>3 DEF CloseAttachedChild, Kinds, Args, Main
  <2>4. CASE HandleMalformed \/ HandleObserved
    BY Zenon, <2>4 DEF HandleMalformed, HandleObserved, Return, Excs
  <2> QED
    BY Zenon, <2>1, <2>2, <2>3, <2>4
<1>6. Handles
  BY Zenon, <1>2, <1>3, <1>4, <1>5 DEF Handles
<1> QED
  BY Zenon, <1>2, <1>6, HandlingNests

LEMMA ExceptionsNest ==
  ASSUME CollectorInv, NestInv,
         PassThrough \/ DecisionRaises \/ ChildRaises \/ DocumentRaises \/ RefusalRaises
  PROVE  NestInv'
<1>1. Raising /\ Unwinding
  BY Zenon DEF PassThrough, DecisionRaises, ChildRaises, DocumentRaises, RefusalRaises
<1>2. stack # <<>> /\ exc # "none" /\ phase' = phase /\ stack \in Seq(Frames) /\ exc \in Excs
  BY Zenon, <1>1 DEF Raising, Unwinding, CollectorInv, CdpInv
<1>3. \/ Raise(Below, exc)
      \/ Top.kind \in {"decide", "close", "refuse"} /\ (Raise(Below, "none") \/ Raise(Below, "agent"))
      \/ Top.kind \in {"body", "fulfil"} /\ Command(Below, "refuse", 0)
  BY Zenon DEF PassThrough, DecisionRaises, ChildRaises, DocumentRaises, RefusalRaises, Return
<1>4. /\ Top.kind \in {"decide", "fulfil", "close", "refuse", "body"} => Top.kind \notin Main
      /\ "refuse" \in Kinds \ Main /\ 0 \in Args /\ "none" \in Excs /\ "agent" \in Excs
  BY Zenon DEF Main, Kinds, Args, Excs
<1>5. Handles
  <2>1. CASE Raise(Below, exc)
    BY Zenon, <1>2, <2>1, HandlerLeft
  <2>2. CASE Top.kind \in {"decide", "close", "refuse"} /\ (Raise(Below, "none") \/ Raise(Below, "agent"))
    BY Zenon, <1>2, <1>4, <2>2, HandlerLeft
  <2>3. CASE Top.kind \in {"body", "fulfil"} /\ Command(Below, "refuse", 0)
    BY Zenon, <1>2, <1>4, <2>3, HandlerLeft
  <2> QED
    BY Zenon, <1>3, <2>1, <2>2, <2>3
<1> QED
  BY Zenon, <1>2, <1>5, HandlingNests

LEMMA WaitsNest ==
  ASSUME CollectorInv, NestInv,
         \/ Start \/ Loaded \/ TimesOut \/ SocketClosed \/ ReceiveOther \/ HandleLoad
         \/ ProbeFails \/ VersionUnread \/ StopBrowser \/ Report \/ End
         \/ BrowserDies \/ Expire \/ UNCHANGED agentVars
  PROVE  NestInv'
<1>0. stack \in Seq(Frames)
  BY Zenon DEF CollectorInv, CdpInv
<1>1. CASE Start \/ Loaded
  <2>1. \E kind \in Main : phase' = kind /\ (Command(<<>>, kind, 0) \/ Raise(<<>>, "agent"))
    BY Zenon, <1>1 DEF Start, Loaded, Main
  <2>2. GoesOn
    BY Zenon, <2>1 DEF GoesOn, Raise
  <2> QED
    BY Zenon, <2>2, GoingOnNests
<1>2. CASE TimesOut \/ SocketClosed
  <2>1. stack' = stack /\ exc' # "none" /\ phase' = phase
    BY Zenon, <1>2 DEF TimesOut, SocketClosed, Raise
  <2> QED
    BY Zenon, <2>1 DEF NestInv
<1>3. CASE ProbeFails
  BY Zenon, <1>3, GoingOnNests DEF ProbeFails, GoesOn, Main
<1>4. CASE VersionUnread \/ StopBrowser \/ Report \/ End
  <2>1. stack' = stack /\ phase \notin Main \cup {"load"} /\ phase' \notin Main
    BY Zenon, <1>4 DEF VersionUnread, StopBrowser, Report, End, Main, cdpVars
  <2>2. GoesOn
    BY Zenon, <2>1 DEF CollectorInv, PhaseInv, Running, GoesOn
  <2> QED
    BY Zenon, <2>2, GoingOnNests
<1>5. CASE HandleLoad \/ BrowserDies \/ Expire \/ UNCHANGED agentVars
  <2>1. UNCHANGED <<phase, stack, exc>>
    BY Zenon, <1>5 DEF HandleLoad, BrowserDies, Expire, agentVars, cdpVars
  <2> QED
    BY Zenon, <2>1 DEF NestInv
<1>6. CASE ReceiveOther
  <2>1. exc = "none" /\ UNCHANGED <<phase, stack>> /\ exc' \in {"none", "agent"}
    BY Zenon, <1>6 DEF ReceiveOther, Receiving, Listening, SetAside, Raise, Return
  <2> QED
    BY Zenon, <2>1 DEF NestInv
<1> QED
  BY Zenon, <1>1, <1>2, <1>3, <1>4, <1>5, <1>6

LEMMA StepNests ==
  ASSUME CollectorInv, NestInv, [AgentNext]_agentVars
  PROVE  NestInv'
<1>1. CASE TakeBuffered \/ ReceiveAnswer
  <2>1. stack # <<>> /\ Answered
    BY Zenon, <1>1 DEF TakeBuffered, ReceiveAnswer, Waiting
  <2> QED
    BY Zenon, <2>1, AnswersNest DEF CollectorInv, CdpInv
<1> QED
  BY Zenon, <1>1, EventsNest, ExceptionsNest, WaitsNest DEF AgentNext, AgentStep, ChromiumStep, Over

\* The socket changes hands only at the start and in _stop_browser.
LEMMA SocketStays ==
  ASSUME CollectorInv, SocketInv, [AgentNext]_agentVars
  PROVE  SocketInv'
<1>1. responses' \subseteq answered'
  <2>1. CASE TakeBuffered \/ ReceiveAnswer \/ ReceiveOther
    BY Zenon, <2>1 DEF TakeBuffered, ReceiveAnswer, ReceiveOther, SetAside, SocketInv
  <2>2. CASE ~(TakeBuffered \/ ReceiveAnswer \/ ReceiveOther)
    <3>1. UNCHANGED <<answered, responses>>
      BY Zenon, <2>2 DEF AgentNext, AgentStep, ChromiumStep, Start, Loaded, TimesOut,
         SocketClosed, ProbeFails, PassThrough, DecisionRaises, ChildRaises, DocumentRaises,
         RefusalRaises, Unwinding, StopBrowser, VersionUnread, Report, End, HandlePaused,
         HandleDocument, CloseAttachedChild, HandleMalformed, HandleObserved, Reported,
         HandleLoad, BrowserDies, Expire, Over, agentVars, cdpVars
    <3> QED
      BY Zenon, <3>1 DEF SocketInv
  <2> QED
    BY Zenon, <2>1, <2>2
<1>2. CASE Start
  <2>1. websocket' = "open" \/ (stack' = <<>> /\ exc' = "agent")
    BY Zenon, <1>2 DEF Start, Raise
  <2> QED
    BY Zenon, <1>1, <2>1 DEF SocketInv
<1>3. CASE ~Start /\ ~Running
  <2>1. exc = "none"
    BY Zenon, <1>3 DEF CollectorInv, PhaseInv
  <2>2. \/ StopBrowser \/ VersionUnread \/ Report \/ End
        \/ BrowserDies \/ Expire \/ UNCHANGED agentVars
    BY Zenon, <1>3, <2>1 DEF AgentNext, AgentStep, ChromiumStep, TakeBuffered, Waiting, Listening,
       Loaded, TimesOut, SocketClosed, ProbeFails, PassThrough, DecisionRaises, ChildRaises,
       DocumentRaises, RefusalRaises, Raising, ReceiveAnswer, ReceiveOther, Receiving,
       HandlePaused, HandleDocument, CloseAttachedChild, HandleMalformed, HandleObserved,
       Reported, HandleLoad, Over
  <2>3. phase' = phase \/ phase' \in {"report", "end", "held", "exited"}
    BY Zenon, <2>2 DEF StopBrowser, VersionUnread, Report, End, BrowserDies, Expire, agentVars
  <2>4. ~Running'
    BY Zenon, <1>3, <2>3 DEF Running, Main
  <2> QED
    BY Zenon, <1>1, <2>4 DEF SocketInv
<1>4. CASE ~Start /\ Running /\ websocket = "open"
  <2>1. ~StopBrowser
    BY Zenon, <1>4 DEF StopBrowser, Running, Main
  <2>2. websocket' = websocket
    BY Zenon, <1>4, <2>1 DEF AgentNext, AgentStep, ChromiumStep, Loaded, TimesOut,
         SocketClosed, ProbeFails, PassThrough, DecisionRaises, ChildRaises, DocumentRaises,
         RefusalRaises, Unwinding, VersionUnread, Report, End, HandlePaused, TakeBuffered,
         ReceiveAnswer, ReceiveOther,
         HandleDocument, CloseAttachedChild, HandleMalformed, HandleObserved, Reported,
         HandleLoad, BrowserDies, Expire, Over, agentVars, endVars
  <2> QED
    BY Zenon, <1>1, <1>4, <2>2 DEF SocketInv
<1>5. CASE ~Start /\ Running /\ websocket # "open"
  <2>1. stack = <<>> /\ exc # "none" /\ phase \notin {"stopping", "report", "end"}
    BY Zenon, <1>5 DEF SocketInv, Running, Main
  <2>2. ProbeFails \/ BrowserDies \/ Expire \/ UNCHANGED agentVars
    BY Zenon, <1>5, <2>1 DEF AgentNext, AgentStep, ChromiumStep, TakeBuffered, Waiting, Listening,
       Loaded, TimesOut, SocketClosed, PassThrough, DecisionRaises, ChildRaises,
       DocumentRaises, RefusalRaises, Raising, ReceiveAnswer, ReceiveOther, Receiving,
       HandlePaused, HandleDocument, CloseAttachedChild, HandleMalformed, HandleObserved,
       Reported, HandleLoad, Over, StopBrowser, VersionUnread, Report, End
  <2>3. phase' = "stopping" \/ UNCHANGED <<stack, exc>>
    BY Zenon, <2>2 DEF ProbeFails, BrowserDies, Expire, agentVars, cdpVars
  <2> QED
    BY Zenon, <1>1, <2>1, <2>3 DEF SocketInv, Running, Main
<1> QED
  BY Zenon, <1>2, <1>3, <1>4, <1>5

\* All that is known of the collector.
LEMMA NestingInvariant == AgentSpec => [](CollectorInv /\ NestInv /\ SocketInv)
<1>1. AgentInit => NestInv /\ SocketInv
  BY SMTT(20) DEF AgentInit, NestInv, SocketInv, Running, Main
<1>2. CollectorInv /\ NestInv /\ SocketInv /\ [AgentNext]_agentVars => NestInv' /\ SocketInv'
  BY Zenon, StepNests, SocketStays
<1> QED
  BY <1>1, <1>2, CollectorInvariant, PTL DEF AgentSpec

\* What the collector itself can do: the guards of AgentStep.
CollectorCanMove ==
  \/ phase \in {"start", "stopping", "report", "end"}
  \/ Running /\ exc # "none"
  \/ Waiting /\ Top.id \in responses
  \/ Listening /\ phase = "load" /\ stack = <<>> /\ loaded
  \/ /\ Listening /\ (expired \/ browser = "dead") /\ websocket = "open"
     /\ Awaited \cap responses = {} /\ ~(stack = <<>> /\ loaded)

Phases == Main \cup {"start", "load", "stopping", "report", "end", "held", "exited"}
PhaseTypeOK == phase \in Phases

\* Once its deadline has passed the collector has a step of its own until it has
\* reported: no command, at whatever depth, is left waiting for Chromium, and there is
\* always a socket to time out on (CDP.command, pump_until_loaded).
THEOREM CollectorNeverStuck ==
  AgentSpec => [](expired => CollectorCanMove \/ phase \in {"held", "exited"})
<1>1. AgentInit => PhaseTypeOK
  BY Zenon DEF AgentInit, PhaseTypeOK, Phases
<1>2. PhaseTypeOK /\ [AgentNext]_agentVars => PhaseTypeOK'
  <2> SUFFICES ASSUME phase \in Phases, [AgentNext]_agentVars PROVE phase' \in Phases
    BY Zenon DEF PhaseTypeOK
  <2>1. CASE TakeBuffered \/ ReceiveAnswer
    <3>1. Answered
      BY Zenon, <2>1 DEF TakeBuffered, ReceiveAnswer
    <3>2. phase' = phase \/ phase' \in {"navigate", "load", "attest", "screenshot", "stopping"}
      BY Zenon, <3>1 DEF Answered, MainAnswered, DecisionAnswered, ChildAnswered, BodyAnswered,
         RefusalAnswered
    <3> QED
      BY Zenon, <3>2 DEF Phases, Main
  <2>2. CASE Start \/ Loaded \/ ProbeFails \/ StopBrowser \/ Report \/ End
    <3>1. phase' \in {"setup", "freeze", "stopping", "report", "end", "held", "exited"}
      BY Zenon, <2>2 DEF Start, Loaded, ProbeFails, StopBrowser, Report, End
    <3> QED
      BY Zenon, <3>1 DEF Phases, Main
  <2>3. CASE ~(TakeBuffered \/ ReceiveAnswer \/ Start \/ Loaded \/ ProbeFails \/ StopBrowser
               \/ Report \/ End)
    <3>1. phase' = phase
      BY Zenon, <2>3 DEF AgentNext, AgentStep, ChromiumStep, TimesOut, SocketClosed, PassThrough,
         DecisionRaises, ChildRaises, DocumentRaises, RefusalRaises, Unwinding, VersionUnread,
         ReceiveOther, HandlePaused, HandleDocument, CloseAttachedChild, HandleMalformed,
         HandleObserved, Reported, HandleLoad, BrowserDies, Expire, Over, agentVars
    <3> QED
      BY Zenon, <3>1
  <2> QED
    BY Zenon, <2>1, <2>2, <2>3
<1>3. PhaseTypeOK /\ NestInv /\ SocketInv
        => (expired => CollectorCanMove \/ phase \in {"held", "exited"})
  <2>0. SUFFICES ASSUME phase \in Phases, NestInv, SocketInv, expired,
                        phase \notin {"held", "exited"}
                 PROVE  CollectorCanMove
    BY Zenon DEF PhaseTypeOK
  <2>1. CASE ~Running
    BY Zenon, <2>0, <2>1 DEF Phases, Running, CollectorCanMove
  <2>2. CASE Running /\ exc # "none"
    BY Zenon, <2>2 DEF CollectorCanMove
  <2>3. CASE Running /\ exc = "none"
    <3>1. Listening /\ websocket = "open"
      BY Zenon, <2>0, <2>3 DEF Listening, SocketInv
    <3>2. CASE stack = <<>>
      <4>1. phase = "load" /\ Awaited = {}
        BY Zenon, <2>0, <2>3, <3>2 DEF NestInv, Running, Awaited
      <4>2. Awaited \cap responses = {}
        BY Zenon, <4>1
      <4> QED
        BY Zenon, <2>0, <3>1, <3>2, <4>1, <4>2 DEF CollectorCanMove
    <3>3. CASE stack # <<>>
      <4>1. Top.id \notin responses => Awaited \cap responses = {}
        BY Zenon, <3>3 DEF Awaited
      <4> QED
        BY Zenon, <2>0, <3>1, <3>3, <4>1 DEF CollectorCanMove, Waiting
    <3> QED
      BY Zenon, <3>2, <3>3
  <2> QED
    BY Zenon, <2>1, <2>2, <2>3
<1> QED
  BY <1>1, <1>2, <1>3, NestingInvariant, PTL DEF AgentSpec

\* The work left to the collector: its phases, the commands to come back from, and what
\* the innermost of them may still have to go through: an answer set aside, the end of
\* the wait, the refusal of a document after an error, the way out.
PhaseLeft(p) ==
  CASE p = "start" -> 10 [] p = "setup" -> 9 [] p = "navigate" -> 8 [] p = "load" -> 7
    [] p = "freeze" -> 6 [] p = "attest" -> 5 [] p = "screenshot" -> 4 [] p = "stopping" -> 3
    [] p = "report" -> 2 [] p = "end" -> 1 [] OTHER -> 0

FrameLeft(kind, e, kept) ==
  CASE e = "timeout" -> 1
    [] e = "agent" -> IF kind = "refuse" THEN 3 ELSE 5
    [] e = "none" -> IF kept THEN 7 ELSE IF kind = "refuse" THEN 4 ELSE 6

TopLeft(s, e, r) ==
  IF s = <<>> THEN IF e = "none" THEN 1 ELSE 0
  ELSE FrameLeft(s[Len(s)].kind, e, s[Len(s)].id \in r)

VersionLeft == IF phase = "stopping" /\ outcome = "ok" THEN 1 ELSE 0

CollectorLeft ==
  20 * PhaseLeft(phase) + 8 * Len(stack) + TopLeft(stack, exc, responses) + VersionLeft

LEMMA LeftTypes ==
  /\ \A p : PhaseLeft(p) \in 0..10
  /\ \A kind, kept : \A e \in Excs : FrameLeft(kind, e, kept) \in 1..7
  /\ \A s, r : \A e \in Excs : TopLeft(s, e, r) \in 0..7
  /\ VersionLeft \in 0..1 /\ VersionLeft' \in 0..1
<1>1. \A p : PhaseLeft(p) \in 0..10
  BY SMTT(20) DEF PhaseLeft
<1>2. \A kind, kept : \A e \in Excs : FrameLeft(kind, e, kept) \in 1..7
  BY SMTT(20) DEF FrameLeft, Excs
<1>3. ASSUME NEW s, NEW r, NEW e \in Excs PROVE TopLeft(s, e, r) \in 0..7
  <2>1. FrameLeft(s[Len(s)].kind, e, s[Len(s)].id \in r) \in 1..7
    BY Zenon, <1>2
  <2> QED
    BY SMTT(20), <2>1 DEF TopLeft
<1>4. VersionLeft \in 0..1 /\ VersionLeft' \in 0..1
  BY SMTT(20) DEF VersionLeft
<1> QED
  BY Zenon, <1>1, <1>2, <1>3, <1>4

\* The weights leave room for what a phase and a command may come to.
LEMMA Weights ==
  /\ \A p, q \in 0..10 : \A m \in Nat : \A n, v, w \in 0..1 : \A a, b \in 0..7 :
       q < p => 20 * q + 8 * n + b + w < 20 * p + 8 * m + a + v
  /\ \A p \in 0..10 : \A m, n \in Nat : \A a, b \in 0..7 :
       8 * n + b < 8 * m + a => 20 * p + 8 * n + b + 0 < 20 * p + 8 * m + a + 0
<1>1. ASSUME NEW p \in 0..10, NEW q \in 0..10, NEW m \in Nat, NEW n \in 0..1, NEW v \in 0..1,
             NEW w \in 0..1, NEW a \in 0..7, NEW b \in 0..7, q < p
      PROVE  20 * q + 8 * n + b + w < 20 * p + 8 * m + a + v
  <2>1. 20 * q + 20 <= 20 * p
    BY SMTT(20), <1>1
  <2>2. 8 * n + b + w < 20 /\ 8 * m + a + v >= 0
    BY SMTT(20), <1>1
  <2> QED
    BY SMTT(20), <1>1, <2>1, <2>2
<1>2. ASSUME NEW p \in 0..10, NEW m \in Nat, NEW n \in Nat, NEW a \in 0..7, NEW b \in 0..7,
             8 * n + b < 8 * m + a
      PROVE  20 * p + 8 * n + b + 0 < 20 * p + 8 * m + a + 0
  BY SMTT(20), <1>2
<1> QED
  BY Zenon, <1>1, <1>2

\* A phase further on is less, whatever its first command comes to.
LEMMA PhaseDown ==
  ASSUME PhaseLeft(phase') < PhaseLeft(phase), Len(stack) \in Nat, Len(stack') \in 0..1,
         exc \in Excs, exc' \in Excs
  PROVE  CollectorLeft' < CollectorLeft
<1> DEFINE a == TopLeft(stack, exc, responses)
           b == TopLeft(stack', exc', responses')
<1>1. /\ PhaseLeft(phase) \in 0..10 /\ PhaseLeft(phase') \in 0..10 /\ a \in 0..7 /\ b \in 0..7
      /\ VersionLeft \in 0..1 /\ VersionLeft' \in 0..1
  BY Zenon, LeftTypes
<1>2. /\ CollectorLeft = 20 * PhaseLeft(phase) + 8 * Len(stack) + a + VersionLeft
      /\ CollectorLeft' = 20 * PhaseLeft(phase') + 8 * Len(stack') + b + VersionLeft'
  BY Zenon DEF CollectorLeft
<1> HIDE DEF a, b
<1> QED
  BY Zenon, <1>1, <1>2, Weights

\* In a phase that goes on, what is left of the commands decides.
LEMMA FrameDown ==
  ASSUME phase' = phase, Running, Len(stack) \in Nat, Len(stack') \in Nat,
         exc \in Excs, exc' \in Excs,
         8 * Len(stack') + TopLeft(stack', exc', responses')
           < 8 * Len(stack) + TopLeft(stack, exc, responses)
  PROVE  CollectorLeft' < CollectorLeft
<1> DEFINE a == TopLeft(stack, exc, responses)
           b == TopLeft(stack', exc', responses')
<1>1. PhaseLeft(phase) \in 0..10 /\ PhaseLeft(phase') = PhaseLeft(phase) /\ a \in 0..7 /\ b \in 0..7
  BY Zenon, LeftTypes
<1>2. VersionLeft = 0 /\ VersionLeft' = 0
  BY Zenon DEF VersionLeft, Running, Main
<1>3. /\ CollectorLeft = 20 * PhaseLeft(phase) + 8 * Len(stack) + a + VersionLeft
      /\ CollectorLeft' = 20 * PhaseLeft(phase') + 8 * Len(stack') + b + VersionLeft'
  BY Zenon DEF CollectorLeft
<1>4. 8 * Len(stack') + b < 8 * Len(stack) + a
  BY Zenon
<1> HIDE DEF a, b
<1> QED
  BY Zenon, <1>1, <1>2, <1>3, <1>4, Weights

\* To leave a command is less, whatever the one below it has before it.
LEMMA LeavingIsLess ==
  ASSUME stack \in Seq(Frames), stack # <<>>, phase' = phase, Running, exc \in Excs,
         NEW e \in Excs, Raise(Below, e)
  PROVE  CollectorLeft' < CollectorLeft
<1>1. /\ Len(stack) \in Nat /\ Len(stack) - 1 \in 0..Len(stack)
      /\ Below = SubSeq(stack, 1, Len(stack) - 1)
  BY Zenon, Cuts
<1>2. stack' = Below /\ exc' = e
  BY Zenon DEF Raise
<1>3. Len(stack') = Len(stack) - 1
  BY Zenon, <1>1, <1>2, Cut
<1>4. /\ TopLeft(stack, exc, responses) \in 0..7 /\ TopLeft(stack', exc', responses') \in 0..7
      /\ exc' \in Excs
  BY Zenon, <1>2, LeftTypes
<1>5. /\ Len(stack') \in Nat
      /\ 8 * Len(stack') + TopLeft(stack', exc', responses')
           < 8 * Len(stack) + TopLeft(stack, exc, responses)
  BY SMTT(20), <1>1, <1>3, <1>4
<1> QED
  BY Zenon, <1>1, <1>4, <1>5, FrameDown

\* The command that takes the place of another one has a number of its own, which
\* nothing set aside has.
LEMMA ReplacingTop ==
  ASSUME CollectorInv, SocketInv, stack # <<>>, NEW kind \in Kinds, NEW arg \in Args,
         Command(Below, kind, arg), responses' \subseteq responses
  PROVE  /\ Len(stack') = Len(stack) /\ Len(stack) \in Nat /\ exc' \in {"none", "agent"}
         /\ TopLeft(stack', exc', responses') = FrameLeft(kind, exc', FALSE)
<1>0. stack \in Seq(Frames) /\ next_id \in Nat
  BY Zenon DEF CollectorInv, CdpInv
<1>1. /\ Len(stack) \in Nat /\ Len(stack) - 1 \in 0..Len(stack)
      /\ Below = SubSeq(stack, 1, Len(stack) - 1)
  BY Zenon, <1>0, Cuts
<1> DEFINE f == Frame(kind, arg)
           s == Below
<1>2. s \in Seq(Frames) /\ Len(s) = Len(stack) - 1
  BY Zenon, <1>0, <1>1, Cut
<1>3. f \in Frames /\ f.kind = kind /\ f.id = next_id
  BY Zenon, <1>0 DEF Frame, Frames, Kinds, Args
<1>4. stack' = Append(s, f) /\ exc' \in {"none", "agent"}
  BY Zenon DEF Command
<1> HIDE DEF f, s
<1>5. Len(stack') = Len(stack) /\ stack'[Len(stack')] = f /\ stack' # <<>>
  BY SMTT(20), <1>1, <1>2, <1>3, <1>4
<1>6. next_id \notin responses'
  <2>1. \A id \in answered : id < next_id
    BY Zenon DEF CollectorInv, CdpInv, StackInv
  <2>2. next_id \notin answered
    BY SMTT(20), <1>0, <2>1
  <2> QED
    BY Zenon, <2>2 DEF SocketInv
<1>7. TopLeft(stack', exc', responses') = FrameLeft(kind, exc', FALSE)
  <2>1. TopLeft(stack', exc', responses') = FrameLeft(f.kind, exc', f.id \in responses')
    BY Zenon, <1>5 DEF TopLeft
  <2>2. f.id \notin responses'
    BY Zenon, <1>3, <1>6
  <2> QED
    BY Zenon, <1>3, <2>1, <2>2 DEF FrameLeft
<1> QED
  BY Zenon, <1>1, <1>4, <1>5, <1>7

\* What is left of the innermost command, by its state.
LEMMA TopStates ==
  ASSUME NEW kind
  PROVE  /\ FrameLeft(kind, "none", TRUE) = 7
         /\ FrameLeft(kind, "none", FALSE) = IF kind = "refuse" THEN 4 ELSE 6
         /\ \A kept : FrameLeft(kind, "agent", kept) = IF kind = "refuse" THEN 3 ELSE 5
         /\ \A kept : FrameLeft(kind, "timeout", kept) = 1
BY Zenon DEF FrameLeft

LEMMA TopIs ==
  ASSUME stack # <<>>
  PROVE  TopLeft(stack, exc, responses) = FrameLeft(Top.kind, exc, Top.id \in responses)
BY Zenon DEF TopLeft, Top

\* With as many commands as before, what the innermost has before it decides.
LEMMA TopDown ==
  ASSUME phase' = phase, Running, Len(stack) \in Nat, Len(stack') = Len(stack),
         exc \in Excs, exc' \in Excs,
         NEW a \in 0..7, NEW b \in 0..7, b < a,
         TopLeft(stack, exc, responses) = a, TopLeft(stack', exc', responses') = b
  PROVE  CollectorLeft' < CollectorLeft
<1>1. 8 * Len(stack') + b < 8 * Len(stack) + a
  BY SMTT(20)
<1> QED
  BY Zenon, <1>1, FrameDown

\* The answer that was set aside takes the innermost command on.
LEMMA BufferedIsLess ==
  ASSUME CollectorInv, NestInv, SocketInv, TakeBuffered
  PROVE  CollectorLeft' < CollectorLeft
<1>1. /\ Running /\ exc = "none" /\ stack # <<>> /\ Top.id \in responses /\ Answered
      /\ responses' = responses \ {Top.id} /\ stack \in Seq(Frames) /\ exc \in Excs
  BY Zenon DEF TakeBuffered, Waiting, Listening, CollectorInv, CdpInv
<1>2. Len(stack) \in Nat /\ (Top.kind \in Main => phase = Top.kind)
  BY Zenon, <1>1, Innermost
<1>3. TopLeft(stack, exc, responses) = 7
  <2>1. TopLeft(stack, exc, responses) = FrameLeft(Top.kind, "none", Top.id \in responses)
    BY Zenon, <1>1, TopIs
  <2>2. (Top.id \in responses) = TRUE
    BY Zenon, <1>1
  <2> QED
    BY Zenon, <2>1, <2>2, TopStates
<1>4. {3, 5, 6, 7} \subseteq 0..7 /\ 3 < 7 /\ 5 < 7 /\ 6 < 7
  BY SMTT(20)
<1>5. CASE MainAnswered
  <2>1. \/ \E kind \in Main : Command(<<>>, kind, 0)
        \/ Return(<<>>)
    BY Zenon, <1>5 DEF MainAnswered, Main
  <2>2. Len(stack') \in 0..1 /\ exc' \in Excs
    <3>1. stack' = <<>> \/ \E f : stack' = Append(<<>>, f)
      BY Zenon, <2>1 DEF Command, Return, Raise
    <3>2. exc' \in {"none", "agent"}
      BY Zenon, <2>1 DEF Command, Return, Raise
    <3> QED
      BY SMTT(20), <3>1, <3>2 DEF Excs
  <2>3. \/ Top.kind = "setup" /\ phase' = "navigate"
        \/ Top.kind = "navigate" /\ phase' = "load"
        \/ Top.kind = "freeze" /\ phase' = "attest"
        \/ Top.kind = "attest" /\ phase' = "screenshot"
        \/ Top.kind = "screenshot" /\ phase' = "stopping"
    BY Zenon, <1>5 DEF MainAnswered
  <2>4. PhaseLeft(phase') < PhaseLeft(phase)
    BY SMTT(20), <1>2, <2>3 DEF Main, PhaseLeft
  <2> QED
    BY Zenon, <1>1, <1>2, <2>2, <2>4, PhaseDown
<1>6. CASE ~MainAnswered
  <2>1. phase' = phase
    BY Zenon, <1>1, <1>6 DEF Answered, DecisionAnswered, ChildAnswered, BodyAnswered,
       RefusalAnswered
  <2>2. \/ \E e \in {"none", "agent"} : Raise(Below, e)
        \/ Command(Below, "fulfil", 0)
        \/ Raise(stack, "agent")
    BY Zenon, <1>1, <1>6 DEF Answered, DecisionAnswered, ChildAnswered, BodyAnswered,
       RefusalAnswered, Return
  <2>3. CASE \E e \in {"none", "agent"} : Raise(Below, e)
    BY Zenon, <1>1, <2>1, <2>3, LeavingIsLess DEF Excs
  <2>4. CASE Command(Below, "fulfil", 0)
    <3>1. /\ "fulfil" \in Kinds /\ 0 \in Args /\ responses' \subseteq responses
      BY Zenon, <1>1 DEF Kinds, Args
    <3>2. /\ Len(stack') = Len(stack) /\ exc' \in {"none", "agent"}
          /\ TopLeft(stack', exc', responses') = FrameLeft("fulfil", exc', FALSE)
      BY Zenon, <1>1, <2>4, <3>1, ReplacingTop
    <3>3. TopLeft(stack', exc', responses') = 5 \/ TopLeft(stack', exc', responses') = 6
      BY Zenon, <3>2, TopStates
    <3>4. exc' \in Excs
      BY Zenon, <3>2 DEF Excs
    <3> QED
      BY Zenon, <1>1, <1>2, <1>3, <1>4, <2>1, <3>2, <3>3, <3>4, TopDown
  <2>5. CASE Raise(stack, "agent")
    <3>1. stack' = stack /\ exc' = "agent" /\ exc' \in Excs
      BY Zenon, <2>5 DEF Raise, Excs
    <3>2. TopLeft(stack', exc', responses') = FrameLeft(Top.kind, "agent", Top.id \in responses')
      BY Zenon, <1>1, <3>1 DEF TopLeft, Top
    <3>3. TopLeft(stack', exc', responses') = 3 \/ TopLeft(stack', exc', responses') = 5
      BY Zenon, <3>2, TopStates
    <3> QED
      BY Zenon, <1>1, <1>2, <1>3, <1>4, <2>1, <3>1, <3>3, TopDown
  <2> QED
    BY Zenon, <2>2, <2>3, <2>4, <2>5
<1> QED
  BY Zenon, <1>5, <1>6

\* The end of a wait leaves an exception to deal with, which is less than a wait.
LEMMA WaitOverIsLess ==
  ASSUME CollectorInv, TimesOut \/ SocketClosed
  PROVE  CollectorLeft' < CollectorLeft
<1>1. /\ Running /\ exc = "none" /\ Awaited \cap responses = {} /\ phase' = phase
      /\ responses' = responses /\ stack' = stack /\ exc' \in {"timeout", "agent"}
      /\ stack \in Seq(Frames)
  BY Zenon DEF TimesOut, SocketClosed, Raise, Listening, CollectorInv, CdpInv
<1>2. exc \in Excs /\ exc' \in Excs /\ Len(stack) \in Nat
  BY SMTT(20), <1>1 DEF Excs
<1>3. CASE stack = <<>>
  <2>1. TopLeft(stack, exc, responses) = 1 /\ TopLeft(stack', exc', responses') = 0
    BY Zenon, <1>1, <1>3 DEF TopLeft
  <2>2. 8 * Len(stack') + TopLeft(stack', exc', responses')
          < 8 * Len(stack) + TopLeft(stack, exc, responses)
    BY SMTT(20), <1>1, <1>2, <2>1
  <2> QED
    BY Zenon, <1>1, <1>2, <2>2, FrameDown
<1>4. CASE stack # <<>>
  <2>1. Top.id \notin responses
    BY Zenon, <1>1, <1>4 DEF Awaited
  <2>2. TopLeft(stack, exc, responses) = FrameLeft(Top.kind, "none", FALSE)
    <3>1. TopLeft(stack, exc, responses) = FrameLeft(Top.kind, "none", Top.id \in responses)
      BY Zenon, <1>1, <1>4, TopIs
    <3>2. (Top.id \in responses) = FALSE
      BY SMTT(20), <2>1
    <3> QED
      BY Zenon, <3>1, <3>2
  <2>3. TopLeft(stack', exc', responses') = FrameLeft(Top.kind, exc', Top.id \in responses')
    BY Zenon, <1>1, <1>4 DEF TopLeft, Top
  <2> DEFINE a == TopLeft(stack, exc, responses)
             b == TopLeft(stack', exc', responses')
  <2>4. /\ a = IF Top.kind = "refuse" THEN 4 ELSE 6
        /\ b = 1 \/ b = IF Top.kind = "refuse" THEN 3 ELSE 5
    BY Zenon, <1>1, <2>2, <2>3, TopStates
  <2> HIDE DEF a, b
  <2>5. 8 * Len(stack') + b < 8 * Len(stack) + a
    BY SMTT(20), <1>1, <1>2, <2>4
  <2>6. 8 * Len(stack') + TopLeft(stack', exc', responses')
          < 8 * Len(stack) + TopLeft(stack, exc, responses)
    BY Zenon, <2>5 DEF a, b
  <2> QED
    BY Zenon, <1>1, <1>2, <2>6, FrameDown
<1> QED
  BY Zenon, <1>3, <1>4

\* An exception leaves the innermost command, or has a document refused in its place.
LEMMA ExceptionIsLess ==
  ASSUME CollectorInv, NestInv, SocketInv,
         PassThrough \/ DecisionRaises \/ ChildRaises \/ DocumentRaises \/ RefusalRaises
  PROVE  CollectorLeft' < CollectorLeft
<1>1. Raising /\ Unwinding
  BY Zenon DEF PassThrough, DecisionRaises, ChildRaises, DocumentRaises, RefusalRaises
<1>2. /\ stack # <<>> /\ phase' = phase /\ responses' = responses
      /\ stack \in Seq(Frames) /\ exc \in Excs
  BY Zenon, <1>1 DEF Raising, Unwinding, CollectorInv, CdpInv
<1>3. Running /\ Len(stack) \in Nat
  BY SMTT(20), <1>2 DEF CollectorInv, PhaseInv
<1>4. CASE PassThrough \/ DecisionRaises \/ ChildRaises \/ RefusalRaises
  <2>1. \E e \in Excs : Raise(Below, e)
    BY Zenon, <1>2, <1>4
      DEF PassThrough, DecisionRaises, ChildRaises, RefusalRaises, Return, Excs
  <2> QED
    BY Zenon, <1>2, <1>3, <2>1, LeavingIsLess
<1>5. CASE DocumentRaises
  <2>1. exc = "agent" /\ Top.kind # "refuse" /\ Command(Below, "refuse", 0)
    BY Zenon, <1>5 DEF DocumentRaises
  <2>2. TopLeft(stack, exc, responses) = 5
    BY Zenon, <1>2, <2>1, TopIs, TopStates
  <2>3. "refuse" \in Kinds /\ 0 \in Args /\ responses' \subseteq responses
    BY Zenon, <1>2 DEF Kinds, Args
  <2>4. /\ Len(stack') = Len(stack) /\ exc' \in {"none", "agent"}
        /\ TopLeft(stack', exc', responses') = FrameLeft("refuse", exc', FALSE)
    BY Zenon, <1>2, <2>1, <2>3, ReplacingTop
  <2>5. TopLeft(stack', exc', responses') = 4 \/ TopLeft(stack', exc', responses') = 3
    BY Zenon, <2>4, TopStates
  <2>6. {3, 4, 5} \subseteq 0..7 /\ 3 < 5 /\ 4 < 5
    BY SMTT(20)
  <2>7. exc' \in Excs
    BY Zenon, <2>4 DEF Excs
  <2> QED
    BY Zenon, <1>2, <1>3, <2>2, <2>4, <2>5, <2>6, <2>7, TopDown
<1> QED
  BY Zenon, <1>4, <1>5

\* _run_probe and main go on.
LEMMA NextPhaseIsLess ==
  ASSUME CollectorInv,
         Start \/ Loaded \/ ProbeFails \/ StopBrowser \/ VersionUnread \/ Report \/ End
  PROVE  CollectorLeft' < CollectorLeft
<1>1. exc \in Excs /\ stack \in Seq(Frames) /\ Len(stack) \in Nat
  BY SMTT(20) DEF CollectorInv, CdpInv
<1>2. CASE Start \/ Loaded
  <2>1. /\ \/ phase = "start" /\ phase' = "setup"
           \/ phase = "load" /\ phase' = "freeze"
        /\ stack' = <<>> \/ \E f : stack' = Append(<<>>, f)
        /\ exc' \in {"none", "agent"}
    BY Zenon, <1>2 DEF Start, Loaded, Command, Raise
  <2>2. PhaseLeft(phase') < PhaseLeft(phase)
    BY SMTT(20), <2>1 DEF PhaseLeft
  <2>3. Len(stack') \in 0..1 /\ exc' \in Excs
    BY SMTT(20), <2>1 DEF Excs
  <2> QED
    BY Zenon, <1>1, <2>2, <2>3, PhaseDown
<1>3. CASE ProbeFails
  <2>1. Running /\ phase' = "stopping" /\ stack' = <<>> /\ exc' = "none"
    BY Zenon, <1>3 DEF ProbeFails
  <2>2. PhaseLeft(phase') < PhaseLeft(phase)
    BY SMTT(20), <2>1 DEF PhaseLeft, Running, Main
  <2>3. Len(stack') \in 0..1 /\ exc' \in Excs
    BY SMTT(20), <2>1 DEF Excs
  <2> QED
    BY Zenon, <1>1, <2>2, <2>3, PhaseDown
<1>4. CASE StopBrowser \/ Report \/ End
  <2>1. /\ \/ phase = "stopping" /\ phase' = "report"
           \/ phase = "report" /\ phase' = "end"
           \/ phase = "end" /\ phase' \in {"held", "exited"}
        /\ stack' = stack /\ exc' = exc
    BY Zenon, <1>4 DEF StopBrowser, Report, End, cdpVars
  <2>2. PhaseLeft(phase') < PhaseLeft(phase)
    BY SMTT(20), <2>1 DEF PhaseLeft
  <2>3. stack = <<>>
    BY Zenon, <2>1 DEF CollectorInv, PhaseInv, Running, Main
  <2>4. Len(stack') \in 0..1 /\ exc' \in Excs
    BY SMTT(20), <1>1, <2>1, <2>3
  <2> QED
    BY Zenon, <1>1, <2>2, <2>4, PhaseDown
<1>5. CASE VersionUnread
  <2>1. /\ phase = "stopping" /\ outcome = "ok" /\ outcome' = "failed"
        /\ UNCHANGED <<phase, stack, exc, responses>>
    BY Zenon, <1>5 DEF VersionUnread, cdpVars
  <2> DEFINE n == 20 * PhaseLeft(phase) + 8 * Len(stack) + TopLeft(stack, exc, responses)
  <2>2. n' = n /\ n \in Nat
    <3>1. PhaseLeft(phase) \in 0..10 /\ TopLeft(stack, exc, responses) \in 0..7
      BY Zenon, <1>1, LeftTypes
    <3>2. n \in Nat
      BY SMTT(20), <1>1, <3>1
    <3> QED
      BY Zenon, <2>1, <3>2
  <2>3. CollectorLeft = n + VersionLeft /\ CollectorLeft' = n' + VersionLeft'
    BY Zenon DEF CollectorLeft
  <2>4. VersionLeft = 1 /\ VersionLeft' = 0
    BY Zenon, <2>1 DEF VersionLeft
  <2> HIDE DEF n
  <2> QED
    BY SMTT(20), <2>2, <2>3, <2>4
<1> QED
  BY Zenon, <1>2, <1>3, <1>4, <1>5

\* However many events the page had and however deep their handlers nest, once the
\* deadline has passed the collector has boundedly much left to do: each of its steps
\* leaves it less, and neither Chromium nor the clock gives it more.
CollectorInTime ==
  expired => IF AgentStep THEN CollectorLeft' < CollectorLeft ELSE CollectorLeft' = CollectorLeft

\* After the deadline of CDP.command and pump_until_loaded the collector winds down: no
\* run of handlers, refusals and answers set aside goes on for ever.
THEOREM CollectorWindsDown ==
  AgentSpec => [](CollectorLeft \in Nat) /\ [][CollectorInTime]_agentVars
<1>1. CollectorInv => CollectorLeft \in Nat
  <2> SUFFICES ASSUME CollectorInv PROVE CollectorLeft \in Nat
    BY Zenon
  <2>1. /\ PhaseLeft(phase) \in 0..10 /\ TopLeft(stack, exc, responses) \in 0..7
        /\ VersionLeft \in 0..1
    BY Zenon, LeftTypes DEF CollectorInv, CdpInv
  <2>2. Len(stack) \in Nat
    BY SMTT(20) DEF CollectorInv, CdpInv
  <2> DEFINE t == TopLeft(stack, exc, responses)
             p == PhaseLeft(phase)
  <2>3. CollectorLeft = 20 * p + 8 * Len(stack) + t + VersionLeft
    BY Zenon DEF CollectorLeft
  <2> HIDE DEF t, p
  <2>4. t \in 0..7 /\ p \in 0..10
    BY Zenon, <2>1 DEF t, p
  <2> QED
    BY SMTT(20), <2>1, <2>2, <2>3, <2>4
<1>2. CollectorInv /\ NestInv /\ SocketInv /\ [AgentNext]_agentVars => [CollectorInTime]_agentVars
  <2> SUFFICES ASSUME CollectorInv, NestInv, SocketInv, AgentNext, expired
               PROVE  IF AgentStep THEN CollectorLeft' < CollectorLeft
                                   ELSE CollectorLeft' = CollectorLeft
    BY Zenon DEF CollectorInTime
  <2>1. CASE AgentStep
    BY Zenon, <2>1, BufferedIsLess, WaitOverIsLess, ExceptionIsLess, NextPhaseIsLess DEF AgentStep
  <2>2. CASE ~AgentStep
    <3>1. ~ChromiumStep /\ ~Expire
      BY Zenon DEF ChromiumStep, ReceiveAnswer, ReceiveOther, HandlePaused, HandleDocument,
         CloseAttachedChild, HandleMalformed, HandleObserved, Reported, HandleLoad, Receiving,
         Expire
    <3>2. UNCHANGED <<phase, stack, exc, responses, outcome>>
      BY Zenon, <2>2, <3>1 DEF AgentNext, BrowserDies, Over, agentVars, cdpVars, endVars
    <3>3. CollectorLeft' = CollectorLeft
      BY Zenon, <3>2 DEF CollectorLeft, VersionLeft
    <3> QED
      BY Zenon, <2>2, <3>3
  <2> QED
    BY Zenon, <2>1, <2>2
<1> QED
  BY <1>1, <1>2, NestingInvariant, PTL DEF AgentSpec

===============================================================================
