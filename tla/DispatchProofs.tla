--------------------------- MODULE DispatchProofs ---------------------------
(***************************************************************************)
(* Theorems about Dispatch for every number of issues, repositories,       *)
(* lanes, decisions, rows and crashes.                                     *)
(*                                                                         *)
(* The shape of a reachable state (Shape) is inductive by itself.  From it *)
(* RowStep says all that any step may do to the dispatches table: insert   *)
(* one row that nothing blocks, or move one row that is in flight.  The    *)
(* exclusion, finality and refinement theorems follow from RowStep alone;  *)
(* those about the runners need Owner besides.                             *)
(***************************************************************************)
EXTENDS Dispatch, TLAPS

-----------------------------------------------------------------------------
(* The inductive invariant, one conjunct per table.                        *)

\* A decision that exists names an issue and a lane.
DecisionsOK ==
  /\ decision \in [DecisionId -> DecisionRecord]
  /\ \A d \in DecisionId :
       decision[d].state # "absent" => decision[d].issue \in Issues /\ decision[d].lane \in Lanes

Exists(d) == d \in DecisionId /\ decision[d].state # "absent"

\* A row that exists has left the queued and launching states behind, which orchd
\* never stores, and names an issue and a lane.
RowOK(x) ==
  /\ x \in DispatchRow
  /\ x.status \in {"absent"} \cup InFlight \cup Terminal
  /\ x.status = "absent" => x.issue = NoIssue /\ x.lane = NoLane
  /\ x.status # "absent" => x.issue \in Issues /\ x.lane \in Lanes

RowsOK ==
  /\ row \in [DispatchId -> DispatchRow]
  /\ \A r \in DispatchId : RowOK(row[r])

RunnersOK == runner \in [DispatchId -> Runner]

\* A task at work works for a decision that exists; where it uses a row, it has one.
TaskOK(t) ==
  /\ t \in Task
  /\ t.pc # "idle" => Exists(t.decision)
  /\ t.pc \in {"judge", "prepare", "launched"} => t.row \in DispatchId

TasksOK ==
  /\ task \in [Actor -> Task]
  /\ \A a \in Actor : TaskOK(task[a])

BatchOK == \A d \in batch : Exists(d)

CursorOK == cursor \in [Issues -> [Roles -> 0..MaxDecisions]]

OrchdOK ==
  /\ orchd \in {"up", "down", "sweep"}
  /\ sweep \subseteq [row: DispatchId, seen: InFlight]
  /\ crashes \in 0..MaxCrashes

Shape == DecisionsOK /\ RowsOK /\ RunnersOK /\ TasksOK /\ BatchOK /\ CursorOK /\ OrchdOK

LEMMA ShapeTypeOK == Shape => TypeOK
BY DEF Shape, TypeOK, DecisionsOK, RowsOK, RunnersOK, TasksOK, BatchOK, CursorOK, OrchdOK, Exists

-----------------------------------------------------------------------------
(* The reducer.                                                            *)

\* What the reducer accepts of a stored row comes from a row in flight and leaves it
\* in flight or ended.
LEMMA ReduceStored ==
  ASSUME NEW s \in {"absent"} \cup InFlight \cup Terminal,
         NEW e \in DispatchEventKind,
         Accepts(s, e)
  PROVE  s \in InFlight /\ Reduce(s, e) \in InFlight \cup Terminal
BY DEF Accepts, Reduce, Rejected, InFlight, Terminal, DispatchEventKind

LEMMA StatusTypes ==
  /\ InFlight \subseteq DispatchState
  /\ Terminal \subseteq DispatchState
  /\ InFlight \cap Terminal = {}
  /\ "absent" \notin InFlight \cup Terminal
  /\ {"FailStart", "MarkRunning", "HealStale"} \subseteq DispatchEventKind
  /\ "starting" \in InFlight
BY DEF InFlight, Terminal, DispatchState, DispatchEventKind

LEMMA OutcomesAreEvents == Outcomes \subseteq DispatchEventKind
BY DispatchConstants DEF DispatchConstants, TerminalEvent, DispatchEventKind

-----------------------------------------------------------------------------
(* What the updates of one row and of one task preserve.                   *)

LEMMA OneRow ==
  ASSUME RowsOK, NEW r \in DispatchId, NEW x, RowOK(x), row' = [row EXCEPT ![r] = x]
  PROVE  RowsOK'
BY DEF RowsOK, RowOK

LEMMA MoveRow ==
  ASSUME RowsOK, NEW r \in DispatchId, NEW e \in DispatchEventKind,
         Accepts(row[r].status, e),
         NEW h \in BOOLEAN,
         row' = [row EXCEPT ![r] = [@ EXCEPT !.status = Reduce(row[r].status, e), !.healed = h]]
  PROVE  RowsOK'
<1>1. RowOK(row[r])
  BY DEF RowsOK
<1>2. Reduce(row[r].status, e) \in InFlight \cup Terminal /\ row[r].status \in InFlight
  BY <1>1, ReduceStored DEF RowOK
<1>3. RowOK([row[r] EXCEPT !.status = Reduce(row[r].status, e), !.healed = h])
  BY <1>1, <1>2, StatusTypes DEF RowOK, DispatchRow
<1> QED
  BY <1>3, OneRow

LEMMA SetStatusShape ==
  ASSUME RowsOK, NEW r \in DispatchId, NEW e \in DispatchEventKind,
         Accepts(row[r].status, e), SetStatus(r, e)
  PROVE  RowsOK'
<1>1. row[r] \in DispatchRow
  BY DEF RowsOK
<1>2. row' = [row EXCEPT ![r] = [@ EXCEPT !.status = Reduce(row[r].status, e), !.healed = row[r].healed]]
  BY <1>1 DEF SetStatus, DispatchRow, RowsOK
<1> QED
  BY <1>1, <1>2, MoveRow DEF DispatchRow

LEMMA HealRowShape ==
  ASSUME RowsOK, NEW r \in DispatchId, Accepts(row[r].status, "HealStale"), HealRow(r)
  PROVE  RowsOK'
BY MoveRow, StatusTypes DEF HealRow

LEMMA OneTask ==
  ASSUME TasksOK, NEW a \in Actor, NEW t, TaskOK(t), task' = [task EXCEPT ![a] = t],
         \A d \in DecisionId : Exists(d) => Exists(d)'
  PROVE  TasksOK'
BY DEF TasksOK, TaskOK, Exists

LEMMA SameTasks ==
  ASSUME TasksOK, task' = task, \A d \in DecisionId : Exists(d) => Exists(d)'
  PROVE  TasksOK'
BY DEF TasksOK, TaskOK, Exists

LEMMA IdleOK == TaskOK(Idle)
BY DispatchConstants DEF TaskOK, Idle, At, Task, DispatchConstants

LEMMA AtOK ==
  ASSUME NEW d, Exists(d), NEW pc \in {"plan", "look", "fetch", "ok", "poisoned"}
  PROVE  TaskOK(At(pc, d))
BY DispatchConstants DEF TaskOK, At, Task, Exists, DecisionId, DispatchConstants

LEMMA StepShape ==
  ASSUME TasksOK, NEW a \in Actor, task[a].pc # "idle", decision' = decision,
         NEW pc \in {"look", "fetch", "ok", "poisoned"}, Step(a, pc)
  PROVE  TasksOK'
<1>1. TaskOK(At(pc, task[a].decision))
  BY AtOK DEF TasksOK, TaskOK
<1> QED
  BY <1>1, OneTask DEF Step, Exists

LEMMA ReturnShape ==
  ASSUME TasksOK, NEW a \in Actor, task[a].pc # "idle", decision' = decision,
         ReturnInFlight(a) \/ ReturnError(a)
  PROVE  TasksOK'
BY OneTask, IdleOK, StepShape DEF ReturnInFlight, ReturnError, Exists

LEMMA SameRest ==
  ASSUME Shape
  PROVE  /\ decision' = decision => DecisionsOK' /\ (batch' = batch => BatchOK')
         /\ decision' = decision /\ task' = task => TasksOK'
         /\ row' = row => RowsOK'
         /\ runner' = runner => RunnersOK'
         /\ cursor' = cursor => CursorOK'
         /\ UNCHANGED <<orchd, sweep, crashes>> => OrchdOK'
BY SameTasks DEF Shape, DecisionsOK, RowsOK, RowOK, RunnersOK, BatchOK, CursorOK, OrchdOK, Exists

LEMMA InitShape == Init => Shape
<1> SUFFICES ASSUME Init PROVE Shape
  OBVIOUS
<1>1. DecisionsOK
  BY DEF Init, DecisionsOK, DecisionRecord
<1>2. RowsOK
  BY DispatchConstants DEF Init, RowsOK, RowOK, DispatchRow, DispatchConstants
<1>3. RunnersOK
  BY DispatchConstants DEF Init, RunnersOK, Runner, DispatchConstants
<1>4. TasksOK
  BY IdleOK DEF Init, TasksOK, TaskOK
<1>5. BatchOK /\ CursorOK /\ OrchdOK
  BY DispatchConstants DEF Init, BatchOK, CursorOK, OrchdOK, DispatchConstants
<1> QED
  BY <1>1, <1>2, <1>3, <1>4, <1>5 DEF Shape

LEMMA PersistShape ==
  ASSUME Shape, NEW d \in DecisionId, NEW i \in Issues, NEW l \in Lanes, PersistDecision(d, i, l)
  PROVE  DecisionsOK' /\ Exists(d)' /\ \A e \in DecisionId : Exists(e) => Exists(e)'
BY DEF Shape, DecisionsOK, DecisionRecord, PersistDecision, Exists

LEMMA ArrivalShape ==
  ASSUME Shape, NEW d \in DecisionId, NEW i \in Issues, NEW l \in Lanes,
         WebhookDecision(d, i, l) \/ TimerDecision(d, i, l)
  PROVE  Shape'
<1>1. PersistDecision(d, i, l) /\ UNCHANGED <<row, runner, batch, cursor, orchd, sweep, crashes>>
  BY DEF WebhookDecision, TimerDecision
<1>2. DecisionsOK' /\ Exists(d)' /\ \A e \in DecisionId : Exists(e) => Exists(e)'
  BY <1>1, PersistShape
<1>3. BatchOK'
  BY <1>1, <1>2 DEF Shape, BatchOK, Exists
<1>4. TasksOK'
  <2>1. CASE WebhookDecision(d, i, l)
    <3>1. task' = [task EXCEPT ![d] = At("plan", d)] /\ d \in Actor
      BY <2>1 DEF WebhookDecision, Actor
    <3>2. TaskOK(At("plan", d))'
      BY <1>2, DispatchConstants DEF TaskOK, At, Task, Exists, DecisionId, DispatchConstants
    <3> QED
      BY <1>2, <3>1, <3>2 DEF Shape, TasksOK, TaskOK, Exists
  <2>2. CASE TimerDecision(d, i, l)
    BY <1>2, <2>2, SameTasks DEF TimerDecision, Shape
  <2> QED
    BY <2>1, <2>2
<1> QED
  BY <1>1, <1>2, <1>3, <1>4, SameRest DEF Shape

-----------------------------------------------------------------------------
(* One task's steps.                                                       *)

LEMMA TaskRow ==
  ASSUME Shape, NEW a \in Actor, task[a].pc \in {"judge", "prepare", "launched"}
  PROVE  task[a].row \in DispatchId
BY DEF Shape, TasksOK, TaskOK

LEMMA TaskAtRow ==
  ASSUME NEW t, TaskOK(t), t.pc # "idle", NEW pc \in {"judge", "prepare", "launched"},
         NEW r \in DispatchId, NEW seen \in InFlight \cup {"none"}
  PROVE  TaskOK([t EXCEPT !.pc = pc, !.row = r, !.seen = seen])
<1>1. r \in 0..MaxDispatches
  BY DispatchConstants DEF DispatchId, DispatchConstants
<1>2. t \in Task /\ Exists(t.decision)
  BY DEF TaskOK
<1> DEFINE u == [t EXCEPT !.pc = pc, !.row = r, !.seen = seen]
<1>3. u \in Task /\ u.decision = t.decision /\ u.row = r
  BY <1>1, <1>2 DEF Task
<1> QED
  BY <1>2, <1>3 DEF TaskOK

LEMMA NewRunner ==
  ASSUME NEW child \in BOOLEAN
  PROVE  [pc |-> "working", tries |-> 0, child |-> child] \in Runner
BY DispatchConstants DEF Runner, DispatchConstants

LEMMA TaskStepShape ==
  ASSUME Shape, NEW a \in Actor, TaskStep(a) \/ TaskFault(a)
  PROVE  Shape'
<1> USE DEF Shape
<1>1. CASE SeeNoneInFlight(a)
  BY <1>1, StepShape, SameRest DEF SeeNoneInFlight
<1>2. CASE SeeInFlight(a)
  <2>1. PICK r \in DispatchId :
          /\ row[r].status \in InFlight
          /\ task' = [task EXCEPT ![a] = [@ EXCEPT !.pc = "judge", !.row = r, !.seen = row[r].status]]
    BY <1>2 DEF SeeInFlight, IssueInFlight, InFlightRow
  <2>2. TaskOK(task[a]) /\ task[a].pc # "idle"
    BY <1>2 DEF SeeInFlight, TasksOK
  <2>3. TaskOK([task[a] EXCEPT !.pc = "judge", !.row = r, !.seen = row[r].status])
    BY <2>1, <2>2, TaskAtRow
  <2>4. TasksOK'
    BY <1>2, <2>1, <2>3, OneTask DEF SeeInFlight, Exists
  <2> QED
    BY <1>2, <2>4, SameRest DEF SeeInFlight
<1>3. CASE KeepInFlight(a) \/ ReserveRefused(a)
  BY <1>3, ReturnShape, SameRest DEF KeepInFlight, ReserveRefused
<1>4. CASE HealTooLate(a) \/ MarkRunningRejected(a) \/ DenyPolicy(a) \/ FetchFails(a)
  BY <1>4, ReturnShape, SameRest DEF HealTooLate, MarkRunningRejected, DenyPolicy, FetchFails
<1>5. CASE HealInFlight(a)
  <2>1. RowsOK'
    BY <1>5, TaskRow, HealRowShape DEF HealInFlight
  <2>2. TasksOK'
    BY <1>5, StepShape DEF HealInFlight
  <2> QED
    BY <1>5, <2>1, <2>2, SameRest DEF HealInFlight
<1>6. CASE Reserve(a)
  <2>1. PICK r \in DispatchId :
          /\ row' = [row EXCEPT ![r] = StartingRow(a)]
          /\ task' = [task EXCEPT ![a] = [@ EXCEPT !.pc = "prepare", !.row = r]]
    BY <1>6 DEF Reserve
  <2>2. TaskOK(task[a]) /\ Exists(task[a].decision)
    BY <1>6 DEF Reserve, TasksOK, TaskOK
  <2>3. TaskOK([task[a] EXCEPT !.pc = "prepare", !.row = r])
    <3>1. [task[a] EXCEPT !.pc = "prepare", !.row = r]
            = [task[a] EXCEPT !.pc = "prepare", !.row = r, !.seen = task[a].seen]
      BY <2>2 DEF TaskOK, Task
    <3>2. task[a].seen \in InFlight \cup {"none"}
      BY <2>2 DEF TaskOK, Task
    <3>3. task[a].pc # "idle"
      BY <1>6 DEF Reserve
    <3>4. TaskOK([task[a] EXCEPT !.pc = "prepare", !.row = r, !.seen = task[a].seen])
      BY <2>2, <3>2, <3>3, TaskAtRow
    <3> QED
      BY <3>1, <3>4
  <2>4. TasksOK'
    BY <1>6, <2>1, <2>3, OneTask DEF Reserve, Exists
  <2>5. RowOK(StartingRow(a))
    <3>1. IssueOf(a) \in Issues /\ LaneOf(a) \in Lanes
      BY <2>2 DEF IssueOf, LaneOf, DecisionsOK, Exists
    <3>2. task[a].decision \in 0..MaxDecisions
      BY <2>2 DEF TaskOK, Task
    <3> QED
      BY <3>1, <3>2, StatusTypes DEF StartingRow, RowOK, DispatchRow
  <2>6. RowsOK'
    BY <2>1, <2>5, OneRow
  <2> QED
    BY <1>6, <2>4, <2>6, SameRest DEF Reserve
<1>7. CASE StartFails(a)
  <2>1. RowsOK'
    BY <1>7, TaskRow, SetStatusShape, StatusTypes, SameRest DEF StartFails
  <2> QED
    BY <1>7, <2>1, ReturnShape, SameRest DEF StartFails
<1>8. CASE Launch(a)
  <2>1. TaskOK(task[a]) /\ task[a].pc = "prepare"
    BY <1>8 DEF Launch, TasksOK
  <2>2. TaskOK([task[a] EXCEPT !.pc = "launched"])
    BY <2>1 DEF TaskOK, Task
  <2>3. TasksOK'
    BY <1>8, <2>2, OneTask DEF Launch, Exists
  <2>4. RunnersOK'
    <3>1. (Backend = "local") \in BOOLEAN
      OBVIOUS
    <3> QED
      BY <1>8, <3>1, NewRunner DEF Launch, RunnersOK
  <2> QED
    BY <1>8, <2>3, <2>4, SameRest DEF Launch
<1>9. CASE MarkRunning(a)
  <2>1. RowsOK'
    BY <1>9, TaskRow, SetStatusShape, StatusTypes DEF MarkRunning
  <2>2. TasksOK'
    BY <1>9, StepShape DEF MarkRunning
  <2> QED
    BY <1>9, <2>1, <2>2, SameRest DEF MarkRunning
<1>10. CASE DispatchOk(a)
  <2>1. TasksOK'
    BY <1>10, IdleOK, OneTask DEF DispatchOk, Exists
  <2>2. task[a].decision \in 0..MaxDecisions
    BY DEF TasksOK, Task
  <2>3. CursorOK'
    BY <1>10, <2>2 DEF DispatchOk, CursorOK
  <2> QED
    BY <1>10, <2>1, <2>3, SameRest DEF DispatchOk
<1>11. CASE ClientDisconnect(a)
  <2>1. TasksOK'
    BY <1>11, IdleOK, OneTask DEF ClientDisconnect, Exists
  <2> QED
    BY <1>11, <2>1, SameRest DEF ClientDisconnect
<1> QED
  BY <1>1, <1>2, <1>3, <1>4, <1>5, <1>6, <1>7, <1>8, <1>9, <1>10, <1>11 DEF TaskStep, TaskFault

-----------------------------------------------------------------------------
(* The queue loop, the runners, the crash and the sweep.                   *)

LEMMA QueueStepShape ==
  ASSUME Shape, QueueStep
  PROVE  Shape'
<1> USE DEF Shape
<1>1. CASE ListHeads
  <2>1. BatchOK'
    BY <1>1 DEF ListHeads, ListedHeads, Heads, Pending, BatchOK, Exists
  <2> QED
    BY <1>1, <2>1, SameRest DEF ListHeads
<1>2. ASSUME NEW d \in DecisionId, TakeHead(d) PROVE Shape'
  <2>1. TaskOK(At("plan", d)) /\ Queue \in Actor
    BY <1>2, AtOK DEF TakeHead, BatchOK, Actor
  <2>2. TasksOK'
    BY <1>2, <2>1, OneTask DEF TakeHead, Exists
  <2>3. BatchOK'
    BY <1>2 DEF TakeHead, BatchOK, Exists
  <2> QED
    BY <1>2, <2>2, <2>3, SameRest DEF TakeHead
<1>3. CASE PurgeIssue
  <2>1. DecisionsOK' /\ \A d \in DecisionId : Exists(d) => Exists(d)'
    <3> DEFINE purged == {d \in DecisionId : d \in Pending /\ decision[d].issue = IssueOf(Queue)}
    <3>1. decision' = [d \in DecisionId |-> IF d \in purged
                                            THEN [decision[d] EXCEPT !.state = "ignored"]
                                            ELSE decision[d]]
      BY <1>3 DEF PurgeIssue
    <3> HIDE DEF purged
    <3>2. purged \subseteq Pending
      BY DEF purged
    <3> QED
      BY <3>1, <3>2 DEF DecisionsOK, DecisionRecord, Exists, Pending
  <2>2. TasksOK'
    BY <1>3, <2>1, IdleOK, OneTask DEF PurgeIssue, Actor
  <2>3. BatchOK'
    BY <1>3, <2>1 DEF PurgeIssue, BatchOK, Exists
  <2> QED
    BY <1>3, <2>1, <2>2, <2>3, SameRest DEF PurgeIssue
<1> QED
  BY <1>1, <1>2, <1>3 DEF QueueStep

LEMMA ExitedType ==
  ASSUME RunnersOK, NEW r \in DispatchId
  PROVE  Exited(r) \in Runner
<1>1. runner[r] \in Runner
  BY DEF RunnersOK
<1>2. 0 \in 0..MaxFinalizeTries
  BY DispatchConstants DEF DispatchConstants
<1> QED
  BY <1>1, <1>2 DEF Exited, Runner

LEMMA RunnerShape ==
  ASSUME Shape, NEW r \in DispatchId, RunnerStep(r) \/ RunnerDies(r) \/ Age(r)
  PROVE  Shape'
<1> USE DEF Shape
<1>1. ASSUME NEW event \in Outcomes, FinalizeRow(r, event) PROVE Shape'
  <2>1. RowsOK'
    BY <1>1, SetStatusShape, OutcomesAreEvents DEF FinalizeRow
  <2>2. RunnersOK'
    BY <1>1, ExitedType DEF FinalizeRow, RunnersOK
  <2> QED
    BY <1>1, <2>1, <2>2, SameRest DEF FinalizeRow
<1>2. ASSUME NEW event \in Outcomes, FinalizeEnded(r, event) PROVE Shape'
  <2>1. RunnersOK'
    BY <1>2, ExitedType DEF FinalizeEnded, RunnersOK
  <2> QED
    BY <1>2, <2>1, SameRest DEF FinalizeEnded
<1>3. ASSUME NEW event \in Outcomes, FinalizeRejected(r, event) PROVE Shape'
  <2>1. runner[r] \in Runner
    BY DEF RunnersOK
  <2>2. RunnersOK'
    <3>1. CASE runner[r].tries + 1 < MaxFinalizeTries
      <4>1. runner[r].tries + 1 \in 0..MaxFinalizeTries
        BY <2>1, <3>1, DispatchConstants DEF Runner, DispatchConstants
      <4>2. TryingAgain(r) \in Runner
        BY <2>1, <4>1 DEF TryingAgain, Runner
      <4>3. runner' = [runner EXCEPT ![r] = TryingAgain(r)]
        BY <1>3, <3>1 DEF FinalizeRejected
      <4> QED
        BY <4>2, <4>3 DEF RunnersOK
    <3>2. CASE ~(runner[r].tries + 1 < MaxFinalizeTries)
      BY <1>3, <3>2, ExitedType DEF FinalizeRejected, RunnersOK
    <3> QED
      BY <3>1, <3>2
  <2> QED
    BY <1>3, <2>2, SameRest DEF FinalizeRejected
<1>4. CASE RunnerDies(r)
  <2>1. RunnersOK'
    BY <1>4, ExitedType DEF RunnerDies, RunnersOK
  <2> QED
    BY <1>4, <2>1, SameRest DEF RunnerDies
<1>5. CASE Age(r)
  <2>1. RowOK([row[r] EXCEPT !.old = TRUE])
    BY DEF RowsOK, RowOK, DispatchRow
  <2>2. RowsOK'
    BY <1>5, <2>1, OneRow DEF Age
  <2> QED
    BY <1>5, <2>2, SameRest DEF Age
<1> QED
  BY <1>1, <1>2, <1>3, <1>4, <1>5 DEF RunnerStep

LEMMA CrashShape ==
  ASSUME Shape, Crash
  PROVE  Shape'
<1> USE DEF Shape
<1>1. TasksOK'
  BY IdleOK DEF Crash, TasksOK, TaskOK, Exists
<1>2. RunnersOK'
  BY DEF Crash, RunnersOK, Runner
<1>3. BatchOK' /\ OrchdOK'
  BY DispatchConstants DEF Crash, BatchOK, OrchdOK, DispatchConstants
<1> QED
  BY <1>1, <1>2, <1>3, SameRest DEF Crash

LEMMA SweepShape ==
  ASSUME Shape, Boot \/ SweepStep
  PROVE  Shape'
<1> USE DEF Shape
<1>1. CASE Boot
  <2>1. OrchdOK'
    BY <1>1 DEF Boot, OrchdOK
  <2> QED
    BY <1>1, <2>1, SameRest DEF Boot
<1>2. ASSUME NEW s \in sweep, SweepKeep(s) \/ SweepAborts(s) PROVE Shape'
  <2>1. OrchdOK'
    BY <1>2 DEF SweepKeep, SweepAborts, OrchdOK
  <2> QED
    BY <1>2, <2>1, SameRest DEF SweepKeep, SweepAborts
<1>3. ASSUME NEW s \in sweep, SweepHeal(s) PROVE Shape'
  <2>1. s.row \in DispatchId
    BY DEF OrchdOK
  <2>2. RowsOK'
    BY <1>3, <2>1, HealRowShape DEF SweepHeal
  <2>3. OrchdOK'
    BY <1>3 DEF SweepHeal, OrchdOK
  <2> QED
    BY <1>3, <2>2, <2>3, SameRest DEF SweepHeal
<1>4. CASE SweepDone
  <2>1. OrchdOK'
    BY <1>4 DEF SweepDone, OrchdOK
  <2> QED
    BY <1>4, <2>1, SameRest DEF SweepDone
<1> QED
  BY <1>1, <1>2, <1>3, <1>4 DEF SweepStep

LEMMA NextShape == Shape /\ [Next]_vars => Shape'
<1> SUFFICES ASSUME Shape, [Next]_vars PROVE Shape'
  OBVIOUS
<1>1. CASE UNCHANGED vars
  BY <1>1, SameRest DEF vars, Shape
<1>2. CASE Next
  BY <1>2, ArrivalShape, TaskStepShape, QueueStepShape, RunnerShape, CrashShape, SweepShape
     DEF Next, Arrival
<1> QED
  BY <1>1, <1>2

THEOREM ShapeHolds == Spec => []Shape
BY InitShape, NextShape, PTL DEF Spec

\* TypeOK in every reachable state of every instance.
THEOREM TypeCorrect == Spec => []TypeOK
BY ShapeHolds, ShapeTypeOK, PTL

-----------------------------------------------------------------------------
(* What one step may do to the dispatches table.                           *)

RowInserted(r) ==
  /\ row[r].status = "absent"
  /\ ~Blocked(row'[r].issue, row'[r].lane)
  /\ RowOK(row'[r]) /\ row'[r].status = "starting"
  /\ \A q \in DispatchId : q # r => row'[q] = row[q]

RowMoved(r) ==
  /\ row[r].status \in InFlight
  /\ row'[r].status \in InFlight \cup Terminal
  /\ row'[r].issue = row[r].issue /\ row'[r].lane = row[r].lane
  /\ \A q \in DispatchId : q # r => row'[q] = row[q]

LEMMA AcceptedMoves ==
  ASSUME RowsOK, NEW r \in DispatchId, NEW e \in DispatchEventKind, Accepts(row[r].status, e),
         SetStatus(r, e) \/ (e = "HealStale" /\ HealRow(r))
  PROVE  RowMoved(r)
<1>1. RowOK(row[r]) /\ row[r] \in DispatchRow
  BY DEF RowsOK
<1>2. row[r].status \in InFlight /\ Reduce(row[r].status, e) \in InFlight \cup Terminal
  BY <1>1, ReduceStored DEF RowOK
<1>3. CASE SetStatus(r, e)
  <2>1. row'[r] = [row[r] EXCEPT !.status = Reduce(row[r].status, e)]
    BY <1>3 DEF SetStatus, RowsOK
  <2>2. \A q \in DispatchId : q # r => row'[q] = row[q]
    BY <1>3 DEF SetStatus, RowsOK
  <2> QED
    BY <1>1, <1>2, <2>1, <2>2 DEF RowMoved, DispatchRow
<1>4. CASE e = "HealStale" /\ HealRow(r)
  <2>1. row'[r] = [row[r] EXCEPT !.status = Reduce(row[r].status, e), !.healed = TRUE]
    BY <1>4 DEF HealRow, RowsOK
  <2>2. \A q \in DispatchId : q # r => row'[q] = row[q]
    BY <1>4 DEF HealRow, RowsOK
  <2> QED
    BY <1>1, <1>2, <2>1, <2>2 DEF RowMoved, DispatchRow
<1> QED
  BY <1>3, <1>4

LEMMA RowStep ==
  ASSUME Shape, [Next]_vars
  PROVE  row' = row \/ \E r \in DispatchId : RowInserted(r) \/ RowMoved(r)
<1> DEFINE Goal == row' = row \/ \E r \in DispatchId : RowInserted(r) \/ RowMoved(r)
<1> RowsOK
  BY DEF Shape
<1>1. ASSUME NEW a \in Actor, TaskStep(a) \/ TaskFault(a) PROVE Goal
  <2>1. CASE Reserve(a)
    <3>1. PICK r \in DispatchId : row[r].status = "absent" /\ row' = [row EXCEPT ![r] = StartingRow(a)]
      BY <2>1 DEF Reserve
    <3>2. row'[r] = StartingRow(a) /\ \A q \in DispatchId : q # r => row'[q] = row[q]
      BY <3>1 DEF RowsOK
    <3>3. StartingRow(a).status = "starting" /\ StartingRow(a).issue = IssueOf(a)
          /\ StartingRow(a).lane = LaneOf(a)
      BY DEF StartingRow
    <3>4. RowOK(StartingRow(a))
      <4>1. TaskOK(task[a]) /\ Exists(task[a].decision)
        BY <2>1 DEF Reserve, Shape, TasksOK, TaskOK
      <4>2. IssueOf(a) \in Issues /\ LaneOf(a) \in Lanes /\ task[a].decision \in 0..MaxDecisions
        BY <4>1 DEF IssueOf, LaneOf, Shape, DecisionsOK, Exists, TaskOK, Task
      <4> QED
        BY <4>2, StatusTypes DEF StartingRow, RowOK, DispatchRow
    <3> QED
      BY <2>1, <3>1, <3>2, <3>3, <3>4 DEF Reserve, RowInserted
  <2>2. CASE HealInFlight(a)
    BY <2>2, TaskRow, AcceptedMoves, StatusTypes DEF HealInFlight
  <2>3. CASE StartFails(a)
    BY <2>3, TaskRow, AcceptedMoves, StatusTypes DEF StartFails
  <2>4. CASE MarkRunning(a)
    BY <2>4, TaskRow, AcceptedMoves, StatusTypes DEF MarkRunning
  <2> QED
    BY <1>1, <2>1, <2>2, <2>3, <2>4
       DEF TaskStep, TaskFault, SeeNoneInFlight, SeeInFlight, KeepInFlight, HealTooLate,
           ReserveRefused, Launch, MarkRunningRejected, DispatchOk, DenyPolicy, FetchFails,
           ClientDisconnect
<1>2. ASSUME NEW r \in DispatchId, RunnerStep(r) \/ RunnerDies(r) \/ Age(r) PROVE Goal
  <2>1. ASSUME NEW event \in Outcomes, FinalizeRow(r, event) PROVE Goal
    BY <2>1, AcceptedMoves, OutcomesAreEvents DEF FinalizeRow
  <2>2. CASE Age(r)
    <3>1. row'[r] = [row[r] EXCEPT !.old = TRUE] /\ \A q \in DispatchId : q # r => row'[q] = row[q]
      BY <2>2 DEF Age, RowsOK
    <3>2. row[r] \in DispatchRow /\ row[r].status \in InFlight
      BY <2>2, StatusTypes DEF Age, RowsOK
    <3> QED
      BY <3>1, <3>2 DEF RowMoved, DispatchRow
  <2> QED
    BY <1>2, <2>1, <2>2 DEF RunnerStep, FinalizeEnded, FinalizeRejected, RunnerDies
<1>3. ASSUME SweepStep PROVE Goal
  <2>1. ASSUME NEW s \in sweep, SweepHeal(s) PROVE Goal
    <3>1. s.row \in DispatchId
      BY DEF Shape, OrchdOK
    <3> QED
      BY <2>1, <3>1, AcceptedMoves, StatusTypes DEF SweepHeal
  <2> QED
    BY <1>3, <2>1 DEF SweepStep, SweepKeep, SweepAborts, SweepDone
<1>4. CASE Arrival \/ QueueStep \/ Crash \/ Boot \/ UNCHANGED vars
  BY <1>4 DEF Arrival, WebhookDecision, TimerDecision, QueueStep, ListHeads, TakeHead, PurgeIssue,
              Crash, Boot, vars
<1> QED
  BY <1>1, <1>2, <1>3, <1>4 DEF Next

-----------------------------------------------------------------------------
(* Mutual exclusion.                                                       *)

LEMMA InitExclusion == Init => ExclusiveInFlight
BY StatusTypes DEF Init, ExclusiveInFlight, OneInFlightPerIssue, OneImplInFlightPerRepo, InFlightRow

LEMMA NextExclusion ==
  ASSUME Shape, ExclusiveInFlight, [Next]_vars
  PROVE  ExclusiveInFlight'
<1>1. CASE row' = row
  BY <1>1 DEF ExclusiveInFlight, OneInFlightPerIssue, OneImplInFlightPerRepo, InFlightRow
<1>2. ASSUME NEW n \in DispatchId, RowInserted(n) PROVE ExclusiveInFlight'
  <2>1. \A q \in DispatchId : InFlightRow(q) => row[q].issue # row'[n].issue
    BY <1>2 DEF RowInserted, Blocked, IssueInFlight
  <2>2. row'[n].lane \in ImplLanes =>
          \A q \in DispatchId : InFlightRow(q) /\ row[q].lane \in ImplLanes
                                => RepoOf[row[q].issue] # RepoOf[row'[n].issue]
    BY <1>2 DEF RowInserted, Blocked, RepoImplInFlight
  <2>3. \A q \in DispatchId : q # n => row'[q] = row[q]
    BY <1>2 DEF RowInserted
  <2>4. OneInFlightPerIssue'
    BY <2>1, <2>3 DEF ExclusiveInFlight, OneInFlightPerIssue, InFlightRow
  <2>5. OneImplInFlightPerRepo'
    BY <2>2, <2>3 DEF ExclusiveInFlight, OneImplInFlightPerRepo, InFlightRow
  <2> QED
    BY <2>4, <2>5 DEF ExclusiveInFlight
<1>3. ASSUME NEW n \in DispatchId, RowMoved(n) PROVE ExclusiveInFlight'
  <2>1. \A q \in DispatchId : /\ InFlightRow(q)' => InFlightRow(q)
                              /\ row'[q].issue = row[q].issue /\ row'[q].lane = row[q].lane
    BY <1>3 DEF RowMoved, InFlightRow
  <2> QED
    BY <2>1 DEF ExclusiveInFlight, OneInFlightPerIssue, OneImplInFlightPerRepo
<1> QED
  BY <1>1, <1>2, <1>3, RowStep

\* No issue ever has two dispatch rows in flight, and no repository two impl rows.
THEOREM InFlightExclusion == Spec => []ExclusiveInFlight
<1>1. Shape /\ ExclusiveInFlight /\ [Next]_vars => ExclusiveInFlight'
  BY NextExclusion
<1> QED
  BY <1>1, InitExclusion, ShapeHolds, PTL DEF Spec

\* No issue ever has two dispatch rows in flight.
THEOREM IssueExclusion == Spec => []OneInFlightPerIssue
BY InFlightExclusion, PTL DEF ExclusiveInFlight

\* No repository ever has two impl rows in flight.
THEOREM RepoExclusion == Spec => []OneImplInFlightPerRepo
BY InFlightExclusion, PTL DEF ExclusiveInFlight

-----------------------------------------------------------------------------
(* Finality and the claims.                                                *)

\* No step of any process changes a row that has ended.
THEOREM Finality == Spec => EndedRowsAreFinal
<1>1. Shape /\ [Next]_vars
        => [\A r \in DispatchId : row[r].status \in Terminal => row'[r] = row[r]]_row
  <2> SUFFICES ASSUME Shape, [Next]_vars, row' # row,
                      NEW r \in DispatchId, row[r].status \in Terminal
               PROVE  row'[r] = row[r]
    OBVIOUS
  <2>1. PICK n \in DispatchId : RowInserted(n) \/ RowMoved(n)
    BY RowStep
  <2>2. n # r
    BY <2>1, StatusTypes DEF RowInserted, RowMoved
  <2> QED
    BY <2>1, <2>2 DEF RowInserted, RowMoved
<1> QED
  BY <1>1, ShapeHolds, PTL DEF Spec, EndedRowsAreFinal

LEMMA PhaseValues ==
  /\ Phase("absent") = "free"
  /\ \A s \in InFlight : Phase(s) = "held"
  /\ \A s \in Terminal : Phase(s) = "ended"
BY DEF Phase, InFlight, Terminal

LEMMA InitClaims == Init => Claims!Init
BY PhaseValues DEF Init, Claims!Init, ClaimOf, Claims!Unclaimed

LEMMA ClaimsStep ==
  ASSUME Shape, [Next]_vars
  PROVE  [Claims!Next]_ClaimOf
<1> RowsOK /\ \A r \in DispatchId : RowOK(row[r])
  BY DEF Shape, RowsOK
<1>1. CASE row' = row
  BY <1>1 DEF ClaimOf
<1>2. ASSUME NEW n \in DispatchId, RowInserted(n) PROVE Claims!Next
  <2> DEFINE i == row'[n].issue
             l == row'[n].lane
  <2>1. i \in Issues /\ l \in Lanes
    BY <1>2, StatusTypes DEF RowInserted, RowOK
  <2>2. ClaimOf[n] = Claims!Unclaimed
    BY <1>2, PhaseValues DEF RowInserted, RowOK, ClaimOf, Claims!Unclaimed
  <2>3. \A q \in DispatchId : ClaimOf[q].phase = "held" => row[q].status \in InFlight
    BY PhaseValues DEF ClaimOf, RowOK
  <2>4. \A q \in DispatchId : ~(ClaimOf[q].phase = "held" /\ ClaimOf[q].issue = i)
    BY <1>2, <2>3 DEF ClaimOf, RowInserted, Blocked, IssueInFlight, InFlightRow
  <2>5. l \in ImplLanes => \A q \in DispatchId : ~Claims!HoldsRepo(q, RepoOf[i])
    BY <1>2, <2>3 DEF ClaimOf, Claims!HoldsRepo, RowInserted, Blocked, RepoImplInFlight, InFlightRow
  <2>6. ClaimOf' = [ClaimOf EXCEPT ![n] = [phase |-> "held", issue |-> i, lane |-> l]]
    BY <1>2, PhaseValues, StatusTypes DEF RowInserted, ClaimOf
  <2>7. Claims!Acquire(n, i, l)
    BY <2>2, <2>4, <2>5, <2>6 DEF Claims!Acquire
  <2> QED
    BY <2>1, <2>7 DEF Claims!Next
<1>3. ASSUME NEW n \in DispatchId, RowMoved(n) PROVE [Claims!Next]_ClaimOf
  <2>1. ClaimOf[n] = [phase |-> "held", issue |-> row[n].issue, lane |-> row[n].lane]
    BY <1>3, PhaseValues DEF RowMoved, ClaimOf
  <2>2. CASE row'[n].status \in InFlight
    BY <1>3, <2>2, PhaseValues DEF RowMoved, ClaimOf
  <2>3. CASE row'[n].status \in Terminal
    <3>1. ClaimOf' = [ClaimOf EXCEPT ![n] = [phase |-> "ended", issue |-> row[n].issue,
                                              lane |-> row[n].lane]]
      BY <1>3, <2>3, PhaseValues DEF RowMoved, ClaimOf
    <3>2. Claims!Release(n)
      BY <2>1, <3>1 DEF Claims!Release
    <3> QED
      BY <3>2 DEF Claims!Next
  <2> QED
    BY <1>3, <2>2, <2>3 DEF RowMoved
<1> QED
  BY <1>1, <1>2, <1>3, RowStep

\* The dispatches table, driven by all of orchd's processes, is a table of claims.
THEOREM Refinement == Spec => ImplementsClaims
<1>1. Shape /\ [Next]_vars => [Claims!Next]_ClaimOf
  BY ClaimsStep
<1> QED
  BY <1>1, InitClaims, ShapeHolds, PTL DEF Spec, ImplementsClaims, Claims!Spec

-----------------------------------------------------------------------------
(* The runners.  reserve_dispatch_starting hands a row to one task, and    *)
(* that task alone fails it or launches its runner.  Owner says who may    *)
(* still do what with a row, and is inductive given Shape.                 *)

Launched(d) == \E r \in DispatchId : row[r].decision = d /\ runner[r].pc # "none"

\* A row not yet inserted has no runner.
NoRunnerBeforeRow ==
  \A r \in DispatchId : row[r].status = "absent" => runner[r].pc = "none"

Mine(a) ==
  LET r == task[a].row
  IN  row[r].status # "absent" /\ row[r].decision = task[a].decision

\* Between the reservation and the launch the row is its task's, has no runner, and
\* only a heal may have ended it.
Prepared ==
  \A a \in Actor : task[a].pc = "prepare" =>
    /\ Mine(a)
    /\ runner[task[a].row].pc = "none"
    /\ row[task[a].row].status \in InFlight \/ row[task[a].row].healed

\* Two tasks never prepare the same row.
PreparedApart ==
  \A a, b \in Actor :
    /\ task[a].pc = "prepare" /\ task[b].pc = "prepare"
    /\ task[a].row = task[b].row
    => a = b

Running ==
  \A a \in Actor :
    /\ task[a].pc = "launched" => Mine(a) /\ runner[task[a].row].pc # "none"
    /\ task[a].pc = "ok" => Launched(task[a].decision)

Owner ==
  /\ NoRunnerBeforeRow /\ Prepared /\ PreparedApart /\ Running
  /\ OrphanOnlyByHeal /\ CursorOnlyAfterLaunch

-----------------------------------------------------------------------------
(* Steps that hand nothing over.                                           *)

\* Row r stays inserted and keeps what it says of its decision and of its healing.
RowKept(r) ==
  /\ row[r].status # "absent" /\ row'[r].status # "absent"
  /\ row'[r].decision = row[r].decision
  /\ row[r].healed => row'[r].healed

RowHeld(r) ==
  /\ RowKept(r)
  /\ row'[r].status \in InFlight \/ row'[r].healed

RunnerKept(r) ==
  /\ runner'[r].pc = "none" <=> runner[r].pc = "none"
  /\ Busy(r)' => Busy(r)

TaskKept(a) ==
  \/ task'[a] = task[a]
  \/ task'[a].pc \notin {"prepare", "launched", "ok"}

LEMMA LaunchedStays ==
  ASSUME NoRunnerBeforeRow,
         \A r \in DispatchId : row'[r] = row[r] \/ RowKept(r) \/ row[r].status = "absent",
         \A r \in DispatchId : runner[r].pc # "none" => runner'[r].pc # "none",
         NEW d, Launched(d)
  PROVE  Launched(d)'
<1>1. PICK r \in DispatchId : row[r].decision = d /\ runner[r].pc # "none"
  BY DEF Launched
<1>2. row'[r].decision = d /\ runner'[r].pc # "none"
  BY <1>1 DEF NoRunnerBeforeRow, RowKept
<1> QED
  BY <1>2 DEF Launched

LEMMA CursorStays ==
  ASSUME CursorOnlyAfterLaunch, cursor' = cursor,
         \A d : Launched(d) => Launched(d)'
  PROVE  CursorOnlyAfterLaunch'
BY DEF CursorOnlyAfterLaunch, Launched

LEMMA Quiet ==
  ASSUME Shape, Owner, cursor' = cursor,
         \A r \in DispatchId : row'[r] = row[r] \/ RowHeld(r),
         \A r \in DispatchId : RunnerKept(r),
         \A a \in Actor : TaskKept(a)
  PROVE  Owner'
<1> USE DEF Owner
<1>1. \A d : Launched(d) => Launched(d)'
  BY LaunchedStays DEF RowHeld, RunnerKept
<1>2. CursorOnlyAfterLaunch'
  BY <1>1, CursorStays
<1>3. NoRunnerBeforeRow'
  BY DEF NoRunnerBeforeRow, RowHeld, RowKept, RunnerKept
<1>4. \A a \in Actor : task[a].pc \in {"prepare", "launched"} => task[a].row \in DispatchId
  BY TaskRow
<1>5. Prepared'
  BY <1>4 DEF Prepared, Mine, RowHeld, RowKept, RunnerKept, TaskKept
<1>6. PreparedApart'
  BY DEF PreparedApart, TaskKept
<1>7. Running'
  BY <1>1, <1>4 DEF Running, Mine, RowHeld, RowKept, RunnerKept, TaskKept
<1>8. OrphanOnlyByHeal'
  BY StatusTypes DEF OrphanOnlyByHeal, RowHeld, RunnerKept
<1> QED
  BY <1>2, <1>3, <1>5, <1>6, <1>7, <1>8

LEMMA SameKept ==
  /\ runner' = runner => \A r \in DispatchId : RunnerKept(r)
  /\ task' = task => \A a \in Actor : TaskKept(a)
BY DEF RunnerKept, TaskKept, Busy

LEMMA OneTaskKept ==
  ASSUME Shape, NEW a \in Actor, NEW t, t.pc \notin {"prepare", "launched", "ok"},
         task' = [task EXCEPT ![a] = t]
  PROVE  \A b \in Actor : TaskKept(b)
BY DEF Shape, TasksOK, TaskKept

LEMMA StepKept ==
  ASSUME Shape, NEW a \in Actor, NEW pc \in {"look", "fetch", "poisoned"}, Step(a, pc)
  PROVE  \A b \in Actor : TaskKept(b)
<1>1. At(pc, task[a].decision).pc = pc
  BY DEF At
<1> QED
  BY <1>1, OneTaskKept DEF Step

LEMMA ReturnKept ==
  ASSUME Shape, NEW a \in Actor, ReturnInFlight(a) \/ ReturnError(a)
  PROVE  \A b \in Actor : TaskKept(b)
<1>1. Idle.pc = "idle"
  BY DEF Idle, At
<1> QED
  BY <1>1, OneTaskKept, StepKept DEF ReturnInFlight, ReturnError

\* What the reducer accepts keeps the row; a heal also marks it, and a row that is
\* marked running is in flight.
LEMMA AcceptedKeeps ==
  ASSUME RowsOK, NEW r \in DispatchId, NEW e \in DispatchEventKind, Accepts(row[r].status, e),
         SetStatus(r, e) \/ (e = "HealStale" /\ HealRow(r))
  PROVE  /\ RowKept(r)
         /\ \A q \in DispatchId : q # r => row'[q] = row[q]
         /\ HealRow(r) => row'[r].healed
<1>1. RowMoved(r)
  BY AcceptedMoves
<1>2. row[r] \in DispatchRow
  BY DEF RowsOK
<1>3. row'[r].decision = row[r].decision /\ (row[r].healed => row'[r].healed)
      /\ (HealRow(r) => row'[r].healed)
  BY <1>2 DEF SetStatus, HealRow, DispatchRow, RowsOK
<1> QED
  BY <1>1, <1>3, StatusTypes DEF RowMoved, RowKept

LEMMA HealHeld ==
  ASSUME Shape, NEW r \in DispatchId, Accepts(row[r].status, "HealStale"), HealRow(r)
  PROVE  \A q \in DispatchId : row'[q] = row[q] \/ RowHeld(q)
BY AcceptedKeeps, StatusTypes DEF Shape, RowHeld
-----------------------------------------------------------------------------
(* The steps that hand a row, a runner or a decision over.                 *)

LEMMA ReserveOwner ==
  ASSUME Shape, Owner, NEW a \in Actor, Reserve(a)
  PROVE  Owner'
<1> USE DEF Owner
<1>1. PICK r \in DispatchId :
        /\ row[r].status = "absent"
        /\ row' = [row EXCEPT ![r] = StartingRow(a)]
        /\ task' = [task EXCEPT ![a] = [@ EXCEPT !.pc = "prepare", !.row = r]]
  BY DEF Reserve
<1>2. /\ row'[r].status = "starting" /\ row'[r].decision = task[a].decision
      /\ \A q \in DispatchId : q # r => row'[q] = row[q]
  BY <1>1 DEF Shape, RowsOK, StartingRow
<1>3. /\ task'[a].pc = "prepare" /\ task'[a].row = r /\ task'[a].decision = task[a].decision
      /\ \A b \in Actor : b # a => task'[b] = task[b]
  BY <1>1 DEF Shape, TasksOK, Task
<1>4. runner' = runner /\ cursor' = cursor /\ runner[r].pc = "none"
  BY <1>1 DEF Reserve, NoRunnerBeforeRow
<1>5. \A b \in Actor : task[b].pc \in {"prepare", "launched"}
                        => task[b].row \in DispatchId /\ task[b].row # r
  BY <1>1, TaskRow DEF Prepared, Running, Mine
<1>6. \A d : Launched(d) => Launched(d)'
  BY <1>1, <1>2, <1>4, LaunchedStays
<1>7. CursorOnlyAfterLaunch'
  BY <1>4, <1>6, CursorStays
<1>8. NoRunnerBeforeRow'
  BY <1>2, <1>4 DEF NoRunnerBeforeRow
<1>9. Prepared'
  BY <1>2, <1>3, <1>4, <1>5, StatusTypes DEF Prepared, Mine
<1>10. PreparedApart'
  BY <1>3, <1>5 DEF PreparedApart
<1>11. Running'
  BY <1>2, <1>3, <1>4, <1>5, <1>6 DEF Running, Mine
<1>12. OrphanOnlyByHeal'
  BY <1>2, <1>4 DEF OrphanOnlyByHeal, Busy
<1> QED
  BY <1>7, <1>8, <1>9, <1>10, <1>11, <1>12

LEMMA LaunchOwner ==
  ASSUME Shape, Owner, NEW a \in Actor, Launch(a)
  PROVE  Owner'
<1> USE DEF Owner
<1> DEFINE r == task[a].row
<1>1. r \in DispatchId /\ task[a].pc = "prepare" /\ row' = row /\ cursor' = cursor
  BY TaskRow DEF Launch
<1>2. runner'[r].pc = "working" /\ \A q \in DispatchId : q # r => runner'[q] = runner[q]
  BY <1>1 DEF Launch, Shape, RunnersOK
<1>3. \A b \in Actor : b # a => task'[b] = task[b]
  BY DEF Launch, Shape, TasksOK
<1>4. task'[a].pc = "launched" /\ task'[a].row = r /\ task'[a].decision = task[a].decision
  BY DEF Launch, Shape, TasksOK, Task
<1>5. \A b \in Actor : b # a /\ task[b].pc = "prepare" => task[b].row # r
  BY <1>1 DEF PreparedApart
<1>6. \A b \in Actor : task[b].pc \in {"prepare", "launched"} => task[b].row \in DispatchId
  BY TaskRow
<1> HIDE DEF r
<1>7. \A d : Launched(d) => Launched(d)'
  BY <1>1, <1>2 DEF Launched
<1>8. CursorOnlyAfterLaunch'
  BY <1>1, <1>7, CursorStays
<1>9. Mine(a) /\ (row[r].status \in InFlight \/ row[r].healed)
  BY <1>1 DEF Prepared, r
<1>10. row[r].status # "absent"
  BY <1>9 DEF Mine, r
<1>11. NoRunnerBeforeRow'
  BY <1>1, <1>2, <1>10 DEF NoRunnerBeforeRow
<1>12. Prepared'
  BY <1>1, <1>2, <1>3, <1>4, <1>5, <1>6 DEF Prepared, Mine
<1>13. PreparedApart'
  BY <1>3, <1>4 DEF PreparedApart
<1>14. Mine(a)'
  BY <1>1, <1>4, <1>9 DEF Mine, r
<1>15. Running'
  BY <1>1, <1>2, <1>3, <1>4, <1>6, <1>7, <1>14 DEF Running, Mine
<1>16. OrphanOnlyByHeal'
  BY <1>1, <1>2, <1>9, StatusTypes DEF OrphanOnlyByHeal, Busy
<1> QED
  BY <1>8, <1>11, <1>12, <1>13, <1>15, <1>16

\* The row fails only under the task that prepares it, before it has a runner.
LEMMA StartFailsOwner ==
  ASSUME Shape, Owner, NEW a \in Actor, StartFails(a)
  PROVE  Owner'
<1> USE DEF Owner
<1> DEFINE r == task[a].row
<1>1. r \in DispatchId /\ task[a].pc = "prepare" /\ runner' = runner /\ cursor' = cursor
  BY TaskRow DEF StartFails
<1>2. \A b \in Actor : TaskKept(b)
  BY ReturnKept DEF StartFails
<1>3. CASE row' = row
  BY <1>1, <1>2, <1>3, SameKept, Quiet
<1>4. CASE Accepts(row[r].status, "FailStart") /\ SetStatus(r, "FailStart")
  <2>1. RowKept(r) /\ \A q \in DispatchId : q # r => row'[q] = row[q]
    BY <1>1, <1>4, AcceptedKeeps, StatusTypes DEF Shape
  <2>2. task'[a].pc \notin {"prepare", "launched", "ok"}
    BY DEF StartFails, ReturnInFlight, ReturnError, Step, At, Idle, Shape, TasksOK
  <2>3. \A b \in Actor : b # a /\ task[b].pc = "prepare" => task[b].row # r
    BY <1>1 DEF PreparedApart
  <2>4. \A b \in Actor : task[b].pc \in {"prepare", "launched"} => task[b].row \in DispatchId
    BY TaskRow
  <2>5. runner[r].pc = "none"
    BY <1>1 DEF Prepared
  <2> HIDE DEF r
  <2>6. \A d : Launched(d) => Launched(d)'
    BY <1>1, <2>1, LaunchedStays
  <2>7. CursorOnlyAfterLaunch'
    BY <1>1, <2>6, CursorStays
  <2>8. NoRunnerBeforeRow'
    BY <1>1, <2>1 DEF NoRunnerBeforeRow, RowKept
  <2>9. Prepared'
    BY <1>1, <1>2, <2>1, <2>2, <2>3, <2>4 DEF Prepared, Mine, TaskKept
  <2>10. PreparedApart'
    BY <1>2 DEF PreparedApart, TaskKept
  <2>11. Running'
    BY <1>1, <1>2, <2>1, <2>4, <2>6 DEF Running, Mine, TaskKept, RowKept
  <2>12. OrphanOnlyByHeal'
    BY <1>1, <2>1, <2>5 DEF OrphanOnlyByHeal, Busy
  <2> QED
    BY <2>7, <2>8, <2>9, <2>10, <2>11, <2>12
<1> QED
  BY <1>3, <1>4 DEF StartFails

LEMMA MarkRunningOwner ==
  ASSUME Shape, Owner, NEW a \in Actor, MarkRunning(a)
  PROVE  Owner'
<1> USE DEF Owner
<1> DEFINE r == task[a].row
           d == task[a].decision
<1>1. /\ r \in DispatchId /\ task[a].pc = "launched" /\ runner' = runner /\ cursor' = cursor
      /\ Accepts(row[r].status, "MarkRunning") /\ SetStatus(r, "MarkRunning")
  BY TaskRow DEF MarkRunning
<1>2. RowKept(r) /\ \A q \in DispatchId : q # r => row'[q] = row[q]
  BY <1>1, AcceptedKeeps, StatusTypes DEF Shape
<1>3. row'[r].status = "running"
  <2>1. Reduce(row[r].status, "MarkRunning") = "running"
    BY <1>1 DEF Accepts, Reduce, Rejected
  <2> QED
    BY <1>1, <2>1 DEF SetStatus, Shape, RowsOK, DispatchRow
<1>4. \A q \in DispatchId : row'[q] = row[q] \/ RowHeld(q)
  BY <1>2, <1>3 DEF RowHeld, InFlight
<1>5. task'[a].pc = "ok" /\ task'[a].decision = d /\ \A b \in Actor : b # a => task'[b] = task[b]
  BY DEF MarkRunning, Step, At, Shape, TasksOK
<1>6. Launched(d)
  BY <1>1 DEF Launched, Running, Mine
<1>7. \A b \in Actor : task[b].pc \in {"prepare", "launched"} => task[b].row \in DispatchId
  BY TaskRow
<1> HIDE DEF r, d
<1>8. \A e : Launched(e) => Launched(e)'
  BY <1>1, <1>4, LaunchedStays DEF RowHeld
<1>9. CursorOnlyAfterLaunch'
  BY <1>1, <1>8, CursorStays
<1>10. NoRunnerBeforeRow'
  BY <1>1, <1>4 DEF NoRunnerBeforeRow, RowHeld, RowKept
<1>11. Prepared'
  BY <1>1, <1>4, <1>5, <1>7 DEF Prepared, Mine, RowHeld, RowKept
<1>12. PreparedApart'
  BY <1>5 DEF PreparedApart
<1>13. Running'
  BY <1>1, <1>4, <1>5, <1>6, <1>7, <1>8 DEF Running, Mine, RowHeld, RowKept
<1>14. OrphanOnlyByHeal'
  BY <1>1, <1>4, StatusTypes DEF OrphanOnlyByHeal, Busy, RowHeld
<1> QED
  BY <1>9, <1>10, <1>11, <1>12, <1>13, <1>14

\* The cursor moves to a decision whose runner was launched.
LEMMA DispatchOkOwner ==
  ASSUME Shape, Owner, NEW a \in Actor, DispatchOk(a)
  PROVE  Owner'
<1> USE DEF Owner
<1>1. Launched(task[a].decision)
  BY DEF DispatchOk, Running
<1>2. row' = row /\ runner' = runner
  BY DEF DispatchOk
<1>3. \A b \in Actor : TaskKept(b)
  BY OneTaskKept DEF DispatchOk, Idle, At
<1>4. \A i \in Issues, p \in Roles : cursor'[i][p] \in {cursor[i][p], task[a].decision}
  BY DEF DispatchOk, Shape, CursorOK
<1>5. CursorOnlyAfterLaunch'
  BY <1>1, <1>2, <1>4 DEF CursorOnlyAfterLaunch, Launched
<1>6. NoRunnerBeforeRow' /\ OrphanOnlyByHeal'
  BY <1>2 DEF NoRunnerBeforeRow, OrphanOnlyByHeal, Busy
<1>7. Prepared' /\ PreparedApart'
  BY <1>2, <1>3 DEF Prepared, PreparedApart, Mine, TaskKept
<1>8. Running'
  BY <1>2, <1>3 DEF Running, Mine, TaskKept, Launched
<1> QED
  BY <1>5, <1>6, <1>7, <1>8

\* A runner that records how it ended exits with the same step.
LEMMA FinalizeOwner ==
  ASSUME Shape, Owner, NEW r \in DispatchId, NEW event \in Outcomes, FinalizeRow(r, event)
  PROVE  Owner'
<1> USE DEF Owner
<1>1. RowKept(r) /\ \A q \in DispatchId : q # r => row'[q] = row[q]
  BY AcceptedKeeps, OutcomesAreEvents DEF FinalizeRow, Shape
<1>2. runner'[r].pc = "exited" /\ \A q \in DispatchId : q # r => runner'[q] = runner[q]
  BY DEF FinalizeRow, Exited, Shape, RunnersOK, Runner
<1>3. runner[r].pc \in {"working", "finalizing"} /\ task' = task /\ cursor' = cursor
  BY DEF FinalizeRow, Finalizes
<1>4. \A b \in Actor : task[b].pc \in {"prepare", "launched"} => task[b].row \in DispatchId
  BY TaskRow
<1>5. \A d : Launched(d) => Launched(d)'
  BY <1>1, <1>2, <1>3, LaunchedStays
<1>6. CursorOnlyAfterLaunch'
  BY <1>3, <1>5, CursorStays
<1>7. NoRunnerBeforeRow'
  BY <1>1, <1>2 DEF NoRunnerBeforeRow, RowKept
<1>8. Prepared'
  BY <1>1, <1>2, <1>3, <1>4 DEF Prepared, Mine
<1>9. PreparedApart'
  BY <1>3 DEF PreparedApart
<1>10. Running'
  BY <1>1, <1>2, <1>3, <1>4, <1>5 DEF Running, Mine, RowKept
<1>11. OrphanOnlyByHeal'
  BY <1>1, <1>2 DEF OrphanOnlyByHeal, Busy
<1> QED
  BY <1>6, <1>7, <1>8, <1>9, <1>10, <1>11

-----------------------------------------------------------------------------
(* All steps.                                                              *)

LEMMA TaskStepOwner ==
  ASSUME Shape, Owner, NEW a \in Actor, TaskStep(a) \/ TaskFault(a)
  PROVE  Owner'
<1>1. CASE SeeNoneInFlight(a)
  BY <1>1, StepKept, SameKept, Quiet DEF SeeNoneInFlight
<1>2. CASE SeeInFlight(a)
  <2>1. \A b \in Actor : TaskKept(b)
    BY <1>2 DEF SeeInFlight, TaskKept, Shape, TasksOK, Task
  <2> QED
    BY <1>2, <2>1, SameKept, Quiet DEF SeeInFlight
<1>3. CASE KeepInFlight(a) \/ ReserveRefused(a) \/ HealTooLate(a)
  BY <1>3, ReturnKept, SameKept, Quiet DEF KeepInFlight, ReserveRefused, HealTooLate
<1>4. CASE MarkRunningRejected(a) \/ DenyPolicy(a) \/ FetchFails(a)
  BY <1>4, ReturnKept, SameKept, Quiet DEF MarkRunningRejected, DenyPolicy, FetchFails
<1>5. CASE HealInFlight(a)
  <2>1. \A q \in DispatchId : row'[q] = row[q] \/ RowHeld(q)
    BY <1>5, TaskRow, HealHeld DEF HealInFlight
  <2> QED
    BY <1>5, <2>1, StepKept, SameKept, Quiet DEF HealInFlight
<1>6. CASE ClientDisconnect(a)
  <2>1. \A b \in Actor : TaskKept(b)
    BY <1>6, OneTaskKept DEF ClientDisconnect, Idle, At
  <2> QED
    BY <1>6, <2>1, SameKept, Quiet DEF ClientDisconnect
<1> QED
  BY <1>1, <1>2, <1>3, <1>4, <1>5, <1>6, ReserveOwner, LaunchOwner, StartFailsOwner,
     MarkRunningOwner, DispatchOkOwner DEF TaskStep, TaskFault

LEMMA ArrivalOwner ==
  ASSUME Shape, Owner, Arrival
  PROVE  Owner'
<1>1. \A b \in Actor : TaskKept(b)
  <2>1. ASSUME NEW d \in DecisionId, task' = [task EXCEPT ![d] = At("plan", d)]
        PROVE  \A b \in Actor : TaskKept(b)
    BY <2>1, OneTaskKept DEF At, Actor
  <2> QED
    BY <2>1, SameKept DEF Arrival, WebhookDecision, TimerDecision
<1> QED
  BY <1>1, SameKept, Quiet DEF Arrival, WebhookDecision, TimerDecision

LEMMA QueueOwner ==
  ASSUME Shape, Owner, QueueStep
  PROVE  Owner'
<1>1. CASE ListHeads
  BY <1>1, SameKept, Quiet DEF ListHeads
<1>2. ASSUME NEW d \in DecisionId, TakeHead(d) PROVE Owner'
  <2>1. \A b \in Actor : TaskKept(b)
    BY <1>2, OneTaskKept DEF TakeHead, At, Actor
  <2> QED
    BY <1>2, <2>1, SameKept, Quiet DEF TakeHead
<1>3. CASE PurgeIssue
  <2>1. \A b \in Actor : TaskKept(b)
    BY <1>3, OneTaskKept DEF PurgeIssue, Idle, At, Actor
  <2> QED
    BY <1>3, <2>1, SameKept, Quiet DEF PurgeIssue
<1> QED
  BY <1>1, <1>2, <1>3 DEF QueueStep

LEMMA RunnerOwner ==
  ASSUME Shape, Owner, NEW r \in DispatchId, RunnerStep(r) \/ RunnerDies(r) \/ Age(r)
  PROVE  Owner'
<1> RunnersOK /\ RowsOK
  BY DEF Shape
<1>1. ASSUME runner' = [runner EXCEPT ![r] = Exited(r)], Busy(r)
      PROVE  \A q \in DispatchId : RunnerKept(q)
  BY <1>1 DEF RunnersOK, Runner, Exited, RunnerKept, Busy
<1>2. ASSUME runner' = [runner EXCEPT ![r] = TryingAgain(r)], Busy(r)
      PROVE  \A q \in DispatchId : RunnerKept(q)
  BY <1>2 DEF RunnersOK, Runner, TryingAgain, RunnerKept, Busy
<1>3. ASSUME NEW event \in Outcomes, FinalizeEnded(r, event) \/ FinalizeRejected(r, event)
      PROVE  Owner'
  <2>1. Busy(r)
    BY <1>3 DEF FinalizeEnded, FinalizeRejected, Finalizes, Busy
  <2>2. \A q \in DispatchId : RunnerKept(q)
    BY <1>1, <1>2, <1>3, <2>1 DEF FinalizeEnded, FinalizeRejected
  <2> QED
    BY <1>3, <2>2, SameKept, Quiet DEF FinalizeEnded, FinalizeRejected
<1>4. CASE RunnerDies(r)
  <2>1. \A q \in DispatchId : RunnerKept(q)
    BY <1>1, <1>4 DEF RunnerDies
  <2> QED
    BY <1>4, <2>1, SameKept, Quiet DEF RunnerDies
<1>5. CASE Age(r)
  <2>1. \A q \in DispatchId : row'[q] = row[q] \/ RowHeld(q)
    BY <1>5, StatusTypes DEF Age, RowsOK, DispatchRow, RowHeld, RowKept
  <2> QED
    BY <1>5, <2>1, SameKept, Quiet DEF Age
<1> QED
  BY <1>3, <1>4, <1>5, FinalizeOwner DEF RunnerStep

LEMMA OrchdOwner ==
  ASSUME Shape, Owner, Crash \/ Boot \/ SweepStep
  PROVE  Owner'
<1>1. CASE Crash
  <2>1. \A b \in Actor : TaskKept(b)
    BY <1>1 DEF Crash, TaskKept, Idle, At
  <2>2. \A r \in DispatchId : RunnerKept(r)
    BY <1>1 DEF Crash, RunnerKept, Busy, Shape, RunnersOK, Runner
  <2> QED
    BY <1>1, <2>1, <2>2, Quiet DEF Crash
<1>2. CASE Boot \/ SweepDone
  BY <1>2, SameKept, Quiet DEF Boot, SweepDone
<1>3. ASSUME NEW s \in sweep, SweepKeep(s) \/ SweepAborts(s) PROVE Owner'
  BY <1>3, SameKept, Quiet DEF SweepKeep, SweepAborts
<1>4. ASSUME NEW s \in sweep, SweepHeal(s) PROVE Owner'
  <2>1. s.row \in DispatchId
    BY DEF Shape, OrchdOK
  <2>2. \A q \in DispatchId : row'[q] = row[q] \/ RowHeld(q)
    BY <1>4, <2>1, HealHeld DEF SweepHeal
  <2> QED
    BY <1>4, <2>2, SameKept, Quiet DEF SweepHeal
<1> QED
  BY <1>1, <1>2, <1>3, <1>4 DEF SweepStep

LEMMA InitOwner == Init => Owner
BY DEF Init, Owner, NoRunnerBeforeRow, Prepared, PreparedApart, Running, OrphanOnlyByHeal,
       CursorOnlyAfterLaunch, Busy, Idle, At

LEMMA NextOwner ==
  ASSUME Shape, Owner, [Next]_vars
  PROVE  Owner'
<1>1. CASE UNCHANGED vars
  BY <1>1, SameKept, Quiet DEF vars
<1>2. CASE Next
  BY <1>2, ArrivalOwner, TaskStepOwner, QueueOwner, RunnerOwner, OrchdOwner DEF Next
<1> QED
  BY <1>1, <1>2

\* Every reserved row has one task that may fail it or launch its runner.
THEOREM OwnerHolds == Spec => []Owner
<1>1. Shape /\ Owner /\ [Next]_vars => Owner'
  BY NextOwner
<1> QED
  BY <1>1, InitOwner, ShapeHolds, PTL DEF Spec

\* The row of a runner at work ends under it only by a heal: no failed start, no other
\* runner's finalize and no restart ends it.
THEOREM OrphansAreHealed == Spec => []OrphanOnlyByHeal
BY OwnerHolds, PTL DEF Owner

\* A cursor stands only on a decision whose runner was launched.
THEOREM CursorFollowsLaunch == Spec => []CursorOnlyAfterLaunch
BY OwnerHolds, PTL DEF Owner

=============================================================================
