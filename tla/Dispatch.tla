------------------------------ MODULE Dispatch ------------------------------
(***************************************************************************)
(* orchd's dispatch path: decisions persisted by webhooks and timers, the  *)
(* webhook tasks and the single queue loop that both try to dispatch them  *)
(* (dispatch_issue), the dispatches table they race on, the healing of     *)
(* stale rows, the runner processes that outlive orchd, and orchd's crash  *)
(* and restart.  Labels, lock files and the run itself are left out.       *)
(*                                                                         *)
(* One action is one stretch of code between two points where another      *)
(* process or task can run: an await, a database transaction, an external  *)
(* command.                                                                *)
(***************************************************************************)
EXTENDS Integers, FiniteSets, DispatchCore

CONSTANTS
  Issues,            \* issues, each of one repository
  Repos,             \* repositories
  RepoOf,            \* [Issues -> Repos]
  Lanes,             \* (actor, directive, target role) triples: the key of coalescing
  ImplLanes,         \* the lanes whose directive is impl
  Roles,             \* target roles
  RoleOf,            \* [Lanes -> Roles]
  Backend,           \* --dispatch-backend: "systemd" or "local"
  Sources,           \* where decisions come from: "webhook", "timer"
  Faults,            \* the environment faults this instance allows
  Outcomes,          \* the ways a run can end in this instance
  MaxDecisions,      \* bound: decisions ever persisted
  MaxDispatches,     \* bound: dispatch rows ever inserted
  MaxCrashes,        \* bound: crashes of orchd
  MaxFinalizeTries,  \* finalize_with_retries: max_attempts (8 in the code)
  HeadLimit,         \* dispatch_queue_once: queued_issue_head_decisions limit (10)
  NoIssue, NoLane    \* the columns of a row that does not exist yet

FaultKinds == {"policy", "probe", "fetch", "start", "runner", "disconnect"}

\* The terminal events terminal_spec_from_outcome can pick.
TerminalEvent == {"Complete", "Block", "FailRuntime", "Timeout"}

ASSUME DispatchConstants ==
  /\ RepoOf \in [Issues -> Repos]
  /\ ImplLanes \subseteq Lanes
  /\ RoleOf \in [Lanes -> Roles]
  /\ NoIssue \notin Issues /\ NoLane \notin Lanes
  /\ Backend \in {"systemd", "local"}
  /\ Sources \subseteq {"webhook", "timer"}
  /\ Faults \subseteq FaultKinds
  /\ Outcomes \subseteq TerminalEvent
  /\ MaxDecisions \in Nat /\ MaxDispatches \in Nat /\ MaxCrashes \in Nat
  /\ MaxFinalizeTries \in Nat \ {0} /\ HeadLimit \in Nat \ {0}

VARIABLES
  decision,  \* table decisions
  row,       \* table dispatches
  runner,    \* run-dispatch processes, one per row at most
  task,      \* dispatch_issue and its caller, per actor
  batch,     \* heads the queue loop has listed and not yet taken
  cursor,    \* table issue_role_cursors
  orchd,     \* "up", "down", or "sweep" during the startup heal
  sweep,     \* rows the startup heal has listed and not yet judged
  crashes    \* crashes so far

vars == <<decision, row, runner, task, batch, cursor, orchd, sweep, crashes>>

-----------------------------------------------------------------------------
DecisionId == 1..MaxDecisions
DispatchId == 1..MaxDispatches

\* The queue loop is actor 0; the webhook task that persisted decision d is actor d.
Queue == 0
Actor == {Queue} \cup DecisionId

\* would_dispatch = 1 is "accepted"; a purged decision is "ignored".
DecisionRecord == [state: {"absent", "accepted", "ignored"},
                   issue: Issues \cup {NoIssue}, lane: Lanes \cup {NoLane}]

\* old: started_at lies at least STARTING_DISPATCH_STALE_AFTER_SEC back.
\* healed: reason_code is stale_dispatch_autohealed.
DispatchRow == [status: DispatchState \cup {"absent"}, decision: 0..MaxDecisions,
                issue: Issues \cup {NoIssue}, lane: Lanes \cup {NoLane},
                old: BOOLEAN, healed: BOOLEAN]

\* child: a child process of the running orchd (local backend only).
Runner == [pc: {"none", "working", "finalizing", "exited"},
           tries: 0..MaxFinalizeTries, child: BOOLEAN]

\* seen: the status the in-flight query returned.
Task == [pc: {"idle", "plan", "look", "judge", "fetch", "prepare", "launched", "ok", "poisoned"},
         decision: 0..MaxDecisions, row: 0..MaxDispatches, seen: InFlight \cup {"none"}]

At(pc, d) == [pc |-> pc, decision |-> d, row |-> 0, seen |-> "none"]

Idle == At("idle", 0)

\* Every variable has its type; in particular no runner tries to finalize more often
\* than finalize_with_retries allows.
TypeOK ==
  /\ decision \in [DecisionId -> DecisionRecord]
  /\ row \in [DispatchId -> DispatchRow]
  /\ runner \in [DispatchId -> Runner]
  /\ task \in [Actor -> Task]
  /\ batch \subseteq DecisionId
  /\ cursor \in [Issues -> [Roles -> 0..MaxDecisions]]
  /\ orchd \in {"up", "down", "sweep"}
  /\ sweep \subseteq [row: DispatchId, seen: InFlight]
  /\ crashes \in 0..MaxCrashes

Init ==
  /\ decision = [d \in DecisionId |-> [state |-> "absent", issue |-> NoIssue, lane |-> NoLane]]
  /\ row = [r \in DispatchId |->
              [status |-> "absent", decision |-> 0, issue |-> NoIssue, lane |-> NoLane,
               old |-> FALSE, healed |-> FALSE]]
  /\ runner = [r \in DispatchId |->
                 [pc |-> "none", tries |-> 0, child |-> FALSE]]
  /\ task = [a \in Actor |-> Idle]
  /\ batch = {}
  /\ cursor = [i \in Issues |-> [p \in Roles |-> 0]]
  /\ orchd = "up"
  /\ sweep = {}
  /\ crashes = 0

-----------------------------------------------------------------------------
(* What the queries read.                                                  *)

InFlightRow(r) == row[r].status \in InFlight

IssueInFlight(i) == {r \in DispatchId : InFlightRow(r) /\ row[r].issue = i}

RepoImplInFlight(i) ==
  {r \in DispatchId : /\ InFlightRow(r)
                      /\ row[r].lane \in ImplLanes
                      /\ RepoOf[row[r].issue] = RepoOf[i]}

Pending ==
  {d \in DecisionId : /\ decision[d].state = "accepted"
                      /\ \A r \in DispatchId : row[r].decision # d}

Coalesced ==
  {d \in Pending : \E n \in Pending : /\ n > d
                                      /\ decision[n].issue = decision[d].issue
                                      /\ decision[n].lane = decision[d].lane}

\* Per issue the smallest pending id that no newer entry of its lane replaces.
Heads ==
  {d \in Pending \ Coalesced :
     \A e \in Pending \ Coalesced : decision[e].issue = decision[d].issue => d <= e}

ListedHeads == {d \in Heads : Cardinality({e \in Heads : e < d}) < HeadLimit}

Busy(r) == runner[r].pc \in {"working", "finalizing"}

\* probe: systemctl sees a unit until it exits; kill -0 also sees a zombie, and
\* orchd never waits for the local runners it spawns.
ProbedAlive(r) ==
  \/ Busy(r)
  \/ runner[r].pc = "exited" /\ runner[r].child

\* Mutants: a dead runner, or an abandoned start, is never found out.
StaleStartingOnly(r, seen) == seen = "starting" /\ row[r].old
StaleRunningOnly(r, seen) == seen = "running" /\ ~ProbedAlive(r)

\* should_heal_dispatch_stale on a row that was read with status seen
Stale(r, seen) == IF seen = "running" THEN ~ProbedAlive(r) ELSE row[r].old

\* A probe that errs counts as alive.
Kept(r, seen) == ~Stale(r, seen) \/ ("probe" \in Faults /\ seen = "running")

-----------------------------------------------------------------------------
(* What the transactions write.                                            *)

SetStatus(r, event) == row' = [row EXCEPT ![r].status = Reduce(row[r].status, event)]

HealRow(r) ==
  row' = [row EXCEPT ![r].status = Reduce(row[r].status, "HealStale"), ![r].healed = TRUE]

\* The task forgets what it looked at and goes on with its decision.
Step(a, pc) == task' = [task EXCEPT ![a] = At(pc, task[a].decision)]

\* IssueDispatchInFlight: webhook and queue both leave the decision pending.
ReturnInFlight(a) == task' = [task EXCEPT ![a] = Idle]

\* Any other error: the webhook leaves the decision pending, the queue goes on to purge.
ReturnError(a) == IF a = Queue THEN Step(a, "poisoned") ELSE ReturnInFlight(a)

IssueOf(a) == decision[task[a].decision].issue
LaneOf(a) == decision[task[a].decision].lane

-----------------------------------------------------------------------------
(* Arrival of decisions.                                                   *)

PersistDecision(d, i, l) ==
  /\ decision[d].state = "absent"
  /\ \A e \in DecisionId : e < d => decision[e].state # "absent"
  /\ decision' = [decision EXCEPT ![d] = [state |-> "accepted", issue |-> i, lane |-> l]]

\* process_webhook up to insert_decision; the task goes on to dispatch_issue.
WebhookDecision(d, i, l) ==
  /\ "webhook" \in Sources
  /\ orchd = "up"
  /\ PersistDecision(d, i, l)
  /\ task' = [task EXCEPT ![d] = At("plan", d)]
  /\ UNCHANGED <<row, runner, batch, cursor, orchd, sweep, crashes>>

\* `orchd schedule tick` is a process of its own: the decision waits for the queue loop.
TimerDecision(d, i, l) ==
  /\ "timer" \in Sources
  /\ PersistDecision(d, i, l)
  /\ UNCHANGED <<row, runner, task, batch, cursor, orchd, sweep, crashes>>

-----------------------------------------------------------------------------
(* dispatch_issue and plan_dispatch.                                       *)

\* Allowlist, rank ACL, directive, role and repo binding checks.
DenyPolicy(a) ==
  /\ "policy" \in Faults
  /\ task[a].pc = "plan"
  /\ ReturnError(a)
  /\ UNCHANGED <<decision, row, runner, batch, cursor, orchd, sweep, crashes>>

\* find_issue_inflight_dispatch_with_healing: latest_issue_inflight_dispatch finds none,
SeeNoneInFlight(a) ==
  /\ task[a].pc \in {"plan", "look"}
  /\ IssueInFlight(IssueOf(a)) = {}
  /\ Step(a, "fetch")
  /\ UNCHANGED <<decision, row, runner, batch, cursor, orchd, sweep, crashes>>

\* or returns the row with the highest id.
SeeInFlight(a) ==
  /\ task[a].pc \in {"plan", "look"}
  /\ \E r \in IssueInFlight(IssueOf(a)) :
       /\ \A q \in IssueInFlight(IssueOf(a)) : q <= r
       /\ task' = [task EXCEPT ![a] = [@ EXCEPT !.pc = "judge", !.row = r, !.seen = row[r].status]]
  /\ UNCHANGED <<decision, row, runner, batch, cursor, orchd, sweep, crashes>>

\* Mutant: the cursor moves although another dispatch has the issue.
KeepMovesCursor(a) ==
  /\ task[a].pc = "judge"
  /\ Kept(task[a].row, task[a].seen)
  /\ cursor' = [cursor EXCEPT ![IssueOf(a)] = [@ EXCEPT ![RoleOf[LaneOf(a)]] = task[a].decision]]
  /\ ReturnInFlight(a)
  /\ UNCHANGED <<decision, row, runner, batch, orchd, sweep, crashes>>

\* The row is reported when it is not stale, or when the probe cannot tell.
KeepInFlight(a) ==
  /\ task[a].pc = "judge"
  /\ Kept(task[a].row, task[a].seen)
  /\ ReturnInFlight(a)
  /\ UNCHANGED <<decision, row, runner, batch, cursor, orchd, sweep, crashes>>

\* A stale row is healed, and the loop looks again.
HealInFlight(a) ==
  /\ task[a].pc = "judge"
  /\ Stale(task[a].row, task[a].seen)
  /\ Accepts(row[task[a].row].status, "HealStale")
  /\ HealRow(task[a].row)
  /\ Step(a, "look")
  /\ UNCHANGED <<decision, runner, batch, cursor, orchd, sweep, crashes>>

\* The row ended after it was read: mark_dispatch_failed_runtime returns an error.
HealTooLate(a) ==
  /\ task[a].pc = "judge"
  /\ Stale(task[a].row, task[a].seen)
  /\ ~Accepts(row[task[a].row].status, "HealStale")
  /\ ReturnError(a)
  /\ UNCHANGED <<decision, row, runner, batch, cursor, orchd, sweep, crashes>>

\* The session, lock, fetch_issue and prompt history reads before the reservation.
FetchFails(a) ==
  /\ "fetch" \in Faults
  /\ task[a].pc = "fetch"
  /\ ReturnError(a)
  /\ UNCHANGED <<decision, row, runner, batch, cursor, orchd, sweep, crashes>>

\* Mutant: one of the two conditions is lost.
BlockedByRepoOnly(i, l) == l \in ImplLanes /\ RepoImplInFlight(i) # {}

\* The two in-flight conditions of reserve_dispatch_starting.
Blocked(i, l) ==
  \/ IssueInFlight(i) # {}
  \/ l \in ImplLanes /\ RepoImplInFlight(i) # {}

ReserveRefused(a) ==
  /\ task[a].pc = "fetch"
  /\ Blocked(IssueOf(a), LaneOf(a))
  /\ ReturnInFlight(a)
  /\ UNCHANGED <<decision, row, runner, batch, cursor, orchd, sweep, crashes>>

StartingRow(a) ==
  [status |-> "starting", decision |-> task[a].decision, issue |-> IssueOf(a),
   lane |-> LaneOf(a), old |-> FALSE, healed |-> FALSE]

\* reserve_dispatch_starting is one immediate transaction.
Reserve(a) ==
  /\ task[a].pc = "fetch"
  /\ ~Blocked(IssueOf(a), LaneOf(a))
  /\ \E r \in DispatchId :
       /\ row[r].status = "absent"
       /\ \A q \in DispatchId : q < r => row[q].status # "absent"
       /\ row' = [row EXCEPT ![r] = StartingRow(a)]
       /\ task' = [task EXCEPT ![a] = [@ EXCEPT !.pc = "prepare", !.row = r]]
  /\ UNCHANGED <<decision, runner, batch, cursor, orchd, sweep, crashes>>

\* Mutant: an error reported after the launch counts as a failed start.
StartFailsAfterLaunch(a) ==
  /\ "start" \in Faults
  /\ task[a].pc \in {"prepare", "launched"}
  /\ IF Accepts(row[task[a].row].status, "FailStart")
     THEN SetStatus(task[a].row, "FailStart")
     ELSE UNCHANGED row
  /\ ReturnError(a)
  /\ UNCHANGED <<decision, runner, batch, cursor, orchd, sweep, crashes>>

\* A failing checkout, worktree, prompt or launch: fail_dispatch_start, whose
\* database error is dropped.
StartFails(a) ==
  /\ "start" \in Faults
  /\ task[a].pc = "prepare"
  /\ IF Accepts(row[task[a].row].status, "FailStart")
     THEN SetStatus(task[a].row, "FailStart")
     ELSE UNCHANGED row
  /\ ReturnError(a)
  /\ UNCHANGED <<decision, runner, batch, cursor, orchd, sweep, crashes>>

\* The backend starts the runner; nothing rereads the row first.
Launch(a) ==
  /\ task[a].pc = "prepare"
  /\ runner' = [runner EXCEPT ![task[a].row] =
                  [pc |-> "working", tries |-> 0, child |-> Backend = "local"]]
  /\ task' = [task EXCEPT ![a].pc = "launched"]
  /\ UNCHANGED <<decision, row, batch, cursor, orchd, sweep, crashes>>

\* Mutant: the status is set without asking the reducer.
MarkRunningUnguarded(a) ==
  /\ task[a].pc = "launched"
  /\ row' = [row EXCEPT ![task[a].row].status = "running"]
  /\ Step(a, "ok")
  /\ UNCHANGED <<decision, runner, batch, cursor, orchd, sweep, crashes>>

\* update_dispatch_running
MarkRunning(a) ==
  /\ task[a].pc = "launched"
  /\ Accepts(row[task[a].row].status, "MarkRunning")
  /\ SetStatus(task[a].row, "MarkRunning")
  /\ Step(a, "ok")
  /\ UNCHANGED <<decision, runner, batch, cursor, orchd, sweep, crashes>>

\* The row left "starting" under the launch; the runner is left to itself.
MarkRunningRejected(a) ==
  /\ task[a].pc = "launched"
  /\ ~Accepts(row[task[a].row].status, "MarkRunning")
  /\ ReturnError(a)
  /\ UNCHANGED <<decision, row, runner, batch, cursor, orchd, sweep, crashes>>

\* The caller's Ok branch, after its projection: move the role cursor.
DispatchOk(a) ==
  /\ task[a].pc = "ok"
  /\ cursor' = [cursor EXCEPT ![IssueOf(a)] = [@ EXCEPT ![RoleOf[LaneOf(a)]] = task[a].decision]]
  /\ task' = [task EXCEPT ![a] = Idle]
  /\ UNCHANGED <<decision, row, runner, batch, orchd, sweep, crashes>>

\* A webhook request whose client hung up is dropped at an await.
ClientDisconnect(a) ==
  /\ "disconnect" \in Faults
  /\ a # Queue
  /\ task[a].pc \in {"plan", "look", "fetch", "prepare", "ok"}
  /\ task' = [task EXCEPT ![a] = Idle]
  /\ UNCHANGED <<decision, row, runner, batch, cursor, orchd, sweep, crashes>>

-----------------------------------------------------------------------------
(* dispatch_queue_once.                                                    *)

ListHeads ==
  /\ orchd = "up"
  /\ task[Queue].pc = "idle"
  /\ batch = {}
  /\ Heads # {}
  /\ batch' = ListedHeads
  /\ UNCHANGED <<decision, row, runner, task, cursor, orchd, sweep, crashes>>

TakeHead(d) ==
  /\ task[Queue].pc = "idle"
  /\ d \in batch
  /\ \A e \in batch : d <= e
  /\ batch' = batch \ {d}
  /\ task' = [task EXCEPT ![Queue] = At("plan", d)]
  /\ UNCHANGED <<decision, row, runner, cursor, orchd, sweep, crashes>>

\* purge_pending_issue_decisions: a poisoned head takes the whole issue queue with it.
PurgeIssue ==
  /\ task[Queue].pc = "poisoned"
  /\ decision' = [d \in DecisionId |->
                    IF d \in Pending /\ decision[d].issue = IssueOf(Queue)
                    THEN [decision[d] EXCEPT !.state = "ignored"]
                    ELSE decision[d]]
  /\ task' = [task EXCEPT ![Queue] = Idle]
  /\ UNCHANGED <<row, runner, batch, cursor, orchd, sweep, crashes>>

-----------------------------------------------------------------------------
(* Runner processes (orchd run-dispatch) and the clock.                    *)

\* The run is over, or an attempt to record its end is repeated.  Each attempt lands
\* the branch anew, so the event of a run that completed may change; a run that timed
\* out is never rejected.
Finalizes(r, event) ==
  \/ runner[r].pc = "working"
  \/ runner[r].pc = "finalizing" /\ event # "Timeout"

Exited(r) == [runner[r] EXCEPT !.pc = "exited", !.tries = 0]

TryingAgain(r) == [runner[r] EXCEPT !.pc = "finalizing", !.tries = runner[r].tries + 1]

\* update_dispatch_terminal writes the event.
FinalizeRow(r, event) ==
  /\ Finalizes(r, event)
  /\ row[r].status \notin Terminal
  /\ Accepts(row[r].status, event)
  /\ SetStatus(r, event)
  /\ runner' = [runner EXCEPT ![r] = Exited(r)]
  /\ UNCHANGED <<decision, task, batch, cursor, orchd, sweep, crashes>>

\* Mutant: a row that has ended gets the outcome all the same.
FinalizeOverwrites(r, event) ==
  /\ Finalizes(r, event)
  /\ row[r].status \in Terminal
  /\ row' = [row EXCEPT ![r].status = Reduce("running", event)]
  /\ runner' = [runner EXCEPT ![r] = Exited(r)]
  /\ UNCHANGED <<decision, task, batch, cursor, orchd, sweep, crashes>>

\* A row that has ended is left as it is.
FinalizeEnded(r, event) ==
  /\ Finalizes(r, event)
  /\ row[r].status \in Terminal
  /\ runner' = [runner EXCEPT ![r] = Exited(r)]
  /\ UNCHANGED <<decision, row, task, batch, cursor, orchd, sweep, crashes>>

\* Mutant: no attempt is the last.
FinalizeRetriesForEver(r, event) ==
  /\ Finalizes(r, event)
  /\ row[r].status \notin Terminal
  /\ ~Accepts(row[r].status, event)
  /\ runner' = [runner EXCEPT ![r] = TryingAgain(r)]
  /\ UNCHANGED <<decision, row, task, batch, cursor, orchd, sweep, crashes>>

\* A rejected event is tried again until finalize_with_retries gives up.
FinalizeRejected(r, event) ==
  /\ Finalizes(r, event)
  /\ row[r].status \notin Terminal
  /\ ~Accepts(row[r].status, event)
  /\ runner' = [runner EXCEPT ![r] =
                  IF runner[r].tries + 1 < MaxFinalizeTries
                  THEN TryingAgain(r)
                  ELSE Exited(r)]
  /\ UNCHANGED <<decision, row, task, batch, cursor, orchd, sweep, crashes>>

\* A runner killed, or failing before it finalizes.
RunnerDies(r) ==
  /\ "runner" \in Faults
  /\ Busy(r)
  /\ runner' = [runner EXCEPT ![r] = Exited(r)]
  /\ UNCHANGED <<decision, row, task, batch, cursor, orchd, sweep, crashes>>

\* 120 seconds have passed since the row was inserted.
Age(r) ==
  /\ row[r].status = "starting"
  /\ ~row[r].old
  /\ row' = [row EXCEPT ![r].old = TRUE]
  /\ UNCHANGED <<decision, runner, task, batch, cursor, orchd, sweep, crashes>>

-----------------------------------------------------------------------------
(* Crash of orchd, and run_server's startup heal.                          *)

Crash ==
  /\ orchd # "down"
  /\ crashes < MaxCrashes
  /\ orchd' = "down"
  /\ crashes' = crashes + 1
  /\ task' = [a \in Actor |-> Idle]
  /\ batch' = {}
  /\ sweep' = {}
  /\ runner' = [r \in DispatchId |-> [runner[r] EXCEPT !.child = FALSE]]
  /\ UNCHANGED <<decision, row, cursor>>

\* list_inflight_dispatches
Boot ==
  /\ orchd = "down"
  /\ orchd' = "sweep"
  /\ sweep' = {s \in [row: DispatchId, seen: InFlight] : row[s.row].status = s.seen}
  /\ UNCHANGED <<decision, row, runner, task, batch, cursor, crashes>>

\* heal_stale_inflight_dispatches goes through the list by row id.
NextToSweep(s) == s \in sweep /\ \A t \in sweep : s.row <= t.row

SweepKeep(s) ==
  /\ NextToSweep(s)
  /\ Kept(s.row, s.seen)
  /\ sweep' = sweep \ {s}
  /\ UNCHANGED <<decision, row, runner, task, batch, cursor, orchd, crashes>>

SweepHeal(s) ==
  /\ NextToSweep(s)
  /\ Stale(s.row, s.seen)
  /\ Accepts(row[s.row].status, "HealStale")
  /\ HealRow(s.row)
  /\ sweep' = sweep \ {s}
  /\ UNCHANGED <<decision, runner, task, batch, cursor, orchd, crashes>>

\* The row has ended since it was listed: the error abandons the rest of the sweep.
SweepAborts(s) ==
  /\ NextToSweep(s)
  /\ Stale(s.row, s.seen)
  /\ ~Accepts(row[s.row].status, "HealStale")
  /\ sweep' = {}
  /\ UNCHANGED <<decision, row, runner, task, batch, cursor, orchd, crashes>>

SweepDone ==
  /\ orchd = "sweep"
  /\ sweep = {}
  /\ orchd' = "up"
  /\ UNCHANGED <<decision, row, runner, task, batch, cursor, sweep, crashes>>

-----------------------------------------------------------------------------
\* The steps of one actor that the code takes by itself.
TaskStep(a) ==
  \/ SeeNoneInFlight(a) \/ SeeInFlight(a) \/ KeepInFlight(a) \/ HealInFlight(a) \/ HealTooLate(a)
  \/ ReserveRefused(a) \/ Reserve(a) \/ Launch(a)
  \/ MarkRunning(a) \/ MarkRunningRejected(a) \/ DispatchOk(a)

TaskFault(a) == DenyPolicy(a) \/ FetchFails(a) \/ StartFails(a) \/ ClientDisconnect(a)

QueueStep == ListHeads \/ (\E d \in DecisionId : TakeHead(d)) \/ PurgeIssue

RunnerStep(r) ==
  \E event \in Outcomes :
    FinalizeRow(r, event) \/ FinalizeEnded(r, event) \/ FinalizeRejected(r, event)

SweepStep == (\E s \in sweep : SweepKeep(s) \/ SweepHeal(s) \/ SweepAborts(s)) \/ SweepDone

Arrival == \E d \in DecisionId, i \in Issues, l \in Lanes :
             WebhookDecision(d, i, l) \/ TimerDecision(d, i, l)

Next ==
  \/ Arrival
  \/ \E a \in Actor : TaskStep(a) \/ TaskFault(a)
  \/ QueueStep
  \/ \E r \in DispatchId : RunnerStep(r) \/ RunnerDies(r) \/ Age(r)
  \/ Crash
  \/ Boot
  \/ SweepStep

Spec == Init /\ [][Next]_vars

(***************************************************************************)
(* Fairness: tokio runs every ready task and the queue loop ticks for      *)
(* ever; a runner is bounded by timeout_sec and its finalize attempts;     *)
(* time passes; a service manager restarts orchd.  A probe may fail, but   *)
(* not at every tick of the queue, hence strong fairness of its healing.   *)
(***************************************************************************)
Fairness ==
  /\ \A a \in Actor : WF_vars(TaskStep(a))
  /\ WF_vars(QueueStep) /\ SF_vars(HealInFlight(Queue))
  /\ \A r \in DispatchId : WF_vars(RunnerStep(r)) /\ WF_vars(Age(r))
  /\ WF_vars(Boot)
  /\ WF_vars(SweepStep)

FairSpec == Spec /\ Fairness

-----------------------------------------------------------------------------
(* Properties.                                                             *)

\* At most one dispatch row of an issue is in flight, whatever the interleaving of
\* the webhook tasks, the queue loop, the heals and the runners that finalize
\* (reserve_dispatch_starting is the only gate).
OneInFlightPerIssue ==
  \A r, q \in DispatchId :
    InFlightRow(r) /\ InFlightRow(q) /\ row[r].issue = row[q].issue => r = q

\* At most one impl row of a repository is in flight, over all of its issues
\* (directive_serializes_repo in reserve_dispatch_starting).
OneImplInFlightPerRepo ==
  \A r, q \in DispatchId :
    /\ InFlightRow(r) /\ row[r].lane \in ImplLanes
    /\ InFlightRow(q) /\ row[q].lane \in ImplLanes
    /\ RepoOf[row[r].issue] = RepoOf[row[q].issue]
    => r = q

\* Both at once: what reserve_dispatch_starting promises of the rows in flight.
ExclusiveInFlight == OneInFlightPerIssue /\ OneImplInFlightPerRepo

\* A runner whose row has ended under it was declared stale by a heal: nothing else
\* (a failed start, another row's finalize, a restart) ends the row of a runner that
\* is still working or finalizing.
OrphanOnlyByHeal ==
  \A r \in DispatchId : Busy(r) /\ row[r].status \in Terminal => row[r].healed

\* A role's cursor names a decision only when a runner was launched for it, so that
\* no comment is left out of the next prompt's delta because of a launch that failed.
CursorOnlyAfterLaunch ==
  \A i \in Issues, p \in Roles :
    cursor[i][p] # 0 =>
      \E r \in DispatchId : row[r].decision = cursor[i][p] /\ runner[r].pc # "none"

\* A row that has ended stays as it ended: a late MarkRunning, a second heal, a
\* finalize after a heal and a fail_dispatch_start change nothing.
EndedRowsAreFinal ==
  [][\A r \in DispatchId : row[r].status \in Terminal => row'[r] = row[r]]_row

\* Every accepted decision eventually has a dispatch row or is purged, through runner
\* deaths, dropped webhook requests, probe errors and restarts of orchd.
DecisionsSettle ==
  \A d \in DecisionId : d \in Pending ~> d \notin Pending

(***************************************************************************)
(* The dispatches table as a set of claims.                                *)
(***************************************************************************)
Phase(status) ==
  CASE status = "absent" -> "free"
    [] status \in InFlight -> "held"
    [] OTHER -> "ended"

ClaimOf == [r \in DispatchId |->
              [phase |-> Phase(row[r].status), issue |-> row[r].issue, lane |-> row[r].lane]]

Claims == INSTANCE DispatchClaims WITH Rows <- DispatchId, claim <- ClaimOf

\* Every interleaving of orchd's tasks, runners, heals, crashes and restarts moves the
\* dispatches table only by making a claim nobody holds or by giving one up for good.
ImplementsClaims == Claims!Spec

-----------------------------------------------------------------------------
(* What README.md says of the dispatch path and the code does not keep.    *)

\* README.md: "one active dispatch per issue (duplicates blocked while running)".
OneRunnerPerIssue ==
  \A r, q \in DispatchId :
    /\ runner[r].pc = "working" /\ runner[q].pc = "working"
    /\ row[r].issue = row[q].issue
    => r = q

\* README.md: "same-actor + same-directive + same-target-role pending entries
\* coalesced to the latest": once the latest is dispatched, the entries it replaced
\* are not dispatched after it.
LatestOfLaneIsLast ==
  \A r, q \in DispatchId :
    /\ r < q
    /\ row[r].status # "absent" /\ row[q].status # "absent"
    /\ row[r].issue = row[q].issue /\ row[r].lane = row[q].lane
    => row[r].decision <= row[q].decision
=============================================================================
