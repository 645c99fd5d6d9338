# forgejo-agent in TLA+

forgejo-agent runs coding agents on the issues of a Forgejo server. Its daemon,
`orchd`, receives webhooks, decides which comments are orders, and starts one
`orchd run-dispatch` process per order; the process runs codex, lands the branch and
records how the run ended. `forgejoctl` is the command line the agents and humans use on
issues. All state that must survive is in one SQLite file and in Forgejo itself (issues,
labels, branches, pull requests).

The modules here model that program from its Rust source. `PROJECT.json` maps every
definition to the lines it stands for, and names the runs, the hazards and the theorems.

## 1. Inventory

Paths are under `src/src/`, `orchd/` stands for `bin/orchd/`.

| component | code | state | operations | what makes it hard |
|---|---|---|---|---|
| dispatch state machine | `orchd_dispatch_core.rs` | none (pure) | `reduce_dispatch_state` | every late event must be refused |
| dispatch orchestration | `orchd/dispatch.rs` | rows of `dispatches`, a lock file, a worktree, the runner | plan, heal, reserve, materialize, launch, mark running | many awaits between a check and its use; external probes; a start that is slower than its staleness limit |
| store | `orchd/db.rs`, `orchd/migrations.rs` | 12 tables | one transaction per function | several processes open the file; statuses are guarded by the reducer |
| server | `orchd/server.rs` | none of its own | webhook handler, queue loop, deploy loop, reconcile loop, startup heal | the loops and one task per request interleave; a dropped request drops its task |
| run-dispatch | `orchd/run_dispatch.rs` | the run directory | run codex, finalize with retries | outlives orchd; may die at any point |
| finalization and landing | `orchd/finalize.rs` | branch, pull request, row, labels, comments | push, PR, fast-forward merge, rebase, terminal transaction, projections | partial failure between Git, Forgejo and SQLite; repeated at each retry |
| runtime labels | `orchd/projection.rs`, `orchd/lexicon.rs` | `orchd/state/*` labels | replace the label set | read, then replace, by several processes |
| webhook ingest | `orchd/webhook.rs`, `orchd/server.rs` | `events`, `decisions`, trigger claims | verify, record, decide, claim, guard | redelivery, crash between two inserts, limits checked before the insert |
| deploy queue | `orchd/deploy.rs`, `orchd/db.rs` | `deploy_jobs` | enqueue on push, reconcile the head, claim, deploy, restart | late and repeated pushes; a deploy restarts its own process |
| scheduler | `orchd/schedule.rs`, `orchd/timer.rs` | slot claims, timer contexts | tick, claim a slot, create an issue, persist a decision | a process of its own; check before claim; crash between issue and decision |
| notifications, inquisition | `orchd/notifier.rs`, `orchd/inquisition.rs` | once-only records | comment, open an issue | the record and the side effect are two steps |
| automerge, reconcile | `orchd/server.rs` | pull requests, issues | merge, close finished issues | act on what a run is landing |
| roles, prompts | `orchd/role.rs`, `orchd/prompt.rs`, `orchd/reading_material.rs` | files, `issue_role_cursors` | compose the prompt | the comments since the role's cursor must be complete |
| configuration | `orchd/dispatch_config*.rs`, `orchd/state.rs` | the loaded configuration | load, validate, reload | the last good configuration must survive a bad one |
| workflow policy | `main.rs`, `policy.rs`, `types.rs` | workflow, owner and lease labels | claim, transition, close | read, check, then write over HTTP |
| API client | `api.rs`, `config.rs` | none | HTTP requests | pure I/O |

How they meet: a webhook becomes an event and a decision; the webhook's own task and,
for whatever stays pending, the queue loop call `dispatch_issue`; that inserts a
`dispatches` row in status `starting`, starts a runner and moves the row to `running`;
the runner moves it to a terminal status. The `dispatches` table is the only thing that
keeps two agents off one issue, and one repository from getting two `impl` runs. The
scheduler is a separate process that inserts decisions into the same file; runners are
separate processes that write to the same file and survive a crash of orchd.

What makes each component correct, in one line each:

- dispatch: one row in flight per issue and one `impl` row per repository, rows end once,
  no decision is stranded, no comment is skipped by a cursor that moved too early;
- finalization: a run is recorded once; what is recorded agrees with what has landed;
- labels: when nothing moves, an issue's runtime label is that of its latest dispatch;
- ingest: one decision per delivered order, and a limit is a limit under concurrency;
- deploy: a stable head is deployed in the end, no job is abandoned, a failed one is
  reported once;
- scheduler: at most one issue per slot, at most `max_inflight` active per timer;
- notifications: no report twice, none lost;
- workflow policy: only the listed transitions, one lease holder.

## 2. Plan

The core comes first because every other component either feeds it or hangs from it.
Written, in this order:

1. `DispatchCore`, `Dispatch`, with `DispatchClaims` as its abstract specification,
   `DispatchProofs`.
2. `DeployQueue` with `DeployProofs`: the job's life, the schema guard, the script's
   rollback, the incident issue, a store that fails.
3. `TriggerRules` and `WebhookIngest`: what an event asks for, and the path from a
   delivery to a decision's row; `TriggerProofs` and `IngestProofs`.
4. `IssueLabels`: everybody who writes the labels of an issue, forgejoctl included;
   `LabelProofs`.
5. `Landing`: what becomes of a finished branch, with the automerge sweep beside it;
   `LandingProofs`.
6. `DispatchConfig` (over `TriggerRules`) and `Schedule`: the configuration, its reload,
   the timers that run under it and the decisions it permits; `ScheduleProofs`.
7. `Notifications` (over `DispatchCore`): what people are told; `NotificationProofs`.

Which module composes which:

| module | extends | meets the rest through |
|---|---|---|
| `Dispatch` | `DispatchCore` | decisions (made by `WebhookIngest` and `Schedule`), terminal events (decided by `Landing`) |
| `WebhookIngest` | `TriggerRules` | accepted decisions |
| `Schedule` | `DispatchConfig`, `TriggerRules` | decisions, ends of runs |
| `Notifications` | `DispatchCore` | the rows and their ends |
| `Landing`, `IssueLabels`, `DeployQueue` | none | Forgejo: branches, pull requests, labels |

Left, in this order: the creation of a role (`role.rs`), whose steps are a saga over
files and accounts; the composition of the whole of `Landing` with the whole of
`Dispatch`. What matters of it, a heal that meets a landing that goes on, is in `Landing`,
which has its own slow starts and heals. Modules to be proved about use no RECURSIVE
operator, and none of the modules here declares one.

## 3. The modules

**DispatchCore** is `reduce_dispatch_state` as an operator. `Rejected` is the
`TransitionError`; `Accepts` is what `plan_dispatch_transition` asks before each write.

**Dispatch** is the dispatch path. One action is one stretch of code between two points
where another task or process can run: an await, a transaction, an external command.

| variable | in the program |
|---|---|
| `decision` | table `decisions`: accepted, or ignored after a purge; the number is the id and so the order of arrival |
| `row` | table `dispatches`; `old` says that `started_at` is 120 s back, `healed` that the reason is `stale_dispatch_autohealed` |
| `runner` | the `run-dispatch` process of a row: working, finalizing with its attempts, exited; `child` for a zombie of the local backend |
| `task` | the program counter of `dispatch_issue` and its caller, one per webhook task (the actor with the decision's number) and one for the queue loop (actor 0), with the row it looked at and the status it saw |
| `batch` | what `queued_issue_head_decisions` returned and the loop has not taken yet |
| `cursor` | table `issue_role_cursors` |
| `orchd`, `sweep`, `crashes` | whether the daemon is up, the list of its startup heal, and the bound on crashes |

A *lane* is the triple (actor, directive, target role), the key by which pending entries
are coalesced. `ImplLanes` are those of the directive `impl`.

Life of a dispatch: `WebhookDecision` or `TimerDecision` persists it; the task looks for
an in-flight row (`SeeNoneInFlight`, `SeeInFlight`), judges it outside any transaction
(`KeepInFlight`, `HealInFlight`, `HealTooLate`), fetches the issue, and reserves
(`Reserve`, `ReserveRefused`). From then on the row belongs to the task only by
convention: `Launch` starts the runner without rereading it, `MarkRunning` asks the
reducer. The runner ends with `FinalizeRow`, `FinalizeEnded` or, when the reducer
refuses, `FinalizeRejected`, which is tried `MaxFinalizeTries` times. The caller's
branches are actions too: `DispatchOk` moves the cursor, `ReturnInFlight` leaves the
decision pending, `ReturnError` makes the queue loop purge the issue (`PurgeIssue`) and
the webhook task leave it to the queue.

Faults are switched on by name in `Faults`: a policy check that denies, a probe that
errs, a failing fetch, a failing start, a runner that dies, a client that hangs up.
`Crash` stops orchd between any two steps and loses its tasks; `Boot` lists the in-flight
rows, and the sweep judges each one.

**DispatchClaims** says what the table promises without orchd: a row is a claim, made
once while nobody holds the issue (and, in an impl lane, the repository), given up once.
`Dispatch` implements it under the mapping `ClaimOf`: `starting` and `running` are held.

**MCDispatch**, **MCDispatchSafe** and **MCDispatchLive** give TLC its instances.
**DispatchProofs** holds the theorems (section 6); each other module that ends in `Proofs`
holds those of the module it extends.

**DeployQueue** is how orchd deploys itself.

| variable | in the program |
|---|---|
| `head`, `webhooks` | the branch on the server, and push webhooks on their way |
| `job` | table `deploy_jobs`, by its unique target sha: status, and the rowid that orders the queue |
| `schema` | the highest version in table `schema_migrations` |
| `loop` | where `run_deploy_loop` stands (reconcile, compare, claim, deploying, script, installing, installed, broken, told, or down) and with which commit |
| `installed`, `snapshot`, `live` | the commits whose binaries are on disk, in the script's snapshot, and running |
| `restart`, `up` | the pending `systemctl restart`, and whether orchd is up |
| `mishaps` | the bound on crashes, failures of a good script and failed writes |
| `incident` | whether the issue about a failed job was opened, or its creation failed |
| `unrecorded`, `overtaken` | history: jobs whose end was not written; whether a tick migrated the database under a running script |

`Push` and `Lose` are the environment, `Deliver` is `enqueue_push_event`. An iteration of
the loop is `ReadHead`, `Reconcile`, `Claim`, `Guard` (the schema check), `Install` and
`ScriptPasses`, and `Succeed`; or a failure, `OpenIncident` and `Fail`. Reading the head
is a step apart from the comparison, because webhook tasks run in between. `Succeed` asks
for a restart, which takes effect at any later step (`Restart`); `ScriptFails` restores the
snapshot and restarts orchd from within the script that orchd waits for; `Boot` migrates
and requeues what was running. `Tick` is a scheduler process of the newly installed
binary, which migrates the database that it opens. Commits are numbered as they are made,
each with the schema version it knows (`SchemaOf`); those in `Bad` have a script that
always fails. Without the fault `revert` the branch moves forward only, and without `late`
a webhook comes before the next push or not at all. **MCDeploy** gives the schemas: the
first commit migrates the database and the second one takes the migration back, so that
the guard has something to refuse.

**TriggerRules** is `webhook.rs` as operators: `ParseDirective` of a text (a sequence of
lines, a line being what its tokens are), the guards (`trigger_guards_hold`), the order of
candidates (`prefer_candidate`), and the legacy trigger list; `ConfiguredTriggers` is what
a configured list may be. **WebhookIngest** is `process_webhook` up to the
decision.

| variable | in the program |
|---|---|
| `world` | what each delivery carries, the triggers, the requests at once, the bounds; constant in a behaviour |
| `events`, `claims`, `decisions` | the tables `events`, `trigger_dispatch_dedupes`, `decisions`, in id order |
| `task` | the requests: received, decided, claimed, and what each has read for the guardrails |
| `sends`, `cut`, `now` | bound on sends; requests cut short; the clock of window and cooldown |

Each store call is a step: `Receive`, `Decide`, `Claim`, the three reads of the guardrail
statistics and `InsertDecision`; `Cut` is an error or a crash between any two of them.

**IssueLabels** is one issue and everybody who writes it.

| variable | in the program |
|---|---|
| `labels`, `open` | the issue on the server: `state/*`, `orchd/state/*`, `claimed/*`, `done/*`, hold |
| `proc` | each process: the command of its script that it is at, and the HTTP calls left of it |
| `holds` | processes whose claim succeeded and that have not released it; history |
| `faulted` | processes one of whose calls failed, or that died |
| `world` | which processes meet |

A command is an action that reads the issue and leaves the calls it will make from what it
read (`ClaimIssue`, `ConfirmClaim`, `ReleaseIssue`, `Transition`, `Blocker`, `CloseIssue`,
`ReopenIssue`, `ProjectRuntimeState`, `ResetWorkflow`, `Reconcile`); each call is a step of
its own (`AddLabel`, `DropLabel`, `ReplaceLabels`, `SetOpenState`, `Retract`). The server
replaces the other labels of an exclusive scope, which is how the labels are created;
`claimed/*` is not exclusive, and a claim is settled by reading it back. `LabelWorlds`
says which programs may meet: each claims for one agent of its own, if at all, nobody adds,
drops or releases the claim of another, and on an issue that is claimed orchd does not write
back whole label sets (section 7 says what happens otherwise).

**Landing** is `finalize.rs` from the end of codex to the record.

| variable | in the program |
|---|---|
| `base`, `tracking` | a repository's base branch, a sequence of changes; and as the role's checkout last fetched it |
| `branch`, `pr` | the pushed branch and the pull request of a dispatch in a repository |
| `row`, `work` | the dispatch in the store, and its runner: place, repository, worktree heads, lease, attempt |
| `sweep` | the pull request that the automerge sweep has listed |
| `disturbed`, `budget` | history of disturbed dispatches; the bounds |

A dispatch is started at once (`Start`) or slowly: `Reserve` puts its row in the table,
`Launch` starts the runner without rereading the row, `MarkRunning` asks the reducer,
before or after the runner has ended. A heal takes a row for `Stale` when it is running
and its runner is gone, or when it is starting, 120 s old by then, whether or not its
launch or its runner goes on (`orchd/dispatch.rs:435`): such a row has no backend to be
asked. A heal comes before another dispatch of the issue (`HealBeforeLaunch`,
`orchd/dispatch.rs:620`) or when orchd starts (`HealAtStartup`, `orchd/dispatch.rs:657`).

A runner goes `Inspect`, `ListPrs`, `Push`, `FindOrCreatePr`, `Merge`, on a refusal
`Rebase`, `ForcePush` and `MergeAgain`, then `ListSuperseded`, `CloseSuperseded` and
`Record`, which leaves a healed row alone; with a sidecar it does so there first. A record
that the reducer refuses (`RecordRejected`) or the store (`RecordFails`) is a `Repeat` of
the whole landing. `CallFails`, `RecordFails`, `MergeAnswerLost`, `StartFails` and `Crash`
are the faults, `SweepLists` and `SweepMerges` the automerge loop, `OthersPush` people. A
sidecar worktree that the agent did not
touch is a *quiet* sidecar (`QuietSidecar`): it is skipped because its head is the base,
and that is compared with the base as last fetched.

**DispatchConfig** is the loader as an operator, `Loads` and `Compiled`, with the access
rules (`actor_can_dispatch`, `target_can_execute`) and `PlanOutcome`, which is what
`plan_dispatch` says of a decision under a configuration. `IsText` and `IsTimer` are the
types of the file's structures. **Schedule** runs under it.

| variable | in the program |
|---|---|
| `file`, `cards` | the text on disk (0 while unreadable) and the role cards beside it |
| `live`, `lastGood`, `lastError` | orchd's configuration, and `DispatchConfigReloadState` |
| `claims`, `issues`, `events`, `decisions`, `context` | `schedule_claims`, the run issues on the server, schedule events, decisions, `timer_contexts` |
| `tick` | the tick processes: the systemd unit's and a person's |
| `now`, `world`, `spent`, `lost` | the clock; the world; bounds; slots whose tick died after its claim |

A tick loads the configuration anew (`Begin`) and for each timer does `Count`, `FindSlot`,
`Claim`, `Seed`, `ReadContext`, `ResetContext`, `CreateIssue`, `InsertEvent`,
`InsertDecision`, `Annotate`; `GiveUp`, `FailEarly`, `NoBody`, `FailLate` and `Kill` are
the ends in between, some of which give the claim back. `Reload` is orchd's watcher,
`Plan` and `EndRun` stand for `Dispatch`, and `RecordCompletion` is what the runner
records in the timer's context. `Comment` is a decision by a trigger under `live`.

**Notifications** is what orchd tells people.

| variable | in the program |
|---|---|
| `dispatches`, `replies` | table `dispatches` (status, issue, task); comments in table `events` that count as replies |
| `deliveries` | table `notification_deliveries`: its keys |
| `loop` | `run_notification_loop`: the two baselines, a pass over replies and one over phases |
| `report` | runners and webhook tasks on their way to an audit issue or a comment |
| `mishaps`, `shown`, `posted`, `repeated`, `lost` | bound and history |

The loop shows (`Show`), then records (`RecordShown`); the reports record (`Record`), then
post (`Post`). `LookUp` is the webhook task that failed and asks for the issue's latest
dispatch.

The MC modules give TLC its instances; where a run needs several unrelated situations they
are *worlds*, chosen in the initial state and constant from there.

## 4. The runs

Arrivals are bounded, and most systems stop when they are used up: there deadlock is not
checked, and liveness is. `DeployQueue` never stops, and its runs check deadlock.

| run | instance | shows |
|---|---|---|
| `safe` | worlds `race` (2 issues of a repository, 2 lanes, starts fail, runners die) and `crash` (1 issue, every fault, a crash of orchd); 2 decisions, 2 rows | exclusion per issue and repository; rows end once; a working runner loses its row only to a heal; cursors follow launches; refinement of the claims |
| `live` | worlds `webhooks` (webhook tasks against the queue loop) and `restart` (scheduled decisions, all faults, a crash); 2 decisions, 3 rows | every decision gets a row or is purged |
| `ingest` | repeated deliveries, also under new ids, by 2 requests; 3 comments through the guardrails; every event of a small world against 4 trigger lists | one decision per delivery, one dispatch per comment and trigger; a limit is exceeded by at most one per other request; the best trigger decides |
| `labels` | 3 workers; workers, one that closes, a reopening human; an issue without state; orchd's writers, a hold and the reconcile scan | one holder, no unexplained claim, one workflow state, a finished issue is closed |
| `landing` | an issue dispatched twice; a dispatch whose sidecar is another's repository, and one whose sidecar is quiet; a fault, a push by others, a sweep, a slow start | what is recorded completed has landed; a failure that landed has a cause; every row ends unless its runner is gone and nothing more waits for its issue |
| `schedule` | 7 worlds: two ticks on a slot, room for two runs, a shared context, a timer without order, two series of edits, comments | one run per slot; the in-flight limit is overrun only by overlapping ticks; a session stays with its role; a refusal follows an edit; due slots are served; orchd follows the file |
| `deploy_faults` | 2 commits, the first with the newer schema, every fault, 3 mishaps | no running job abandoned or repeated, no failure unreported, orchd can start, what counts as deployed was not replaced, a stable head is deployed |
| `notifications` | worlds `loop` (replies, failing sends and writes, restarts) and `reports` (runners and a webhook task); 2 rows, 2 mishaps, 1 notification per pass | nothing recorded is told twice, a failure has its audit issue, an end after startup is told |
| `slow_start`, `coalesced`, `landing_supersede`, `deploy_failure` | the smallest that shows it | section 7 |

Why these bounds meet the interesting cases:

- *Dispatch.* Exclusion needs two claimants of one issue and two issues of one repository;
  a heal race needs a row that is given up and a second that replaces it. A decision takes
  at most two rows, one by its webhook task and one by the queue loop that listed it
  before, and coalescing needs two decisions of a lane; `live` has three rows, and no step
  of it is cut off. `MaxFinalizeTries` is 8 in the code and 1 or 2 here: one refused
  attempt followed by another is what differs. `HeadLimit` is the code's 10 and never met.
  `Outcomes` holds those terminal events that the reducer treats differently for a starting
  row. Symmetry over issues is used in `safe`, whose issues share a repository and which
  checks no liveness.
- *Ingest.* Two requests are the least that can read statistics before either inserts; the
  bounds in `DepthNearlyHolds` are stated for any number. The clock passes a window and a
  cooldown. The rules are checked for every event that the small alphabet of lines, actors,
  assignees and conversations can form, after nothing or a role's comment.
- *Labels.* A claim can be lost to a claim and won by neither; three workers also let one
  retract while another confirms. One fault per world lets any one call fail or any one
  process die; two processes that fail independently are not explored.
- *Landing.* Two dispatches are the least that meet on a base branch, and one push by
  others between a rebase and the merge exhausts the single rebase. Pushes, faults and
  sweeps meet in pairs, and a slow start meets a fault. One slow start and the next
  dispatch of its issue are the least for a heal that overtakes a runner and a second
  runner beside it. `MaxAttempts` and
  `MaxTries` are 2: a retry after a record that was refused, and after an undecided merge.
- *Schedule.* Time has two or three slots, a tick may overlap one other, and an edit comes
  before, during or after a tick. Jitter is a table of delays.
- *Deploy.* With two commits a job is deployed while another waits, or is interrupted and
  requeued; three mishaps interrupt the job that a first interruption requeued, and let the
  store fail as well.
- *Notifications.* Two rows on an issue and one on the audit repository's; a pass limit of
  1 makes every second candidate wait; two mishaps allow a failed write followed by a
  restart.

## 5. Fairness

- `Dispatch`: each task's own steps are weakly fair (tokio runs what is ready), so are the
  queue loop (an endless interval), each runner's end (a run is bounded by `timeout_sec`,
  finalization by its attempts), the clock (`Age`), and the restart of orchd and its sweep
  (a service manager restarts it). A probe may err at any time but not each time the queue
  asks, hence strong fairness of the queue's `HealInFlight`.
- `DeployQueue`: the loop, the pending restart and the boot are weakly fair; the remote
  answers now and then, hence strong fairness of `ReadHead`. No webhook is fair: liveness
  rests on the reconciliation.
- `WebhookIngest`: `Work(t)`, the request's own steps. `IssueLabels`: `Work(p)`, each
  process's own calls. `Landing`: a start that was reserved goes on to its launch and a
  runner runs on (`Launch` or `Land`), and the queue loop, which never ends, tries a
  dispatch that waits again and again, each time looking at the row in flight
  (`HealBeforeLaunch`). No restart of orchd is assumed, nor that a started runner is marked.
- `Schedule`: time passes, orchd watches its file and is started again, systemd starts its
  tick, a tick that runs goes on, and orchd dispatches what is pending.
- `Notifications`: the loop's steps and the start of orchd; the bound on mishaps is what
  makes a send succeed in the end.

Faults, arrivals, crashes and people are never fair.

Premises of the liveness properties that the code does not ensure:

- `DecisionsSettle` is checked on one issue. Across issues it would be false: an impl row
  of a dead runner is healed only by a dispatch of its own issue or by a restart, and until
  then blocks the impl lane of its repository. No document promises more.
- `HeadRunsUnlessOvertaken` needs the head's job to stay the youngest: when a webhook comes
  after the next push, or a reconcile enqueues the head it read before a push, an older
  commit gets the younger job and is deployed last, and the head, which has its job, is
  never deployed again. The same happens after a forced push back to a deployed commit.
- `HeadJobEnds` and `HeadRunsUnlessOvertaken` need scripts that can pass and an installed
  binary that can open the database (`Recoverable`): a `Bad` commit is retried for ever.
- `EndsRecorded` promises no end to a row whose runner is gone when nothing more waits for
  its issue: there is no periodic heal. Such a row is healed at the next dispatch of the
  same issue (`orchd/dispatch.rs:620`) or when orchd starts (`orchd/dispatch.rs:657`), and
  neither need come. That a waiting dispatch is tried assumes that it is among the ten
  heads that the queue loop takes up (`orchd/server.rs:1131`), and that a dead runner is
  seen to be dead.
- `EndIsTold` is satisfied by any reply of the issue that was ever shown, not only by one
  of the pass that made the phase silent.
- `DueTimersRun` excludes a timer whose order is missing or that a broken timer precedes.

## 6. What is proved

`DispatchProofs` proves, for all values of the constants that satisfy
`DispatchConstants` (any numbers of issues, repositories, lanes, decisions, rows and
crashes, any faults and either backend):

| theorem | statement |
|---|---|
| `TypeCorrect` | `Spec => []TypeOK` |
| `InFlightExclusion` | `Spec => []ExclusiveInFlight`; `IssueExclusion` and `RepoExclusion` are its two halves |
| `Finality` | `Spec => EndedRowsAreFinal` |
| `Refinement` | `Spec => ImplementsClaims` |

The argument has two layers. `Shape` is an inductive invariant of its own: the types,
plus what the program counters mean (a task that judges has a row and a status it saw, a
task that launches has a row that was inserted, a busy runner has attempts left, a row
that was inserted has an issue and a lane). On top of it one lemma, `RowStep`, reads off
every action what it does to the table: nothing but ageing, or one insertion of a free
row whose issue and, in an impl lane, repository nobody holds, or one move of one
in-flight row to a status the reducer gave. Exclusion, finality and refinement then
follow from `RowStep` without looking at the actions again. `Shape` is needed because an
action names a row through its task, and the row of a task is in the table only by the
meaning of the program counter.

`DeployProofs` does the same for `DeployQueue` under `DeployConstants` (any commits,
schemas, bad scripts, faults and mishaps):

| theorem | statement |
|---|---|
| `DeployTypeCorrect` | `Spec => []TypeOK` |
| `NoJobAbandoned` | `Spec => []RunningJobIsWorked` |
| `LatestDeployedIsRight` | `Spec => []LatestDeployedNotReplaced` |
| `SchemaGuardSuffices` | `Spec => []StartsUnlessOvertaken` |
| `FailuresAreReported` | `Spec => []FailedIsReported` |
| `NoSecondIncident` | `Spec => EndedJobsStayEnded` |

Its inductive invariant adds the order of the rows: ended jobs lie below active ones, the
running one below the queued ones, at most one is running even while orchd is down, and
what is installed is no older than any success whose end was recorded. The order is what
makes "the success with the highest row" mean "the last deployed". For the schema guard it
adds what each place of the loop knows: a script that runs was let through by the guard,
and the database has not moved since unless a tick moved it.

About the runners it proves, under the same assumptions:

| theorem | statement |
|---|---|
| `OwnerHolds` | `Spec => []Owner`, the inductive invariant |
| `OrphansAreHealed` | `Spec => []OrphanOnlyByHeal` |
| `CursorFollowsLaunch` | `Spec => []CursorOnlyAfterLaunch` |

`Owner` says who may still do what with a row: a row that was not inserted has no runner;
between reservation and launch the row belongs to one task, has no runner, and only a heal
can have ended it; a task that has launched names a row with a runner. Without it nothing
in the state excludes that a task fails the row whose runner another one started.

`TriggerProofs` and `IngestProofs` are about every world of `WebhookIngest`, under
`IngestConstants` (a configured list of triggers has the types of its structure; a limit is
at least 1) and `NoneIsNoOutcome`:

| theorem | statement |
|---|---|
| `WinnerIsBest` | the trigger that `decide`'s loop leaves is one that matches, and no other that matches is preferred to it, for a list of any length |
| `ShapeHolds` | `Spec => []Shape`: types, and what a request has decided of its event |
| `DecidedOnce` | `Spec => []DecidedAtMostOnce` |
| `BestTriggerDecides` | `Spec => []BestTriggerWins` |
| `ReplyGoesToConversation` | `Spec => []ReplyFollowsConversation` |
| `FiresOnce` | `Spec => []TriggerFiresOnce` |
| `CooldownHolds` | `Spec => []CooldownKeepsApart` |
| `DepthHolds` | `Spec => []DepthNearlyHolds` |

The loop is a recursive function over positions; that it has a value and what the value is
follow from the least position at which the claim would fail. On `Shape` rest four
invariants: an event has one request or one decision, never both (`Answered`); a key of
`trigger_dispatch_dedupes` has one request that holds it or one accepted decision
(`KeysOK`); a request that passed the cooldown compared its clock with every decision
inserted before it began (`ClockOK`); and the requests that were let through by the depth
limit, counted with the decisions that exist, exceed it by no more than the other requests
(`DepthOK`). The last one is a counting argument on finite sets.

`LandingProofs` is about `Landing` under `LandingConstants` (any dispatches and
repositories, any commits, dirty worktrees, pushes, faults and sweeps):

| theorem | statement |
|---|---|
| `LandingHolds` | `Spec => []Inv` |
| `CompletionHasLanded` | `Spec => []CompletedIsLanded` |
| `FailureHasNotLanded` | `Spec => []FailureIsTold` |

The excuses of `FailureIsTold` are part of the theorem: a call that failed, a runner that
died, a heal that took the row, the sweep, or a quiet sidecar. The heal is an excuse also
where nothing failed: the runner of a slow start goes on beside the row that was healed,
lands, and `Record` leaves the row as it is (section 7). What the theorem denies is that a
dispatch that met none of these lands and reads failed, in particular by a record that the
store or the reducer refused and that was repeated.

`Inv` has three parts, beside a row that has a runner only if it was reserved (`RowHeld`):
how branches and pull requests agree with the base branches
(`Forge`), what a runner has established where it is (`RunnerOK`), and that the repetition
of a landing that has landed can only end in a success (`TellOK`). The last one failed for
a dispatch with a quiet sidecar, and TLC showed why: an earlier formulation of
`FailureIsTold` was wrong, which is now in the definition, in the `landing` run and in
section 7.

`NotificationProofs` is about `Notifications` under `NotificationConstants`, for any numbers
of dispatches, tasks, replies and mishaps:

| theorem | statement |
|---|---|
| `NotificationsHold` | `Spec => []Inv` |
| `ToldOnce` | `Spec => []ToldTwiceOnlyIfUnrecorded` |
| `FailuresAudited` | `Spec => []FailureIsAudited` |

In `Inv`, who is about to post holds the only right to its key, and the loop has nothing
on its list that was recorded (`NewsOK`); the key of a failure is recorded by its runner or
by a task that says so (`RunnerOK`, `TasksOK`). `FailuresAudited` is about failures that a
runner has reported, and it has the excuses of its definition: a report that was lost on
its way, and a key that a webhook task of the same issue took (`orchd/server.rs:966`). A
row that a heal has failed and a start that failed in the queue loop are reported by
nobody, and the theorem says nothing of them.

`ScheduleProofs` is about `Schedule` under `ScheduleWorlds`, which asks only that texts
have the types of the file's structures and that orchd could start with the first one: any
texts, cards, edits and faults, two ticks.

| theorem | statement |
|---|---|
| `ScheduleHolds` | `Spec => []Inv` |
| `SlotDecidedOnce` | `Spec => []OneRunPerSlot` |
| `SessionKeepsRole` | `Spec => []SessionStaysWithRole` |
| `AcceptedIsPlanned` | `Spec => []RefusedOnlyAfterEdit` |
| `InflightLimitHolds` | `Spec => OverrunOnlyByOverlap` |

`SlotsOK` says who may still open an issue or decide for a claimed slot: two ticks never
hold the same one, a tick that has not decided has no decision, a tick that has not heard
of its issue has none that was heard of. `DecisionsOK` and `ContextsOK` say from which
configuration a decision comes and from which decision a session. The properties then
follow from what the loader has checked: lemmas about `Loads` and `Compiled` carry the
checks of a text to the timers and triggers that ran under it (`ContextHasRole`,
`PlanOfTimer`, `LiteralKnown`). `InflightLimitHolds` adds `Slack`: from the count to the
decision a tick that was not overtaken has room for one more.

`LabelProofs` is about every world of `IssueLabels` that `LabelWorlds` and `LabelConstants`
allow: any number of programs, of any length, any failures. `LabelWorlds` keeps the whole
label sets that orchd writes away from issues that are claimed, so what follows about
claims (`ClaimExclusiveHolds`, `OrphansExplainedHolds`, `QuietIsReadyHolds`) holds where
workers meet other workers and `forgejoctl` commands; beside orchd's writers a removed
claim can come back (section 7).

| theorem | statement |
|---|---|
| `LabelsHold` | `Spec => [](Base /\ WorkersOK /\ StateOK)` |
| `ClaimExclusiveHolds` | `Spec => []ClaimExclusive` |
| `OneWorkflowStateHolds` | `Spec => []OneWorkflowState` |
| `OrphansExplainedHolds` | `Spec => []OrphansExplained` |
| `QuietIsReadyHolds` | `Spec => []QuietIsReady` |

A command leaves calls behind that are carried out later, so the invariants speak of the
calls. `Base` bounds what a call that is left may do: it adds or removes no claim but the
process's own, a set that is about to be written has one state, and a holder has nothing
left that takes its claim away before its release. A second holder is then impossible:
the first one's claim is on the issue when the second reads it back. `WorkersOK` lists
the places of a worker with what it has on the issue there. For `QuietIsReady` neither
suffices, because a release clears the state and sets it again by two calls, between which
others read: `StateOK` says that an issue without a state has a worker that is about to add
one, and an issue in progress a holder or a worker that is about to make it ready.

In every module the constants that stand for "nothing" (`None`, `NoTask`, ...) are assumed
to differ from what they stand beside; TLC evaluates these assumptions in the runs.

Only model-checked: all liveness
(`DecisionsSettle`, `HeadJobEnds`, `HeadRunsUnlessOvertaken`, `EventsAreDecided`,
`EventuallyStated`, `FinishedIsClosed`, `EndsRecorded`, `DueTimersRun`, `ConfigCatchesUp`,
`EndIsTold`), since liveness under fairness is out of the prover's reach.

## 7. Disagreements with the documents

- `slow_start` refutes "one active dispatch per issue (duplicates blocked while running)"
  (`src/README.md:170`): a start that takes more than 120 s is healed by the next attempt
  on the issue, which launches a second runner; the first launch is not called off.
- `coalesced` refutes "pending entries coalesced to the latest" (`src/README.md:171`): an
  older entry is hidden only while the newer one is pending, and is dispatched after it.
- `landing_supersede` refutes the comment that a landing posts, "Superseded by ... after
  successful re-dispatch" (`orchd/finalize.rs:218`): in a sidecar repository the branch
  token matches the issue number only (`orchd/finalize.rs:172`), and a landing closes the
  pull request of that repository's own issue of the same number.
- `deploy_failure` refutes "deploy failures trigger rollback-safe handling and auto-open a
  self-healing issue" (`src/README.md:168`): the rollback of a script that fails restarts the orchd that waits
  for it (`scripts/deploy-local.sh:97`), before it can open the issue; the startup requeues
  the job and the loop deploys it again, for ever.

Seen while modelling, without a run of their own:

- The webhook task dispatches its own decision past an older pending one
  (`orchd/server.rs:881`), where the README promises a FIFO head per issue
  (`src/README.md:171`).
- `schedule tick --manual` "forces an immediate run" (`src/README.md:285`), but
  returns quietly when `max_inflight` is reached (`orchd/schedule.rs:200`).
- The row of a start that takes more than 120 s is healed while its launch or its runner
  goes on (`orchd/dispatch.rs:435`). The runner then lands its branch and leaves the row
  alone (`orchd/run_dispatch.rs:479`): it reads failed, as `stale_dispatch_autohealed`,
  although the work is on the base branch.
- A dispatch that was started before another one of its issue and lane and moves the cursor
  after it moves it backwards (`orchd/db.rs:1119`).
- A delivery that was cut between its event and its decision is a duplicate when it is
  sent again (`orchd/server.rs:758`): the directive is lost.
- `max_age_sec` of a timer's context never triggers: the seed refreshes `updated_at` just
  before it is read (`orchd/schedule.rs:236`, `orchd/db.rs:984`).
- The loader checks a timer's principal, while `plan_dispatch` asks the allow list for
  orchd itself; a timer with `impl` and no binding loads; role cards are not part of the
  reload digest; an error in one timer ends the tick for those after it.
- A runner that finishes before the webhook task projects `running` leaves that label; the
  projection overwrites `state/done`; the reconcile scan closes an issue that was moved to
  review after it was listed, and adds `state/triage` over a state given meanwhile
  (`orchd/server.rs:1354`).
- A worker whose release fails after it took its claim off, or whose calls fail between
  the claim and the state, leaves an issue in progress that nobody holds
  (`main.rs:936`); it stays so until a person frees it.
- Dispatches that end while orchd starts, those of its own heal included, are below the
  notification baseline and never shown. A shown reply makes the later phases of that pass
  silent. A failed webhook task files its audit issue under the issue's latest dispatch
  (`orchd/server.rs:966`), so it is swallowed when that one was audited before, or takes
  the key of a newer one. An audit issue whose creation failed is never retried.
- A landing whose sidecar repository has nothing to land fails at its repetition when
  another dispatch fetched a newer base of that repository meanwhile: the head of the
  untouched worktree then differs from the base (`orchd/finalize.rs:374`), the branch is
  refused, and a dispatch whose own repository has landed is recorded as failed.
- The projection of the runtime state writes back the whole label set that it read
  (`orchd/projection.rs:180`, `orchd/projection.rs:242`), so it can take back a claim that was added meanwhile, or
  restore one that was removed; the claims of `forgejoctl worker` are exclusive only on
  issues that orchd does not dispatch.
- A deploy whose end was not recorded is deployed again after a restart and may replace a
  newer commit, and one that failed and was interrupted after its issue was opened opens a
  second one (`orchd/deploy.rs:667`); a script that passed but whose log could not be
  written counts as failed.

## 8. Not modelled

- Roles, sessions and prompts (`role.rs`, `prompt.rs`, `reading_material.rs`): reading of
  files and composition of texts; the cursor they depend on is in `Dispatch`, the timers'
  sessions in `Schedule`.
- The Forgejo client, the command line, bootstrap, telemetry, the stand-in for codex:
  requests, parsing and formatting without a protocol of their own.
- In the modelled parts: signatures and payload parsing, prompts, texts of issues and
  comments, which identity writes, worktrees and the lock file, pruning, the SQL of the
  migrations (their order and the version check are in `DeployQueue`).
- In `Dispatch`, landing is a free choice of the terminal event, and a client that hangs up
  while the launch command itself is running is left out; the drop is possible at every
  other await.
