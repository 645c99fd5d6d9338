----------------------------- MODULE DeployQueue -----------------------------
(***************************************************************************)
(* orchd's deployment of itself: push webhooks and the deploy loop's head  *)
(* reconciliation put jobs into deploy_jobs, the loop claims the oldest,   *)
(* checks out its commit, refuses one whose schema is older than the       *)
(* database's, runs scripts/deploy-local.sh and asks for a restart of      *)
(* orchd, whose startup migrates the database and requeues what was        *)
(* running.  A script that fails restores the binary it found and restarts *)
(* orchd itself.                                                           *)
(*                                                                         *)
(* One repository and one branch, as is_managed_repo and                   *)
(* deploy_branch_for_repo have it, and orchd runs as the systemd service   *)
(* of templates/orchd.service.                                             *)
(***************************************************************************)
EXTENDS Integers

CONSTANTS
  Shas,        \* the commits the branch can point to, numbered as they are made
  SchemaOf,    \* LATEST_SCHEMA_VERSION of each commit and of the first binary
  Bad,         \* the commits whose deploy script always fails
  Faults,      \* the environment faults this instance allows
  MaxMishaps   \* bound: crashes, failures of a good script, failed writes of the store

NoSha == 0

\* lost, late: webhooks.  revert: forced pushes.  remote: ls-remote.  checkout, log: the
\* deploy, before and after the script.  script: a good one fails.  issue: create_issue.
\* store: the end of a job, or the requeue, is not recorded.
FaultKinds ==
  {"lost", "late", "revert", "remote", "checkout", "log", "script", "issue", "store"}

ASSUME DeployConstants ==
  /\ Shas \subseteq Nat \ {NoSha}
  /\ SchemaOf \in [Shas \cup {NoSha} -> Nat]
  /\ Bad \subseteq Shas
  /\ Faults \subseteq FaultKinds
  /\ MaxMishaps \in Nat

VARIABLES
  head,        \* what the branch points to on the server
  webhooks,    \* push webhooks sent and not yet delivered
  job,         \* table deploy_jobs, UNIQUE in the target sha
  schema,      \* the version in table schema_migrations
  loop,        \* the deploy loop
  installed,   \* the commit whose binary is installed
  snapshot,    \* the binary the running script would restore
  live,        \* the commit whose binary orchd runs
  restart,     \* a restart has been requested
  up,          \* orchd runs
  mishaps,     \* mishaps so far
  incident,    \* what became of the issue about a commit
  unrecorded,  \* history: the jobs whose end the store has failed to record
  overtaken    \* history: a tick has migrated the database under a deploy script

vars == <<head, webhooks, job, schema, loop, installed, snapshot, live, restart, up,
          mishaps, incident, unrecorded, overtaken>>

server == <<head, webhooks>>
binaries == <<installed, snapshot, live>>
process == <<restart, up>>
records == <<incident, unrecorded, overtaken>>

-----------------------------------------------------------------------------
\* id: the rowid, 0 for a job that does not exist.
Job == [status: {"absent", "queued", "running", "succeeded", "failed"}, id: Nat]

\* Where an iteration of run_deploy_loop stands, and with which commit.
Working == {"deploying", "script", "installing", "installed", "broken", "told"}
Loop == [pc: {"reconcile", "claim", "down"}, sha: {NoSha}]
        \cup [pc: {"compare"} \cup Working, sha: Shas]

Exists(s) == job[s].status # "absent"
Active(s) == job[s].status \in {"queued", "running"}
Ended(s) == job[s].status \in {"succeeded", "failed"}

\* Every variable has its type; in particular the loop compares and deploys commits that
\* exist, and no two jobs share a row.
TypeOK ==
  /\ head \in Shas \cup {NoSha}
  /\ webhooks \subseteq Shas
  /\ job \in [Shas -> Job]
  /\ \A s \in Shas : Exists(s) <=> job[s].id # 0
  /\ \A s, t \in Shas : Exists(s) /\ job[s].id = job[t].id => s = t
  /\ schema \in Nat
  /\ loop \in Loop
  /\ installed \in Shas \cup {NoSha}
  /\ snapshot \in Shas \cup {NoSha}
  /\ live \in Shas \cup {NoSha}
  /\ restart \in BOOLEAN
  /\ up \in BOOLEAN
  /\ mishaps \in 0..MaxMishaps
  /\ incident \in [Shas -> {"none", "open", "error"}]
  /\ unrecorded \subseteq Shas
  /\ overtaken \in BOOLEAN

At(pc, s) == [pc |-> pc, sha |-> s]

Init ==
  /\ head = NoSha
  /\ webhooks = {}
  /\ job = [s \in Shas |-> [status |-> "absent", id |-> 0]]
  /\ schema = SchemaOf[NoSha]
  /\ loop = At("reconcile", NoSha)
  /\ installed = NoSha
  /\ snapshot = NoSha
  /\ live = NoSha
  /\ restart = FALSE
  /\ up = TRUE
  /\ mishaps = 0
  /\ incident = [s \in Shas |-> "none"]
  /\ unrecorded = {}
  /\ overtaken = FALSE

\* A mishap of a kind, of which there are MaxMishaps at most.
Mishap == mishaps < MaxMishaps /\ mishaps' = mishaps + 1

-----------------------------------------------------------------------------
(* The table.                                                              *)

SetStatus(s, status) == job' = [job EXCEPT ![s].status = status]

\* enqueue_deploy_job's insertion
Insert(s) ==
  \E n \in {1} \cup {job[t].id + 1 : t \in Shas} :
    /\ \A t \in Shas : job[t].id < n
    /\ job' = [job EXCEPT ![s] = [status |-> "queued", id |-> n]]

\* Mutant: a commit whose job has ended is queued again.
EnqueueAgain(s) ==
  \/ ~Exists(s) /\ Insert(s)
  \/ Active(s) /\ UNCHANGED job
  \/ Ended(s) /\ SetStatus(s, "queued")

\* enqueue_deploy_job: DeployEnqueueOutcome::Existing whatever the status of the job.
Enqueue(s) ==
  \/ ~Exists(s) /\ Insert(s)
  \/ Exists(s) /\ UNCHANGED job

\* latest_deployed_sha: the succeeded job with the highest row.
LatestDeployed(s) ==
  /\ job[s].status = "succeeded"
  /\ \A t \in Shas : job[t].status = "succeeded" => job[t].id <= job[s].id

-----------------------------------------------------------------------------
(* The server: pushes and their webhooks.                                  *)

\* Without a forced push the branch only moves to newer commits.
Push(s) ==
  /\ s # head
  /\ s > head \/ "revert" \in Faults
  /\ head' = s
  /\ webhooks' = webhooks \cup {s}
  /\ UNCHANGED <<job, schema, loop, binaries, process, mishaps, records>>

\* enqueue_push_event: the webhook names the commit of its own push.
Deliver(s) ==
  /\ up
  /\ s \in webhooks
  /\ s = head \/ "late" \in Faults
  /\ Enqueue(s)
  /\ webhooks' = webhooks \ {s}
  /\ UNCHANGED <<head, schema, loop, binaries, process, mishaps, records>>

Lose(s) ==
  /\ "lost" \in Faults
  /\ s \in webhooks
  /\ webhooks' = webhooks \ {s}
  /\ UNCHANGED <<head, job, schema, loop, binaries, process, mishaps, records>>

-----------------------------------------------------------------------------
(* The deploy loop: reconcile_head_enqueue, then run_worker_once.          *)

Goto(pc, s) == loop' = At(pc, s)

\* Mutant: a branch that does not exist has a head.
ReadAnyHead ==
  /\ loop.pc = "reconcile"
  /\ Goto("compare", head)
  /\ UNCHANGED <<server, job, schema, binaries, process, mishaps, records>>

\* read_remote_branch_head
ReadHead ==
  /\ loop.pc = "reconcile"
  /\ IF head = NoSha THEN Goto("claim", NoSha) ELSE Goto("compare", head)
  /\ UNCHANGED <<server, job, schema, binaries, process, mishaps, records>>

\* The error is logged and the worker runs all the same.
ReadHeadFails ==
  /\ "remote" \in Faults
  /\ loop.pc = "reconcile"
  /\ Goto("claim", NoSha)
  /\ UNCHANGED <<server, job, schema, binaries, process, mishaps, records>>

\* Mutant: the head waits for its webhook.
ReconcileNothing ==
  /\ loop.pc = "compare"
  /\ Goto("claim", NoSha)
  /\ UNCHANGED <<server, job, schema, binaries, process, mishaps, records>>

\* The three queries are one step: between them another task could only insert the job.
Reconcile ==
  /\ loop.pc = "compare"
  /\ IF LatestDeployed(loop.sha) \/ Active(loop.sha) THEN UNCHANGED job ELSE Enqueue(loop.sha)
  /\ Goto("claim", NoSha)
  /\ UNCHANGED <<server, schema, binaries, process, mishaps, records>>

\* Mutant: any queued job will do.
ClaimAny(s) ==
  /\ loop.pc = "claim"
  /\ job[s].status = "queued"
  /\ SetStatus(s, "running")
  /\ Goto("deploying", s)
  /\ UNCHANGED <<server, schema, binaries, process, mishaps, records>>

\* claim_next_deploy_job: the queued job with the lowest row.
Claim(s) ==
  /\ loop.pc = "claim"
  /\ job[s].status = "queued"
  /\ \A t \in Shas : job[t].status = "queued" => job[s].id <= job[t].id
  /\ SetStatus(s, "running")
  /\ Goto("deploying", s)
  /\ UNCHANGED <<server, schema, binaries, process, mishaps, records>>

ClaimNothing ==
  /\ loop.pc = "claim"
  /\ \A s \in Shas : job[s].status # "queued"
  /\ Goto("reconcile", NoSha)
  /\ UNCHANGED <<server, job, schema, binaries, process, mishaps, records>>

-----------------------------------------------------------------------------
(* execute_deploy_job                                                      *)

\* Mutant: any commit may replace any other.
GuardNothing ==
  /\ loop.pc = "deploying"
  /\ Goto("script", loop.sha)
  /\ UNCHANGED <<server, job, schema, binaries, process, mishaps, records>>

\* ensure_checkout_at_sha, then enforce_schema_downgrade_guard
Guard ==
  /\ loop.pc = "deploying"
  /\ Goto(IF SchemaOf[loop.sha] < schema THEN "broken" ELSE "script", loop.sha)
  /\ UNCHANGED <<server, job, schema, binaries, process, mishaps, records>>

\* No checkout, no schema marker, no log directory, no script.
CheckoutFails ==
  /\ "checkout" \in Faults
  /\ loop.pc = "deploying"
  /\ Goto("broken", loop.sha)
  /\ UNCHANGED <<server, job, schema, binaries, process, mishaps, records>>

\* The script has taken its snapshot and built the binaries, and installs them.
Install ==
  /\ loop.pc = "script"
  /\ loop.sha \notin Bad
  /\ snapshot' = installed
  /\ installed' = loop.sha
  /\ Goto("installing", loop.sha)
  /\ UNCHANGED <<server, job, schema, live, process, mishaps, records>>

\* The units are in place as well.
ScriptPasses ==
  /\ loop.pc = "installing"
  /\ snapshot' = NoSha
  /\ Goto("installed", loop.sha)
  /\ UNCHANGED <<server, job, schema, installed, live, process, mishaps, records>>

\* run_deploy_script: without its log a script that has passed counts as one that failed.
LogFails ==
  /\ "log" \in Faults
  /\ loop.pc = "installing"
  /\ snapshot' = NoSha
  /\ Goto("broken", loop.sha)
  /\ UNCHANGED <<server, job, schema, installed, live, process, mishaps, records>>

\* Mutant: nobody asks for the restart.
SucceedWithoutRestart ==
  /\ loop.pc = "installed"
  /\ SetStatus(loop.sha, "succeeded")
  /\ Goto("reconcile", NoSha)
  /\ UNCHANGED <<server, schema, binaries, process, mishaps, records>>

\* complete_deploy_job_success, then request_orchd_restart
Succeed ==
  /\ loop.pc = "installed"
  /\ SetStatus(loop.sha, "succeeded")
  /\ restart' = TRUE
  /\ Goto("reconcile", NoSha)
  /\ UNCHANGED <<server, schema, binaries, up, mishaps, records>>

\* Mutant: the failure is recorded without an issue.
FailSilently ==
  /\ loop.pc = "broken"
  /\ Goto("told", loop.sha)
  /\ UNCHANGED <<server, job, schema, binaries, process, mishaps, records>>

\* open_deploy_failure_issue: an error is no reason to stop.
OpenIncident ==
  /\ loop.pc = "broken"
  /\ \/ incident' = [incident EXCEPT ![loop.sha] = "open"]
     \/ /\ "issue" \in Faults
        /\ incident' = [incident EXCEPT ![loop.sha] = IF @ = "open" THEN @ ELSE "error"]
  /\ Goto("told", loop.sha)
  /\ UNCHANGED <<server, job, schema, binaries, process, mishaps, unrecorded, overtaken>>

\* complete_deploy_job_failure
Fail ==
  /\ loop.pc = "told"
  /\ SetStatus(loop.sha, "failed")
  /\ Goto("reconcile", NoSha)
  /\ UNCHANGED <<server, schema, binaries, process, mishaps, records>>

\* Either update fails: run_worker_once returns its error, the job stays as it is, and
\* nobody asks for a restart.
EndUnrecorded ==
  /\ "store" \in Faults
  /\ loop.pc \in {"installed", "told"}
  /\ Mishap
  /\ unrecorded' = unrecorded \cup {loop.sha}
  /\ Goto("reconcile", NoSha)
  /\ UNCHANGED <<server, job, schema, binaries, process, incident, overtaken>>

-----------------------------------------------------------------------------
(* The end of one orchd and the start of the next.                         *)

Stop ==
  /\ up
  /\ up' = FALSE
  /\ restart' = FALSE
  /\ snapshot' = NoSha
  /\ Goto("down", NoSha)
  /\ UNCHANGED <<server, job, schema, live, records>>

\* The systemctl restart takes effect whatever the loop is doing by then: systemd ends the
\* script together with orchd, and the script's trap is for errors only.
Restart == restart /\ Stop /\ UNCHANGED <<installed, mishaps>>

Crash == Stop /\ Mishap /\ UNCHANGED installed

\* rollback_install, the script's trap: it restores the binary, and restarts
\* orchd.service although ORCHD_DEPLOY_SKIP_ORCHD_RESTART is set.  The orchd that waits for
\* the script goes down with it.
ScriptFails ==
  /\ \/ loop.pc = "script" /\ loop.sha \in Bad /\ UNCHANGED mishaps
     \/ loop.pc \in {"script", "installing"} /\ "script" \in Faults /\ Mishap
  /\ installed' = IF loop.pc = "installing" THEN snapshot ELSE installed
  /\ Stop

Requeued == [s \in Shas |-> [job[s] EXCEPT !.status = IF @ = "running" THEN "queued" ELSE @]]

Running == {s \in Shas : job[s].status = "running"}

\* init_db: a binary older than the database does not start, and systemd keeps trying.
Start ==
  /\ ~up
  /\ SchemaOf[installed] >= schema
  /\ up' = TRUE
  /\ live' = installed
  /\ schema' = SchemaOf[installed]
  /\ Goto("reconcile", NoSha)
  /\ UNCHANGED <<server, installed, snapshot, restart, incident, overtaken>>

\* Mutant: running jobs are left alone.
BootWithoutRequeue == Start /\ UNCHANGED <<job, mishaps, unrecorded>>

\* run_server: requeue_running_deploy_jobs before the loop starts.
Boot == Start /\ job' = Requeued /\ UNCHANGED <<mishaps, unrecorded>>

\* Its error is logged.
BootUnrecorded ==
  /\ "store" \in Faults
  /\ Start
  /\ Mishap
  /\ unrecorded' = unrecorded \cup Running
  /\ UNCHANGED job

\* The minute's `orchd schedule tick` is the binary installed by then, and opens the
\* database as orchd does.
Tick ==
  /\ SchemaOf[installed] > schema
  /\ schema' = SchemaOf[installed]
  /\ overtaken' = (overtaken \/ loop.pc \in {"script", "installing"})
  /\ UNCHANGED <<server, job, loop, binaries, process, mishaps, incident, unrecorded>>

-----------------------------------------------------------------------------
LoopStep ==
  \/ ReadHead \/ Reconcile
  \/ (\E s \in Shas : Claim(s)) \/ ClaimNothing
  \/ Guard \/ Install \/ ScriptPasses \/ ScriptFails
  \/ Succeed \/ OpenIncident \/ Fail

Mishaps == ReadHeadFails \/ CheckoutFails \/ LogFails \/ EndUnrecorded

Next ==
  \/ \E s \in Shas : Push(s) \/ Deliver(s) \/ Lose(s)
  \/ LoopStep \/ Mishaps
  \/ Restart \/ Crash \/ Boot \/ BootUnrecorded \/ Tick

Spec == Init /\ [][Next]_vars

(***************************************************************************)
(* Fairness: the loop never ends, a deploy script does, systemctl carries  *)
(* out the restart, systemd starts orchd again, and the server answers now *)
(* and then.  No webhook need ever arrive and no tick ever run.            *)
(***************************************************************************)
Fairness ==
  /\ WF_vars(LoopStep) /\ SF_vars(ReadHead)
  /\ WF_vars(Restart) /\ WF_vars(Boot)

FairSpec == Spec /\ Fairness

-----------------------------------------------------------------------------
(* Properties.                                                             *)

\* A job that is running is the one the loop is at work on, through restarts, crashes and
\* failing scripts at any step: an abandoned one would count as active and keep its commit
\* from being reconciled.  Only a store that fails to record the end of a job, or the
\* requeue, abandons one.
RunningJobIsWorked ==
  up => \A s \in Shas :
          /\ loop.pc \in Working /\ loop.sha = s => job[s].status = "running"
          /\ job[s].status = "running" =>
               (loop.pc \in Working /\ loop.sha = s) \/ s \in unrecorded

\* The commit reconcile_head_enqueue takes for deployed is never one that has been
\* replaced by an older job: what is installed is that commit, or one whose job is
\* younger and has not been recorded as a success, or one whose own end was not recorded
\* and which the next startup has therefore queued again.
LatestDeployedNotReplaced ==
  \A s \in Shas :
    LatestDeployed(s) /\ installed # s =>
      \/ installed \in unrecorded
      \/ /\ installed \in Shas
         /\ job[installed].id > job[s].id
         /\ job[installed].status # "succeeded"

\* A job that has ended is never taken up again, however often reconcile finds the head
\* of a failed commit undeployed: one incident, not one per interval.
EndedJobsStayEnded ==
  [][\A s \in Shas : Ended(s) => job'[s] = job[s]]_job

\* The schema guard keeps orchd able to start, although the newer binary may be installed
\* and not yet have migrated the database when an older commit is let through, although
\* the script restores what it found and although orchd may stop at any step.  Only a
\* tick that migrates the database between the guard and the end of the script defeats it.
StartsUnlessOvertaken == SchemaOf[installed] >= schema \/ overtaken

\* No failure is recorded before its issue was asked for, wherever orchd stops.
FailedIsReported ==
  \A s \in Shas : job[s].status = "failed" => incident[s] # "none"

\* The script does not always fail and orchd can start.
Recoverable == Bad = {} /\ SchemaOf[installed] >= schema

\* If the branch stays where it is, the job of its head ends, whatever happens to the
\* webhooks and through restarts, crashes, failures and forced pushes, as long as the
\* store records its end.
HeadJobEnds ==
  \A s \in Shas :
    <>[](head = s /\ Recoverable /\ s \notin unrecorded) => <>Ended(s)

\* No commit has a younger job.
Youngest(s) == \A t \in Shas : job[t].id <= job[s].id

\* If moreover its deploy does not fail and the head is not overtaken in the queue (by a
\* webhook that comes after the next push, by a forced push back to a commit that has a
\* job, by a reconcile that read the head before a push and inserts after the push's
\* webhook, or by a job whose end was not recorded), orchd ends up running the head.
HeadRunsUnlessOvertaken ==
  \A s \in Shas :
    <>[](/\ head = s /\ Recoverable /\ unrecorded = {}
         /\ (Exists(s) => Youngest(s)) /\ job[s].status # "failed")
      => <>[](installed = s /\ live = s)

\* README.md:168, "deploy failures trigger rollback-safe handling and auto-open a
\* self-healing issue": a head whose deploy fails gets its issue.
FailureOpensIssue ==
  \A s \in Bad : <>[](head = s) => <>(incident[s] = "open")
=============================================================================
