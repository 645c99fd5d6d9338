---------------------------- MODULE DeployProofs ----------------------------
(***************************************************************************)
(* Proofs about DeployQueue, for any commits, schemas, failing scripts,    *)
(* faults and mishaps.                                                     *)
(*                                                                         *)
(* The argument about the table is the order of the rows: among the jobs   *)
(* whose end the store has always recorded, what has ended lies below what *)
(* is active, and what is running below what is queued, so that a success  *)
(* is always the success of the youngest job yet.  The argument about the  *)
(* schema is what the script would leave behind wherever it stops: the     *)
(* commit it installs, or the snapshot it restores.                        *)
(***************************************************************************)
EXTENDS DeployQueue, TLAPS

-----------------------------------------------------------------------------
PhaseOK ==
  /\ up <=> loop.pc # "down"
  /\ RunningJobIsWorked

\* The rows: ended, then running, then queued.
OrderOK ==
  \A s, t \in Shas :
    t \notin unrecorded =>
      /\ Ended(s) /\ Active(t) => job[s].id < job[t].id
      /\ job[s].status = "running" /\ job[t].status = "queued" => job[s].id < job[t].id

\* A binary that is no older than any success.
NoOlder(b) ==
  \A s \in Shas : job[s].status = "succeeded" =>
    \/ b \in unrecorded
    \/ b \in Shas /\ Exists(b) /\ job[s].id <= job[b].id

\* What is installed, and what a rollback would restore.
InstalledOK ==
  /\ loop.pc \in {"installing", "installed"} => installed = loop.sha
  /\ NoOlder(installed)
  /\ loop.pc = "installing" => NoOlder(snapshot)

\* What is installed, what is about to be, and what a rollback would restore.
SchemaOK ==
  \/ overtaken
  \/ /\ SchemaOf[installed] >= schema
     /\ loop.pc = "script" => SchemaOf[loop.sha] >= schema
     /\ loop.pc = "installing" => SchemaOf[snapshot] >= schema

ReportOK ==
  /\ FailedIsReported
  /\ loop.pc = "told" => incident[loop.sha] # "none"

Inv == TypeOK /\ PhaseOK /\ OrderOK /\ InstalledOK /\ SchemaOK /\ ReportOK

LEMMA InvImplies ==
  Inv => /\ TypeOK /\ RunningJobIsWorked /\ LatestDeployedNotReplaced
         /\ StartsUnlessOvertaken /\ FailedIsReported
<1> SUFFICES ASSUME Inv
             PROVE  LatestDeployedNotReplaced
  BY DEF Inv, PhaseOK, SchemaOK, StartsUnlessOvertaken, ReportOK
<1>1. /\ \A t \in Shas : job[t].id \in Nat
      /\ \A s, t \in Shas : Exists(s) /\ job[s].id = job[t].id => s = t
  BY DEF Inv, TypeOK, Job
<1>2. ASSUME NEW s \in Shas, LatestDeployed(s), installed # s, installed \notin unrecorded
      PROVE  /\ installed \in Shas
             /\ job[installed].id > job[s].id
             /\ job[installed].status # "succeeded"
  <2>1. installed \in Shas /\ Exists(installed) /\ job[s].id <= job[installed].id
    BY <1>2 DEF Inv, InstalledOK, NoOlder, LatestDeployed
  <2>2. job[installed].id # job[s].id
    BY <1>1, <1>2, <2>1
  <2>3. job[installed].id > job[s].id
    BY <1>1, <1>2, <2>1, <2>2
  <2>4. job[installed].status = "succeeded" => job[installed].id <= job[s].id
    BY <1>2, <2>1 DEF LatestDeployed
  <2> QED
    BY <1>1, <1>2, <2>1, <2>3, <2>4
<1> QED
  BY <1>2 DEF LatestDeployedNotReplaced

LEMMA InitInv == Init => Inv
<1> SUFFICES ASSUME Init PROVE Inv
  OBVIOUS
<1>1. TypeOK
  <2>1. loop \in Loop
    BY DEF Init, Loop, At
  <2>2. 0 \in 0..MaxMishaps /\ SchemaOf[NoSha] \in Nat
    BY DeployConstants DEF DeployConstants
  <2>3. incident \in [Shas -> {"none", "open", "error"}]
    BY DEF Init
  <2> QED
    BY <2>1, <2>2, <2>3 DEF Init, TypeOK, Job, NoSha, Exists
<1>2. PhaseOK
  BY DeployConstants DEF DeployConstants, Init, At, NoSha, PhaseOK, RunningJobIsWorked, Working
<1>3. OrderOK /\ InstalledOK
  BY DEF Init, At, OrderOK, InstalledOK, NoOlder, Active, Ended
<1>4. SchemaOK /\ ReportOK
  BY DeployConstants DEF DeployConstants, Init, At, SchemaOK, ReportOK, FailedIsReported
<1> QED
  BY <1>1, <1>2, <1>3, <1>4 DEF Inv

-----------------------------------------------------------------------------
(* The table.                                                              *)

\* A job moves between the statuses of jobs that exist.
LEMMA StatusFacts ==
  ASSUME TypeOK, NEW s \in Shas, Exists(s),
         NEW st \in {"queued", "running", "succeeded", "failed"}, SetStatus(s, st)
  PROVE  /\ job' \in [Shas -> Job]
         /\ \A t \in Shas : Exists(t)' <=> job'[t].id # 0
         /\ \A t, u \in Shas : Exists(t)' /\ job'[t].id = job'[u].id => t = u
         /\ job'[s] = [status |-> st, id |-> job[s].id]
         /\ \A t \in Shas \ {s} : job'[t] = job[t]
<1>1. /\ job'[s] = [status |-> st, id |-> job[s].id]
      /\ \A t \in Shas \ {s} : job'[t] = job[t]
      /\ job' \in [Shas -> Job]
  BY DEF SetStatus, TypeOK, Job
<1>2. \A t \in Shas : job'[t].id = job[t].id /\ (Exists(t)' <=> Exists(t))
  BY <1>1 DEF Exists
<1> QED
  BY <1>1, <1>2 DEF TypeOK

\* A new row is above all others, and queued.
LEMMA InsertFacts ==
  ASSUME TypeOK, NEW s \in Shas, ~Exists(s), Insert(s)
  PROVE  /\ job' \in [Shas -> Job]
         /\ \A t \in Shas : Exists(t)' <=> job'[t].id # 0
         /\ \A t, u \in Shas : Exists(t)' /\ job'[t].id = job'[u].id => t = u
         /\ job'[s].status = "queued"
         /\ \A t \in Shas \ {s} : job'[t] = job[t] /\ job[t].id < job'[s].id
<1>1. PICK n \in {1} \cup {job[t].id + 1 : t \in Shas} :
        /\ \A t \in Shas : job[t].id < n
        /\ job' = [job EXCEPT ![s] = [status |-> "queued", id |-> n]]
  BY DEF Insert
<1>2. n \in Nat \ {0}
  BY <1>1 DEF TypeOK, Job
<1>3. /\ job'[s] = [status |-> "queued", id |-> n]
      /\ \A t \in Shas \ {s} : job'[t] = job[t]
  BY <1>1 DEF TypeOK
<1>4. job' \in [Shas -> Job]
  BY <1>1, <1>2 DEF TypeOK, Job
<1> QED
  BY <1>1, <1>2, <1>3, <1>4 DEF TypeOK, Job, Exists

\* The requeue of a startup.
LEMMA RequeueFacts ==
  ASSUME TypeOK, job' = Requeued
  PROVE  /\ job' \in [Shas -> Job]
         /\ \A t \in Shas : Exists(t)' <=> job'[t].id # 0
         /\ \A t, u \in Shas : Exists(t)' /\ job'[t].id = job'[u].id => t = u
         /\ \A t \in Shas :
              /\ job'[t].id = job[t].id
              /\ job[t].status = "running" => job'[t].status = "queued"
              /\ job[t].status # "running" => job'[t].status = job[t].status
<1>1. /\ job' \in [Shas -> Job]
      /\ \A t \in Shas :
           /\ job'[t].id = job[t].id
           /\ job[t].status = "running" => job'[t].status = "queued"
           /\ job[t].status # "running" => job'[t].status = job[t].status
  BY DEF Requeued, TypeOK, Job
<1>2. \A t \in Shas : Exists(t)' <=> Exists(t)
  BY <1>1 DEF Exists
<1> QED
  BY <1>1, <1>2 DEF TypeOK

\* The loop's own job is running.
LEMMA WorkedIsRunning ==
  ASSUME Inv, loop.pc \in Working
  PROVE  up /\ loop.sha \in Shas /\ job[loop.sha].status = "running" /\ Exists(loop.sha)
BY DEF Inv, TypeOK, Loop, PhaseOK, RunningJobIsWorked, Working, Exists

-----------------------------------------------------------------------------
(* Steps that leave the table, the binaries and the histories alone and    *)
(* only move the loop.                                                     *)

LEMMA MoveInv ==
  ASSUME Inv,
         UNCHANGED <<job, schema, binaries, process, mishaps, records>>,
         head' \in Shas \cup {NoSha}, webhooks' \subseteq Shas, loop' \in Loop,
         loop'.pc # "down", loop.pc # "down",
         \/ loop' = loop
         \/ loop.pc \notin Working /\ loop'.pc \notin Working
         \/ loop.pc = "deploying" /\ loop'.pc = "broken" /\ loop'.sha = loop.sha
         \/ /\ loop.pc = "deploying" /\ loop'.pc = "script" /\ loop'.sha = loop.sha
            /\ SchemaOf[loop.sha] >= schema
  PROVE  Inv'
<1> USE DEF binaries, process, records
<1>1. TypeOK'
  BY DEF Inv, TypeOK, Exists
<1>2. PhaseOK'
  BY DEF Inv, PhaseOK, RunningJobIsWorked, Working
<1>3. OrderOK' /\ InstalledOK'
  BY DEF Inv, OrderOK, InstalledOK, NoOlder, Exists, Active, Ended, Working
<1>4. SchemaOK'
  BY DEF Inv, SchemaOK, Working
<1>5. ReportOK'
  BY DEF Inv, ReportOK, FailedIsReported, Working
<1> QED
  BY <1>1, <1>2, <1>3, <1>4, <1>5 DEF Inv

\* The insertion, or not, of a job: by a webhook or by the loop's reconciliation.
LEMMA EnqueueInv ==
  ASSUME Inv, NEW s \in Shas, Enqueue(s), up,
         UNCHANGED <<schema, binaries, process, mishaps, records>>,
         head' \in Shas \cup {NoSha}, webhooks' \subseteq Shas, loop' \in Loop,
         loop'.pc # "down",
         loop' = loop \/ (loop.pc \notin Working /\ loop'.pc \notin Working)
  PROVE  Inv'
<1> USE DEF binaries, process, records
<1>1. CASE UNCHANGED job
  BY <1>1, MoveInv DEF Inv, PhaseOK
<1>2. CASE ~Exists(s) /\ Insert(s)
  <2>1. /\ job' \in [Shas -> Job]
        /\ \A t \in Shas : Exists(t)' <=> job'[t].id # 0
        /\ \A t, u \in Shas : Exists(t)' /\ job'[t].id = job'[u].id => t = u
        /\ job'[s].status = "queued"
        /\ \A t \in Shas \ {s} : job'[t] = job[t] /\ job[t].id < job'[s].id
    BY <1>2, InsertFacts DEF Inv
  <2>2. TypeOK'
    BY <2>1 DEF Inv, TypeOK
  <2>3. PhaseOK'
    BY <1>2, <2>1 DEF Inv, PhaseOK, RunningJobIsWorked, Exists, Working
  <2>4. OrderOK'
    BY <1>2, <2>1 DEF Inv, OrderOK, Active, Ended
  <2>5. \A b : NoOlder(b) => NoOlder(b)'
    BY <1>2, <2>1 DEF NoOlder, Exists
  <2>6. InstalledOK'
    BY <2>5 DEF Inv, InstalledOK, Working
  <2>7. SchemaOK'
    BY DEF Inv, SchemaOK, Working
  <2>8. ReportOK'
    BY <1>2, <2>1 DEF Inv, ReportOK, FailedIsReported, Exists, Working
  <2> QED
    BY <2>2, <2>3, <2>4, <2>6, <2>7, <2>8 DEF Inv
<1> QED
  BY <1>1, <1>2 DEF Enqueue

-----------------------------------------------------------------------------
(* The job's own steps.                                                    *)

LEMMA ClaimInv ==
  ASSUME Inv, NEW s \in Shas, Claim(s)
  PROVE  Inv'
<1> USE DEF binaries, process, records, server, Goto, At
<1>1. up /\ Exists(s)
  BY DEF Claim, Inv, PhaseOK, Exists
<1>2. /\ job' \in [Shas -> Job]
      /\ \A t \in Shas : Exists(t)' <=> job'[t].id # 0
      /\ \A t, u \in Shas : Exists(t)' /\ job'[t].id = job'[u].id => t = u
      /\ job'[s] = [status |-> "running", id |-> job[s].id]
      /\ \A t \in Shas \ {s} : job'[t] = job[t]
  BY <1>1, StatusFacts DEF Claim, Inv
<1>3. loop.pc = "claim" /\ loop' = [pc |-> "deploying", sha |-> s]
  BY DEF Claim
<1>4. TypeOK'
  <2>1. loop' \in Loop
    BY <1>3 DEF Loop, Working
  <2> QED
    BY <1>2, <2>1 DEF Claim, Inv, TypeOK
<1>5. PhaseOK'
  BY <1>1, <1>2, <1>3 DEF Claim, Inv, PhaseOK, RunningJobIsWorked, Working
<1>6. OrderOK'
  <2>1. \A t \in Shas : job[t].status = "queued" => job[s].id <= job[t].id
    BY DEF Claim
  <2>2. \A t \in Shas : job'[t].id = job[t].id
    BY <1>2
  <2>3. \A t \in Shas : (Ended(t)' => Ended(t)) /\ (Active(t)' => Active(t))
    BY <1>2 DEF Claim, Ended, Active
  <2>4. \A t \in Shas : job'[t].status = "queued" => job[t].status = "queued" /\ t # s
    BY <1>2
  <2>5. \A t \in Shas : job'[t].status = "running" => t = s \/ job[t].status = "running"
    BY <1>2
  <2>6. \A t \in Shas \ {s} : job[t].status = "queued" => job[s].id < job[t].id
    <3>1. /\ \A t \in Shas : job[t].id \in Nat
          /\ \A t \in Shas : job[s].id = job[t].id => s = t
      BY <1>1 DEF Inv, TypeOK, Job
    <3> QED
      BY <2>1, <3>1
  <2>7. unrecorded' = unrecorded
    BY DEF Claim
  <2> QED
    BY <2>2, <2>3, <2>4, <2>5, <2>6, <2>7 DEF Inv, OrderOK
<1>7. InstalledOK'
  BY <1>1, <1>2, <1>3 DEF Claim, Inv, InstalledOK, NoOlder, Exists
<1>8. SchemaOK' /\ ReportOK'
  BY <1>2, <1>3 DEF Claim, Inv, SchemaOK, ReportOK, FailedIsReported
<1> QED
  BY <1>4, <1>5, <1>6, <1>7, <1>8 DEF Inv

\* The script's steps, and the loop's up to the end of the job.
LEMMA ScriptInv ==
  ASSUME Inv, Install \/ ScriptPasses \/ LogFails \/ OpenIncident
  PROVE  Inv'
<1> USE DEF binaries, process, records, server, Goto, At
<1>1. up /\ loop.sha \in Shas /\ job[loop.sha].status = "running" /\ Exists(loop.sha)
  BY WorkedIsRunning DEF Install, ScriptPasses, LogFails, OpenIncident, Working
<1>2. /\ loop'.sha = loop.sha /\ loop.pc \in Working /\ loop'.pc \in Working
      /\ loop' \in Loop
      /\ UNCHANGED <<server, job, schema, live, process, mishaps, unrecorded, overtaken>>
  <2>1. /\ loop.pc \in Working
        /\ \E pc \in {"installing", "installed", "broken", "told"} : loop' = [pc |-> pc, sha |-> loop.sha]
    BY DEF Install, ScriptPasses, LogFails, OpenIncident, Working
  <2>2. UNCHANGED <<server, job, schema, live, process, mishaps, unrecorded, overtaken>>
    BY DEF Install, ScriptPasses, LogFails, OpenIncident
  <2> QED
    BY <1>1, <2>1, <2>2 DEF Working, Loop
<1>3. TypeOK'
  <2>1. installed' \in Shas \cup {NoSha} /\ snapshot' \in Shas \cup {NoSha}
    BY <1>1 DEF Install, ScriptPasses, LogFails, OpenIncident, Inv, TypeOK
  <2>2. incident' \in [Shas -> {"none", "open", "error"}]
    BY <1>1 DEF Install, ScriptPasses, LogFails, OpenIncident, Inv, TypeOK
  <2> QED
    BY <1>2, <2>1, <2>2 DEF Inv, TypeOK, Exists
<1>4. PhaseOK'
  BY <1>2 DEF Inv, PhaseOK, RunningJobIsWorked, Working
<1>5. OrderOK'
  BY <1>2 DEF Inv, OrderOK, Active, Ended
<1>6. \A b : NoOlder(b) => NoOlder(b)'
  BY <1>2 DEF NoOlder, Exists
<1>7. InstalledOK'
  <2>1. CASE Install
    <3>1. NoOlder(loop.sha)
      BY <1>1 DEF Inv, TypeOK, Job, OrderOK, NoOlder, Active, Ended
    <3> QED
      BY <1>6, <2>1, <3>1 DEF Install, Inv, InstalledOK
  <2>2. CASE ScriptPasses \/ LogFails \/ OpenIncident
    BY <1>6, <2>2 DEF ScriptPasses, LogFails, OpenIncident, Inv, InstalledOK
  <2> QED
    BY <2>1, <2>2
<1>8. SchemaOK'
  BY DEF Install, ScriptPasses, LogFails, OpenIncident, Inv, SchemaOK
<1>9. ReportOK'
  <2>1. CASE OpenIncident
    <3>1. /\ incident'[loop.sha] # "none"
          /\ \A s \in Shas \ {loop.sha} : incident'[s] = incident[s]
      BY <1>1, <2>1 DEF OpenIncident, Inv, TypeOK
    <3> QED
      BY <1>1, <1>2, <3>1 DEF Inv, ReportOK, FailedIsReported
  <2>2. CASE Install \/ ScriptPasses \/ LogFails
    BY <2>2 DEF Install, ScriptPasses, LogFails, Inv, ReportOK, FailedIsReported
  <2> QED
    BY <2>1, <2>2
<1> QED
  BY <1>3, <1>4, <1>5, <1>7, <1>8, <1>9 DEF Inv

LEMMA EndInv ==
  ASSUME Inv, Succeed \/ Fail
  PROVE  Inv'
<1> USE DEF binaries, process, records, server, Goto, At
<1>1. up /\ loop.sha \in Shas /\ job[loop.sha].status = "running" /\ Exists(loop.sha)
  BY WorkedIsRunning DEF Succeed, Fail, Working
<1>2. PICK st \in {"succeeded", "failed"} :
        /\ SetStatus(loop.sha, st)
        /\ st = "succeeded" => loop.pc = "installed"
        /\ st = "failed" => loop.pc = "told"
  BY DEF Succeed, Fail
<1>3. /\ job' \in [Shas -> Job]
      /\ \A t \in Shas : Exists(t)' <=> job'[t].id # 0
      /\ \A t, u \in Shas : Exists(t)' /\ job'[t].id = job'[u].id => t = u
      /\ job'[loop.sha] = [status |-> st, id |-> job[loop.sha].id]
      /\ \A t \in Shas \ {loop.sha} : job'[t] = job[t]
  BY <1>1, <1>2, StatusFacts DEF Inv
<1>4. /\ loop' = [pc |-> "reconcile", sha |-> NoSha] /\ restart' \in BOOLEAN
      /\ UNCHANGED <<server, schema, binaries, up, mishaps, records>>
  BY DEF Succeed, Fail, Inv, TypeOK
<1>5. TypeOK'
  <2>1. loop' \in Loop
    BY <1>4 DEF Loop
  <2> QED
    BY <1>3, <1>4, <2>1 DEF Inv, TypeOK
<1>6. PhaseOK'
  BY <1>1, <1>3, <1>4 DEF Inv, PhaseOK, RunningJobIsWorked, Working
<1>7. OrderOK'
  <2>1. \A t \in Shas : job'[t].id = job[t].id
    BY <1>3
  <2>2. \A t \in Shas : Active(t)' => Active(t) /\ t # loop.sha
    BY <1>3 DEF Active
  <2>3. \A t \in Shas : Ended(t)' => Ended(t) \/ t = loop.sha
    BY <1>3 DEF Ended
  <2>4. \A t \in Shas \ {loop.sha} : Active(t) /\ t \notin unrecorded =>
          job[loop.sha].id < job[t].id
    BY <1>1 DEF Inv, PhaseOK, RunningJobIsWorked, OrderOK, Active
  <2>5. \A t \in Shas : job'[t].status \in {"running", "queued"} => job[t].status = job'[t].status
    BY <1>3
  <2> QED
    BY <1>4, <2>1, <2>2, <2>3, <2>4, <2>5 DEF Inv, OrderOK
<1>8. InstalledOK'
  <2>1. \A t \in Shas : job'[t].id = job[t].id /\ (Exists(t) => Exists(t)')
    BY <1>1, <1>3 DEF Exists
  <2>2. \A t \in Shas : job'[t].status = "succeeded" =>
          job[t].status = "succeeded" \/ (t = loop.sha /\ installed = loop.sha)
    BY <1>2, <1>3 DEF Inv, InstalledOK
  <2>3. job[loop.sha].id <= job[loop.sha].id
    BY <1>1 DEF Inv, TypeOK, Job
  <2>4. NoOlder(installed)'
    BY <1>1, <1>4, <2>1, <2>2, <2>3 DEF Inv, InstalledOK, NoOlder
  <2> QED
    BY <1>4, <2>4 DEF InstalledOK
<1>9. SchemaOK'
  BY <1>4 DEF Inv, SchemaOK
<1>10. ReportOK'
  BY <1>1, <1>2, <1>3, <1>4 DEF Inv, ReportOK, FailedIsReported
<1> QED
  BY <1>5, <1>6, <1>7, <1>8, <1>9, <1>10 DEF Inv

LEMMA UnrecordedInv ==
  ASSUME Inv, EndUnrecorded
  PROVE  Inv'
<1> USE DEF binaries, process, records, server, Goto, At
<1>1. up /\ loop.sha \in Shas /\ job[loop.sha].status = "running"
  BY WorkedIsRunning DEF EndUnrecorded, Working
<1>2. /\ loop' = [pc |-> "reconcile", sha |-> NoSha]
      /\ unrecorded' = unrecorded \cup {loop.sha}
      /\ UNCHANGED <<server, job, schema, binaries, process, incident, overtaken>>
      /\ mishaps < MaxMishaps /\ mishaps' = mishaps + 1
  BY DEF EndUnrecorded, Mishap
<1>3. TypeOK'
  <2>1. loop' \in Loop /\ mishaps' \in 0..MaxMishaps
    BY <1>2, DeployConstants DEF DeployConstants, Loop, Inv, TypeOK
  <2> QED
    BY <1>1, <1>2, <2>1 DEF Inv, TypeOK, Exists
<1>4. PhaseOK'
  BY <1>1, <1>2 DEF Inv, PhaseOK, RunningJobIsWorked, Working
<1>5. OrderOK' /\ InstalledOK'
  BY <1>2 DEF Inv, OrderOK, InstalledOK, NoOlder, Exists, Active, Ended
<1>6. SchemaOK' /\ ReportOK'
  BY <1>2 DEF Inv, SchemaOK, ReportOK, FailedIsReported
<1> QED
  BY <1>3, <1>4, <1>5, <1>6 DEF Inv

-----------------------------------------------------------------------------
(* The process.                                                            *)

LEMMA StopInv ==
  ASSUME Inv, Stop, mishaps' \in 0..MaxMishaps,
         installed' = installed \/ (loop.pc = "installing" /\ installed' = snapshot)
  PROVE  Inv'
<1> USE DEF binaries, process, records, server, Goto, At
<1>1. /\ loop' = [pc |-> "down", sha |-> NoSha] /\ ~up' /\ snapshot' = NoSha
      /\ restart' = FALSE
      /\ UNCHANGED <<server, job, schema, live, records>>
  BY DEF Stop
<1>2. TypeOK'
  <2>1. loop' \in Loop
    BY <1>1 DEF Loop
  <2>2. installed' \in Shas \cup {NoSha}
    BY DEF Inv, TypeOK
  <2>3. up' = FALSE
    BY DEF Stop
  <2> QED
    BY <1>1, <2>1, <2>2, <2>3 DEF Inv, TypeOK, Exists
<1>3. PhaseOK' /\ OrderOK'
  BY <1>1 DEF Inv, PhaseOK, RunningJobIsWorked, Working, OrderOK, Active, Ended
<1>4. NoOlder(installed) /\ (loop.pc = "installing" => NoOlder(snapshot))
  BY DEF Inv, InstalledOK
<1>5. \A b : NoOlder(b) => NoOlder(b)'
  BY <1>1 DEF NoOlder, Exists
<1>6. InstalledOK'
  BY <1>1, <1>4, <1>5 DEF InstalledOK
<1>7. SchemaOK' /\ ReportOK'
  BY <1>1 DEF Inv, SchemaOK, ReportOK, FailedIsReported
<1> QED
  BY <1>2, <1>3, <1>6, <1>7 DEF Inv

LEMMA StartInv ==
  ASSUME Inv, Boot \/ BootUnrecorded
  PROVE  Inv'
<1> USE DEF server, Goto, At
<1>1. /\ loop' = [pc |-> "reconcile", sha |-> NoSha] /\ up'
      /\ live' = installed /\ schema' = SchemaOf[installed]
      /\ UNCHANGED <<server, installed, snapshot, restart, incident, overtaken>>
  BY DEF Boot, BootUnrecorded, Start
<1>2. schema' \in Nat /\ schema' >= schema'
  BY <1>1, DeployConstants DEF DeployConstants, Inv, TypeOK
<1>3. SchemaOK'
  BY <1>1, <1>2 DEF SchemaOK
<1>4. loop' \in Loop /\ up' \in BOOLEAN
  BY <1>1 DEF Loop, Boot, BootUnrecorded, Start
<1>5. CASE Boot
  <2>1. job' = Requeued /\ mishaps' = mishaps /\ unrecorded' = unrecorded
    BY <1>5 DEF Boot
  <2>2. /\ job' \in [Shas -> Job]
        /\ \A t \in Shas : Exists(t)' <=> job'[t].id # 0
        /\ \A t, u \in Shas : Exists(t)' /\ job'[t].id = job'[u].id => t = u
        /\ \A t \in Shas :
             /\ job'[t].id = job[t].id
             /\ job[t].status = "running" => job'[t].status = "queued"
             /\ job[t].status # "running" => job'[t].status = job[t].status
    BY <2>1, RequeueFacts DEF Inv
  <2>3. TypeOK'
    BY <1>1, <1>2, <1>4, <2>1, <2>2 DEF Inv, TypeOK
  <2>4. PhaseOK'
    BY <1>1, <2>2 DEF PhaseOK, RunningJobIsWorked, Working
  <2>5. \A t \in Shas : (Ended(t)' => Ended(t)) /\ (Active(t)' => Active(t))
    BY <2>2 DEF Ended, Active
  <2>6. OrderOK'
    BY <2>1, <2>2, <2>5 DEF Inv, OrderOK
  <2>7. InstalledOK'
    BY <1>1, <2>1, <2>2 DEF Inv, InstalledOK, NoOlder, Exists
  <2>8. ReportOK'
    BY <1>1, <2>2 DEF Inv, ReportOK, FailedIsReported
  <2> QED
    BY <1>3, <2>3, <2>4, <2>6, <2>7, <2>8 DEF Inv
<1>6. CASE BootUnrecorded
  <2>1. /\ unrecorded' = unrecorded \cup Running /\ job' = job
        /\ mishaps < MaxMishaps /\ mishaps' = mishaps + 1
    BY <1>6 DEF BootUnrecorded, Mishap
  <2>2. mishaps' \in 0..MaxMishaps /\ Running \subseteq Shas
    BY <2>1, DeployConstants DEF DeployConstants, Running, Inv, TypeOK
  <2>3. TypeOK'
    BY <1>1, <1>2, <1>4, <2>1, <2>2 DEF Inv, TypeOK, Exists
  <2>4. PhaseOK'
    BY <1>1, <2>1 DEF PhaseOK, RunningJobIsWorked, Working, Running
  <2>5. OrderOK' /\ InstalledOK'
    BY <1>1, <2>1 DEF Inv, OrderOK, InstalledOK, NoOlder, Exists, Active, Ended
  <2>6. ReportOK'
    BY <1>1, <2>1 DEF Inv, ReportOK, FailedIsReported
  <2> QED
    BY <1>3, <2>3, <2>4, <2>5, <2>6 DEF Inv
<1> QED
  BY <1>5, <1>6

LEMMA TickInv ==
  ASSUME Inv, Tick
  PROVE  Inv'
<1> USE DEF binaries, process, server
<1>1. /\ schema' = SchemaOf[installed]
      /\ overtaken' = (overtaken \/ loop.pc \in {"script", "installing"})
      /\ UNCHANGED <<server, job, loop, binaries, process, mishaps, incident, unrecorded>>
  BY DEF Tick
<1>2. schema' \in Nat /\ overtaken' \in BOOLEAN
  BY <1>1, DeployConstants DEF DeployConstants, Inv, TypeOK
<1>3. TypeOK'
  BY <1>1, <1>2 DEF Inv, TypeOK, Exists
<1>4. PhaseOK' /\ OrderOK' /\ InstalledOK'
  BY <1>1 DEF Inv, PhaseOK, RunningJobIsWorked, OrderOK, InstalledOK, NoOlder, Exists, Active, Ended
<1>5. SchemaOK'
  <2>1. CASE loop.pc \in {"script", "installing"}
    BY <1>1, <2>1 DEF SchemaOK
  <2>2. CASE loop.pc \notin {"script", "installing"}
    <3>1. SchemaOf[installed] >= SchemaOf[installed]
      BY <1>1, <1>2
    <3> QED
      BY <1>1, <2>2, <3>1 DEF SchemaOK
  <2> QED
    BY <2>1, <2>2
<1>6. ReportOK'
  BY <1>1 DEF Inv, ReportOK, FailedIsReported
<1> QED
  BY <1>3, <1>4, <1>5, <1>6 DEF Inv

-----------------------------------------------------------------------------
LEMMA StepInv ==
  ASSUME Inv, [Next]_vars
  PROVE  Inv'
<1> USE DEF Goto, At, server, binaries, process, records
<1>1. ASSUME NEW s \in Shas, Push(s) \/ Deliver(s) \/ Lose(s)
      PROVE  Inv'
  <2>1. /\ head' \in Shas \cup {NoSha} /\ webhooks' \subseteq Shas /\ loop' = loop /\ loop' \in Loop
    BY <1>1 DEF Push, Deliver, Lose, Inv, TypeOK
  <2>2. CASE Deliver(s)
    BY <2>1, <2>2, EnqueueInv DEF Deliver, Inv, PhaseOK
  <2>3. CASE (Push(s) \/ Lose(s)) /\ loop.pc # "down"
    BY <2>1, <2>3, MoveInv DEF Push, Lose
  <2>4. CASE (Push(s) \/ Lose(s)) /\ loop.pc = "down"
    <3>1. UNCHANGED <<job, schema, loop, binaries, process, mishaps, records>>
      BY <2>4 DEF Push, Lose
    <3>2. TypeOK'
      BY <2>1, <3>1 DEF Inv, TypeOK, Exists
    <3>3. PhaseOK' /\ OrderOK' /\ InstalledOK' /\ SchemaOK' /\ ReportOK'
      BY <3>1 DEF Inv, PhaseOK, RunningJobIsWorked, OrderOK, InstalledOK, NoOlder, SchemaOK,
         ReportOK, FailedIsReported, Exists, Active, Ended
    <3> QED
      BY <3>2, <3>3 DEF Inv
  <2> QED
    BY <1>1, <2>2, <2>3, <2>4
<1>2. CASE ReadHead \/ ReadHeadFails \/ ClaimNothing
  <2>1. /\ loop' \in Loop /\ loop.pc \notin Working /\ loop'.pc \notin Working
        /\ loop.pc # "down" /\ loop'.pc # "down"
    BY <1>2 DEF ReadHead, ReadHeadFails, ClaimNothing, Inv, TypeOK, Loop, NoSha, Working
  <2>2. /\ UNCHANGED <<job, schema, binaries, process, mishaps, records>>
        /\ head' = head /\ webhooks' = webhooks
    BY <1>2 DEF ReadHead, ReadHeadFails, ClaimNothing
  <2> QED
    BY <2>1, <2>2, MoveInv DEF Inv, TypeOK
<1>3. CASE Reconcile
  <2>1. /\ up /\ loop.sha \in Shas /\ loop' \in Loop
        /\ loop.pc \notin Working /\ loop'.pc \notin Working /\ loop.pc # "down" /\ loop'.pc # "down"
    BY <1>3 DEF Reconcile, Inv, PhaseOK, TypeOK, Loop, Working
  <2>2. /\ UNCHANGED <<schema, binaries, process, mishaps, records>>
        /\ head' \in Shas \cup {NoSha} /\ webhooks' \subseteq Shas
    BY <1>3 DEF Reconcile, Inv, TypeOK
  <2>3. CASE UNCHANGED job
    BY <2>1, <2>2, <2>3, MoveInv
  <2>4. CASE Enqueue(loop.sha)
    BY <2>1, <2>2, <2>4, EnqueueInv
  <2> QED
    BY <1>3, <2>3, <2>4 DEF Reconcile
<1>4. ASSUME NEW s \in Shas, Claim(s)
      PROVE  Inv'
  BY <1>4, ClaimInv
<1>5. CASE Guard \/ CheckoutFails
  <2>1. loop.pc = "deploying" /\ loop.sha \in Shas
    BY <1>5, WorkedIsRunning DEF Guard, CheckoutFails, Working
  <2>2. SchemaOf[loop.sha] \in Nat /\ schema \in Nat
    BY <2>1, DeployConstants DEF DeployConstants, Inv, TypeOK
  <2>3. /\ UNCHANGED <<job, schema, binaries, process, mishaps, records>>
        /\ head' \in Shas \cup {NoSha} /\ webhooks' \subseteq Shas
    BY <1>5 DEF Guard, CheckoutFails, Inv, TypeOK
  <2>4. \/ loop' = [pc |-> "broken", sha |-> loop.sha]
        \/ loop' = [pc |-> "script", sha |-> loop.sha] /\ SchemaOf[loop.sha] >= schema
    BY <1>5, <2>2 DEF Guard, CheckoutFails
  <2>5. loop' \in Loop /\ loop'.sha = loop.sha /\ loop'.pc \in {"broken", "script"}
    BY <2>1, <2>4 DEF Loop, Working
  <2> QED
    BY <2>1, <2>3, <2>4, <2>5, MoveInv
<1>6. CASE Install \/ ScriptPasses \/ LogFails \/ OpenIncident
  BY <1>6, ScriptInv
<1>7. CASE Succeed \/ Fail
  BY <1>7, EndInv
<1>8. CASE EndUnrecorded
  BY <1>8, UnrecordedInv
<1>9. CASE Restart \/ Crash \/ ScriptFails
  <2>1. Stop
    BY <1>9 DEF Restart, Crash, ScriptFails
  <2>2. mishaps' = mishaps \/ (mishaps < MaxMishaps /\ mishaps' = mishaps + 1)
    BY <1>9 DEF Restart, Crash, ScriptFails, Mishap
  <2>3. mishaps' \in 0..MaxMishaps
    BY <2>2, DeployConstants DEF DeployConstants, Inv, TypeOK
  <2>4. installed' = installed \/ (loop.pc = "installing" /\ installed' = snapshot)
    BY <1>9 DEF Restart, Crash, ScriptFails
  <2> QED
    BY <2>1, <2>3, <2>4, StopInv
<1>10. CASE Boot \/ BootUnrecorded
  BY <1>10, StartInv
<1>11. CASE Tick
  BY <1>11, TickInv
<1>12. CASE UNCHANGED vars
  BY <1>12 DEF vars, Inv, TypeOK, PhaseOK, RunningJobIsWorked, OrderOK, InstalledOK, NoOlder,
     SchemaOK, ReportOK, FailedIsReported, Exists, Active, Ended
<1> QED
  BY <1>1, <1>2, <1>3, <1>4, <1>5, <1>6, <1>7, <1>8, <1>9, <1>10, <1>11, <1>12
  DEF Next, LoopStep, Mishaps

LEMMA InvHolds == Spec => []Inv
BY InitInv, StepInv, PTL DEF Spec

-----------------------------------------------------------------------------
\* Every variable keeps its type, and no two jobs share a row.
THEOREM DeployTypeCorrect == Spec => []TypeOK
BY InvHolds, InvImplies, PTL

\* No running job is abandoned, whenever orchd stops, unless its end is not recorded.
THEOREM NoJobAbandoned == Spec => []RunningJobIsWorked
BY InvHolds, InvImplies, PTL

\* The commit reconcile takes for deployed has not been replaced by an older job, unless
\* by one whose end was not recorded.
THEOREM LatestDeployedIsRight == Spec => []LatestDeployedNotReplaced
BY InvHolds, InvImplies, PTL

\* Whatever is installed can open the database, unless a tick has overtaken a script.
THEOREM SchemaGuardSuffices == Spec => []StartsUnlessOvertaken
BY InvHolds, InvImplies, PTL

\* A recorded failure has been told.
THEOREM FailuresAreReported == Spec => []FailedIsReported
BY InvHolds, InvImplies, PTL

\* No step takes up a job that has ended.
THEOREM NoSecondIncident == Spec => EndedJobsStayEnded
<1>1. ASSUME Inv, [Next]_vars
      PROVE  [\A s \in Shas : Ended(s) => job'[s] = job[s]]_job
  <2> SUFFICES ASSUME job' # job, NEW s \in Shas, Ended(s)
               PROVE  job'[s] = job[s]
    OBVIOUS
  <2>1. job \in [Shas -> Job] /\ job[s].status \notin {"absent", "queued", "running"}
    BY <1>1 DEF Inv, TypeOK, Ended
  <2>2. CASE \E t \in Shas : Deliver(t)
    BY <2>1, <2>2 DEF Deliver, Enqueue, Insert, Exists
  <2>3. CASE Reconcile
    BY <2>1, <2>3 DEF Reconcile, Enqueue, Insert, Exists
  <2>4. CASE \E t \in Shas : Claim(t)
    BY <2>1, <2>4 DEF Claim, SetStatus
  <2>5. CASE Succeed \/ Fail
    <3>1. job[loop.sha].status = "running"
      BY <1>1, <2>5, WorkedIsRunning DEF Succeed, Fail, Working
    <3> QED
      BY <2>1, <2>5, <3>1 DEF Succeed, Fail, SetStatus
  <2>6. CASE Boot
    BY <2>1, <2>6 DEF Boot, Requeued, Job
  <2> QED
    BY <1>1, <2>2, <2>3, <2>4, <2>5, <2>6
    DEF Next, LoopStep, Mishaps, Push, Lose, ReadHead, ReadHeadFails, ClaimNothing, Guard,
        CheckoutFails, Install, ScriptPasses, LogFails, OpenIncident, EndUnrecorded, ScriptFails,
        Restart, Crash, Stop, BootUnrecorded, Tick, vars
<1> QED
  BY <1>1, InvHolds, PTL DEF Spec, EndedJobsStayEnded
=============================================================================
