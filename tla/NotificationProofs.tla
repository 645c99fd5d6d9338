-------------------------- MODULE NotificationProofs --------------------------
(***************************************************************************)
(* Theorems about Notifications for every number of dispatches, webhook    *)
(* tasks, replies and mishaps: nothing is told twice unless it was shown   *)
(* and its record was lost (ToldTwiceOnlyIfUnrecorded), and a failure that *)
(* its runner reports has its audit issue, unless the report was lost or   *)
(* its key taken (FailureIsAudited).                                       *)
(*                                                                         *)
(* NewsOK says what table notification_deliveries knows of what was told:  *)
(* who is about to post holds the only right to its key, and the loop has  *)
(* nothing on its list that was recorded.  ReportsOK says who may have     *)
(* recorded the key of a failure: its runner, or a task that says so.      *)
(***************************************************************************)
EXTENDS Notifications, SequenceTheorems, TLAPS

\* The keys of the loop, and of those who report.
NewsKey == {<<kind, n>> : kind \in {"reply"} \cup Phases, n \in Nat}
ReportKey ==
  {<<>>} \cup {<<kind, n>> : kind \in {"inquisition", "landing"}, n \in Nat}
         \cup {<<"issue", i>> : i \in Issues \cup {NoIssue}}

Row == [issue: Issues, status: InFlight \cup Terminal, by: Tasks \cup {NoTask}]
LoopState ==
  [pc: {"down", "disabled", "dispatch_baseline", "event_baseline", "list_replies", "replies",
        "reply_shown", "phases", "phase_shown"},
   dispatch: Nat, event: Nat, todo: SUBSET NewsKey, threads: SUBSET Issues]
ReportState ==
  [pc: {"idle", "failed", "record", "post", "done"}, issue: Issues \cup {NoIssue},
   key: ReportKey]

Typed ==
  /\ dispatches \in Seq(Row) /\ Len(dispatches) <= MaxDispatches
  /\ replies \in Seq(Issues)
  /\ loop \in LoopState
  /\ \A k \in loop.todo : k[1] = "reply" => k[2] \in DOMAIN replies
  /\ report \in [Reporter -> ReportState]

NewsOK ==
  /\ \A p \in posted : p.key \in deliveries
  /\ \A r \in Reporter : report[r].pc = "post" =>
       /\ report[r].key \in deliveries
       /\ \A p \in posted : p.key # report[r].key
       /\ \A s \in Reporter \ {r} : report[s].pc = "post" => report[s].key # report[r].key
  /\ \A k \in loop.todo : k \notin deliveries
  /\ \A k \in shown :
       \/ k \in deliveries \cup lost
       \/ loop.pc \in {"reply_shown", "phase_shown"} /\ k = First(loop.todo)
  /\ \A k \in repeated : k \in lost /\ k \in shown

ByTask(n) == \E t \in Tasks : report[t].key = Audit(n)

RunnerOK(n) ==
  /\ report[n].pc # "failed"
  /\ report[n].pc = "idle" \/ report[n].key \in {Audit(n), Landing(n)}
  /\ n \notin DOMAIN dispatches => report[n].pc = "idle"
  /\ n \in DOMAIN dispatches /\ report[n].pc # "idle" => dispatches[n].status \in Terminal
  /\ report[n].pc \in {"idle", "record"} /\ Audit(n) \in deliveries => ByTask(n)
  /\ report[n].pc = "done" /\ report[n].key = Audit(n) =>
       [key |-> Audit(n), by |-> n] \in posted \/ Audit(n) \in lost \/ ByTask(n)

TasksOK ==
  /\ \A r \in Reporter : report[r].pc \in {"idle", "failed"} => report[r].key = <<>>
  /\ \A n \in DOMAIN dispatches : dispatches[n].by \in Tasks =>
       /\ dispatches[n].status = "starting" => report[dispatches[n].by].pc = "idle"
       /\ \A m \in DOMAIN dispatches : dispatches[m].by = dispatches[n].by => m = n
  /\ \A t \in Tasks, n \in DispatchId : report[t].key = Audit(n) =>
       n \in DOMAIN dispatches /\ dispatches[n].issue = report[t].issue

Inv ==
  /\ Typed
  /\ NewsOK
  /\ TasksOK
  /\ \A n \in DispatchId : RunnerOK(n)

-----------------------------------------------------------------------------
(* Keys, statuses and reports.                                             *)

LEMMA Reporters ==
  /\ \A n \in DispatchId : n \in Nat /\ n \in Reporter /\ n \notin Tasks
  /\ \A t \in Tasks : t \in Reporter /\ t \notin DispatchId
  /\ \A r \in Reporter : r \in Tasks \/ r \in DispatchId
<1>1. \A n \in DispatchId : n \in Nat
  BY NotificationConstants DEF NotificationConstants, DispatchId
<1> QED
  BY <1>1, NotificationConstants DEF NotificationConstants, Reporter

LEMMA Keys ==
  /\ \A k \in NewsKey : k \notin ReportKey
  /\ \A n \in Nat : Audit(n) \in ReportKey /\ Landing(n) \in ReportKey /\ Audit(n) # <<>>
  /\ \A n, m \in Nat : Audit(n) # Landing(m) /\ (Audit(n) = Audit(m) => n = m)
  /\ \A n \in Nat, i \in Issues \cup {NoIssue} : Audit(n) # <<"issue", i>> /\ <<"issue", i>> \in ReportKey
<1>1. Phases \subseteq {"started", "completed", "failed", "blocked"}
  BY NotificationConstants DEF NotificationConstants
<1>2. \A k \in NewsKey : k \notin ReportKey
  <2> TAKE k \in NewsKey
  <2>1. PICK a \in {"reply"} \cup Phases, b \in Nat : k = <<a, b>>
    BY DEF NewsKey
  <2> QED
    BY <1>1, <2>1 DEF ReportKey
<1> QED
  BY <1>2 DEF Audit, Landing, ReportKey

LEMMA FailedReport ==
  ASSUME NEW i \in Issues
  PROVE  \E y \in ReportState : /\ y = [Quiet EXCEPT !.pc = "failed", !.issue = i]
                                /\ y.pc = "failed" /\ y.issue = i /\ y.key = <<>>
<1>1. /\ Quiet \in ReportState /\ Quiet.key = <<>>
  BY DEF Quiet, ReportState, ReportKey
<1> DEFINE q == Quiet
           y == [q EXCEPT !.pc = "failed", !.issue = i]
<1> HIDE DEF q
<1>2. q \in ReportState /\ q.key = <<>>
  BY <1>1 DEF q
<1>3. y \in ReportState /\ y.pc = "failed" /\ y.issue = i /\ y.key = <<>>
  BY <1>2 DEF ReportState
<1> QED
  BY <1>3 DEF q

LEMMA StatusFacts ==
  ASSUME NEW s \in InFlight \cup Terminal, NEW e, Accepts(s, e),
         e \in {"MarkRunning", "FailStart", "HealStale", "Complete", "Block", "FailRuntime",
                "Timeout"}
  PROVE  /\ s \notin Terminal
         /\ Reduce(s, e) \in (InFlight \cup Terminal) \ {"starting"}
         /\ e # "MarkRunning" => Reduce(s, e) \in Terminal
         /\ e = "FailStart" => s = "starting"
<1>1. CASE s \in Terminal
  BY <1>1 DEF Accepts, Reduce, Rejected, InFlight, Terminal
<1>2. CASE s = "starting"
  BY <1>2 DEF Accepts, Reduce, Rejected, InFlight, Terminal
<1>3. CASE s = "running"
  BY <1>3 DEF Accepts, Reduce, Rejected, InFlight, Terminal
<1> QED
  BY <1>1, <1>2, <1>3 DEF InFlight

LEMMA ReportUpdate ==
  ASSUME Typed, NEW r \in Reporter, NEW y \in ReportState, report' = [report EXCEPT ![r] = y]
  PROVE  /\ report' \in [Reporter -> ReportState] /\ report'[r] = y
         /\ \A s \in Reporter \ {r} : report'[s] = report[s]
<1>1. report \in [Reporter -> ReportState]
  BY DEF Typed
<1> QED
  BY <1>1

LEMMA PcStep ==
  ASSUME Typed, NEW r \in Reporter, NEW p \in {"idle", "failed", "record", "post", "done"},
         report' = [report EXCEPT ![r].pc = p]
  PROVE  /\ report' \in [Reporter -> ReportState]
         /\ report'[r].pc = p /\ report'[r].key = report[r].key
         /\ report'[r].issue = report[r].issue
         /\ \A s \in Reporter \ {r} : report'[s] = report[s]
<1> PICK x : x = report[r]
  OBVIOUS
<1> DEFINE y == [x EXCEPT !.pc = p]
<1>1. x \in ReportState
  BY DEF Typed
<1>2. y \in ReportState /\ y.pc = p /\ y.key = x.key /\ y.issue = x.issue
  BY <1>1 DEF ReportState
<1>3. report' = [report EXCEPT ![r] = y]
  OBVIOUS
<1> HIDE DEF y
<1> QED
  BY <1>2, <1>3, ReportUpdate

-----------------------------------------------------------------------------
(* Steps of the dispatches and of what fails before it has a row: nothing  *)
(* is told or recorded.                                                    *)

LEMMA QuietKeeps ==
  ASSUME Inv, UNCHANGED <<deliveries, loop, shown, posted, repeated, lost>>,
         Typed', TasksOK', \A n \in DispatchId : RunnerOK(n)',
         \A r \in Reporter : report'[r].pc = "post" => report'[r] = report[r]
  PROVE  Inv'
<1>1. NewsOK'
  BY DEF Inv, NewsOK, First
<1> QED
  BY <1>1 DEF Inv

\* A reporter whose key is not set gets a report; its dispatches stay.
LEMMA NewReport ==
  ASSUME Inv, NEW t \in Tasks, NEW y \in ReportState,
         UNCHANGED <<dispatches, replies, deliveries, loop, shown, posted, repeated, lost>>,
         report' = [report EXCEPT ![t] = y], report[t].pc \in {"idle", "failed"},
         \A n \in DOMAIN dispatches : dispatches[n].by = t => dispatches[n].status # "starting",
         y.pc \in {"failed", "record", "done"}, y.pc = "failed" => y.key = <<>>,
         \A n \in DispatchId : y.key = Audit(n) =>
           n \in DOMAIN dispatches /\ dispatches[n].issue = y.issue
  PROVE  Inv'
<1>1. Typed /\ t \in Reporter
  BY Reporters DEF Inv
<1>2. /\ report' \in [Reporter -> ReportState] /\ report'[t] = y
      /\ \A s \in Reporter \ {t} : report'[s] = report[s]
  BY <1>1, ReportUpdate
<1>3. Typed'
  BY <1>1, <1>2 DEF Typed
<1>4. report[t].key = <<>>
  BY <1>1 DEF Inv, TasksOK
<1>5. \A n \in DispatchId : ByTask(n) => ByTask(n)'
  <2> SUFFICES ASSUME NEW n \in DispatchId, NEW u \in Tasks, report[u].key = Audit(n)
               PROVE  report'[u].key = Audit(n)
    BY DEF ByTask, Audit
  <2> QED
    BY <1>2, <1>4, Reporters, Keys
<1>6. ASSUME NEW n \in DispatchId PROVE RunnerOK(n)'
  <2>1. RunnerOK(n) /\ report'[n] = report[n]
    BY <1>2, Reporters DEF Inv
  <2> QED
    BY <1>5, <2>1 DEF RunnerOK, Audit, Landing
<1>7. TasksOK'
  <2>1. \A r \in Reporter : report'[r].pc \in {"idle", "failed"} => report'[r].key = <<>>
    BY <1>2 DEF Inv, TasksOK
  <2>2. \A n \in DOMAIN dispatches : dispatches[n].by \in Tasks =>
          /\ dispatches[n].status = "starting" => report'[dispatches[n].by].pc = "idle"
          /\ \A m \in DOMAIN dispatches : dispatches[m].by = dispatches[n].by => m = n
    BY <1>2, Reporters DEF Inv, TasksOK
  <2>3. \A u \in Tasks, n \in DispatchId : report'[u].key = Audit(n) =>
          n \in DOMAIN dispatches /\ dispatches[n].issue = report'[u].issue
    BY <1>2, Reporters DEF Inv, TasksOK
  <2> QED
    BY <2>1, <2>2, <2>3 DEF TasksOK, Audit
<1>8. \A r \in Reporter : report'[r].pc = "post" => report'[r] = report[r]
  BY <1>2
<1> QED
  BY <1>3, <1>6, <1>7, <1>8, QuietKeeps

\* A status changes; the runner, or the task of a row that was starting, may have
\* something to report from now on.
LEMMA StatusKeeps ==
  ASSUME Inv, NEW n \in DOMAIN dispatches, NEW s \in (InFlight \cup Terminal) \ {"starting"},
         dispatches[n].status \notin Terminal,
         dispatches' = [dispatches EXCEPT ![n].status = s],
         UNCHANGED <<replies, deliveries, loop, shown, posted, repeated, lost>>,
         \/ report' = report
         \/ /\ s \in Terminal /\ dispatches[n].by \in Tasks /\ dispatches[n].status = "starting"
            /\ report' = [report EXCEPT ![dispatches[n].by] =
                            [Quiet EXCEPT !.pc = "failed", !.issue = dispatches[n].issue]]
         \/ /\ s \in Terminal
            /\ \E y \in ReportState : /\ y.pc = "record" /\ y.key \in {Audit(n), Landing(n)}
                                      /\ report' = [report EXCEPT ![n] = y]
  PROVE  Inv'
<1>1. /\ Typed /\ TasksOK /\ dispatches \in Seq(Row) /\ n \in DispatchId
      /\ DOMAIN dispatches \subseteq DispatchId
      /\ RunnerOK(n) /\ report[n].pc = "idle" /\ n \in Reporter
  <2>1. dispatches \in Seq(Row) /\ Len(dispatches) <= MaxDispatches /\ MaxDispatches \in Nat
    BY NotificationConstants DEF Inv, Typed, NotificationConstants
  <2>2. DOMAIN dispatches = 1..Len(dispatches) /\ DOMAIN dispatches \subseteq DispatchId
    BY <2>1 DEF DispatchId
  <2> QED
    BY <2>1, <2>2, Reporters DEF Inv, RunnerOK
<1> PICK x : x = dispatches[n]
  OBVIOUS
<1>2. x \in Row
  BY <1>1
<1>3. /\ dispatches' \in Seq(Row) /\ DOMAIN dispatches' = DOMAIN dispatches
      /\ Len(dispatches') = Len(dispatches)
      /\ dispatches'[n].status = s /\ dispatches'[n].issue = x.issue
      /\ dispatches'[n].by = x.by
      /\ \A m \in DOMAIN dispatches : m # n => dispatches'[m] = dispatches[m]
  <2> DEFINE y == [x EXCEPT !.status = s]
  <2>1. y \in Row /\ y.status = s /\ y.issue = x.issue /\ y.by = x.by
    BY <1>2 DEF Row
  <2>2. dispatches' = [dispatches EXCEPT ![n] = y]
    OBVIOUS
  <2> HIDE DEF y
  <2> QED
    BY <1>1, <2>1, <2>2
<1>4. \A m \in DOMAIN dispatches :
        /\ dispatches'[m].issue = dispatches[m].issue /\ dispatches'[m].by = dispatches[m].by
        /\ dispatches'[m].status = "starting" => dispatches[m].status = "starting" /\ m # n
        /\ dispatches[m].status \in Terminal => dispatches'[m].status \in Terminal
  BY <1>3
<1>5. /\ report' \in [Reporter -> ReportState]
      /\ \A t \in Tasks : \/ report'[t] = report[t]
                          \/ /\ report[t].key = <<>> /\ report'[t].key = <<>>
                             /\ report'[t].pc = "failed" /\ t = x.by /\ s \in Terminal
      /\ \A m \in DispatchId : \/ report'[m] = report[m]
                               \/ /\ m = n /\ s \in Terminal /\ report'[m].pc = "record"
                                  /\ report'[m].key \in {Audit(n), Landing(n)}
  <2>1. CASE report' = report
    BY <1>1, <2>1 DEF Typed
  <2>2. CASE /\ s \in Terminal /\ x.by \in Tasks /\ x.status = "starting"
             /\ report' = [report EXCEPT ![x.by] =
                             [Quiet EXCEPT !.pc = "failed", !.issue = x.issue]]
    <3> PICK t \in Tasks : t = x.by
      BY <2>2
    <3>1. x.issue \in Issues /\ t \in Reporter
      BY <1>2, Reporters DEF Row
    <3> PICK y \in ReportState :
          /\ y = [Quiet EXCEPT !.pc = "failed", !.issue = x.issue]
          /\ y.pc = "failed" /\ y.issue = x.issue /\ y.key = <<>>
      BY <3>1, FailedReport
    <3>2. report' = [report EXCEPT ![t] = y]
      BY <2>2
    <3>3. /\ report' \in [Reporter -> ReportState] /\ report'[t] = y
          /\ \A r \in Reporter \ {t} : report'[r] = report[r]
      BY <1>1, <3>1, <3>2, ReportUpdate
    <3>4. report[t].key = <<>>
      BY <1>1, <2>2, Reporters DEF TasksOK
    <3> QED
      BY <2>2, <3>1, <3>3, <3>4, Reporters
  <2>3. CASE /\ s \in Terminal
             /\ \E y \in ReportState : /\ y.pc = "record" /\ y.key \in {Audit(n), Landing(n)}
                                       /\ report' = [report EXCEPT ![n] = y]
    <3>1. PICK y \in ReportState : /\ y.pc = "record" /\ y.key \in {Audit(n), Landing(n)}
                                   /\ report' = [report EXCEPT ![n] = y]
      BY <2>3
    <3>2. /\ report' \in [Reporter -> ReportState] /\ report'[n] = y
          /\ \A r \in Reporter \ {n} : report'[r] = report[r]
      BY <1>1, <3>1, ReportUpdate
    <3> QED
      BY <1>1, <2>3, <3>1, <3>2, Reporters
  <2> QED
    BY <2>1, <2>2, <2>3
<1>6. Typed'
  BY <1>1, <1>3, <1>5 DEF Typed
<1>7. \A m \in DispatchId : ByTask(m)' <=> ByTask(m)
  <2> TAKE m \in DispatchId
  <2>1. \A t \in Tasks : report'[t].key = Audit(m) <=> report[t].key = Audit(m)
    BY <1>5
  <2> QED
    BY <2>1 DEF ByTask, Audit
<1>8. ASSUME NEW m \in DispatchId PROVE RunnerOK(m)'
  <2>1. RunnerOK(m) /\ (ByTask(m)' <=> ByTask(m))
    BY <1>7 DEF Inv
  <2>2. CASE report'[m] = report[m]
    BY <1>3, <1>4, <2>1, <2>2 DEF RunnerOK, Audit, Landing
  <2>3. CASE /\ m = n /\ s \in Terminal /\ report'[m].pc = "record"
             /\ report'[m].key \in {Audit(n), Landing(n)}
    BY <1>1, <1>3, <2>1, <2>3 DEF RunnerOK, Audit, Landing
  <2> QED
    BY <1>5, <2>2, <2>3
<1>9. TasksOK'
  <2>1. \A r \in Reporter : report'[r].pc \in {"idle", "failed"} => report'[r].key = <<>>
    BY <1>1, <1>5, Reporters DEF TasksOK
  <2>2. ASSUME NEW m \in DOMAIN dispatches, dispatches[m].by \in Tasks
        PROVE  /\ dispatches'[m].status = "starting" => report'[dispatches[m].by].pc = "idle"
               /\ \A o \in DOMAIN dispatches : dispatches[o].by = dispatches[m].by => o = m
    BY <1>1, <1>4, <1>5, <2>2 DEF TasksOK
  <2>3. \A u \in Tasks, m \in DispatchId : report'[u].key = Audit(m) =>
          m \in DOMAIN dispatches /\ dispatches[m].issue = report'[u].issue
    <3> TAKE u \in Tasks, m \in DispatchId
    <3>1. Audit(m) # <<>>
      BY Keys, Reporters
    <3> QED
      BY <1>1, <1>5, <3>1 DEF TasksOK
  <2> QED
    BY <1>3, <1>4, <2>1, <2>2, <2>3 DEF TasksOK, Audit
<1>10. \A r \in Reporter : report'[r].pc = "post" => report'[r] = report[r]
  BY <1>5, Reporters
<1> QED
  BY <1>6, <1>8, <1>9, <1>10, QuietKeeps

LEMMA DispatchStepKeeps ==
  ASSUME Inv, NEW n \in DOMAIN dispatches, DispatchStep(n)
  PROVE  Inv'
<1>1. dispatches \in Seq(Row) /\ Typed
  BY DEF Inv, Typed
<1> PICK x : x = dispatches[n]
  OBVIOUS
<1>2. x \in Row /\ x.status \in InFlight \cup Terminal /\ x.by \in Tasks \cup {NoTask}
      /\ x.issue \in Issues /\ NoTask \notin Tasks
  <2>1. x \in Row
    BY <1>1
  <2> QED
    BY <2>1, NotificationConstants DEF Row, NotificationConstants
<1>3. n \in DispatchId /\ n \in Reporter /\ report[n] \in ReportState /\ n \in Nat
  <2>1. Len(dispatches) <= MaxDispatches /\ MaxDispatches \in Nat /\ DOMAIN dispatches = 1..Len(dispatches)
    BY <1>1, NotificationConstants DEF Typed, NotificationConstants
  <2>2. n \in DispatchId
    BY <1>1, <2>1 DEF DispatchId
  <2> QED
    BY <1>1, <2>2, Reporters DEF Typed
<1>4. FailedTask(n) = report \/ /\ x.by \in Tasks
                                /\ FailedTask(n) = [report EXCEPT ![x.by] =
                                      [Quiet EXCEPT !.pc = "failed", !.issue = x.issue]]
  BY <1>2 DEF FailedTask
<1>5. CASE MarkRunning(n)
  <2> PICK s : s = Reduce(x.status, "MarkRunning")
    OBVIOUS
  <2>1. Accepts(x.status, "MarkRunning") /\ dispatches' = [dispatches EXCEPT ![n].status = s]
    BY <1>5 DEF MarkRunning, SetStatus
  <2>2. x.status \notin Terminal /\ s \in (InFlight \cup Terminal) \ {"starting"}
    BY <1>2, <2>1, StatusFacts
  <2> QED
    BY <1>5, <2>1, <2>2, StatusKeeps DEF MarkRunning, Told
<1>6. CASE StartFails(n)
  <2> PICK s : s = Reduce(x.status, "FailStart")
    OBVIOUS
  <2>1. Accepts(x.status, "FailStart") /\ dispatches' = [dispatches EXCEPT ![n].status = s]
    BY <1>6 DEF StartFails, SetStatus
  <2>2. /\ x.status \notin Terminal /\ s \in (InFlight \cup Terminal) \ {"starting"}
        /\ s \in Terminal /\ x.status = "starting"
    BY <1>2, <2>1, StatusFacts
  <2>3. /\ UNCHANGED <<replies, deliveries, loop, shown, posted, repeated, lost>>
        /\ report' = FailedTask(n)
    BY <1>6 DEF StartFails, Told
  <2> QED
    BY <1>4, <2>1, <2>2, <2>3, StatusKeeps
<1>7. CASE Heal(n)
  <2> PICK s : s = Reduce(x.status, "HealStale")
    OBVIOUS
  <2>1. Accepts(x.status, "HealStale") /\ dispatches' = [dispatches EXCEPT ![n].status = s]
    BY <1>7 DEF Heal, SetStatus
  <2>2. /\ x.status \notin Terminal /\ s \in (InFlight \cup Terminal) \ {"starting"}
        /\ s \in Terminal
    BY <1>2, <2>1, StatusFacts
  <2>3. /\ UNCHANGED <<replies, deliveries, loop, shown, posted, repeated, lost>>
        /\ report' = IF x.status = "starting" THEN FailedTask(n) ELSE report
    BY <1>7 DEF Heal, Told
  <2> QED
    BY <1>4, <2>1, <2>2, <2>3, StatusKeeps
<1>8. ASSUME NEW e \in {"Complete", "Block", "FailRuntime", "Timeout"}, Finalize(n, e)
      PROVE  Inv'
  <2> PICK s : s = Reduce(x.status, e)
    OBVIOUS
  <2>1. Accepts(x.status, e) /\ dispatches' = [dispatches EXCEPT ![n].status = s]
    BY <1>8 DEF Finalize, SetStatus
  <2>2. /\ x.status \notin Terminal /\ s \in (InFlight \cup Terminal) \ {"starting"}
        /\ s \in Terminal
    BY <1>2, <2>1, StatusFacts
  <2>3. UNCHANGED <<replies, deliveries, loop, shown, posted, repeated, lost>>
    BY <1>8 DEF Finalize, Told
  <2>4. \/ report' = report
        \/ \E y \in ReportState : /\ y.pc = "record" /\ y.key \in {Audit(n), Landing(n)}
                                  /\ report' = [report EXCEPT ![n] = y]
    <3>1. CASE report' = report
      BY <3>1
    <3>2. ASSUME NEW k \in {Audit(n), Landing(n)},
                 report' = [report EXCEPT ![n] = [report[n] EXCEPT !.pc = "record", !.key = k]]
          PROVE  \E y \in ReportState : /\ y.pc = "record" /\ y.key \in {Audit(n), Landing(n)}
                                        /\ report' = [report EXCEPT ![n] = y]
      <4> DEFINE y == [report[n] EXCEPT !.pc = "record", !.key = k]
      <4>1. k \in ReportKey
        BY <1>3, Keys
      <4>2. y \in ReportState /\ y.pc = "record" /\ y.key = k
        BY <1>3, <4>1 DEF ReportState
      <4>3. report' = [report EXCEPT ![n] = y]
        BY <3>2
      <4> HIDE DEF y
      <4> QED
        BY <4>2, <4>3
    <3> QED
      BY <1>8, <3>1, <3>2 DEF Finalize
  <2> QED
    BY <2>1, <2>2, <2>3, <2>4, StatusKeeps
<1> QED
  BY <1>5, <1>6, <1>7, <1>8 DEF DispatchStep

LEMMA ReserveKeeps ==
  ASSUME Inv, NEW i \in Issues, NEW t \in Tasks \cup {NoTask}, Reserve(i, t)
  PROVE  Inv'
<1> PICK x, n : x = [issue |-> i, status |-> "starting", by |-> t] /\ n = Len(dispatches) + 1
  OBVIOUS
<1>1. /\ Typed /\ TasksOK /\ dispatches \in Seq(Row) /\ x \in Row /\ Len(dispatches) \in Nat
      /\ Len(dispatches) < MaxDispatches /\ MaxDispatches \in Nat /\ n \in DispatchId
      /\ DOMAIN dispatches = 1..Len(dispatches) /\ n \notin DOMAIN dispatches
  <2>1. /\ dispatches \in Seq(Row) /\ Len(dispatches) < MaxDispatches /\ MaxDispatches \in Nat
        /\ Typed /\ TasksOK
    BY NotificationConstants DEF Inv, Typed, NotificationConstants, Reserve
  <2>2. x \in Row
    BY DEF Row, InFlight
  <2>3. Len(dispatches) \in Nat /\ DOMAIN dispatches = 1..Len(dispatches)
    BY <2>1
  <2> QED
    BY <2>1, <2>2, <2>3 DEF DispatchId
<1>2. /\ dispatches' \in Seq(Row) /\ Len(dispatches') = n /\ DOMAIN dispatches' = 1..n
      /\ dispatches'[n] = x
      /\ \A m \in DOMAIN dispatches : dispatches'[m] = dispatches[m] /\ m \in DOMAIN dispatches'
  <2>1. dispatches' = Append(dispatches, x)
    BY DEF Reserve
  <2> QED
    BY <1>1, <2>1, AppendProperties
<1>3. /\ UNCHANGED <<replies, deliveries, loop, report, shown, posted, repeated, lost>>
      /\ t \in Tasks => /\ report[t].pc = "idle"
                        /\ \A m \in DOMAIN dispatches : dispatches[m].by # t
  BY DEF Reserve, Told
<1>4. \A m \in DOMAIN dispatches' : m \in DOMAIN dispatches \/ m = n
  BY <1>1, <1>2
<1>5. Typed'
  BY <1>1, <1>2, <1>3 DEF Typed
<1>6. ASSUME NEW m \in DispatchId PROVE RunnerOK(m)'
  <2>1. RunnerOK(m) /\ (ByTask(m)' <=> ByTask(m))
    BY <1>3 DEF Inv, ByTask, Audit
  <2>2. m = n => report[m].pc = "idle"
    BY <1>1, <2>1 DEF RunnerOK
  <2> QED
    BY <1>2, <1>3, <1>4, <2>1, <2>2 DEF RunnerOK, Audit, Landing
<1>7. TasksOK'
  <2>1. \A r \in Reporter : report'[r].pc \in {"idle", "failed"} => report'[r].key = <<>>
    BY <1>1, <1>3 DEF TasksOK
  <2>2. ASSUME NEW m \in DOMAIN dispatches', dispatches'[m].by \in Tasks
        PROVE  /\ dispatches'[m].status = "starting" => report'[dispatches'[m].by].pc = "idle"
               /\ \A o \in DOMAIN dispatches' : dispatches'[o].by = dispatches'[m].by => o = m
    <3>1. CASE m = n
      BY <1>2, <1>3, <1>4, <2>2, <3>1
    <3>2. CASE m \in DOMAIN dispatches
      BY <1>1, <1>2, <1>3, <1>4, <2>2, <3>2 DEF TasksOK
    <3> QED
      BY <1>4, <3>1, <3>2
  <2>3. \A u \in Tasks, m \in DispatchId : report'[u].key = Audit(m) =>
          m \in DOMAIN dispatches' /\ dispatches'[m].issue = report'[u].issue
    BY <1>1, <1>2, <1>3 DEF TasksOK
  <2> QED
    BY <2>1, <2>2, <2>3 DEF TasksOK, Audit
<1>8. \A r \in Reporter : report'[r].pc = "post" => report'[r] = report[r]
  BY <1>3
<1> QED
  BY <1>3, <1>5, <1>6, <1>7, <1>8, QuietKeeps

LEMMA ReplyKeeps ==
  ASSUME Inv, NEW i \in Issues, Reply(i)
  PROVE  Inv'
<1>1. /\ UNCHANGED <<dispatches, deliveries, loop, report, shown, posted, repeated, lost>>
      /\ Typed /\ TasksOK /\ replies' = Append(replies, i) /\ replies \in Seq(Issues)
  BY DEF Reply, Told, Inv, Typed
<1>2. replies' \in Seq(Issues) /\ \A k \in DOMAIN replies : k \in DOMAIN replies'
  BY <1>1, AppendProperties
<1>3. Typed'
  BY <1>1, <1>2 DEF Typed
<1>4. TasksOK'
  BY <1>1 DEF TasksOK, Audit
<1>5. \A n \in DispatchId : RunnerOK(n)'
  BY <1>1 DEF Inv, RunnerOK, ByTask, Audit, Landing
<1> QED
  BY <1>1, <1>3, <1>4, <1>5, QuietKeeps

LEMMA RequestFailsKeeps ==
  ASSUME Inv, NEW t \in Tasks, NEW i \in Issues, RequestFails(t, i)
  PROVE  Inv'
<1>1. PICK y \in ReportState :
        /\ y = [Quiet EXCEPT !.pc = "failed", !.issue = i]
        /\ y.pc = "failed" /\ y.issue = i /\ y.key = <<>>
  BY FailedReport
<1>2. /\ report' = [report EXCEPT ![t] = y] /\ report[t].pc = "idle"
      /\ UNCHANGED <<dispatches, replies, deliveries, loop, shown, posted, repeated, lost>>
      /\ \A n \in DOMAIN dispatches : dispatches[n].by # t
  BY <1>1 DEF RequestFails, work, Told
<1>3. \A n \in DispatchId : y.key = Audit(n) =>
        n \in DOMAIN dispatches /\ dispatches[n].issue = y.issue
  BY <1>1, Keys, Reporters
<1>4. y.pc \in {"failed", "record", "done"} /\ (y.pc = "failed" => y.key = <<>>)
  BY <1>1
<1> HIDE <1>1
<1> QED
  BY <1>2, <1>3, <1>4, NewReport

\* The task files its failure under the latest row of its issue.
LEMMA LookUpKeeps ==
  ASSUME Inv, NEW t \in Tasks, LookUp(t)
  PROVE  Inv'
<1>1. /\ Typed /\ TasksOK /\ report[t].pc = "failed" /\ t \in Reporter
      /\ UNCHANGED <<dispatches, replies, deliveries, loop, shown, posted, repeated, lost>>
  BY Reporters DEF LookUp, Inv, work, Told
<1> PICK x : x = report[t]
  OBVIOUS
<1>2. x \in ReportState /\ x.pc = "failed" /\ x.key = <<>>
  BY <1>1 DEF Typed, TasksOK
<1>3. \A n \in DOMAIN dispatches : dispatches[n].by = t => dispatches[n].status # "starting"
  BY <1>1 DEF TasksOK
<1>4. CASE x.issue \in AuditIssues
  <2> DEFINE y == [x EXCEPT !.pc = "done"]
  <2>1. y \in ReportState /\ y.pc = "done" /\ y.key = <<>>
    BY <1>2 DEF ReportState
  <2>2. report' = [report EXCEPT ![t] = y]
    BY <1>4 DEF LookUp
  <2> HIDE DEF y
  <2>3. \A n \in DispatchId : y.key = Audit(n) =>
          n \in DOMAIN dispatches /\ dispatches[n].issue = y.issue
    BY <2>1, Keys, Reporters
  <2> QED
    BY <1>1, <1>3, <2>1, <2>2, <2>3, NewReport
<1>5. CASE x.issue \notin AuditIssues
  <2>1. PICK k \in LatestKey(x.issue) :
          report' = [report EXCEPT ![t] = [x EXCEPT !.pc = "record", !.key = k]]
    BY <1>5 DEF LookUp
  <2>2. /\ k \in ReportKey
        /\ \A n \in DispatchId : k = Audit(n) =>
             n \in DOMAIN dispatches /\ dispatches[n].issue = x.issue
    <3> DEFINE rows == {n \in DOMAIN dispatches : dispatches[n].issue = x.issue}
    <3>1. DOMAIN dispatches \subseteq Nat
      BY <1>1 DEF Typed
    <3>2. CASE rows = {}
      <4>1. k = <<"issue", x.issue>>
        BY <2>1, <3>2 DEF LatestKey
      <4>2. x.issue \in Issues \cup {NoIssue}
        BY <1>2 DEF ReportState
      <4> QED
        BY <4>1, <4>2, Keys, Reporters
    <3>3. CASE rows # {}
      <4>1. PICK m \in rows : k = Audit(m)
        BY <2>1, <3>3 DEF LatestKey
      <4> QED
        BY <3>1, <4>1, Keys, Reporters
    <3> QED
      BY <3>2, <3>3
  <2> DEFINE y == [x EXCEPT !.pc = "record", !.key = k]
  <2>3. y \in ReportState /\ y.pc = "record" /\ y.key = k /\ y.issue = x.issue
    BY <1>2, <2>2 DEF ReportState
  <2>4. report' = [report EXCEPT ![t] = y]
    BY <2>1
  <2> HIDE DEF y
  <2> QED
    BY <1>1, <1>2, <1>3, <2>2, <2>3, <2>4, NewReport
<1> QED
  BY <1>4, <1>5

-----------------------------------------------------------------------------
(* Steps of those who report.                                              *)

\* A reporter records its key, posts, or loses its report.
LEMMA ReportMoves ==
  ASSUME Inv, NEW r \in Reporter, NEW p \in {"post", "done"},
         report[r].pc \in {"record", "post"}, report' = [report EXCEPT ![r].pc = p],
         UNCHANGED <<dispatches, replies, loop, shown, repeated>>,
         deliveries \subseteq deliveries', posted \subseteq posted', lost \subseteq lost',
         deliveries' \subseteq deliveries \cup {report[r].key},
         p = "post" => /\ report[r].key \notin deliveries /\ report[r].key \in deliveries'
                       /\ posted' = posted,
         \A q \in posted' : q \in posted \/ (q.key = report[r].key /\ report[r].pc = "post"),
         p = "done" /\ r \in DispatchId /\ report[r].key = Audit(r) =>
           [key |-> Audit(r), by |-> r] \in posted' \/ Audit(r) \in lost' \/ ByTask(r)
  PROVE  Inv'
<1>1. Typed /\ NewsOK /\ TasksOK
  BY DEF Inv
<1>2. /\ report' \in [Reporter -> ReportState]
      /\ report'[r].pc = p /\ report'[r].key = report[r].key
      /\ report'[r].issue = report[r].issue
      /\ \A s \in Reporter \ {r} : report'[s] = report[s]
  BY <1>1, PcStep
<1>3. Typed'
  BY <1>1, <1>2 DEF Typed
<1>4. TasksOK'
  <2>1. \A s \in Reporter : report'[s].pc \in {"idle", "failed"} => report'[s].key = <<>>
    BY <1>1, <1>2 DEF TasksOK
  <2>2. \A n \in DOMAIN dispatches : dispatches[n].by \in Tasks =>
          /\ dispatches[n].status = "starting" => report'[dispatches[n].by].pc = "idle"
          /\ \A m \in DOMAIN dispatches : dispatches[m].by = dispatches[n].by => m = n
    BY <1>1, <1>2, Reporters DEF TasksOK
  <2>3. \A t \in Tasks : report'[t].key = report[t].key /\ report'[t].issue = report[t].issue
    BY <1>2, Reporters
  <2> QED
    BY <1>1, <2>1, <2>2, <2>3 DEF TasksOK, Audit
<1>5. NewsOK'
  <2>1. report[r].key \in ReportKey
    BY <1>1 DEF Typed, ReportState
  <2>2. \A k \in loop.todo : k \notin deliveries'
    BY <1>1, <2>1, Keys DEF NewsOK, Typed, LoopState
  <2>3. \A q \in posted' : q.key \in deliveries'
    BY <1>1 DEF NewsOK
  <2>4. ASSUME NEW s \in Reporter, report'[s].pc = "post"
        PROVE  /\ report'[s].key \in deliveries'
               /\ \A q \in posted' : q.key # report'[s].key
               /\ \A u \in Reporter \ {s} : report'[u].pc = "post" =>
                                             report'[u].key # report'[s].key
    <3>1. CASE s = r
      <4>1. p = "post" /\ report[r].key \notin deliveries /\ report[r].key \in deliveries'
            /\ posted' = posted
        BY <1>2, <2>4, <3>1
      <4>2. \A q \in posted : q.key # report[r].key
        BY <1>1, <4>1 DEF NewsOK
      <4>3. \A u \in Reporter \ {r} : report'[u].pc = "post" => report'[u].key # report[r].key
        BY <1>1, <1>2, <4>1 DEF NewsOK
      <4> QED
        BY <1>2, <3>1, <4>1, <4>2, <4>3
    <3>2. CASE s # r
      <4>1. report[s].pc = "post" /\ report'[s] = report[s]
        BY <1>2, <2>4, <3>2
      <4>2. /\ report[s].key \in deliveries
            /\ \A q \in posted : q.key # report[s].key
            /\ \A u \in Reporter \ {s} : report[u].pc = "post" => report[u].key # report[s].key
        BY <1>1, <4>1 DEF NewsOK
      <4>3. \A q \in posted' : q.key # report[s].key
        BY <3>2, <4>2
      <4>4. ASSUME NEW u \in Reporter \ {s}, report'[u].pc = "post"
            PROVE  report'[u].key # report[s].key
        <5>1. CASE u = r
          BY <1>2, <4>2, <4>4, <5>1
        <5>2. CASE u # r
          BY <1>2, <4>2, <4>4, <5>2
        <5> QED
          BY <5>1, <5>2
      <4> QED
        BY <4>1, <4>2, <4>3, <4>4
    <3> QED
      BY <3>1, <3>2
  <2>5. \A k \in shown :
          \/ k \in deliveries' \cup lost'
          \/ loop.pc \in {"reply_shown", "phase_shown"} /\ k = First(loop.todo)
    BY <1>1 DEF NewsOK
  <2>6. \A k \in repeated : k \in lost' /\ k \in shown
    BY <1>1 DEF NewsOK
  <2> QED
    BY <2>2, <2>3, <2>4, <2>5, <2>6 DEF NewsOK, First
<1>6. ASSUME NEW n \in DispatchId PROVE RunnerOK(n)'
  <2>1. RunnerOK(n) /\ n \in Nat /\ n \in Reporter
    BY Reporters DEF Inv
  <2>2. ByTask(n)' <=> ByTask(n)
    <3>1. \A t \in Tasks : report'[t].key = report[t].key
      BY <1>2, Reporters
    <3> QED
      BY <3>1 DEF ByTask, Audit
  <2>3. CASE n = r
    BY <1>2, <2>1, <2>2, <2>3 DEF RunnerOK, Audit, Landing
  <2>4. CASE n # r
    <3>1. report'[n] = report[n]
      BY <1>2, <2>1, <2>4
    <3>2. report[r].key = Audit(n) => ByTask(n)
      <4> SUFFICES ASSUME report[r].key = Audit(n), r \in DispatchId
                   PROVE  FALSE
        BY Reporters DEF ByTask
      <4>1. RunnerOK(r) /\ r \in Nat
        BY Reporters DEF Inv
      <4>2. report[r].key \in {Audit(r), Landing(r)}
        BY <4>1 DEF RunnerOK
      <4> QED
        BY <2>1, <2>4, <4>1, <4>2, Keys
    <3> QED
      BY <2>1, <2>2, <3>1, <3>2 DEF RunnerOK, Audit, Landing
  <2> QED
    BY <2>3, <2>4
<1> QED
  BY <1>3, <1>4, <1>5, <1>6 DEF Inv

LEMMA ReportStepKeeps ==
  ASSUME Inv, NEW r \in Reporter, ReportStep(r)
  PROVE  Inv'
<1>1. NewsOK /\ Typed
  BY DEF Inv
<1>2. CASE Record(r)
  <2>1. /\ report[r].pc = "record" /\ deliveries' = deliveries \cup {report[r].key}
        /\ UNCHANGED <<dispatches, replies, loop, shown, posted, repeated, lost>>
    BY <1>2 DEF Record, work, Told
  <2>4. /\ deliveries \subseteq deliveries' /\ posted \subseteq posted' /\ lost \subseteq lost'
        /\ deliveries' \subseteq deliveries \cup {report[r].key} /\ report[r].key \in deliveries'
        /\ \A q \in posted' : q \in posted \/ (q.key = report[r].key /\ report[r].pc = "post")
    BY <2>1
  <2>2. CASE report[r].key \in deliveries
    <3>1. report' = [report EXCEPT ![r].pc = "done"]
      BY <1>2, <2>2 DEF Record
    <3>2. r \in DispatchId /\ report[r].key = Audit(r) => ByTask(r)
      BY <2>1, <2>2 DEF Inv, RunnerOK
    <3> QED
      BY <2>1, <2>4, <3>1, <3>2, ReportMoves
  <2>3. CASE report[r].key \notin deliveries
    <3>1. report' = [report EXCEPT ![r].pc = "post"]
      BY <1>2, <2>3 DEF Record
    <3> QED
      BY <2>1, <2>3, <2>4, <3>1, ReportMoves
  <2> QED
    BY <2>2, <2>3
<1>3. CASE Post(r)
  <2>1. /\ report[r].pc = "post" /\ report' = [report EXCEPT ![r].pc = "done"]
        /\ posted' = posted \cup {[key |-> report[r].key, by |-> r]}
        /\ UNCHANGED <<dispatches, replies, deliveries, loop, shown, lost>>
    BY <1>3 DEF Post, work
  <2>2. \A q \in posted : q.key # report[r].key
    BY <1>1, <2>1 DEF NewsOK
  <2>3. repeated' = repeated
    BY <1>3, <2>2 DEF Post
  <2>4. \A q \in posted' : q \in posted \/ (q.key = report[r].key /\ report[r].pc = "post")
    BY <2>1
  <2> QED
    BY <2>1, <2>3, <2>4, ReportMoves
<1>4. CASE ReportLost(r)
  <2>1. /\ report[r].pc \in {"record", "post"} /\ report' = [report EXCEPT ![r].pc = "done"]
        /\ lost' = lost \cup {report[r].key}
        /\ UNCHANGED <<dispatches, replies, deliveries, loop, shown, posted, repeated>>
    BY <1>4 DEF ReportLost, work
  <2>2. /\ deliveries \subseteq deliveries' /\ posted \subseteq posted' /\ lost \subseteq lost'
        /\ deliveries' \subseteq deliveries \cup {report[r].key}
        /\ \A q \in posted' : q \in posted \/ (q.key = report[r].key /\ report[r].pc = "post")
        /\ report[r].key \in lost'
    BY <2>1
  <2> QED
    BY <2>1, <2>2, ReportMoves
<1> QED
  BY <1>2, <1>3, <1>4 DEF ReportStep

-----------------------------------------------------------------------------
(* Steps of the loop, its end and its start.                               *)

\* The reports stay, and only news are recorded.
LEMMA LoopKeeps ==
  ASSUME Inv, UNCHANGED <<dispatches, replies, report, posted>>,
         deliveries \subseteq deliveries', lost \subseteq lost',
         \A k \in deliveries' : k \in deliveries \/ k \in NewsKey,
         loop' \in LoopState,
         \A k \in loop'.todo : /\ k \notin deliveries'
                               /\ k[1] = "reply" => k[2] \in DOMAIN replies,
         \A k \in shown' :
           \/ k \in deliveries' \cup lost'
           \/ loop'.pc \in {"reply_shown", "phase_shown"} /\ k = First(loop'.todo),
         \A k \in repeated' : k \in lost' /\ k \in shown'
  PROVE  Inv'
<1>1. Typed /\ NewsOK /\ TasksOK
  BY DEF Inv
<1>2. Typed'
  BY <1>1 DEF Typed
<1>3. NewsOK'
  <2>1. \A q \in posted' : q.key \in deliveries'
    BY <1>1 DEF NewsOK
  <2>2. \A r \in Reporter : report'[r].pc = "post" =>
          /\ report'[r].key \in deliveries'
          /\ \A q \in posted' : q.key # report'[r].key
          /\ \A s \in Reporter \ {r} : report'[s].pc = "post" => report'[s].key # report'[r].key
    BY <1>1 DEF NewsOK
  <2> QED
    BY <2>1, <2>2 DEF NewsOK, First
<1>4. TasksOK'
  BY <1>1 DEF TasksOK, Audit
<1>5. ASSUME NEW n \in DispatchId PROVE RunnerOK(n)'
  <2>1. RunnerOK(n) /\ (ByTask(n)' <=> ByTask(n))
    BY DEF Inv, ByTask, Audit
  <2>2. Audit(n) \in deliveries' => Audit(n) \in deliveries
    BY Keys, Reporters
  <2> QED
    BY <2>1, <2>2 DEF RunnerOK, Audit, Landing
<1> QED
  BY <1>2, <1>3, <1>4, <1>5 DEF Inv

LEMMA Listing ==
  ASSUME Typed
  PROVE  /\ PendingReplies \subseteq NewsKey \ deliveries
         /\ \A k \in PendingReplies : k[2] \in DOMAIN replies
         /\ PendingPhases \subseteq NewsKey \ deliveries
         /\ \A k \in PendingPhases : k[1] # "reply"
<1>1. /\ DOMAIN replies \subseteq Nat /\ DOMAIN dispatches \subseteq Nat
  BY DEF Typed
<1>2. ASSUME NEW k \in PendingReplies
      PROVE  k \in NewsKey \ deliveries /\ k[2] \in DOMAIN replies
  <2>1. PICK e \in DOMAIN replies : k = <<"reply", e>> /\ k \notin deliveries
    BY DEF PendingReplies, Listed
  <2> QED
    BY <1>1, <2>1 DEF NewsKey
<1>3. ASSUME NEW k \in PendingPhases
      PROVE  k \in NewsKey \ deliveries /\ k[1] # "reply"
  <2>1. PICK n \in DOMAIN dispatches :
          k = <<PhaseOf(dispatches[n].status), n>> /\ k \notin deliveries /\ k[1] \in Phases
    BY DEF PendingPhases, Listed
  <2>2. k[1] # "reply"
    BY <2>1, NotificationConstants DEF NotificationConstants
  <2>3. k = <<k[1], n>> /\ n \in Nat
    BY <1>1, <2>1
  <2>4. k \in NewsKey
    <3> PICK a : a = k[1]
      OBVIOUS
    <3>1. a \in Phases /\ k = <<a, n>> /\ n \in Nat
      BY <2>1, <2>3
    <3>2. a \in {"reply"} \cup Phases
      BY <3>1
    <3>3. <<a, n>> \in NewsKey
      BY <3>1, <3>2 DEF NewsKey
    <3> QED
      BY <3>1, <3>3
  <2> QED
    BY <2>1, <2>2, <2>4
<1> QED
  BY <1>2, <1>3

LEMMA LoopStepKeeps ==
  ASSUME Inv, LoopStep
  PROVE  Inv'
<1>1. /\ Typed /\ NewsOK /\ loop \in LoopState
      /\ loop.pc \notin {"reply_shown", "phase_shown"} => \A k \in shown : k \in deliveries \cup lost
      /\ \A k \in loop.todo : /\ k \in NewsKey /\ k \notin deliveries
                              /\ k[1] = "reply" => k[2] \in DOMAIN replies
      /\ \A k \in repeated : k \in lost /\ k \in shown
  BY DEF Inv, Typed, NewsOK, LoopState
<1> PICK l : l = loop
  OBVIOUS
<1>2. l \in LoopState
  BY <1>1
\* A step of the loop that neither shows nor records.
<1>3. ASSUME NEW m \in LoopState, loop' = m, LoopOnly,
             l.pc \notin {"reply_shown", "phase_shown"},
             \A k \in m.todo : k \notin deliveries /\ (k[1] = "reply" => k[2] \in DOMAIN replies)
      PROVE  Inv'
  <2>1. UNCHANGED <<dispatches, replies, report, posted, deliveries, shown, repeated, lost>>
    BY <1>3 DEF LoopOnly, work, Told
  <2>2. \A k \in shown : k \in deliveries \cup lost
    BY <1>1, <1>3
  <2> QED
    BY <1>1, <1>3, <2>1, <2>2, LoopKeeps
<1>4. CASE DispatchBaseline
  <2>1. Len(dispatches) \in Nat
    BY <1>1 DEF Typed
  <2>2. PICK v \in Nat : loop' = [l EXCEPT !.pc = "event_baseline", !.dispatch = v]
    BY <1>4, <2>1 DEF DispatchBaseline
  <2> DEFINE m == [l EXCEPT !.pc = "event_baseline", !.dispatch = v]
  <2>3. m \in LoopState /\ m.todo = l.todo
    BY <1>2 DEF LoopState
  <2>4. loop' = m
    BY <2>2
  <2> HIDE DEF m
  <2> QED
    BY <1>1, <1>3, <1>4, <2>3, <2>4 DEF DispatchBaseline
<1>5. CASE EventBaseline
  <2>1. Len(replies) \in Nat
    BY <1>1 DEF Typed
  <2>2. PICK v \in Nat : loop' = [l EXCEPT !.pc = "list_replies", !.event = v]
    BY <1>5, <2>1 DEF EventBaseline
  <2> DEFINE m == [l EXCEPT !.pc = "list_replies", !.event = v]
  <2>3. m \in LoopState /\ m.todo = l.todo
    BY <1>2 DEF LoopState
  <2>4. loop' = m
    BY <2>2
  <2> HIDE DEF m
  <2> QED
    BY <1>1, <1>3, <1>5, <2>3, <2>4 DEF EventBaseline
<1>6. CASE ListReplies
  <2> PICK todo : todo = PendingReplies
    OBVIOUS
  <2>1. todo \subseteq NewsKey \ deliveries /\ \A k \in todo : k[2] \in DOMAIN replies
    BY <1>1, Listing
  <2> DEFINE m == [l EXCEPT !.pc = "replies", !.todo = todo, !.threads = {}]
  <2>2. m \in LoopState /\ m.todo = todo
    BY <1>2, <2>1 DEF LoopState
  <2>3. loop' = m
    BY <1>6 DEF ListReplies
  <2> HIDE DEF m
  <2> QED
    BY <1>3, <1>6, <2>1, <2>2, <2>3 DEF ListReplies
<1>7. CASE ListPhases
  <2> PICK todo : todo = PendingPhases
    OBVIOUS
  <2>1. todo \subseteq NewsKey \ deliveries /\ \A k \in todo : k[1] # "reply"
    BY <1>1, Listing
  <2> DEFINE m == [l EXCEPT !.pc = "phases", !.todo = todo]
  <2>2. m \in LoopState /\ m.todo = todo
    BY <1>2, <2>1 DEF LoopState
  <2>3. loop' = m
    BY <1>7 DEF ListPhases
  <2> HIDE DEF m
  <2> QED
    BY <1>3, <1>7, <2>1, <2>2, <2>3 DEF ListPhases
<1>8. CASE Sleep
  <2> DEFINE m == [l EXCEPT !.pc = "list_replies", !.threads = {}]
  <2>1. m \in LoopState /\ m.todo = l.todo
    BY <1>2 DEF LoopState
  <2>2. loop' = m
    BY <1>8 DEF Sleep
  <2> HIDE DEF m
  <2> QED
    BY <1>1, <1>3, <1>8, <2>1, <2>2 DEF Sleep
<1>9. ASSUME NEW k \in loop.todo, Show(k)
      PROVE  Inv'
  <2>1. /\ l.pc \in {"replies", "phases"} /\ k = First(l.todo)
        /\ shown' = shown \cup {k} /\ repeated' = repeated \cup ({k} \cap shown)
        /\ UNCHANGED <<dispatches, replies, deliveries, report, posted, lost>>
    BY <1>9 DEF Show, work
  <2>2. \E p \in {"reply_shown", "phase_shown"}, u \in SUBSET Issues :
          loop' = [l EXCEPT !.pc = p, !.threads = u]
    <3> PICK p : p = IF l.pc = "replies" THEN "reply_shown" ELSE "phase_shown"
      OBVIOUS
    <3> PICK u : u = IF k[1] = "reply" THEN l.threads \cup {IssueOf(k)} ELSE l.threads
      OBVIOUS
    <3>1. p \in {"reply_shown", "phase_shown"}
      OBVIOUS
    <3>2. u \in SUBSET Issues
      <4>1. l.threads \in SUBSET Issues
        BY <1>2 DEF LoopState
      <4>2. k[1] = "reply" => IssueOf(k) \in Issues
        <5> SUFFICES ASSUME k[1] = "reply" PROVE replies[k[2]] \in Issues
          BY DEF IssueOf
        <5>1. k[2] \in DOMAIN replies /\ replies \in Seq(Issues)
          BY <1>1 DEF Typed
        <5> QED
          BY <5>1
      <4> QED
        BY <4>1, <4>2
    <3>3. loop' = [l EXCEPT !.pc = p, !.threads = u]
      BY <1>9 DEF Show
    <3> QED
      BY <3>1, <3>2, <3>3
  <2> PICK p \in {"reply_shown", "phase_shown"}, u \in SUBSET Issues :
        loop' = [l EXCEPT !.pc = p, !.threads = u]
    BY <2>2
  <2> DEFINE m == [l EXCEPT !.pc = p, !.threads = u]
  <2>3. m \in LoopState /\ m.todo = l.todo /\ m.pc = p
    BY <1>2 DEF LoopState
  <2>4. loop' = m
    OBVIOUS
  <2> HIDE DEF m
  <2>5. \A j \in shown : j \in deliveries \cup lost
    BY <1>1, <2>1
  <2>6. \A j \in shown' :
          \/ j \in deliveries' \cup lost'
          \/ loop'.pc \in {"reply_shown", "phase_shown"} /\ j = First(loop'.todo)
    BY <2>1, <2>3, <2>4, <2>5
  <2>7. \A j \in repeated' : j \in lost' /\ j \in shown'
    BY <1>1, <2>1, <2>5
  <2>8. /\ deliveries \subseteq deliveries' /\ lost \subseteq lost' /\ loop' \in LoopState
        /\ \A j \in deliveries' : j \in deliveries \/ j \in NewsKey
        /\ \A j \in loop'.todo : /\ j \notin deliveries'
                                 /\ j[1] = "reply" => j[2] \in DOMAIN replies
    BY <1>1, <2>1, <2>3, <2>4
  <2> QED
    BY <2>1, <2>6, <2>7, <2>8, LoopKeeps
<1>10. ASSUME NEW k \in loop.todo, ShowFails(k)
       PROVE  Inv'
  <2> DEFINE m == [l EXCEPT !.todo = l.todo \ {k}]
  <2>1. m \in LoopState /\ m.todo = l.todo \ {k}
    BY <1>2 DEF LoopState
  <2>2. loop' = m
    BY <1>10 DEF ShowFails
  <2> HIDE DEF m
  <2>3. l.pc \in {"replies", "phases"} /\ LoopOnly
    BY <1>10 DEF ShowFails
  <2> QED
    BY <1>1, <1>3, <2>1, <2>2, <2>3
<1>11. ASSUME NEW k \in loop.todo, Recording(k)
       PROVE  \A j \in shown : j \in deliveries \cup lost \/ j = k
  BY <1>1, <1>11 DEF Recording, NewsOK
<1>12. ASSUME NEW k \in loop.todo, RecordShown(k)
       PROVE  Inv'
  <2>1. /\ deliveries' = deliveries \cup {k} /\ Recording(k)
        /\ UNCHANGED <<dispatches, replies, report, shown, posted, repeated, lost>>
    BY <1>12 DEF RecordShown, work, Told
  <2>2. \E p \in {"replies", "phases"} : loop' = [l EXCEPT !.pc = p, !.todo = l.todo \ {k}]
    <3>1. CASE l.pc = "reply_shown"
      BY <1>12, <3>1 DEF RecordShown
    <3>2. CASE l.pc # "reply_shown"
      BY <1>12, <3>2 DEF RecordShown
    <3> QED
      BY <3>1, <3>2
  <2> PICK p \in {"replies", "phases"} : loop' = [l EXCEPT !.pc = p, !.todo = l.todo \ {k}]
    BY <2>2
  <2> DEFINE m == [l EXCEPT !.pc = p, !.todo = l.todo \ {k}]
  <2>3. m \in LoopState /\ m.todo = l.todo \ {k}
    BY <1>2 DEF LoopState
  <2>4. loop' = m
    OBVIOUS
  <2> HIDE DEF m
  <2>5. \A j \in shown' : j \in deliveries' \cup lost'
    BY <1>11, <2>1
  <2>6. /\ deliveries \subseteq deliveries' /\ lost \subseteq lost' /\ loop' \in LoopState
        /\ \A j \in deliveries' : j \in deliveries \/ j \in NewsKey
        /\ \A j \in loop'.todo : /\ j \notin deliveries'
                                 /\ j[1] = "reply" => j[2] \in DOMAIN replies
        /\ \A j \in repeated' : j \in lost' /\ j \in shown'
    BY <1>1, <2>1, <2>3, <2>4
  <2> QED
    BY <2>1, <2>5, <2>6, LoopKeeps
<1>13. ASSUME NEW k \in loop.todo, RecordShownFails(k)
       PROVE  Inv'
  <2>1. /\ lost' = lost \cup ({k} \cap shown) /\ Recording(k)
        /\ UNCHANGED <<dispatches, replies, deliveries, report, shown, posted, repeated>>
    BY <1>13 DEF RecordShownFails, work
  <2> DEFINE m == [l EXCEPT !.pc = "list_replies", !.todo = {}, !.threads = {}]
  <2>2. m \in LoopState /\ m.todo = {}
    BY <1>2 DEF LoopState
  <2>3. loop' = m
    BY <1>13 DEF RecordShownFails
  <2> HIDE DEF m
  <2>4. \A j \in shown' : j \in deliveries' \cup lost'
    BY <1>11, <2>1
  <2>5. /\ deliveries \subseteq deliveries' /\ lost \subseteq lost' /\ loop' \in LoopState
        /\ \A j \in deliveries' : j \in deliveries \/ j \in NewsKey
        /\ \A j \in loop'.todo : /\ j \notin deliveries'
                                 /\ j[1] = "reply" => j[2] \in DOMAIN replies
        /\ \A j \in repeated' : j \in lost' /\ j \in shown'
    BY <1>1, <2>1, <2>2, <2>3
  <2> QED
    BY <2>1, <2>4, <2>5, LoopKeeps
<1> QED
  BY <1>4, <1>5, <1>6, <1>7, <1>8, <1>9, <1>10, <1>12, <1>13 DEF LoopStep

LEMMA DownIsLoop ==
  /\ Down \in LoopState /\ Down.todo = {}
  /\ \A b \in Booted : b \in LoopState /\ b.todo = {}
<1>1. Down \in LoopState /\ Down.todo = {}
  BY DEF Down, LoopState
<1> DEFINE d == Down
<1> HIDE DEF d
<1>2. d \in LoopState /\ d.todo = {}
  BY <1>1 DEF d
<1>3. \A p \in {"dispatch_baseline", "disabled"} :
        [d EXCEPT !.pc = p] \in LoopState /\ [d EXCEPT !.pc = p].todo = {}
  BY <1>2 DEF LoopState
<1>4. Booted = {[d EXCEPT !.pc = p] : p \in {"dispatch_baseline", "disabled"}}
  BY DEF Booted, d
<1>5. \A b \in Booted : b \in LoopState /\ b.todo = {}
  BY <1>3, <1>4
<1> QED
  BY <1>1, <1>5

LEMMA BootKeeps ==
  ASSUME Inv, Boot
  PROVE  Inv'
<1>1. /\ Typed /\ NewsOK /\ loop.pc = "down" /\ loop' \in LoopState /\ loop'.todo = {}
      /\ UNCHANGED <<dispatches, replies, deliveries, report, shown, posted, repeated, lost>>
  BY DownIsLoop DEF Boot, LoopOnly, work, Told, Inv
<1>2. /\ \A k \in shown : k \in deliveries \cup lost
      /\ \A k \in repeated : k \in lost /\ k \in shown
  BY <1>1 DEF NewsOK
<1> QED
  BY <1>1, <1>2, LoopKeeps

LEMMA StopKeeps ==
  ASSUME Inv, Stop
  PROVE  Inv'
<1>1. /\ Typed /\ NewsOK /\ TasksOK /\ loop' = Down /\ lost \subseteq lost'
      /\ UNCHANGED <<dispatches, replies, deliveries, shown, posted, repeated>>
  BY DEF Stop, work, Inv
<1>2. \A s \in Reporter : report[s] \in ReportState
  BY <1>1 DEF Typed
<1>3. /\ report' \in [Reporter -> ReportState]
      /\ \A n \in DispatchId : report'[n] = report[n]
      /\ \A t \in Tasks : /\ report'[t].key = report[t].key
                          /\ report'[t].issue = report[t].issue
                          /\ report'[t].pc = "idle" \/ report'[t].pc = "done"
                          /\ report'[t].pc = "idle" => report[t].pc = "idle"
                          /\ report[t].pc = "idle" => report'[t].pc = "idle"
  <2> PICK old : old = report
    OBVIOUS
  <2> DEFINE x(r) == [old[r] EXCEPT !.pc = "done"]
             new(r) == IF r \in Tasks /\ old[r].pc # "idle" THEN x(r) ELSE old[r]
  <2>1. report' = [r \in Reporter |-> new(r)]
    BY DEF Stop
  <2>2. \A r \in Reporter : /\ x(r) \in ReportState /\ x(r).pc = "done"
                            /\ x(r).key = old[r].key /\ x(r).issue = old[r].issue
    BY <1>2 DEF ReportState
  <2> HIDE DEF x
  <2>3. \A r \in Reporter : new(r) \in ReportState
    BY <1>2, <2>2
  <2>4. \A n \in DispatchId : n \in Reporter /\ new(n) = report[n]
    BY Reporters
  <2>5. \A t \in Tasks : /\ new(t).key = report[t].key /\ new(t).issue = report[t].issue
                         /\ new(t).pc = "idle" \/ new(t).pc = "done"
                         /\ new(t).pc = "idle" => report[t].pc = "idle"
                         /\ report[t].pc = "idle" => new(t).pc = "idle"
    BY <2>2, Reporters
  <2> HIDE DEF new
  <2>6. report' \in [Reporter -> ReportState] /\ \A r \in Reporter : report'[r] = new(r)
    BY <2>1, <2>3
  <2> QED
    BY <2>4, <2>5, <2>6, Reporters
<1>4. Typed'
  BY <1>1, <1>3, DownIsLoop DEF Typed
<1>5. TasksOK'
  <2>1. ASSUME NEW s \in Reporter, report'[s].pc \in {"idle", "failed"}
        PROVE  report'[s].key = <<>>
    <3>1. CASE s \in Tasks
      BY <1>1, <1>3, <2>1, <3>1 DEF TasksOK
    <3>2. CASE s \in DispatchId
      BY <1>1, <1>3, <2>1, <3>2 DEF TasksOK
    <3> QED
      BY <3>1, <3>2, Reporters
  <2>2. \A n \in DOMAIN dispatches : dispatches[n].by \in Tasks =>
          /\ dispatches[n].status = "starting" => report'[dispatches[n].by].pc = "idle"
          /\ \A m \in DOMAIN dispatches : dispatches[m].by = dispatches[n].by => m = n
    BY <1>1, <1>3 DEF TasksOK
  <2> QED
    BY <1>1, <1>3, <2>1, <2>2 DEF TasksOK, Audit
<1>6. NewsOK'
  <2>1. \A q \in posted : q.key \in deliveries
    BY <1>1 DEF NewsOK
  <2>2. \A r \in Reporter : report'[r].pc = "post" => report'[r] = report[r]
    BY <1>3, Reporters
  <2>3. \A r \in Reporter : report'[r].pc = "post" =>
          /\ report'[r].key \in deliveries
          /\ \A q \in posted : q.key # report'[r].key
          /\ \A s \in Reporter \ {r} : report'[s].pc = "post" => report'[s].key # report'[r].key
    BY <1>1, <2>2 DEF NewsOK
  <2>4. \A k \in shown : k \in deliveries \cup lost'
    <3> SUFFICES ASSUME NEW k \in shown, k \notin deliveries \cup lost
                 PROVE  k \in lost'
      BY <1>1
    <3>1. loop.pc \in {"reply_shown", "phase_shown"} /\ k = First(loop.todo)
      BY <1>1 DEF NewsOK
    <3> QED
      BY <3>1 DEF Stop
  <2>5. \A k \in repeated : k \in lost' /\ k \in shown
    BY <1>1 DEF NewsOK
  <2>6. loop'.todo = {}
    BY <1>1, DownIsLoop
  <2> QED
    BY <1>1, <2>1, <2>3, <2>4, <2>5, <2>6 DEF NewsOK
<1>7. ASSUME NEW n \in DispatchId PROVE RunnerOK(n)'
  <2>1. RunnerOK(n)
    BY DEF Inv
  <2>2. ByTask(n)' <=> ByTask(n)
    BY <1>3 DEF ByTask, Audit
  <2> QED
    BY <1>1, <1>3, <2>1, <2>2 DEF RunnerOK, Audit, Landing
<1> QED
  BY <1>4, <1>5, <1>6, <1>7 DEF Inv

-----------------------------------------------------------------------------
(* The theorems.                                                           *)

LEMMA InitInv == Init => Inv
<1> SUFFICES ASSUME Init PROVE Inv
  OBVIOUS
<1>1. Quiet \in ReportState /\ Quiet.pc = "idle" /\ Quiet.key = <<>>
  BY DEF Quiet, ReportState, ReportKey
<1>2. /\ \A r \in Reporter : report[r] = Quiet /\ report[r].pc = "idle" /\ report[r].key = <<>>
      /\ report \in [Reporter -> ReportState]
  BY <1>1 DEF Init
<1>3. dispatches = <<>> /\ replies = <<>> /\ MaxDispatches \in Nat
  BY NotificationConstants DEF Init, NotificationConstants
<1>4. loop \in LoopState /\ loop.todo = {}
  BY DownIsLoop DEF Init
<1>5. Typed
  BY <1>2, <1>3, <1>4 DEF Typed
<1>6. NewsOK
  BY <1>2, <1>4 DEF Init, NewsOK
<1>7. TasksOK
  <2>1. \A t \in Tasks, n \in DispatchId : report[t].key # Audit(n)
    BY <1>2, Keys, Reporters
  <2>2. DOMAIN dispatches = {}
    BY <1>3
  <2> QED
    BY <1>2, <2>1, <2>2 DEF TasksOK
<1>8. ASSUME NEW n \in DispatchId PROVE RunnerOK(n)
  <2>1. report[n].pc = "idle" /\ deliveries = {}
    BY <1>2, Reporters DEF Init
  <2> QED
    BY <2>1 DEF RunnerOK
<1> QED
  BY <1>5, <1>6, <1>7, <1>8 DEF Inv

LEMMA NextInv == Inv /\ [Next]_vars => Inv'
<1> SUFFICES ASSUME Inv, [Next]_vars PROVE Inv'
  OBVIOUS
<1>1. CASE UNCHANGED vars
  <2>1. UNCHANGED <<dispatches, replies, deliveries, loop, report, shown, posted, repeated, lost>>
    BY <1>1 DEF vars
  <2>2. Typed' /\ TasksOK' /\ \A n \in DispatchId : RunnerOK(n)'
    BY <2>1 DEF Inv, Typed, TasksOK, RunnerOK, ByTask, Audit, Landing
  <2> QED
    BY <2>1, <2>2, QuietKeeps
<1>2. CASE Next
  BY <1>2, ReplyKeeps, ReserveKeeps, RequestFailsKeeps, DispatchStepKeeps, LookUpKeeps,
     ReportStepKeeps, LoopStepKeeps, StopKeeps, BootKeeps DEF Next
<1> QED
  BY <1>1, <1>2

\* The inductive invariant: what table notification_deliveries knows of what was told, is
\* about to be told and was lost, in every reachable state.
THEOREM NotificationsHold == Spec => []Inv
<1> QED
  BY InitInv, NextInv, PTL DEF Spec

\* However passes of the loop, runners, webhook tasks, faults and restarts interleave,
\* only a notification that was shown and whose record failed is told a second time.
THEOREM ToldOnce == Spec => []ToldTwiceOnlyIfUnrecorded
<1>1. Inv => ToldTwiceOnlyIfUnrecorded
  BY DEF Inv, NewsOK, ToldTwiceOnlyIfUnrecorded
<1> QED
  BY <1>1, NotificationsHold, PTL

\* A runner that is done with the dispatch it ended as a failure has opened its audit
\* issue (inquisition.rs), unless the report was lost or a webhook task of the same issue
\* took its key for a failure of its own (server.rs).  Of a row that a heal ended, or a
\* start that failed in the queue loop, nobody reports, and the theorem says nothing.
THEOREM FailuresAudited == Spec => []FailureIsAudited
<1>1. ASSUME Inv PROVE FailureIsAudited
  <2>1. dispatches \in Seq(Row) /\ Len(dispatches) <= MaxDispatches /\ MaxDispatches \in Nat
    BY <1>1, NotificationConstants DEF Inv, Typed, NotificationConstants
  <2>2. DOMAIN dispatches \subseteq DispatchId
    BY <2>1 DEF DispatchId
  <2>3. ASSUME NEW n \in DOMAIN dispatches, report[n].pc = "done", report[n].key = Audit(n)
        PROVE  \/ [key |-> Audit(n), by |-> n] \in posted
               \/ Audit(n) \in lost
               \/ \E t \in Tasks : /\ report[t].key = Audit(n)
                                   /\ report[t].issue = dispatches[n].issue
    <3>1. n \in DispatchId /\ RunnerOK(n) /\ TasksOK
      BY <1>1, <2>2 DEF Inv
    <3>2. ByTask(n) => \E t \in Tasks : /\ report[t].key = Audit(n)
                                        /\ report[t].issue = dispatches[n].issue
      BY <3>1 DEF ByTask, TasksOK
    <3> QED
      BY <2>3, <3>1, <3>2 DEF RunnerOK
  <2> QED
    BY <2>3 DEF FailureIsAudited
<1> QED
  BY <1>1, NotificationsHold, PTL
=============================================================================
