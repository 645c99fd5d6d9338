--------------------------- MODULE Notifications ---------------------------
(***************************************************************************)
(* What orchd tells people, and how often.  The notification loop shows    *)
(* replies and the phases of dispatches on the operator's desktop; a       *)
(* runner's finalization and a webhook task whose dispatch failed open an  *)
(* audit issue, and a blocked landing gets a comment.  All of them keep    *)
(* what they told in table notification_deliveries: the loop records a key *)
(* after it has told, the others before.                                   *)
(*                                                                         *)
(* The dispatches are those of module Dispatch, of which only the status   *)
(* of a row and the task that reserved it matter here.                     *)
(***************************************************************************)
EXTENDS DispatchCore, FiniteSets, Sequences, Integers

CONSTANTS
  Issues,
  AuditIssues,     \* the issues of the audit repository: their dispatches are audits
  Tasks,           \* webhook tasks
  Phases,          \* notifications.phases
  PassLimit,       \* MAX_NOTIFICATIONS_PER_PASS
  Faults,          \* the environment faults this instance allows
  MaxDispatches,   \* bound on the rows of dispatches
  MaxReplies,      \* bound on the comments that count as replies
  MaxMishaps,      \* bound: faults and restarts
  NoIssue, NoTask

FaultKinds == {"send", "store", "baseline", "forgejoctl", "killed", "restart", "heal"}

ASSUME NotificationConstants ==
  /\ AuditIssues \subseteq Issues
  /\ Phases \subseteq {"started", "completed", "failed", "blocked"}
  /\ Faults \subseteq FaultKinds
  /\ PassLimit \in Nat \ {0}
  /\ MaxDispatches \in Nat
  /\ MaxReplies \in Nat
  /\ MaxMishaps \in Nat
  /\ NoIssue \notin Issues
  /\ NoTask \notin Tasks
  /\ \A t \in Tasks : t \notin Nat

VARIABLES
  dispatches,   \* table dispatches, by id
  replies,      \* the issues of the comments in table events, by id
  deliveries,   \* table notification_deliveries: its keys
  loop,         \* the notification loop
  report,       \* where runners and webhook tasks stand with what they have to report
  mishaps,      \* mishaps so far
  shown,        \* history: the keys of the notifications that were shown
  posted,       \* history: the issues and comments that were posted, and by whom
  repeated,     \* history: the keys of what was told more than once
  lost          \* history: the keys whose record or whose issue failed

vars == <<dispatches, replies, deliveries, loop, report, mishaps,
          shown, posted, repeated, lost>>

work == <<dispatches, replies>>

-----------------------------------------------------------------------------
DispatchId == 1..MaxDispatches
Reporter == DispatchId \cup Tasks

\* Mutant: one audit for all dispatches of an issue.
AuditOfIssue(n) == <<"issue", dispatches[n].issue>>

\* A dedupe key: the kind of news and what it is about.
Audit(n) == <<"inquisition", n>>
Landing(n) == <<"landing", n>>

\* The CASE of the query: the phase a status stands for.
PhaseOf(status) ==
  CASE status = "running" -> "started"
    [] status \in {"completed", "blocked"} -> status
    [] status = "starting" -> "none"
    [] OTHER -> "failed"

InFlightOn(i) ==
  \E n \in DOMAIN dispatches : dispatches[n].issue = i /\ dispatches[n].status \in InFlight

Quiet == [pc |-> "idle", issue |-> NoIssue, key |-> <<>>]

\* While orchd is down, and when it has just started, with notifications enabled or not.
Down == [pc |-> "down", dispatch |-> 0, event |-> 0, todo |-> {}, threads |-> {}]

Booted == {[Down EXCEPT !.pc = p] : p \in {"dispatch_baseline", "disabled"}}

Init ==
  /\ dispatches = <<>>
  /\ replies = <<>>
  /\ deliveries = {}
  /\ loop \in Booted
  /\ report = [r \in Reporter |-> Quiet]
  /\ mishaps = 0
  /\ shown = {}
  /\ posted = {}
  /\ repeated = {}
  /\ lost = {}

Mishap(kind) == kind \in Faults /\ mishaps < MaxMishaps /\ mishaps' = mishaps + 1

-----------------------------------------------------------------------------
(* The dispatches and the comments.                                        *)

Told == <<shown, posted, repeated, lost>>

\* A row for the queue loop (NoTask) or for a webhook task that has not failed yet.
Reserve(i, t) ==
  /\ loop.pc # "down"
  /\ Len(dispatches) < MaxDispatches
  /\ ~InFlightOn(i)
  /\ t \in Tasks => /\ report[t].pc = "idle"
                    /\ \A n \in DOMAIN dispatches : dispatches[n].by # t
  /\ dispatches' = Append(dispatches, [issue |-> i, status |-> "starting", by |-> t])
  /\ UNCHANGED <<replies, deliveries, loop, report, mishaps, Told>>

SetStatus(n, event) ==
  /\ n \in DOMAIN dispatches
  /\ Accepts(dispatches[n].status, event)
  /\ dispatches' = [dispatches EXCEPT ![n].status = Reduce(@, event)]

MarkRunning(n) ==
  /\ SetStatus(n, "MarkRunning")
  /\ UNCHANGED <<replies, deliveries, loop, report, mishaps, Told>>

\* The task of a row that could not be started, or was healed while it started, has an
\* error to report; the queue loop reports none.
FailedTask(n) ==
  IF dispatches[n].by = NoTask THEN report
  ELSE [report EXCEPT ![dispatches[n].by] =
          [Quiet EXCEPT !.pc = "failed", !.issue = dispatches[n].issue]]

StartFails(n) ==
  /\ loop.pc # "down"
  /\ SetStatus(n, "FailStart")
  /\ report' = FailedTask(n)
  /\ UNCHANGED <<replies, deliveries, loop, mishaps, Told>>

Heal(n) ==
  /\ Mishap("heal")
  /\ SetStatus(n, "HealStale")
  /\ report' = IF dispatches[n].status = "starting" THEN FailedTask(n) ELSE report
  /\ UNCHANGED <<replies, deliveries, loop, Told>>

\* A webhook task fails before it has a row: a fetch or the store.
RequestFails(t, i) ==
  /\ loop.pc # "down"
  /\ report[t].pc = "idle"
  /\ \A n \in DOMAIN dispatches : dispatches[n].by # t
  /\ report' = [report EXCEPT ![t] = [Quiet EXCEPT !.pc = "failed", !.issue = i]]
  /\ UNCHANGED <<work, deliveries, loop, mishaps, Told>>

\* finalize_dispatch_command: the terminal transaction, and what it leaves to report.
Finalize(n, event) ==
  /\ SetStatus(n, event)
  /\ \/ event \in {"FailRuntime", "Timeout"} /\ dispatches[n].issue \notin AuditIssues
        /\ report' = [report EXCEPT ![n] = [@ EXCEPT !.pc = "record", !.key = Audit(n)]]
     \/ event = "Block"
        /\ report' = [report EXCEPT ![n] = [@ EXCEPT !.pc = "record", !.key = Landing(n)]]
     \/ (event \in {"Complete", "Block"} \/ dispatches[n].issue \in AuditIssues)
        /\ UNCHANGED report
  /\ UNCHANGED <<replies, deliveries, loop, mishaps, Told>>

Reply(i) ==
  /\ loop.pc # "down"
  /\ Len(replies) < MaxReplies
  /\ replies' = Append(replies, i)
  /\ UNCHANGED <<dispatches, deliveries, loop, report, mishaps, Told>>

-----------------------------------------------------------------------------
(* maybe_spawn_inquisition and maybe_post_landing_comment.                 *)

\* latest_issue_dispatch_id: the latest row of the issue, whoever reserved it; without one
\* the key is the issue's.
LatestKey(i) ==
  LET rows == {n \in DOMAIN dispatches : dispatches[n].issue = i}
  IN  IF rows = {} THEN {<<"issue", i>>}
      ELSE {Audit(n) : n \in {m \in rows : \A o \in rows : o <= m}}

LookUp(t) ==
  /\ report[t].pc = "failed"
  /\ IF report[t].issue \in AuditIssues
     THEN report' = [report EXCEPT ![t].pc = "done"]
     ELSE \E key \in LatestKey(report[t].issue) :
            report' = [report EXCEPT ![t] = [@ EXCEPT !.pc = "record", !.key = key]]
  /\ UNCHANGED <<work, deliveries, loop, mishaps, Told>>

\* Mutant: the report is made whether or not its key is new.
RecordAlways(r) ==
  /\ report[r].pc = "record"
  /\ deliveries' = deliveries \cup {report[r].key}
  /\ report' = [report EXCEPT ![r].pc = "post"]
  /\ UNCHANGED <<work, loop, mishaps, Told>>

\* record_notification_delivery comes first: a key that was there ends it.
Record(r) ==
  /\ report[r].pc = "record"
  /\ deliveries' = deliveries \cup {report[r].key}
  /\ report' = [report EXCEPT ![r].pc = IF report[r].key \in deliveries THEN "done" ELSE "post"]
  /\ UNCHANGED <<work, loop, mishaps, Told>>

\* repo ensure and issue create, or issue comment
Post(r) ==
  /\ report[r].pc = "post"
  /\ report' = [report EXCEPT ![r].pc = "done"]
  /\ repeated' = repeated \cup {k \in {report[r].key} : \E p \in posted : p.key = k}
  /\ posted' = posted \cup {[key |-> report[r].key, by |-> r]}
  /\ UNCHANGED <<work, deliveries, loop, mishaps, shown, lost>>

\* The store, forgejoctl, or the death of the runner: nobody tries again.
ReportLost(r) ==
  /\ \/ report[r].pc = "record" /\ Mishap("store")
     \/ report[r].pc = "post" /\ Mishap("forgejoctl")
     \/ report[r].pc \in {"record", "post"} /\ r \in DispatchId /\ Mishap("killed")
  /\ report' = [report EXCEPT ![r].pc = "done"]
  /\ lost' = lost \cup {report[r].key}
  /\ UNCHANGED <<work, deliveries, loop, shown, posted, repeated>>

-----------------------------------------------------------------------------
(* run_notification_loop                                                   *)

LoopOnly == UNCHANGED <<work, deliveries, report, Told>>

\* load_baseline: what is there when orchd starts is old news.  On an error nothing is.
DispatchBaseline ==
  /\ loop.pc = "dispatch_baseline"
  /\ \/ loop' = [loop EXCEPT !.pc = "event_baseline", !.dispatch = Len(dispatches)]
        /\ UNCHANGED mishaps
     \/ loop' = [loop EXCEPT !.pc = "event_baseline", !.dispatch = 0]
        /\ Mishap("baseline")
  /\ LoopOnly

EventBaseline ==
  /\ loop.pc = "event_baseline"
  /\ \/ loop' = [loop EXCEPT !.pc = "list_replies", !.event = Len(replies)]
        /\ UNCHANGED mishaps
     \/ loop' = [loop EXCEPT !.pc = "list_replies", !.event = 0]
        /\ Mishap("baseline")
  /\ LoopOnly

\* ORDER BY id ASC LIMIT
Listed(keys) == {k \in keys : Cardinality({l \in keys : l[2] < k[2]}) < PassLimit}

First(todo) == CHOOSE k \in todo : \A l \in todo : k[2] <= l[2]

\* pending_reply_notifications
PendingReplies ==
  Listed({<<"reply", e>> : e \in {e \in DOMAIN replies : e > loop.event}} \ deliveries)

\* pending_dispatch_phase_notifications: the phase of the row's status, no earlier one.
PendingPhases ==
  Listed({k \in {<<PhaseOf(dispatches[n].status), n>> :
                   n \in {n \in DOMAIN dispatches : n > loop.dispatch}} : k[1] \in Phases}
         \ deliveries)

ListReplies ==
  /\ loop.pc = "list_replies"
  /\ loop' = [loop EXCEPT !.pc = "replies", !.todo = PendingReplies, !.threads = {}]
  /\ UNCHANGED mishaps /\ LoopOnly

ListPhases ==
  /\ loop.pc = "replies" /\ loop.todo = {}
  /\ loop' = [loop EXCEPT !.pc = "phases", !.todo = PendingPhases]
  /\ UNCHANGED mishaps /\ LoopOnly

\* The pass is over; the next one comes after poll_sec.
Sleep ==
  /\ loop.pc = "phases" /\ loop.todo = {}
  /\ loop' = [loop EXCEPT !.pc = "list_replies", !.threads = {}]
  /\ UNCHANGED mishaps /\ LoopOnly

IssueOf(k) == IF k[1] = "reply" THEN replies[k[2]] ELSE dispatches[k[2]].issue

Suppressed(k) == k[1] # "reply" /\ IssueOf(k) \in loop.threads

\* send_notification; a reply's thread counts as notified from here on.
Show(k) ==
  /\ loop.pc \in {"replies", "phases"}
  /\ loop.todo # {} /\ k = First(loop.todo)
  /\ ~Suppressed(k)
  /\ shown' = shown \cup {k}
  /\ repeated' = repeated \cup ({k} \cap shown)
  /\ loop' = [loop EXCEPT !.pc = IF @ = "replies" THEN "reply_shown" ELSE "phase_shown",
                          !.threads = IF k[1] = "reply" THEN @ \cup {IssueOf(k)} ELSE @]
  /\ UNCHANGED <<work, deliveries, report, mishaps, posted, lost>>

\* Mutant: what could not be shown is recorded all the same.
ShowFailsForGood(k) ==
  /\ loop.pc \in {"replies", "phases"}
  /\ loop.todo # {} /\ k = First(loop.todo)
  /\ ~Suppressed(k)
  /\ Mishap("send")
  /\ loop' = [loop EXCEPT !.todo = @ \ {k}]
  /\ deliveries' = deliveries \cup {k}
  /\ UNCHANGED <<work, report, Told>>

\* The candidate is left for the next pass.
ShowFails(k) ==
  /\ loop.pc \in {"replies", "phases"}
  /\ loop.todo # {} /\ k = First(loop.todo)
  /\ ~Suppressed(k)
  /\ Mishap("send")
  /\ loop' = [loop EXCEPT !.todo = @ \ {k}]
  /\ LoopOnly

\* record_notification_delivery, of what was shown or what a reply makes unnecessary.
Recording(k) ==
  /\ loop.todo # {} /\ k = First(loop.todo)
  /\ \/ loop.pc \in {"reply_shown", "phase_shown"}
     \/ loop.pc = "phases" /\ Suppressed(k)

RecordShown(k) ==
  /\ Recording(k)
  /\ deliveries' = deliveries \cup {k}
  /\ loop' = [loop EXCEPT !.pc = IF @ = "reply_shown" THEN "replies" ELSE "phases",
                          !.todo = @ \ {k}]
  /\ UNCHANGED <<work, report, mishaps, Told>>

\* notify_once returns the error: the rest of the pass is left for the next one.
RecordShownFails(k) ==
  /\ Recording(k)
  /\ Mishap("store")
  /\ loop' = [loop EXCEPT !.pc = "list_replies", !.todo = {}, !.threads = {}]
  /\ lost' = lost \cup ({k} \cap shown)
  /\ UNCHANGED <<work, deliveries, report, shown, posted, repeated>>

\* orchd ends: the loop and the webhook tasks go with it, the runners do not.
Stop ==
  /\ loop.pc # "down"
  /\ Mishap("restart")
  /\ loop' = Down
  /\ report' = [r \in Reporter |->
                  IF r \in Tasks /\ report[r].pc # "idle"
                  THEN [report[r] EXCEPT !.pc = "done"] ELSE report[r]]
  /\ lost' = lost \cup {report[t].key : t \in {t \in Tasks : report[t].pc = "post"}}
                  \cup (IF loop.pc \in {"reply_shown", "phase_shown"}
                        THEN {First(loop.todo)} ELSE {})
  /\ UNCHANGED <<work, deliveries, shown, posted, repeated>>

\* run_server spawns the loop when the configuration enables it.
Boot ==
  /\ loop.pc = "down"
  /\ loop' \in Booted
  /\ UNCHANGED mishaps /\ LoopOnly

-----------------------------------------------------------------------------
LoopStep ==
  \/ DispatchBaseline \/ EventBaseline \/ ListReplies \/ ListPhases \/ Sleep
  \/ \E k \in loop.todo : Show(k) \/ ShowFails(k) \/ RecordShown(k) \/ RecordShownFails(k)

DispatchStep(n) ==
  \/ MarkRunning(n) \/ StartFails(n) \/ Heal(n)
  \/ \E event \in {"Complete", "Block", "FailRuntime", "Timeout"} : Finalize(n, event)

ReportStep(r) == Record(r) \/ Post(r) \/ ReportLost(r)

Next ==
  \/ \E i \in Issues : Reply(i) \/ \E t \in Tasks \cup {NoTask} : Reserve(i, t)
  \/ \E i \in Issues, t \in Tasks : RequestFails(t, i)
  \/ \E n \in DOMAIN dispatches : DispatchStep(n)
  \/ \E t \in Tasks : LookUp(t)
  \/ \E r \in Reporter : ReportStep(r)
  \/ LoopStep \/ Stop \/ Boot

Spec == Init /\ [][Next]_vars

\* Fairness: the loop runs for ever while orchd does, and systemd starts orchd again.  The
\* bound on mishaps makes sending and recording succeed in the end.
FairSpec == Spec /\ WF_vars(LoopStep) /\ WF_vars(Boot)

-----------------------------------------------------------------------------
(* Properties.                                                             *)

\* Neither passes that overlap with the end of a dispatch, nor runners and webhook tasks
\* that report the same dispatch, nor a restart tell the same news twice.  Only what was
\* shown and not recorded is shown again; an issue or a comment never is.
ToldTwiceOnlyIfUnrecorded ==
  \A k \in repeated : k \in lost /\ k \in shown

\* The end of a dispatch that began after orchd's start reaches the operator, however many
\* notifications failed before: it is shown, or a reply on its issue was, be it in the
\* pass that suppressed it (notifier.rs) or in any other.
EndIsTold ==
  \A n \in DispatchId :
    <>[](/\ n \in DOMAIN dispatches /\ n > loop.dispatch
         /\ loop.pc \notin {"down", "disabled"}
         /\ dispatches[n].status \in Terminal
         /\ PhaseOf(dispatches[n].status) \in Phases)
      => <>(/\ n \in DOMAIN dispatches
            /\ \/ <<PhaseOf(dispatches[n].status), n>> \in shown
               \/ \E k \in shown : k[1] = "reply" /\ IssueOf(k) = dispatches[n].issue)

\* A runner that ends its dispatch as a failure has opened the audit issue of that
\* failure when it is done, unless its report was lost, or a webhook task of the same
\* issue has meanwhile filed its own failure under this dispatch.
FailureIsAudited ==
  \A n \in DOMAIN dispatches :
    report[n].pc = "done" /\ report[n].key = Audit(n) =>
      \/ [key |-> Audit(n), by |-> n] \in posted
      \/ Audit(n) \in lost
      \/ \E t \in Tasks : report[t].key = Audit(n) /\ report[t].issue = dispatches[n].issue
=============================================================================
