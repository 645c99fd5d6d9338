---------------------------- MODULE WebhookIngest ----------------------------
(***************************************************************************)
(* process_webhook (server.rs) up to the decision's row: concurrent        *)
(* requests record an event, decide it, claim the trigger's key, ask the   *)
(* guardrails and insert the decision, each step a store call of its own.  *)
(* A database error or a crash can cut a request between any two of them;  *)
(* Forgejo may send a delivery again.  What becomes of an accepted         *)
(* decision is the subject of Dispatch; a push's deploy job, of            *)
(* DeployQueue.                                                            *)
(***************************************************************************)
EXTENDS TriggerRules, FiniteSets

CONSTANTS
  Tasks,          \* requests that can be in progress at once
  Worlds,         \* what may meet: [content, anonymous, triggers, tasks, depth, sends,
                  \* cuts, time], the first what each delivery carries (its context,
                  \* issue and anchor), the second the deliveries without a header
                  \* (each send has a new id), then the configured triggers, the
                  \* requests at once and max_depth_per_issue; the rest are bounds:
                  \* how often a delivery is sent, requests cut short, the clock
  MaxRecent,      \* max_dispatches_per_window
  Window,         \* window_sec
  Cooldown        \* cooldown_sec

ASSUME IngestConstants ==
  /\ IsFiniteSet(Tasks)
  /\ \A w \in Worlds :
       /\ w.tasks \subseteq Tasks /\ w.tasks # {}
       /\ w.anonymous \subseteq DOMAIN w.content
       /\ {w.sends, w.cuts, w.time} \subseteq Nat /\ w.depth \in Nat \ {0}
       /\ ConfiguredTriggers(w.triggers)
  /\ MaxRecent \in Nat \ {0}
  /\ Window \in Nat \ {0} /\ Cooldown \in Nat

\* None is not what a trigger makes of an event, whatever role it was in reply to.
ASSUME NoneIsNoOutcome ==
  \A w \in Worlds : \A d \in DOMAIN w.content :
    \A ctx \in {w.content[d].ctx} \cup
                {[w.content[d].ctx EXCEPT !.conversation = role] : role \in Roles \cup {None}} :
      \A n \in DOMAIN w.triggers :
        Outcome(w.triggers, n, ctx, ParseDirective(ctx.text)) # None

VARIABLES
  world,      \* what meets in this behaviour: it does not change
  events,     \* table events: the delivery of each row, in id order
  claims,     \* table trigger_dispatch_dedupes: the keys claimed
  decisions,  \* table decisions, in id order
  task,       \* the requests in progress
  sends,      \* how often each delivery was sent
  cut,        \* event ids whose request was cut short
  now         \* the wall clock, which does not go back

vars == <<world, events, claims, decisions, task, sends, cut, now>>

Deliveries == DOMAIN world.content
Content == world.content
Triggers == world.triggers

-----------------------------------------------------------------------------
\* A request: where it is, its event's id, the number of decisions there were
\* when it was recorded, what decide accepted, the key it holds, and what it
\* has read for the guardrails.
Idle ==
  [pc |-> "idle", id |-> 0, began |-> 0, accepted |-> FALSE, outcome |-> None,
   key |-> <<>>, since |-> 0, total |-> 0, recent |-> 0]

\* The role last heard in a comment on the issue before this event.
latest_role_comment(id) ==
  LET heard == {n \in 1..(id - 1) :
                  /\ Content[events[n]].issue = Content[events[id]].issue
                  /\ Content[events[n]].ctx.event = "issue_comment"
                  /\ Content[events[n]].ctx.action = "created"
                  /\ Content[events[n]].ctx.actor \in Roles}
  IN  IF heard = {} THEN None
      ELSE LET last == CHOOSE n \in heard : \A other \in heard : other <= n
           IN  Content[events[last]].ctx.actor

\* The event's context, with the conversation's role for a new comment.
ContextOf(id) ==
  LET ctx == Content[events[id]].ctx
  IN  IF ctx.event = "issue_comment" /\ ctx.action = "created"
      THEN [ctx EXCEPT !.conversation = latest_role_comment(id)] ELSE ctx

\* Mutant: the key is the delivery's instead of the comment's or the issue's.
MutKeyPerDelivery(delivery, trigger) == <<trigger, delivery>>

trigger_dedupe_key(delivery, trigger) ==
  LET content == Content[delivery]
  IN  <<trigger, content.issue, content.ctx.event, content.ctx.action, content.anchor>>

\* The rows the guardrail statistics count on an issue: accepted by a trigger
\* whose reason code is assignee_reply or registered_trigger:...
CountsAsTrigger(row, issue) ==
  /\ row.issue = issue /\ row.accepted
  /\ Triggers[row.trigger].class \in {"assignee_reply", "registered_trigger"}

TriggerRows(issue) ==
  {n \in DOMAIN decisions : CountsAsTrigger(decisions[n], issue)}

\* When the last of them was made; before everything when there is none.
LastTriggered(issue) ==
  IF TriggerRows(issue) = {} THEN -1 - Cooldown
  ELSE decisions[CHOOSE n \in TriggerRows(issue) :
                   \A other \in TriggerRows(issue) : other <= n].at

-----------------------------------------------------------------------------
Init ==
  /\ world \in Worlds
  /\ events = <<>> /\ claims = {} /\ decisions = <<>>
  /\ task = [t \in Tasks |-> Idle]
  /\ sends = [d \in Deliveries |-> 0]
  /\ cut = {} /\ now = 0

\* Mutant: the event's row has no unique delivery id.
MutInsertAgain(t, d) ==
  /\ task[t].pc = "idle" /\ sends[d] < world.sends
  /\ sends' = [sends EXCEPT ![d] = @ + 1]
  /\ events' = Append(events, d)
  /\ task' = [task EXCEPT ![t] = [Idle EXCEPT !.pc = "decide",
                                  !.id = Len(events) + 1,
                                  !.began = Len(decisions)]]
  /\ UNCHANGED <<claims, decisions, cut, now>>

\* A request arrives and its event is inserted; a delivery that is already in
\* the table is answered as a duplicate and goes no further.
Receive(t, d) ==
  /\ task[t].pc = "idle" /\ sends[d] < world.sends
  /\ sends' = [sends EXCEPT ![d] = @ + 1]
  /\ IF d \notin world.anonymous /\ \E n \in DOMAIN events : events[n] = d
     THEN UNCHANGED <<events, task>>
     ELSE /\ events' = Append(events, d)
          /\ task' = [task EXCEPT ![t] = [Idle EXCEPT
               !.pc = "decide", !.id = Len(events) + 1, !.began = Len(decisions)]]
  /\ UNCHANGED <<claims, decisions, cut, now>>

\* Mutant: an event that names no directive is left undecided.
MutDecideStuck(t) ==
  /\ task[t].pc = "decide"
  /\ \E ctx \in {ContextOf(task[t].id)} : \E parsed \in {ParseDirective(ctx.text)} :
       \E outcome \in {decide(Triggers, Winner(Triggers, ctx, parsed), ctx, parsed)} :
         /\ outcome # None
         /\ task' = [task EXCEPT ![t] = [@ EXCEPT
              !.pc = "claim", !.accepted = TRUE, !.outcome = outcome]]
  /\ UNCHANGED <<events, claims, decisions, sends, cut, now>>

Decide(t) ==
  /\ task[t].pc = "decide"
  /\ \E ctx \in {ContextOf(task[t].id)} : \E parsed \in {ParseDirective(ctx.text)} :
       \E outcome \in {decide(Triggers, Winner(Triggers, ctx, parsed), ctx, parsed)} :
         task' = [task EXCEPT ![t] = [@ EXCEPT
             !.pc = IF outcome = None THEN "insert" ELSE "claim",
             !.accepted = outcome # None, !.outcome = outcome]]
  /\ UNCHANGED <<events, claims, decisions, sends, cut, now>>

\* The trigger's key is claimed for good, before the guardrails are asked.
Claim(t) ==
  /\ task[t].pc = "claim"
  /\ LET key == trigger_dedupe_key(events[task[t].id], task[t].outcome.trigger)
     IN  /\ claims' = claims \cup {key}
         /\ task' = [task EXCEPT ![t] = [@ EXCEPT
              !.pc = IF key \notin claims /\ task[t].outcome.guardrails
                     THEN "total" ELSE "insert",
              !.accepted = key \notin claims, !.key = key, !.since = now - Window]]
  /\ UNCHANGED <<events, decisions, sends, cut, now>>

IssueOf(t) == Content[events[task[t].id]].issue

\* The guardrail statistics are three queries without a transaction.
ReadTotal(t) ==
  /\ task[t].pc = "total"
  /\ task' = [task EXCEPT ![t] = [@ EXCEPT
       !.pc = "recent", !.total = Cardinality(TriggerRows(IssueOf(t)))]]
  /\ UNCHANGED <<events, claims, decisions, sends, cut, now>>

ReadRecent(t) ==
  /\ task[t].pc = "recent"
  /\ task' = [task EXCEPT ![t] = [@ EXCEPT
       !.pc = "last", !.recent = Cardinality({n \in TriggerRows(IssueOf(t)) :
                                                decisions[n].at >= task[t].since})]]
  /\ UNCHANGED <<events, claims, decisions, sends, cut, now>>

\* Mutant: a limit is passed by being reached.
MutGuardrailsHold(t, last) ==
  /\ task[t].total <= world.depth /\ task[t].recent <= MaxRecent
  /\ Content[events[task[t].id]].ctx.actor # task[t].outcome.role
  /\ now - last >= Cooldown

\* Mutant: the cooldown is forgotten.
MutNoCooldown(t, last) ==
  /\ task[t].total < world.depth /\ task[t].recent < MaxRecent
  /\ Content[events[task[t].id]].ctx.actor # task[t].outcome.role

guardrails_hold(t, last) ==
  /\ task[t].total < world.depth /\ task[t].recent < MaxRecent
  /\ Content[events[task[t].id]].ctx.actor # task[t].outcome.role
  /\ now - last >= Cooldown

ReadLast(t) ==
  /\ task[t].pc = "last"
  /\ task' = [task EXCEPT ![t] = [@ EXCEPT
       !.pc = "insert", !.accepted = guardrails_hold(t, LastTriggered(IssueOf(t)))]]
  /\ UNCHANGED <<events, claims, decisions, sends, cut, now>>

InsertDecision(t) ==
  /\ task[t].pc = "insert"
  /\ decisions' = Append(decisions,
       [event |-> task[t].id, issue |-> IssueOf(t), accepted |-> task[t].accepted,
        trigger |-> IF task[t].accepted THEN task[t].outcome.trigger ELSE 0,
        key |-> IF task[t].accepted THEN task[t].key ELSE <<>>,
        at |-> now, began |-> task[t].began])
  /\ task' = [task EXCEPT ![t] = Idle]
  /\ UNCHANGED <<events, claims, sends, cut, now>>

\* A store call fails and the request answers 400, or orchd goes down: what the
\* request has written stays written.
Cut(t) ==
  /\ task[t].pc # "idle" /\ Cardinality(cut) < world.cuts
  /\ cut' = cut \cup {task[t].id}
  /\ task' = [task EXCEPT ![t] = Idle]
  /\ UNCHANGED <<events, claims, decisions, sends, now>>

Tick ==
  /\ now < world.time /\ now' = now + 1
  /\ UNCHANGED <<events, claims, decisions, task, sends, cut>>

Work(t) ==
  /\ \/ Decide(t) \/ Claim(t) \/ ReadTotal(t) \/ ReadRecent(t) \/ ReadLast(t)
     \/ InsertDecision(t)
  /\ UNCHANGED world

Next ==
  \/ \E t \in world.tasks, d \in Deliveries : Receive(t, d) /\ UNCHANGED world
  \/ \E t \in world.tasks : Work(t) \/ (Cut(t) /\ UNCHANGED world)
  \/ Tick /\ UNCHANGED world

Spec == Init /\ [][Next]_vars

\* A request that was accepted is run to its end by the server's runtime.
FairSpec == Spec /\ \A t \in Tasks : WF_vars(Work(t))

-----------------------------------------------------------------------------
Guarded(n) ==
  /\ decisions[n].accepted
  /\ Triggers[decisions[n].trigger].guardrails

\* A delivery is decided at most once, however often Forgejo sends it and
\* whatever was cut short in between: the insert of the event is the gate.
DecidedAtMostOnce ==
  \A d \in Deliveries \ world.anonymous :
    Cardinality({n \in DOMAIN decisions : events[decisions[n].event] = d}) <= 1

\* One comment is dispatched at most once by a trigger, also when it arrives under
\* several delivery ids (two hooks, or a proxy that drops the header) and the
\* requests run at the same time.
Source(n) ==
  LET content == Content[events[decisions[n].event]]
  IN  <<content.issue, content.ctx.event, content.ctx.action, content.anchor>>

TriggerFiresOnce ==
  \A m, n \in DOMAIN decisions :
    (/\ decisions[m].accepted /\ decisions[n].accepted /\ m # n
     /\ decisions[m].trigger = decisions[n].trigger)
    => Source(m) # Source(n)

\* The limits of the guardrails are read before the decision they admit is
\* inserted, without a transaction.  What concurrency can add to them is one
\* decision for each other request in progress, and no more.
Overshoot == Cardinality(world.tasks) - 1

GuardedOn(issue) ==
  {n \in DOMAIN decisions : decisions[n].issue = issue /\ Guarded(n)}

DepthNearlyHolds ==
  \A n \in DOMAIN decisions :
    Cardinality(GuardedOn(decisions[n].issue)) <= world.depth + Overshoot

\* An event recorded after a trigger's decision was inserted is not dispatched by
\* a guarded trigger on that issue before the cooldown has passed.
CooldownKeepsApart ==
  \A m, n \in DOMAIN decisions :
    (/\ Guarded(n) /\ m <= decisions[n].began
     /\ m \in GuardedOn(decisions[n].issue))
    => decisions[n].at - decisions[m].at >= Cooldown

\* In the end every recorded event has its decision, unless its request was cut
\* short: then it has none for ever, since a second sending is answered as a
\* duplicate.
EventsAreDecided ==
  <>[](\A id \in DOMAIN events :
         id \in cut \/ \E n \in DOMAIN decisions : decisions[n].event = id)

-----------------------------------------------------------------------------
\* A request that has just decided its event, and the triggers that would have
\* dispatched it.
Decided(t) ==
  task[t].pc = "claim" \/ (task[t].pc = "insert" /\ task[t].outcome = None)

Candidates(ctx, parsed) == {n \in DOMAIN Triggers : Applies(Triggers[n], ctx, parsed)}

\* Whatever the order of the list, what decides is a candidate that no candidate of a
\* higher class, of its class and a higher priority, or of its class and priority and
\* an earlier place beats; and an event is ignored only when no trigger applies.
\* Keeping one best candidate over a three-level comparison is the code behind it.
Beats(m, n) ==
  LET rank == ClassRank(Triggers[m].class) - ClassRank(Triggers[n].class)
      priority == Triggers[m].priority - Triggers[n].priority
  IN  rank > 0 \/ (rank = 0 /\ priority > 0) \/ (rank = 0 /\ priority = 0 /\ m < n)

BestTriggerWins ==
  \A t \in Tasks : Decided(t) =>
    \A ctx \in {ContextOf(task[t].id)} : ctx.action # "edited" =>
      \A candidates \in {Candidates(ctx, ParseDirective(ctx.text))} :
        IF task[t].outcome = None THEN candidates = {}
        ELSE /\ task[t].outcome.trigger \in candidates
             /\ \A n \in candidates : ~Beats(n, task[t].outcome.trigger)

\* A reply nobody asked for in so many words goes to the role last heard on the
\* issue and only without one to the assignee; and the assignee's own comment
\* never goes to the assignee by way of the assignment.
ReplyFollowsConversation ==
  \A t \in Tasks :
    (/\ Decided(t) /\ task[t].outcome # None
     /\ Triggers[task[t].outcome.trigger].class = "assignee_reply") =>
    \A ctx \in {ContextOf(task[t].id)} :
      /\ ParseDirective(ctx.text) = None
      /\ IF ctx.conversation # None THEN task[t].outcome.role = ctx.conversation
         ELSE /\ task[t].outcome.role = ctx.assignees[1]
              /\ ctx.actor # task[t].outcome.role

=============================================================================
