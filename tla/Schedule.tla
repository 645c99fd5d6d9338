------------------------------- MODULE Schedule -------------------------------
(***************************************************************************)
(* Timers and the configuration they and orchd run under.  orchd schedule  *)
(* tick is a process of its own: a systemd unit starts it every minute and *)
(* a person may start another.  It loads the configuration anew, claims a  *)
(* slot of each timer that is due, opens the run issue and leaves a        *)
(* decision; orchd plans that decision under the configuration it last     *)
(* reloaded.  When the run has ended its runner records session and budget *)
(* in the timer's context, from which the next tick may resume.            *)
(***************************************************************************)
EXTENDS DispatchConfig, FiniteSetsExt, Functions

CONSTANTS
  Orchd,    \* the login of orchd
  Unit,     \* the tick that systemd starts
  Hand,     \* a tick that a person starts
  Worlds    \* what may happen, a sequence of records: see MCSchedule

\* orchd has started with the first text and the first cards.
ASSUME ScheduleWorlds ==
  \A w \in DOMAIN Worlds :
    /\ IsList(Worlds[w].texts) /\ IsList(Worlds[w].cards)
    /\ 1 \in DOMAIN Worlds[w].texts /\ 1 \in DOMAIN Worlds[w].cards
    /\ Loads(Worlds[w].texts[1], Worlds[w].cards[1], Orchd)
    /\ \A i \in DOMAIN Worlds[w].texts : IsText(Worlds[w].texts[i])

VARIABLES
  world,      \* the world of this behaviour, by its number
  now,        \* time, in the unit of the timers' intervals
  file,       \* the text on disk, by its number; 0 while it cannot be read
  cards,      \* the role cards on disk, by their number
  live,       \* [text, cards]: orchd's configuration; orchd is down when None
  lastGood,   \* DispatchConfigReloadState: the text last accepted
  lastError,  \* the text last refused, 0 for none, IoError
  claims,     \* schedule_claims: [timer, slot, decision]
  issues,     \* the run issues, by their numbers: [timer, slot, heard]
  events,     \* delivery ids of schedule events: [timer, slot]
  decisions,  \* the decisions, in their order
  context,    \* timer_contexts, by key
  tick,       \* the tick processes
  spent,      \* faults, edits, hands: how often each has happened
  lost        \* slots whose tick died or gave up after its claim; history

stores == <<claims, issues, events, decisions, context>>
config == <<file, cards, live, lastGood, lastError>>
vars == <<world, now, config, stores, tick, spent, lost>>

AllWorlds == Worlds
Load(text, ranks) ==
  IF Loads(text, ranks, Orchd) THEN Compiled(text, ranks, Orchd) ELSE None

\* What each text makes with each set of cards.
ConfigOf ==
  [w \in DOMAIN AllWorlds |->
    [i \in DOMAIN AllWorlds[w].texts |->
      [j \in DOMAIN AllWorlds[w].cards |->
        Load(AllWorlds[w].texts[i], AllWorlds[w].cards[j])]]]
W == AllWorlds[world]
Config(c) == ConfigOf[world][c.text][c.cards]

OnDisk == [text |-> file, cards |-> cards]
Accepted == file # 0 /\ Config(OnDisk) # None

IoError == -1
Idle == [pc |-> "idle"]
Ticks == {Unit, Hand}
Keys ==
  UNION {{ContextKey(text.timers[n]) : n \in DOMAIN text.timers} :
         text \in UNION {Range(AllWorlds[w].texts) : w \in DOMAIN AllWorlds}}

Init ==
  /\ world \in DOMAIN AllWorlds
  /\ now = 0 /\ file = 1 /\ cards = 1
  /\ live = [text |-> 1, cards |-> 1] /\ lastGood = 1 /\ lastError = 0
  /\ claims = {} /\ issues = <<>> /\ events = {} /\ decisions = <<>>
  /\ context = [k \in Keys |-> None]
  /\ tick = [p \in Ticks |-> Idle]
  /\ spent = [faults |-> 0, edits |-> 0, hands |-> 0]
  /\ lost = {}

Spend(what) ==
  /\ spent[what] < W[what]
  /\ spent' = [spent EXCEPT ![what] = @ + 1]

-----------------------------------------------------------------------------
(* The world: time, edits of the file and of the cards, comments.           *)

TimePasses ==
  /\ now < W.time
  /\ now' = now + 1
  /\ UNCHANGED <<world, config, stores, tick, spent, lost>>

Edit ==
  /\ Spend("edits")
  /\ \/ \E i \in DOMAIN W.texts \cup {0} : file' = i /\ i # file /\ cards' = cards
     \/ \E j \in DOMAIN W.cards : cards' = j /\ j # cards /\ file' = file
  /\ UNCHANGED <<world, now, live, lastGood, lastError, stores, tick, lost>>

-----------------------------------------------------------------------------
(* orchd's configuration *)

\* Mutant: the text counts as the last good one before it was loaded.
MutReloadMarksFirst ==
  /\ live # None /\ file # 0
  /\ IF file = lastGood THEN lastError' = 0 /\ UNCHANGED <<live, lastGood>>
     ELSE /\ lastGood' = file
          /\ IF Accepted THEN live' = OnDisk /\ lastError' = 0
             ELSE lastError' = file /\ live' = live
  /\ UNCHANGED <<world, now, file, cards, stores, tick, spent, lost>>

\* reload_once: a text is known by its digest; the cards are not part of it.
Reload ==
  /\ live # None
  /\ CASE file = 0        -> lastError' = IoError /\ UNCHANGED <<live, lastGood>>
       [] file = lastGood -> lastError' = 0 /\ UNCHANGED <<live, lastGood>>
       [] file \notin {0, lastGood} /\ lastError = file ->
            UNCHANGED <<live, lastGood, lastError>>
       [] file \notin {0, lastGood} /\ lastError # file ->
            IF Accepted THEN live' = OnDisk /\ lastGood' = file /\ lastError' = 0
            ELSE lastError' = file /\ UNCHANGED <<live, lastGood>>
  /\ UNCHANGED <<world, now, file, cards, stores, tick, spent, lost>>

Stop ==
  /\ live # None /\ Spend("faults")
  /\ live' = None
  /\ UNCHANGED <<world, now, file, cards, lastGood, lastError, stores, tick, lost>>

\* DispatchConfigHandle::load: orchd does not start without a configuration.
Start ==
  /\ live = None /\ Accepted
  /\ live' = OnDisk /\ lastGood' = file /\ lastError' = 0
  /\ UNCHANGED <<world, now, file, cards, stores, tick, spent, lost>>

-----------------------------------------------------------------------------
(* orchd and the runners: what becomes of a decision.                       *)

\* A comment that a trigger of the live configuration answers.
Decide(ctx) ==
  LET config0 == Config(live)
      parsed == ParseDirective(ctx.text)
      won == Winner(config0.triggers, ctx, parsed)
      outcome == decide(config0.triggers, won, ctx, parsed)
  IN  /\ outcome # None
      /\ decisions' = Append(decisions,
           [timer |-> None, slot |-> 0, key |-> None, mode |-> None, session |-> None,
            actor |-> ctx.actor, principal |-> outcome.principal, role |-> outcome.role,
            directive |-> outcome.directive, repo |-> ctx.repo,
            reason |-> config0.triggers[won].class, under |-> live,
            literal |-> config0.triggers[won].role \in config0.roles
                        /\ config0.triggers[won].directive # "parsed",
            state |-> "pending", refusal |-> None])

Comment ==
  /\ live # None
  /\ Len(SelectSeq(decisions, LAMBDA d : d.timer = None)) < W.comments
  /\ \E ctx \in W.contexts : Decide(ctx)
  /\ UNCHANGED <<world, now, config, claims, issues, events, context, tick, spent, lost>>

Pending(n) == decisions[n].state = "pending"

\* dispatch_queue_once: the decision gets its row, or it is a poisoned head and the
\* purge makes it nobody's.  What else may fail is in Dispatch.
Plan(n) ==
  /\ live # None /\ Pending(n)
  /\ LET outcome == PlanOutcome(Config(live), decisions[n])
     IN  decisions' =
           [decisions EXCEPT
              ![n] = IF outcome = "ok" THEN [@ EXCEPT !.state = "active"]
                     ELSE [@ EXCEPT !.state = "purged",
                             !.refusal = [outcome |-> outcome, under |-> live]]]
  /\ UNCHANGED <<world, now, config, claims, issues, events, context, tick, spent, lost>>

\* The terminal record of a run.  A new session is named after its decision.
SessionOf(n) == IF decisions[n].session = None THEN n ELSE decisions[n].session

EndRun(n) ==
  /\ decisions[n].state = "active"
  /\ \E status \in {"completed", "failed"} :
       decisions' = [decisions EXCEPT ![n].state = status]
  /\ UNCHANGED <<world, now, config, claims, issues, events, context, tick, spent, lost>>

\* record_timer_context_completion, after the terminal record and apart from it.  A run
\* that fails early has no session; low: little context or prompt budget is left.
RecordCompletion(n) ==
  LET d == decisions[n] IN
  /\ d.timer # None /\ d.state \in {"completed", "failed"}
  /\ \E session \in {SessionOf(n)} \cup IF d.state = "failed" THEN {None} ELSE {},
        low \in W.low :
       context' = [context EXCEPT
         ![d.key] = [session |-> IF session = None THEN @.session ELSE session,
                     runs |-> @.runs + 1, low |-> low, status |-> d.state, at |-> now]]
  /\ decisions' = [decisions EXCEPT ![n].state = "recorded"]
  /\ UNCHANGED <<world, now, config, claims, issues, events, tick, spent, lost>>

\* The runner dies between the two records.
LoseCompletion(n) ==
  /\ decisions[n].state \in {"completed", "failed"}
  /\ Spend("faults")
  /\ decisions' = [decisions EXCEPT ![n].state = "recorded"]
  /\ UNCHANGED <<world, now, config, claims, issues, events, context, tick, lost>>

-----------------------------------------------------------------------------
(* A tick.  [pc, config, timer: its position, only: the timer asked for,    *)
(* manual, slot, session, overtaken: another tick decided for this timer    *)
(* since this one counted].                                                 *)

Timers(c) == Config(c).timers
Timer(p) == Timers(tick[p].config)[tick[p].timer]
At(p, pc) == tick[p].pc = pc
Goto(p, pc) == tick' = [tick EXCEPT ![p].pc = pc]

Wanted(c, n, only) ==
  /\ n \in DOMAIN Timers(c)
  /\ Timers(c)[n].enabled
  /\ only = None \/ Timers(c)[n].id = only

\* The next timer at or after position n, or the end of the command.
Advance(run, n) ==
  LET rest == {m \in DOMAIN Timers(run.config) : m >= n /\ Wanted(run.config, m, run.only)}
  IN  IF rest = {} THEN Idle
      ELSE [run EXCEPT !.pc = "count", !.timer = Min(rest), !.slot = 0,
                       !.session = None, !.overtaken = FALSE]

NextTimer(p) == tick' = [tick EXCEPT ![p] = Advance(tick[p], tick[p].timer + 1)]
Begin(p, only, manual) ==
  /\ At(p, "idle") /\ Accepted /\ Config(OnDisk).control # None
  /\ tick' = [tick EXCEPT ![p] =
       Advance([pc |-> "count", config |-> OnDisk, timer |-> 0, only |-> only,
                manual |-> manual, slot |-> 0, session |-> None, overtaken |-> FALSE], 1)]
  /\ UNCHANGED <<world, now, config, stores, lost>>

BeginUnit == Begin(Unit, None, FALSE) /\ UNCHANGED spent
BeginHand ==
  /\ Accepted /\ Spend("hands")
  /\ \/ Begin(Hand, None, FALSE)
     \/ \E n \in DOMAIN Timers(OnDisk), manual \in BOOLEAN :
          Begin(Hand, Timers(OnDisk)[n].id, manual)

\* timer_active_dispatch_count: a purged decision has no timer any more.
Active(id) ==
  {n \in DOMAIN decisions : decisions[n].timer = id /\ decisions[n].state \in {"pending", "active"}}

\* Mutant: a decision counts only once it has its row.
MutCountRows(p) ==
  /\ At(p, "count")
  /\ IF Cardinality({n \in Active(Timer(p).id) : ~Pending(n)}) >= Timer(p).maxInflight
     THEN NextTimer(p) ELSE Goto(p, "slot")
  /\ UNCHANGED <<world, now, config, stores, spent, lost>>

Count(p) ==
  /\ At(p, "count")
  /\ IF Cardinality(Active(Timer(p).id)) >= Timer(p).maxInflight
     THEN NextTimer(p) ELSE Goto(p, "slot")
  /\ UNCHANGED <<world, now, config, stores, spent, lost>>

\* next_due_slot.  W.jitter delays a slot by what the hash of timer and slot gives.
ClaimedSlots(id) == {c.slot : c \in {c \in claims : c.timer = id}}
DueAt(timer, slot) == timer.start + timer.interval * slot + W.jitter[slot]

next_due_slot(timer) ==
  LET current == (now - timer.start) \div timer.interval
      taken == ClaimedSlots(timer.id)
      next == IF taken = {} THEN 0 ELSE Max(taken) + 1
      candidates == IF timer.catchUp = "skip" THEN {current}
                    ELSE {slot \in 0..current : slot >= next}
      due == {slot \in candidates : DueAt(timer, slot) <= now}
  IN  IF now < timer.start \/ next > current \/ due = {} THEN None ELSE Max(due)

\* The index of a manual run is negative and used once.
FindSlot(p) ==
  /\ At(p, "slot")
  /\ LET due == IF tick[p].manual THEN -spent.hands ELSE next_due_slot(Timer(p))
     IN  IF due = None THEN NextTimer(p)
         ELSE tick' = [tick EXCEPT ![p].pc = "claim", ![p].slot = due]
  /\ UNCHANGED <<world, now, config, stores, spent, lost>>

\* Mutant: a slot that is taken is taken again.
MutClaimAgain(p) ==
  LET id == Timer(p).id  slot == tick[p].slot IN
  /\ At(p, "claim")
  /\ Goto(p, "seed")
  /\ claims' = IF slot \in ClaimedSlots(id) THEN claims
               ELSE claims \cup {[timer |-> id, slot |-> slot, decision |-> 0]}
  /\ UNCHANGED <<world, now, config, issues, events, decisions, context, spent, lost>>

Claim(p) ==
  LET id == Timer(p).id  slot == tick[p].slot IN
  /\ At(p, "claim")
  /\ IF slot \in ClaimedSlots(id) THEN NextTimer(p) /\ UNCHANGED claims
     ELSE /\ Goto(p, "seed")
          /\ claims' = claims \cup {[timer |-> id, slot |-> slot, decision |-> 0]}
  /\ UNCHANGED <<world, now, config, issues, events, decisions, context, spent, lost>>

\* upsert_timer_context_seed
Seed(p) ==
  LET key == Timer(p).key IN
  /\ At(p, "seed") /\ Goto(p, "read")
  /\ context' = [context EXCEPT ![key] =
       IF @ = None THEN [session |-> None, runs |-> 0, low |-> FALSE,
                         status |-> None, at |-> now]
       ELSE [@ EXCEPT !.at = now]]
  /\ UNCHANGED <<world, now, config, claims, issues, events, decisions, spent, lost>>

should_reset_timer_context(timer, row) ==
  /\ row.session # None
  /\ \/ row.low
     \/ timer.maxRuns > 0 /\ row.runs >= timer.maxRuns
     \/ timer.maxAge > 0 /\ now - row.at >= timer.maxAge
     \/ timer.resetOnFailure /\ row.status \notin {None, "completed"}

\* resolve_resume_session_id, the reset in a statement of its own
ReadContext(p) ==
  LET row == context[Timer(p).key] IN
  /\ At(p, "read")
  /\ IF Timer(p).mode = "fresh" \/ should_reset_timer_context(Timer(p), row)
     THEN Goto(p, "reset")
     ELSE tick' = [tick EXCEPT ![p].pc = "issue", ![p].session = row.session]
  /\ UNCHANGED <<world, now, config, stores, spent, lost>>

ResetContext(p) ==
  /\ At(p, "reset") /\ Goto(p, "issue")
  /\ context' = [context EXCEPT ![Timer(p).key] =
       [session |-> None, runs |-> 0, low |-> FALSE, status |-> None, at |-> now]]
  /\ UNCHANGED <<world, now, config, claims, issues, events, decisions, spent, lost>>

Slot(p) == [timer |-> Timer(p).id, slot |-> tick[p].slot]

\* heard: the tick got the answer.
NewIssue(p, heard) ==
  Append(issues, [timer |-> Timer(p).id, slot |-> tick[p].slot, heard |-> heard])

CreateIssue(p) ==
  /\ At(p, "issue") /\ Timer(p).id \notin W.noBody
  /\ Goto(p, "event")
  /\ issues' = NewIssue(p, TRUE)
  /\ UNCHANGED <<world, now, config, claims, events, decisions, context, spent, lost>>

\* The event of a slot that has one already is an error.
InsertEvent(p) ==
  /\ At(p, "event")
  /\ IF Slot(p) \in events
     THEN tick' = [tick EXCEPT ![p] = Idle] /\ lost' = lost \cup {Slot(p)} /\ UNCHANGED events
     ELSE Goto(p, "decision") /\ events' = events \cup {Slot(p)} /\ UNCHANGED lost
  /\ UNCHANGED <<world, now, config, claims, issues, decisions, context, spent>>

InsertDecision(p) ==
  LET timer == Timer(p) IN
  /\ At(p, "decision")
  /\ decisions' = Append(decisions,
       [timer |-> timer.id, slot |-> tick[p].slot, key |-> timer.key, mode |-> timer.mode,
        session |-> tick[p].session, actor |-> Orchd, principal |-> timer.principal,
        role |-> timer.role, directive |-> timer.directive, repo |-> timer.repo,
        reason |-> "timer", under |-> tick[p].config, literal |-> TRUE,
        state |-> "pending", refusal |-> None])
  /\ tick' = [q \in Ticks |->
       IF q = p THEN [tick[p] EXCEPT !.pc = "annotate"]
       ELSE IF ~At(q, "idle") /\ Timer(q).id = timer.id
            THEN [tick[q] EXCEPT !.overtaken = TRUE] ELSE tick[q]]
  /\ UNCHANGED <<world, now, config, claims, issues, events, context, spent, lost>>

\* annotate_schedule_claim
Annotate(p) ==
  /\ At(p, "annotate") /\ NextTimer(p)
  /\ claims' = {IF c.timer = Timer(p).id /\ c.slot = tick[p].slot
                THEN [c EXCEPT !.decision = Len(decisions)] ELSE c : c \in claims}
  /\ UNCHANGED <<world, now, config, issues, events, decisions, context, spent, lost>>

-----------------------------------------------------------------------------
(* What may go wrong in a tick: the error ends the command, the timers that *)
(* come later included.                                                     *)

Quit(p) == tick' = [tick EXCEPT ![p] = Idle]

\* Mutant: the claim of a tick that failed stays.
MutGiveUpKeepsClaim(p) == Quit(p) /\ UNCHANGED claims

\* No issue was reported: the slot is given back.
GiveUp(p) ==
  /\ Quit(p)
  /\ claims' = {c \in claims : ~(c.timer = Timer(p).id /\ c.slot = tick[p].slot)}

\* A call of forgejoctl fails, or its answer is lost after the issue was created.
FailEarly(p) ==
  /\ At(p, "issue") /\ Spend("faults") /\ GiveUp(p)
  /\ issues' \in {issues} \cup IF Timer(p).id \notin W.noBody
                               THEN {NewIssue(p, FALSE)} ELSE {}
  /\ UNCHANGED <<world, now, config, events, decisions, context, lost>>

\* The file with the standing order cannot be read.
NoBody(p) ==
  /\ At(p, "issue") /\ Timer(p).id \in W.noBody
  /\ GiveUp(p)
  /\ UNCHANGED <<world, now, config, issues, events, decisions, context, spent, lost>>

\* An error once the issue exists keeps the claim: the slot has no run.
FailLate(p) ==
  /\ tick[p].pc \in {"event", "decision"} /\ Spend("faults")
  /\ Quit(p)
  /\ lost' = lost \cup {Slot(p)}
  /\ UNCHANGED <<world, now, config, stores>>

Kill(p) ==
  /\ ~At(p, "idle") /\ Spend("faults")
  /\ Quit(p)
  /\ lost' = lost \cup IF tick[p].pc \in {"count", "slot", "claim"} THEN {} ELSE {Slot(p)}
  /\ UNCHANGED <<world, now, config, stores>>

-----------------------------------------------------------------------------
StepOf(p) ==
  \/ Count(p) \/ FindSlot(p) \/ Claim(p) \/ Seed(p) \/ ReadContext(p)
  \/ ResetContext(p) \/ CreateIssue(p) \/ InsertEvent(p)
  \/ InsertDecision(p) \/ Annotate(p) \/ NoBody(p)

Dispatching ==
  \E n \in DOMAIN decisions : Plan(n) \/ EndRun(n) \/ RecordCompletion(n)

Mishap ==
  \/ Stop
  \/ \E p \in Ticks : FailEarly(p) \/ FailLate(p) \/ Kill(p)
  \/ \E n \in DOMAIN decisions : LoseCompletion(n)

Next ==
  \/ TimePasses \/ Edit \/ Comment \/ Reload \/ Start
  \/ BeginUnit \/ BeginHand
  \/ \E p \in Ticks : StepOf(p)
  \/ Dispatching \/ Mishap

Spec == Init /\ [][Next]_vars

\* orchd's loops repeat, systemd starts the unit again and again and orchd when it is
\* down, and a process that has started goes on.
FairSpec ==
  /\ Spec
  /\ WF_vars(TimePasses) /\ WF_vars(Reload \/ Start) /\ WF_vars(BeginUnit)
  /\ \A p \in Ticks : WF_vars(StepOf(p))
  /\ WF_vars(Dispatching)

-----------------------------------------------------------------------------
(* Properties *)

\* A slot of a timer is decided at most once, and it has a second run issue only if an
\* earlier tick gave the slot back without having heard of the first, which therefore
\* has no decision.
DecidedFor(s) == {n \in DOMAIN decisions : decisions[n].timer = s.timer /\ decisions[n].slot = s.slot}
OneRunPerSlot ==
  \A m, n \in DOMAIN issues :
    m < n /\ issues[m].timer = issues[n].timer /\ issues[m].slot = issues[n].slot =>
      /\ ~issues[m].heard
      /\ Cardinality(DecidedFor(issues[n])) <= 1

\* A tick leaves a timer with no more than max_inflight unfinished decisions, unless
\* another tick decided for the timer between this one's count and its decision.
OverrunOnlyByOverlap ==
  [][\A p \in Ticks :
       At(p, "decision") /\ tick'[p].pc = "annotate" /\ ~tick[p].overtaken
         => Cardinality(Active(Timer(p).id)') <= Timer(p).maxInflight]_vars

\* A timer resumes the session of another role only if the configuration was edited in
\* between or a timer in fresh mode uses its context key: the loader compares the roles
\* of the timers that reuse a context, not of those that write to it.
SessionStaysWithRole ==
  \A n \in DOMAIN decisions :
    LET d == decisions[n] IN
    d.session # None =>
      LET first == decisions[d.session]
      IN  first.role = d.role \/ first.under # d.under \/ first.mode = "fresh"

\* What the loader has accepted is carried out.  A timer's decision is refused under the
\* very configuration of its tick only for what the loader does not look at: orchd, who
\* acts for every timer, may be neither allowed nor ranked, and an impl needs a binding.
\* A trigger that names role and directive is never refused for these.
RefusedOnlyAfterEdit ==
  \A n \in DOMAIN decisions :
    LET d == decisions[n] IN
    d.refusal # None /\ d.refusal.under = d.under =>
      IF d.timer # None THEN d.refusal.outcome \in {"actor", "binding"}
      ELSE d.literal => d.refusal.outcome \notin {"directive", "role"}

\* In the end every due slot of an enabled timer is claimed, unless the timer is full or
\* the standing order of a timer before it cannot be read; and a claimed slot has been
\* decided unless its tick was killed or failed after its issue existed.
Reachable(n) ==
  \A m \in DOMAIN Timers(OnDisk) :
    m <= n /\ Timers(OnDisk)[m].enabled => Timers(OnDisk)[m].id \notin W.noBody
Starved(n) ==
  LET timer == Timers(OnDisk)[n] IN
  /\ timer.enabled /\ Reachable(n)
  /\ next_due_slot(timer) # None
  /\ Cardinality(Active(timer.id)) < timer.maxInflight
Unserved(c) ==
  LET slot == [timer |-> c.timer, slot |-> c.slot]
  IN  DecidedFor(slot) = {} /\ slot \notin lost
DueTimersRun ==
  <>[](/\ Accepted /\ Config(OnDisk).control # None =>
            \A n \in DOMAIN Timers(OnDisk) : ~Starved(n)
       /\ \A c \in claims : ~Unserved(c) \/ c.timer \in W.noBody)

\* Once the edits have ended, orchd runs the text on disk, or remembers it as refused,
\* which it is only if some cards it met made it unacceptable (corrected cards do not make
\* orchd look again), or the text cannot be read or lets no orchd start.
ConfigCatchesUp ==
  <>[](\/ file = 0
       \/ live = None /\ ~Accepted
       \/ live # None /\ live.text = file
       \/ /\ live # None /\ lastError = file
          /\ \E j \in DOMAIN W.cards : ConfigOf[world][file][j] = None)

=============================================================================
