---------------------------- MODULE ScheduleProofs ----------------------------
(***************************************************************************)
(* Theorems about Schedule for every world: any texts and cards, any       *)
(* edits of them, any two ticks and any faults.                            *)
(*                                                                         *)
(* SlotsOK says who may still open an issue or decide for a claimed slot;  *)
(* DecisionsOK and ContextsOK say from which configuration a decision, and *)
(* from which decision a session comes.  What the loader checks then says  *)
(* what two decisions of one configuration have in common, and why such a  *)
(* decision is never refused for what was checked.                         *)
(***************************************************************************)
EXTENDS Schedule, TriggerProofs

\* The configuration that text and cards make was accepted.
Good(c) ==
  /\ c.text \in DOMAIN W.texts /\ c.cards \in DOMAIN W.cards
  /\ Loads(W.texts[c.text], W.cards[c.cards], Orchd)

RunFields == {"pc", "config", "timer", "only", "manual", "slot", "session", "overtaken"}
IsRun(r) == r = [f \in RunFields |-> r[f]]

DecisionFields ==
  {"timer", "slot", "key", "mode", "session", "actor", "principal", "role", "directive",
   "repo", "reason", "under", "literal", "state", "refusal"}
IsDecision(d) == d = [f \in DecisionFields |-> d[f]]

RowFields == {"session", "runs", "low", "status", "at"}
IsRow(row) == row = [f \in RowFields |-> row[f]]

ClaimFields == {"timer", "slot", "decision"}
ClaimsOK == \A c \in claims : c = [f \in ClaimFields |-> c[f]]

ConfigsOK ==
  /\ world \in DOMAIN Worlds
  /\ file \in DOMAIN W.texts \cup {0} /\ cards \in DOMAIN W.cards
  /\ live # None => Good(live)

\* A tick: the timer it is at and the slot it has.
TimerOf(r) == Timers(r.config)[r.timer]
SlotOf(x) == [timer |-> x.timer, slot |-> x.slot]
RunSlot(r) == [timer |-> TimerOf(r).id, slot |-> r.slot]

\* Before there is an issue, before there is a decision, and while the slot is its own.
Early == {"seed", "read", "reset", "issue"}
Undecided == Early \cup {"event", "decision"}
Holding == Undecided \cup {"annotate"}

Claimed(s) == s.slot \in ClaimedSlots(s.timer)

\* A session is named after a decision of a timer that uses the context.
SessionFor(s, key) ==
  s \in DOMAIN decisions /\ decisions[s].timer # None /\ decisions[s].key = key

Seeded(key) ==
  /\ key \in Keys /\ IsRow(context[key])
  /\ context[key].session # None => SessionFor(context[key].session, key)

RunOK(r) ==
  r.pc # "idle" =>
    /\ IsRun(r) /\ Good(r.config) /\ r.timer \in DOMAIN Timers(r.config)
    /\ r.pc \in Holding \ {"seed"} => Seeded(TimerOf(r).key)
    /\ r.session # None => /\ SessionFor(r.session, TimerOf(r).key)
                           /\ TimerOf(r).mode = "reuse"

RunsOK == tick = [p \in Ticks |-> tick[p]] /\ \A p \in Ticks : RunOK(tick[p])

SlotsOK ==
  /\ IsList(issues)
  /\ \A p \in Ticks : tick[p].pc \in Holding =>
       /\ Claimed(RunSlot(tick[p]))
       /\ \A q \in Ticks \ {p} : tick[q].pc \in Holding => RunSlot(tick[q]) # RunSlot(tick[p])
  /\ \A n \in DOMAIN issues :
       /\ issues[n].timer # None
       /\ issues[n].heard =>
          /\ Claimed(SlotOf(issues[n]))
          /\ \A p \in Ticks : tick[p].pc \in Early => RunSlot(tick[p]) # SlotOf(issues[n])
  /\ \A n \in DOMAIN decisions : decisions[n].timer # None =>
       /\ Claimed(SlotOf(decisions[n]))
       /\ \A p \in Ticks : tick[p].pc \in Undecided => RunSlot(tick[p]) # SlotOf(decisions[n])
       /\ \A m \in DOMAIN decisions : SlotOf(decisions[m]) = SlotOf(decisions[n]) => m = n
  /\ \A m, n \in DOMAIN issues :
       m < n /\ SlotOf(issues[m]) = SlotOf(issues[n]) => ~issues[m].heard

\* The decision of a timer is what the configuration of its tick says of the timer.
ByTimer(d) ==
  /\ d.reason = "timer" /\ Seeded(d.key)
  /\ \E n \in DOMAIN Timers(d.under) :
       LET timer == Timers(d.under)[n] IN
       /\ timer.id = d.timer /\ timer.key = d.key /\ timer.mode = d.mode
       /\ timer.role = d.role /\ timer.directive = d.directive
       /\ timer.principal = d.principal
  /\ d.session # None => SessionFor(d.session, d.key) /\ d.mode = "reuse"

ByComment(d) ==
  /\ d.session = None
  /\ d.literal => /\ d.role \in Config(d.under).roles
                  /\ d.directive \in DOMAIN Config(d.under).directives

RefusalOK(d) ==
  d.refusal # None /\ d.refusal.under = d.under =>
    IF d.timer # None THEN d.refusal.outcome \in {"actor", "binding"}
    ELSE d.literal => d.refusal.outcome \notin {"directive", "role"}

DecisionOK(d) ==
  /\ IsDecision(d) /\ Good(d.under) /\ RefusalOK(d)
  /\ d.timer # None => ByTimer(d)
  /\ d.timer = None => ByComment(d)

DecisionsOK == IsList(decisions) /\ \A n \in DOMAIN decisions : DecisionOK(decisions[n])

ContextsOK ==
  context = [k \in Keys |-> context[k]] /\ \A k \in Keys : context[k] = None \/ Seeded(k)

Inv == ConfigsOK /\ ClaimsOK /\ RunsOK /\ SlotsOK /\ DecisionsOK /\ ContextsOK

-----------------------------------------------------------------------------
(* What the loader has checked.                                            *)

LEMMA CompiledTimer ==
  ASSUME NEW t, IsTimer(t)
  PROVE  LET c == compile_timer_config(t, Orchd)
         IN  /\ c.id = t.id /\ c.key = ContextKey(t) /\ c.mode = t.mode /\ c.role = t.role
             /\ c.directive = t.directive /\ c.principal = Principal(t, Orchd)
             /\ c.maxInflight \in Nat \ {0}
<1> DEFINE k == ContextKey(t)
           q == Principal(t, Orchd)
           m == IF t.maxInflight = 0 THEN 1 ELSE t.maxInflight
           c == [t EXCEPT !.principal = q, !.key = k, !.maxInflight = m]
<1>1. compile_timer_config(t, Orchd) = c
  BY DEF compile_timer_config
<1> HIDE DEF k, q, m
<1>2. /\ c.id = t.id /\ c.key = k /\ c.mode = t.mode /\ c.role = t.role
      /\ c.directive = t.directive /\ c.principal = q /\ c.maxInflight = m
  BY DEF IsTimer
<1>3. m \in Nat \ {0}
  BY DEF IsTimer, m
<1> QED
  BY <1>1, <1>2, <1>3 DEF k, q

\* A configuration, its text, and its timers.
LEMMA GoodConfig ==
  ASSUME ConfigsOK, NEW c, Good(c)
  PROVE  \E text, ranks :
           /\ IsText(text) /\ Loads(text, ranks, Orchd)
           /\ Config(c) = Compiled(text, ranks, Orchd)
           /\ Timers(c) = [n \in DOMAIN text.timers |-> compile_timer_config(text.timers[n], Orchd)]
           /\ DOMAIN text.timers \subseteq Nat
           /\ \A n \in DOMAIN text.timers : ContextKey(text.timers[n]) \in Keys
<1> PICK text, ranks : text = W.texts[c.text] /\ ranks = W.cards[c.cards]
  OBVIOUS
<1>1. /\ world \in DOMAIN Worlds /\ c.text \in DOMAIN Worlds[world].texts
      /\ c.cards \in DOMAIN Worlds[world].cards /\ Loads(text, ranks, Orchd)
      /\ text = Worlds[world].texts[c.text] /\ ranks = Worlds[world].cards[c.cards]
  BY DEF ConfigsOK, Good, W, AllWorlds
<1>2. Config(c) = Compiled(text, ranks, Orchd)
  <2>1. ConfigOf[world][c.text][c.cards] = Load(text, ranks)
    BY <1>1 DEF ConfigOf, AllWorlds
  <2> QED
    BY <1>1, <2>1 DEF Config, Load
<1>3. IsText(text)
  BY <1>1, ScheduleWorlds DEF ScheduleWorlds
<1>4. Timers(c) = [n \in DOMAIN text.timers |-> compile_timer_config(text.timers[n], Orchd)]
  BY <1>2 DEF Timers, Compiled
<1>5. DOMAIN text.timers \subseteq Nat
  BY <1>3 DEF IsText, IsList
<1>6. \A n \in DOMAIN text.timers : ContextKey(text.timers[n]) \in Keys
  <2>1. text \in UNION {Range(AllWorlds[w].texts) : w \in DOMAIN AllWorlds}
    BY <1>1 DEF Range, AllWorlds
  <2> QED
    BY <2>1 DEF Keys
<1> QED
  BY <1>1, <1>2, <1>3, <1>4, <1>5, <1>6

LEMMA AcceptedIsGood ==
  ASSUME ConfigsOK, Accepted
  PROVE  Good(OnDisk)
<1>1. /\ world \in DOMAIN Worlds /\ file \in DOMAIN Worlds[world].texts
      /\ cards \in DOMAIN Worlds[world].cards
  BY DEF ConfigsOK, Accepted, W, AllWorlds
<1>2. OnDisk.text = file /\ OnDisk.cards = cards
  BY DEF OnDisk
<1>3. Config(OnDisk) = Load(Worlds[world].texts[file], Worlds[world].cards[cards])
  BY <1>1, <1>2 DEF Config, ConfigOf, AllWorlds
<1>4. Loads(Worlds[world].texts[file], Worlds[world].cards[cards], Orchd)
  BY <1>3 DEF Accepted, Load
<1> QED
  BY <1>1, <1>2, <1>4 DEF Good, W, AllWorlds

\* The timers of one configuration that reuse a context act for the same role.
LEMMA ContextHasRole ==
  ASSUME ConfigsOK, NEW c, Good(c), NEW n \in DOMAIN Timers(c), NEW m \in DOMAIN Timers(c),
         Timers(c)[n].mode = "reuse", Timers(c)[m].mode = "reuse",
         Timers(c)[n].key = Timers(c)[m].key
  PROVE  Timers(c)[n].role = Timers(c)[m].role
<1>1. PICK text, ranks :
        /\ IsText(text) /\ Loads(text, ranks, Orchd)
        /\ Timers(c) = [k \in DOMAIN text.timers |-> compile_timer_config(text.timers[k], Orchd)]
  BY GoodConfig
<1>2. ContextKeysAgree(text.timers)
  BY <1>1 DEF Loads, TimersLoad
<1>3. \A k \in DOMAIN text.timers :
        /\ Timers(c)[k].key = ContextKey(text.timers[k])
        /\ Timers(c)[k].mode = text.timers[k].mode /\ Timers(c)[k].role = text.timers[k].role
  BY <1>1, CompiledTimer DEF IsText
<1> QED
  BY <1>1, <1>2, <1>3 DEF ContextKeysAgree

LEMMA TimerFields ==
  ASSUME ConfigsOK, NEW c, Good(c), NEW n \in DOMAIN Timers(c)
  PROVE  /\ Timers(c)[n].id # None /\ Timers(c)[n].mode \in {"fresh", "reuse"}
         /\ Timers(c)[n].key \in Keys /\ Timers(c)[n].maxInflight \in Nat \ {0}
<1>1. PICK text, ranks :
        /\ IsText(text)
        /\ Timers(c) = [k \in DOMAIN text.timers |-> compile_timer_config(text.timers[k], Orchd)]
        /\ \A k \in DOMAIN text.timers : ContextKey(text.timers[k]) \in Keys
  BY GoodConfig
<1>2. IsTimer(text.timers[n]) /\ n \in DOMAIN text.timers
  BY <1>1 DEF IsText
<1>3. Timers(c)[n] = compile_timer_config(text.timers[n], Orchd)
  BY <1>1, <1>2
<1> QED
  BY <1>1, <1>2, <1>3, CompiledTimer DEF IsTimer

\* What was checked of a timer is what a plan of its decision asks.
LEMMA PlanOfTimer ==
  ASSUME ConfigsOK, NEW c, Good(c), NEW n \in DOMAIN Timers(c), NEW d, d.reason = "timer",
         Timers(c)[n].role = d.role, Timers(c)[n].directive = d.directive,
         Timers(c)[n].principal = d.principal
  PROVE  PlanOutcome(Config(c), d) \in {"ok", "actor", "binding"}
<1>1. PICK text, ranks :
        /\ IsText(text) /\ Loads(text, ranks, Orchd)
        /\ Config(c) = Compiled(text, ranks, Orchd)
        /\ Timers(c) = [k \in DOMAIN text.timers |-> compile_timer_config(text.timers[k], Orchd)]
  BY GoodConfig
<1>2. /\ IsTimer(text.timers[n])
      /\ TimerLoads(text, compile_rank_acl(text, ranks), text.timers[n], Orchd)
  BY <1>1 DEF IsText, Loads, TimersLoad
<1>3. /\ text.timers[n].role = d.role /\ text.timers[n].directive = d.directive
      /\ Principal(text.timers[n], Orchd) = d.principal
  BY <1>1, <1>2, CompiledTimer
<1>4. /\ d.directive \in DOMAIN text.directives /\ d.role \in DOMAIN text.roles
      /\ actor_can_dispatch(compile_rank_acl(text, ranks), d.principal, d.role, d.directive)
  BY <1>2, <1>3 DEF TimerLoads
<1>5. /\ Config(c).directives = text.directives /\ Config(c).roles = DOMAIN text.roles
      /\ Config(c).acl = compile_rank_acl(text, ranks)
  BY <1>1 DEF Compiled
<1> QED
  BY <1>4, <1>5 DEF PlanOutcome

LEMMA TriggersOfText ==
  ASSUME NEW text, IsText(text)
  PROVE  /\ ConfiguredTriggers(CompiledTriggers(text))
         /\ \A n \in DOMAIN CompiledTriggers(text) :
              \/ CompiledTriggers(text)[n] \in LegacyTriggers
              \/ \E m \in DOMAIN text.triggers :
                   CompiledTriggers(text)[n] = compile_registered_trigger(text.triggers[m])
<1> DEFINE len == Len(text.triggers)
           own == [n \in DOMAIN text.triggers |-> compile_registered_trigger(text.triggers[n])]
           pack == IF text.legacy THEN legacy_trigger_pack ELSE <<>>
           Own == {compile_registered_trigger(text.triggers[m]) : m \in DOMAIN text.triggers}
           all == CompiledTriggers(text)
<1>1. len \in Nat /\ DOMAIN text.triggers = 1..len
  BY DEF IsText, IsList
<1>2. own \in Seq(Own) /\ Len(own) = len
  BY <1>1
<1>3. pack \in Seq(LegacyTriggers) /\ (text.legacy => Len(pack) = 4)
  <2>1. legacy_trigger_pack \in Seq(LegacyTriggers) /\ Len(legacy_trigger_pack) = 4
    <3> PICK a, b, c, e : /\ a = ExplicitOn("issue_comment", "created")
                         /\ b = ExplicitOn("issues", "opened")
                         /\ c = ConversationReply /\ e = AssigneeReply
      OBVIOUS
    <3>1. legacy_trigger_pack = <<a, b, c, e>>
      BY DEF legacy_trigger_pack
    <3>2. a \in LegacyTriggers /\ b \in LegacyTriggers /\ c \in LegacyTriggers
          /\ e \in LegacyTriggers
      BY <3>1 DEF LegacyTriggers
    <3> QED
      BY <3>1, <3>2
  <2> QED
    BY <2>1
<1>4. all = pack \o own
  BY DEF CompiledTriggers
<1> HIDE DEF all
<1>5. /\ pack \in Seq(LegacyTriggers \cup Own) /\ own \in Seq(LegacyTriggers \cup Own)
  BY <1>2, <1>3
<1> HIDE DEF pack, own, Own
<1>6. /\ all \in Seq(LegacyTriggers \cup Own) /\ Len(all) = Len(pack) + Len(own)
      /\ \A n \in 1..Len(all) :
           all[n] = IF n <= Len(pack) THEN pack[n] ELSE own[n - Len(pack)]
  BY <1>4, <1>5, ConcatProperties
<1>7. Len(all) \in Nat /\ DOMAIN all = 1..Len(all) /\ Len(pack) \in Nat
  BY <1>5, <1>6
<1>8. \A n \in DOMAIN all : all[n] \in LegacyTriggers \/ all[n] \in Own
  BY <1>6, <1>7
<1>9. \A t \in Own : /\ t.class = "registered_trigger"
                     /\ t.priority \in Int /\ t.guardrails \in BOOLEAN
  BY DEF Own, compile_registered_trigger, IsText
<1>10. ASSUME NEW n \in DOMAIN all, all[n].class # "registered_trigger", NEW t \in LegacyTriggers
       PROVE  \E m \in DOMAIN all : all[m] = t
  <2>1. n <= Len(pack)
    <3> SUFFICES ASSUME ~(n <= Len(pack)) PROVE FALSE
      OBVIOUS
    <3>1. all[n] = own[n - Len(pack)] /\ n - Len(pack) \in 1..Len(own)
      BY <1>2, <1>1, <1>6, <1>7
    <3>2. all[n] \in Own
      BY <1>2, <3>1
    <3> QED
      BY <1>9, <1>10, <3>2
  <2>2. text.legacy
    <3> SUFFICES ASSUME ~text.legacy PROVE FALSE
      OBVIOUS
    <3>1. pack = <<>>
      BY DEF pack
    <3> QED
      BY <1>7, <2>1, <3>1
  <2>3. PICK m \in 1..4 : t = legacy_trigger_pack[m]
    BY DEF LegacyTriggers
  <2>4. pack[m] = t /\ Len(pack) = 4
    BY <1>3, <2>2, <2>3 DEF pack
  <2> QED
    BY <1>6, <1>7, <1>2, <1>1, <2>4
<1> QED
  BY <1>7, <1>8, <1>9, <1>10 DEF ConfiguredTriggers, all, Own

\* A trigger that names role and directive names ones that the configuration has.
LEMMA LiteralKnown ==
  ASSUME ConfigsOK, NEW c, Good(c), NEW ctx, NEW parsed, NEW won,
         won = Winner(Config(c).triggers, ctx, parsed),
         decide(Config(c).triggers, won, ctx, parsed) # None,
         Config(c).triggers[won].role \in Config(c).roles,
         Config(c).triggers[won].directive # "parsed"
  PROVE  LET outcome == decide(Config(c).triggers, won, ctx, parsed)
         IN  /\ outcome.role \in Config(c).roles
             /\ outcome.directive \in DOMAIN Config(c).directives
<1>1. PICK text, ranks :
        /\ IsText(text) /\ Loads(text, ranks, Orchd)
        /\ Config(c) = Compiled(text, ranks, Orchd)
  BY GoodConfig
<1>2. /\ Config(c).directives = text.directives /\ Config(c).roles = DOMAIN text.roles
      /\ Config(c).triggers = CompiledTriggers(text)
  BY <1>1 DEF Compiled
<1> DEFINE all == CompiledTriggers(text)
<1>3. won # 0 /\ decide(all, won, ctx, parsed) = Outcome(all, won, ctx, parsed)
  BY <1>2 DEF decide
<1>4. won \in DOMAIN all
  <2>1. ConfiguredTriggers(all)
    BY <1>1, TriggersOfText
  <2>2. won \in 0..Len(all)
    BY <1>2, <2>1, WinnerIsBest DEF BestOf
  <2> QED
    BY <1>3, <2>1, <2>2 DEF ConfiguredTriggers
<1> PICK t : t = all[won]
  OBVIOUS
<1>5. {"parsed", "assignee", "conversation", "actor"} \cap DOMAIN text.roles = {}
  BY <1>1 DEF IsText
<1>6. t.role \in DOMAIN text.roles /\ t.directive # "parsed"
  BY <1>2
<1>7. Resolve(t.role, ctx, parsed) = t.role
  BY <1>5, <1>6 DEF Resolve
<1>8. resolve_trigger_directive(t, parsed) = t.directive
  BY <1>6 DEF resolve_trigger_directive
<1>9. t \notin LegacyTriggers
  <2> SUFFICES ASSUME t \in LegacyTriggers PROVE FALSE
    OBVIOUS
  <2>1. PICK n \in 1..4 : t = legacy_trigger_pack[n]
    BY DEF LegacyTriggers
  <2>2. t.role \in {"parsed", "assignee", "conversation"}
    <3>1. n = 1 \/ n = 2 => t.role = "parsed"
      BY <2>1 DEF legacy_trigger_pack, ExplicitOn
    <3>2. n = 3 => t.role = "conversation"
      BY <2>1 DEF legacy_trigger_pack, ConversationReply
    <3> PICK cr : cr = ConversationReply
      OBVIOUS
    <3>3. n = 4 => t.role = "assignee"
      <4>1. cr.role = "conversation" /\ "role" \in DOMAIN cr
        BY DEF ConversationReply
      <4>2. AssigneeReply.role = "assignee"
        BY <4>1 DEF AssigneeReply
      <4>3. n = 4 => t = AssigneeReply
        BY <2>1 DEF legacy_trigger_pack
      <4> QED
        BY <4>2, <4>3
    <3> QED
      BY <3>1, <3>2, <3>3
  <2> QED
    BY <1>5, <1>6, <2>2
<1>10. PICK m \in DOMAIN text.triggers : t = compile_registered_trigger(text.triggers[m])
  BY <1>1, <1>4, <1>9, TriggersOfText
<1>11. ActionLoads(text, compile_rank_acl(text, ranks), text.triggers[m])
  BY <1>1 DEF Loads, TriggersLoad, TriggerLoads
<1>12. t.directive \in DOMAIN text.directives
  <2>1. t.directive = GivenOr(text.triggers[m].directive, text.triggers[m].directiveFrom, None)
    BY <1>10 DEF compile_registered_trigger
  <2> QED
    BY <1>6, <1>11, <2>1 DEF ActionLoads, GivenOr, OneOf
<1>13. Outcome(all, won, ctx, parsed).role = t.role
  BY <1>7 DEF Outcome
<1>14. Outcome(all, won, ctx, parsed).directive = t.directive
  BY <1>8 DEF Outcome
<1> QED
  BY <1>2, <1>3, <1>6, <1>12, <1>13, <1>14

LEMMA PlanOfLiteral ==
  ASSUME NEW c, NEW d, d.role \in Config(c).roles, d.directive \in DOMAIN Config(c).directives
  PROVE  PlanOutcome(Config(c), d) \notin {"directive", "role"}
BY DEF PlanOutcome

-----------------------------------------------------------------------------
(* What a step keeps.                                                      *)

\* Sessions stay named after their decisions, and a context that is there stays.
Keeping ==
  /\ world' = world
  /\ \A s, k : SessionFor(s, k) => SessionFor(s, k)'
  /\ \A k : Seeded(k) => Seeded(k)'

LEMMA Kept ==
  ASSUME Keeping
  PROVE  /\ \A c : Good(c) => Good(c)'
         /\ \A c : Timers(c)' = Timers(c) /\ Config(c)' = Config(c)
         /\ \A r : TimerOf(r)' = TimerOf(r) /\ RunSlot(r)' = RunSlot(r)
         /\ \A r : RunOK(r) => RunOK(r)'
         /\ \A d : DecisionOK(d) => DecisionOK(d)'
<1>1. \A c : (Good(c) => Good(c)') /\ Config(c)' = Config(c)
  BY DEF Keeping, Good, Config, W
<1>2. \A c : Timers(c)' = Timers(c)
  BY <1>1 DEF Timers
<1>3. \A r : TimerOf(r)' = TimerOf(r)
  BY <1>2 DEF TimerOf
<1>4. \A r : RunSlot(r)' = RunSlot(r)
  BY <1>3 DEF RunSlot
<1>5. \A r : RunOK(r) => RunOK(r)'
  <2> SUFFICES ASSUME NEW r, RunOK(r) PROVE RunOK(r)'
    OBVIOUS
  <2> QED
    BY <1>1, <1>2, <1>3 DEF RunOK, Keeping, IsRun
<1>6. \A d : DecisionOK(d) => DecisionOK(d)'
  <2> SUFFICES ASSUME NEW d, DecisionOK(d) PROVE DecisionOK(d)'
    OBVIOUS
  <2>1. ByTimer(d) => ByTimer(d)'
    BY <1>2 DEF ByTimer, Keeping
  <2>2. ByComment(d) => ByComment(d)'
    BY <1>1 DEF ByComment
  <2> QED
    BY <1>1, <2>1, <2>2 DEF DecisionOK, RefusalOK, IsDecision
<1> QED
  BY <1>1, <1>2, <1>3, <1>4, <1>5, <1>6

LEMMA StoresKeep ==
  ASSUME world' = world, decisions' = decisions, context' = context
  PROVE  Keeping
BY DEF Keeping, SessionFor, Seeded, Keys

\* Every tick is a run that is fine.
LEMMA RunsStep ==
  ASSUME RunsOK, NEW p \in Ticks, NEW y, RunOK(y)', tick' = [tick EXCEPT ![p] = y], Keeping
  PROVE  /\ RunsOK' /\ tick'[p] = y
         /\ \A q \in Ticks \ {p} : tick'[q] = tick[q]
<1>1. tick' = [q \in Ticks |-> IF q = p THEN y ELSE tick[q]]
  BY DEF RunsOK
<1>2. ASSUME NEW q \in Ticks PROVE RunOK(tick[q])'
  <2> PICK x : x = tick'[q]
    OBVIOUS
  <2>1. CASE q = p
    <3>1. x = y
      BY <1>1, <2>1
    <3> QED
      BY <3>1 DEF RunOK
  <2>2. CASE q # p
    <3>1. x = tick[q] /\ RunOK(tick[q])
      BY <1>1, <2>2 DEF RunsOK
    <3>2. RunOK(x)'
      BY <3>1, Kept
    <3> QED
      BY <3>2 DEF RunOK
  <2> QED
    BY <2>1, <2>2
<1>3. tick' = [q \in Ticks |-> tick'[q]]
  BY <1>1
<1> QED
  BY <1>1, <1>2, <1>3 DEF RunsOK

LEMMA RunsStay ==
  ASSUME RunsOK, tick' = tick, Keeping
  PROVE  RunsOK'
<1>1. ASSUME NEW q \in Ticks PROVE RunOK(tick[q])'
  <2> PICK x : x = tick[q]
    OBVIOUS
  <2>1. RunOK(x)'
    BY Kept DEF RunsOK
  <2> QED
    BY <2>1 DEF RunOK
<1> QED
  BY <1>1 DEF RunsOK

LEMMA DecisionsStay ==
  ASSUME DecisionsOK, decisions' = decisions, Keeping
  PROVE  DecisionsOK'
<1>1. ASSUME NEW n \in DOMAIN decisions PROVE DecisionOK(decisions[n])'
  <2> PICK d : d = decisions[n]
    OBVIOUS
  <2>1. DecisionOK(d)'
    BY Kept DEF DecisionsOK
  <2> QED
    BY <2>1 DEF DecisionOK, IsDecision
<1> QED
  BY <1>1 DEF DecisionsOK

LEMMA ContextsStay ==
  ASSUME ContextsOK, context' = context, Keeping
  PROVE  ContextsOK'
<1>1. Keys' = Keys
  BY DEF Keys
<1> QED
  BY <1>1 DEF ContextsOK, Keeping

\* The next timer of a tick, if it has one.
LEMMA AdvanceOK ==
  ASSUME ConfigsOK, NEW r, IsRun(r), Good(r.config), NEW n
  PROVE  \E y : y = Advance(r, n) /\ RunOK(y) /\ y.pc \in {"idle", "count"}
<1> DEFINE rest == {m \in DOMAIN Timers(r.config) : m >= n /\ Wanted(r.config, m, r.only)}
<1>1. CASE rest = {}
  <2>1. Advance(r, n) = Idle
    BY <1>1 DEF Advance
  <2>2. RunOK(Idle) /\ Idle.pc = "idle"
    BY DEF Idle, RunOK
  <2> QED
    BY <2>1, <2>2
<1>2. CASE rest # {}
  <2>1. rest \subseteq Nat /\ rest \subseteq DOMAIN Timers(r.config)
    BY GoodConfig
  <2> PICK first : first = Min(rest)
    OBVIOUS
  <2>2. first \in rest
    <3> HIDE DEF rest
    <3>1. PICK m \in rest : \A k \in rest : m <= k
      BY <1>2, <2>1, LeastNumber
    <3> QED
      BY <3>1 DEF Min
  <2> PICK y : y = [r EXCEPT !.pc = "count", !.timer = first, !.slot = 0,
                             !.session = None, !.overtaken = FALSE]
    OBVIOUS
  <2>3. Advance(r, n) = y
    BY <1>2 DEF Advance
  <2>4. IsRun(y) /\ y.pc = "count" /\ y.config = r.config /\ y.timer = first /\ y.session = None
    BY DEF IsRun, RunFields
  <2>5. RunOK(y)
    BY <2>1, <2>2, <2>4 DEF RunOK, Holding, Undecided, Early
  <2> QED
    BY <2>3, <2>4, <2>5
<1> QED
  BY <1>1, <1>2

\* Claims, issues and decisions stay with their slots, and no tick gets any further than
\* it was with the slot it had.
LEMMA SlotsMove ==
  ASSUME SlotsOK, issues' = issues,
         \A x : Claimed(x) => Claimed(x)',
         \A n \in DOMAIN decisions' : decisions'[n].timer # None =>
           n \in DOMAIN decisions /\ SlotOf(decisions'[n]) = SlotOf(decisions[n]),
         \A q \in Ticks : tick'[q].pc \in Holding =>
           /\ tick[q].pc \in Holding /\ RunSlot(tick[q])' = RunSlot(tick[q])
           /\ tick'[q].pc \in Undecided => tick[q].pc \in Undecided
           /\ tick'[q].pc \in Early => tick[q].pc \in Early
  PROVE  SlotsOK'
<1>1. Early \subseteq Undecided /\ Undecided \subseteq Holding
  BY DEF Undecided, Holding
<1>2. ASSUME NEW q \in Ticks, tick'[q].pc \in Holding
      PROVE  /\ Claimed(RunSlot(tick[q]))'
             /\ \A o \in Ticks \ {q} : tick'[o].pc \in Holding =>
                  RunSlot(tick[o])' # RunSlot(tick[q])'
  <2> PICK x : x = RunSlot(tick[q])
    OBVIOUS
  <2>1. Claimed(x)' /\ RunSlot(tick[q])' = x
    BY <1>2 DEF SlotsOK
  <2>2. Claimed(RunSlot(tick[q]))'
    BY <2>1 DEF Claimed
  <2> QED
    BY <1>2, <2>1, <2>2 DEF SlotsOK
<1>3. ASSUME NEW n \in DOMAIN issues, issues[n].heard
      PROVE  /\ Claimed(SlotOf(issues[n]))'
             /\ \A q \in Ticks : tick'[q].pc \in Early => RunSlot(tick[q])' # SlotOf(issues[n])
  <2> PICK x : x = SlotOf(issues[n])
    OBVIOUS
  <2>1. Claimed(x)' /\ x = SlotOf(issues'[n])
    BY <1>3 DEF SlotsOK
  <2>2. Claimed(SlotOf(issues[n]))'
    BY <2>1 DEF Claimed, SlotOf
  <2> QED
    BY <1>1, <1>3, <2>2 DEF SlotsOK
<1>4. ASSUME NEW n \in DOMAIN decisions', decisions'[n].timer # None
      PROVE  /\ Claimed(SlotOf(decisions[n]))'
             /\ \A q \in Ticks : tick'[q].pc \in Undecided =>
                  RunSlot(tick[q])' # SlotOf(decisions'[n])
             /\ \A m \in DOMAIN decisions' : SlotOf(decisions'[m]) = SlotOf(decisions'[n]) => m = n
  <2> PICK x : x = SlotOf(decisions[n])
    OBVIOUS
  <2>1. /\ n \in DOMAIN decisions /\ x = SlotOf(decisions'[n])
        /\ decisions[n].timer = decisions'[n].timer
    BY <1>4 DEF SlotOf
  <2>2. Claimed(x)'
    BY <1>4, <2>1 DEF SlotsOK
  <2>3. Claimed(SlotOf(decisions[n]))'
    BY <2>1, <2>2 DEF Claimed, SlotOf
  <2>4. \A m \in DOMAIN decisions' : SlotOf(decisions'[m]) = SlotOf(decisions'[n]) => m = n
    <3> SUFFICES ASSUME NEW m \in DOMAIN decisions', SlotOf(decisions'[m]) = SlotOf(decisions'[n])
                 PROVE  m = n
      OBVIOUS
    <3>1. decisions'[m].timer = decisions'[n].timer
      BY DEF SlotOf
    <3>2. m \in DOMAIN decisions /\ SlotOf(decisions[m]) = SlotOf(decisions[n])
      BY <1>4, <2>1, <3>1
    <3> QED
      BY <1>4, <2>1, <3>2 DEF SlotsOK
  <2>5. \A q \in Ticks : tick'[q].pc \in Undecided => RunSlot(tick[q])' # x
    BY <1>1, <1>4, <2>1 DEF SlotsOK
  <2> QED
    BY <2>1, <2>3, <2>4, <2>5
<1>5. IsList(issues') /\ \A n \in DOMAIN issues : issues[n].timer # None
  BY DEF SlotsOK
<1>6. \A m, n \in DOMAIN issues :
        m < n /\ SlotOf(issues[m]) = SlotOf(issues[n]) => ~issues[m].heard
  BY DEF SlotsOK
<1>7. \A n \in DOMAIN issues : SlotOf(issues[n])' = SlotOf(issues[n])
  BY DEF SlotOf
<1> QED
  BY <1>2, <1>3, <1>4, <1>5, <1>6, <1>7 DEF SlotsOK

-----------------------------------------------------------------------------
(* Steps of a tick that leave issues, decisions and contexts alone.        *)

LEMMA ConfigsStay ==
  ASSUME ConfigsOK, UNCHANGED <<world, file, cards, live>>
  PROVE  ConfigsOK'
<1>1. Good(live)' <=> Good(live)
  BY DEF Good, W
<1> QED
  BY <1>1 DEF ConfigsOK, W

LEMMA Running ==
  ASSUME Inv, NEW p \in Ticks, tick[p].pc # "idle"
  PROVE  /\ ConfigsOK /\ RunOK(tick[p]) /\ IsRun(tick[p]) /\ Good(tick[p].config)
         /\ tick[p].timer \in DOMAIN Timers(tick[p].config)
         /\ TimerOf(tick[p]) = Timer(p)
         /\ Timer(p).id # None /\ Timer(p).mode \in {"fresh", "reuse"} /\ Timer(p).key \in Keys
<1>1. RunOK(tick[p]) /\ ConfigsOK
  BY DEF Inv, RunsOK
<1>2. /\ IsRun(tick[p]) /\ Good(tick[p].config)
      /\ tick[p].timer \in DOMAIN Timers(tick[p].config)
  BY <1>1 DEF RunOK
<1> QED
  BY <1>1, <1>2, TimerFields DEF TimerOf, Timer

\* The tick has let go of its slot, or it still has it and is as far with it as before.
StillAt(y, r) ==
  y.pc \in Holding =>
    /\ r.pc \in Holding /\ RunSlot(y) = RunSlot(r)
    /\ y.pc \in Undecided => r.pc \in Undecided
    /\ y.pc \in Early => r.pc \in Early

LEMMA TickStep ==
  ASSUME Inv, NEW p \in Ticks, NEW y, RunOK(y), StillAt(y, tick[p]),
         tick' = [tick EXCEPT ![p] = y],
         UNCHANGED <<world, file, cards, live, issues, decisions, context>>,
         ClaimsOK' /\ \A x : Claimed(x) => Claimed(x)'
  PROVE  Inv'
<1>1. Keeping
  BY StoresKeep
<1>2. ConfigsOK' /\ DecisionsOK' /\ ContextsOK'
  BY <1>1, ConfigsStay, DecisionsStay, ContextsStay DEF Inv
<1>3. RunOK(y)' /\ \A r : RunSlot(r)' = RunSlot(r)
  BY <1>1, Kept
<1>4. RunsOK' /\ tick'[p] = y /\ \A q \in Ticks \ {p} : tick'[q] = tick[q]
  BY <1>1, <1>3, RunsStep DEF Inv
<1>5. ASSUME NEW q \in Ticks, tick'[q].pc \in Holding
      PROVE  /\ tick[q].pc \in Holding /\ RunSlot(tick[q])' = RunSlot(tick[q])
             /\ tick'[q].pc \in Undecided => tick[q].pc \in Undecided
             /\ tick'[q].pc \in Early => tick[q].pc \in Early
  <2> PICK r : r = tick'[q]
    OBVIOUS
  <2>1. RunSlot(tick[q])' = RunSlot(r)'
    BY DEF RunSlot
  <2>2. RunSlot(tick[q])' = RunSlot(r)
    BY <1>3, <2>1
  <2> QED
    BY <1>4, <1>5, <2>2 DEF StillAt
<1>6. SlotsOK'
  BY <1>5, SlotsMove DEF Inv
<1> QED
  BY <1>2, <1>4, <1>6 DEF Inv

LEMMA ClaimsStay ==
  ASSUME ClaimsOK, claims' = claims
  PROVE  ClaimsOK' /\ \A x : Claimed(x) => Claimed(x)'
BY DEF ClaimsOK, Claimed, ClaimedSlots

\* A tick goes on to its next timer, or ends.
LEMMA NextTimerOK ==
  ASSUME Inv, NEW p \in Ticks, tick[p].pc # "idle", NextTimer(p)
  PROVE  \E y : RunOK(y) /\ StillAt(y, tick[p]) /\ tick' = [tick EXCEPT ![p] = y]
<1> PICK r : r = tick[p]
  OBVIOUS
<1>1. ConfigsOK /\ IsRun(r) /\ Good(r.config)
  BY Running
<1>2. PICK y : y = Advance(r, r.timer + 1) /\ RunOK(y) /\ y.pc \in {"idle", "count"}
  BY <1>1, AdvanceOK
<1>3. StillAt(y, r)
  BY <1>2 DEF StillAt, Holding, Undecided, Early
<1> QED
  BY <1>2, <1>3 DEF NextTimer

\* It stays with its timer.
LEMMA GotoOK ==
  ASSUME Inv, NEW p \in Ticks, tick[p].pc # "idle", NEW pc, Goto(p, pc), pc # "idle",
         pc \in Holding \ {"seed"} => Seeded(Timer(p).key)
  PROVE  \E y : /\ RunOK(y) /\ y.pc = pc /\ RunSlot(y) = RunSlot(tick[p])
                /\ y.config = tick[p].config /\ y.timer = tick[p].timer
                /\ tick' = [tick EXCEPT ![p] = y]
<1> PICK r : r = tick[p]
  OBVIOUS
<1>1. /\ RunOK(r) /\ IsRun(r) /\ Good(r.config) /\ r.timer \in DOMAIN Timers(r.config)
      /\ TimerOf(r) = Timer(p)
  BY Running
<1> PICK y : y = [r EXCEPT !.pc = pc]
  OBVIOUS
<1>2. /\ IsRun(y) /\ y.pc = pc /\ y.config = r.config /\ y.timer = r.timer
      /\ y.slot = r.slot /\ y.session = r.session
  BY <1>1 DEF IsRun, RunFields
<1>3. TimerOf(y) = TimerOf(r)
  BY <1>2 DEF TimerOf
<1>4. RunSlot(y) = RunSlot(r)
  BY <1>2, <1>3 DEF RunSlot
<1>5. RunOK(y)
  BY <1>1, <1>2, <1>3 DEF RunOK
<1>6. tick' = [tick EXCEPT ![p] = y]
  BY DEF Goto
<1> QED
  BY <1>2, <1>4, <1>5, <1>6

LEMMA IdleOK == RunOK(Idle) /\ \A r : StillAt(Idle, r)
BY DEF Idle, RunOK, StillAt, Holding, Undecided, Early

LEMMA QuitKeeps ==
  ASSUME Inv, NEW p \in Ticks, Quit(p), UNCHANGED <<world, config, stores>>
  PROVE  Inv'
<1>1. UNCHANGED <<world, file, cards, live, issues, decisions, context>>
  BY DEF config, stores
<1>2. ClaimsOK' /\ \A x : Claimed(x) => Claimed(x)'
  BY ClaimsStay DEF stores, Inv
<1>3. tick' = [tick EXCEPT ![p] = Idle]
  BY DEF Quit
<1> QED
  BY <1>1, <1>2, <1>3, IdleOK, TickStep

LEMMA BeginKeeps ==
  ASSUME Inv, NEW p \in Ticks, NEW only, NEW manual, Begin(p, only, manual)
  PROVE  Inv'
<1> PICK r : r = [pc |-> "count", config |-> OnDisk, timer |-> 0, only |-> only,
                  manual |-> manual, slot |-> 0, session |-> None, overtaken |-> FALSE]
  OBVIOUS
<1>1. IsRun(r) /\ r.config = OnDisk
  BY DEF IsRun, RunFields
<1>2. ConfigsOK /\ Good(r.config)
  BY <1>1, AcceptedIsGood DEF Inv, Begin
<1>3. PICK y : y = Advance(r, 1) /\ RunOK(y) /\ y.pc \in {"idle", "count"}
  BY <1>1, <1>2, AdvanceOK
<1>4. StillAt(y, tick[p])
  BY <1>3 DEF StillAt, Holding, Undecided, Early
<1>5. UNCHANGED <<world, file, cards, live, issues, decisions, context>>
  BY DEF Begin, config, stores
<1>6. ClaimsOK' /\ \A x : Claimed(x) => Claimed(x)'
  BY ClaimsStay DEF Begin, stores, Inv
<1>7. tick' = [tick EXCEPT ![p] = y]
  BY <1>3 DEF Begin
<1> QED
  BY <1>3, <1>4, <1>5, <1>6, <1>7, TickStep

LEMMA CountKeeps ==
  ASSUME Inv, NEW p \in Ticks, Count(p)
  PROVE  Inv'
<1>1. tick[p].pc # "idle" /\ UNCHANGED <<world, file, cards, live, issues, decisions, context>>
  BY DEF Count, At, config, stores
<1>2. ClaimsOK' /\ \A x : Claimed(x) => Claimed(x)'
  BY ClaimsStay DEF Count, stores, Inv
<1>3. \E y : RunOK(y) /\ StillAt(y, tick[p]) /\ tick' = [tick EXCEPT ![p] = y]
  <2>1. CASE NextTimer(p)
    BY <1>1, <2>1, NextTimerOK
  <2>2. CASE Goto(p, "slot")
    BY <1>1, <2>2, GotoOK DEF StillAt, Holding, Undecided, Early
  <2> QED
    BY <2>1, <2>2 DEF Count
<1> QED
  BY <1>1, <1>2, <1>3, TickStep

LEMMA FindSlotKeeps ==
  ASSUME Inv, NEW p \in Ticks, FindSlot(p)
  PROVE  Inv'
<1>1. tick[p].pc # "idle" /\ UNCHANGED <<world, file, cards, live, issues, decisions, context>>
  BY DEF FindSlot, At, config, stores
<1>2. ClaimsOK' /\ \A x : Claimed(x) => Claimed(x)'
  BY ClaimsStay DEF FindSlot, stores, Inv
<1>3. \E y : RunOK(y) /\ StillAt(y, tick[p]) /\ tick' = [tick EXCEPT ![p] = y]
  <2>1. CASE NextTimer(p)
    BY <1>1, <2>1, NextTimerOK
  <2>2. ASSUME NEW due, tick' = [tick EXCEPT ![p].pc = "claim", ![p].slot = due]
        PROVE  \E y : RunOK(y) /\ StillAt(y, tick[p]) /\ tick' = [tick EXCEPT ![p] = y]
    <3> PICK r : r = tick[p]
      OBVIOUS
    <3> PICK y : y = [r EXCEPT !.pc = "claim", !.slot = due]
      OBVIOUS
    <3>1. RunOK(r) /\ IsRun(r) /\ r.pc # "idle"
      BY <1>1, Running
    <3>2. /\ IsRun(y) /\ y.pc = "claim" /\ y.config = r.config /\ y.timer = r.timer
          /\ y.session = r.session
      BY <3>1 DEF IsRun, RunFields
    <3>3. RunOK(y)
      BY <3>1, <3>2 DEF RunOK, TimerOf, Holding, Undecided, Early
    <3>4. StillAt(y, r)
      BY <3>2 DEF StillAt, Holding, Undecided, Early
    <3>5. tick' = [tick EXCEPT ![p] = y]
      BY <2>2 DEF Inv, RunsOK
    <3> QED
      BY <3>3, <3>4, <3>5
  <2> QED
    BY <2>1, <2>2 DEF FindSlot
<1> QED
  BY <1>1, <1>2, <1>3, TickStep

\* What has a context is not resumed if it runs fresh.
LEMMA ReadContextKeeps ==
  ASSUME Inv, NEW p \in Ticks, ReadContext(p)
  PROVE  Inv'
<1>1. /\ tick[p].pc = "read" /\ "read" \in Early /\ "read" \in Holding \ {"seed"}
      /\ UNCHANGED <<world, file, cards, live, issues, decisions, context>>
  BY DEF ReadContext, At, config, stores, Holding, Undecided, Early
<1>2. ClaimsOK' /\ \A x : Claimed(x) => Claimed(x)'
  BY ClaimsStay DEF ReadContext, stores, Inv
<1> PICK r : r = tick[p]
  OBVIOUS
<1> PICK timer : timer = Timer(p)
  OBVIOUS
<1>3. /\ RunOK(r) /\ IsRun(r) /\ r.pc = "read" /\ TimerOf(r) = timer
      /\ timer.mode \in {"fresh", "reuse"}
  BY <1>1, Running
<1>4. Seeded(timer.key)
  BY <1>1, <1>3 DEF RunOK
<1>5. \E y : RunOK(y) /\ StillAt(y, tick[p]) /\ tick' = [tick EXCEPT ![p] = y]
  <2>1. CASE Goto(p, "reset")
    <3>1. PICK y : /\ RunOK(y) /\ y.pc = "reset" /\ RunSlot(y) = RunSlot(r)
                   /\ tick' = [tick EXCEPT ![p] = y]
      BY <1>1, <1>4, <2>1, GotoOK
    <3>2. StillAt(y, r)
      BY <1>3, <3>1 DEF StillAt, Holding, Undecided, Early
    <3> QED
      BY <3>1, <3>2
  <2>2. ASSUME timer.mode # "fresh",
               tick' = [tick EXCEPT ![p].pc = "issue", ![p].session = context[timer.key].session]
        PROVE  \E y : RunOK(y) /\ StillAt(y, tick[p]) /\ tick' = [tick EXCEPT ![p] = y]
    <3> PICK session : session = context[timer.key].session
      OBVIOUS
    <3> PICK y : y = [r EXCEPT !.pc = "issue", !.session = session]
      OBVIOUS
    <3>1. /\ IsRun(y) /\ y.pc = "issue" /\ y.config = r.config /\ y.timer = r.timer
          /\ y.slot = r.slot /\ y.session = session
      BY <1>3 DEF IsRun, RunFields
    <3>2. TimerOf(y) = timer
      BY <1>3, <3>1 DEF TimerOf
    <3>3. session # None => SessionFor(session, timer.key)
      BY <1>4 DEF Seeded
    <3>4. RunOK(y)
      BY <1>3, <1>4, <2>2, <3>1, <3>2, <3>3 DEF RunOK
    <3>5. RunSlot(y) = RunSlot(r)
      BY <1>3, <3>1, <3>2 DEF RunSlot
    <3>6. StillAt(y, r)
      BY <1>3, <3>1, <3>5 DEF StillAt, Holding, Undecided, Early
    <3>7. tick' = [tick EXCEPT ![p] = y]
      BY <2>2 DEF Inv, RunsOK
    <3> QED
      BY <3>4, <3>6, <3>7
  <2> QED
    BY <2>1, <2>2 DEF ReadContext
<1> QED
  BY <1>1, <1>2, <1>5, TickStep

LEMMA InsertEventKeeps ==
  ASSUME Inv, NEW p \in Ticks, InsertEvent(p)
  PROVE  Inv'
<1>1. /\ tick[p].pc = "event" /\ UNCHANGED <<world, file, cards, live, issues, decisions, context>>
  BY DEF InsertEvent, At, config
<1>2. ClaimsOK' /\ \A x : Claimed(x) => Claimed(x)'
  BY ClaimsStay DEF InsertEvent, Inv
<1>3. \E y : RunOK(y) /\ StillAt(y, tick[p]) /\ tick' = [tick EXCEPT ![p] = y]
  <2>1. CASE tick' = [tick EXCEPT ![p] = Idle]
    BY <2>1, IdleOK
  <2>2. CASE Goto(p, "decision")
    <3>1. Seeded(Timer(p).key)
      <4>1. RunOK(tick[p]) /\ TimerOf(tick[p]) = Timer(p)
        BY <1>1, Running
      <4> QED
        BY <1>1, <4>1 DEF RunOK, Holding, Undecided
    <3>2. PICK y : /\ RunOK(y) /\ y.pc = "decision" /\ RunSlot(y) = RunSlot(tick[p])
                   /\ tick' = [tick EXCEPT ![p] = y]
      BY <1>1, <2>2, <3>1, GotoOK
    <3>3. StillAt(y, tick[p])
      BY <1>1, <3>2 DEF StillAt, Holding, Undecided, Early
    <3> QED
      BY <3>2, <3>3
  <2> QED
    BY <2>1, <2>2 DEF InsertEvent
<1> QED
  BY <1>1, <1>2, <1>3, TickStep

LEMMA AnnotateKeeps ==
  ASSUME Inv, NEW p \in Ticks, Annotate(p)
  PROVE  Inv'
<1>1. /\ tick[p].pc # "idle" /\ NextTimer(p)
      /\ UNCHANGED <<world, file, cards, live, issues, decisions, context>>
  BY DEF Annotate, At, config
<1>2. \E y : RunOK(y) /\ StillAt(y, tick[p]) /\ tick' = [tick EXCEPT ![p] = y]
  BY <1>1, NextTimerOK
<1> PICK id, slot, last : id = Timer(p).id /\ slot = tick[p].slot /\ last = Len(decisions)
  OBVIOUS
<1> DEFINE Noted(c) == IF c.timer = id /\ c.slot = slot THEN [c EXCEPT !.decision = last] ELSE c
<1>3. claims' = {Noted(c) : c \in claims}
  BY DEF Annotate
<1>4. \A c \in claims : /\ Noted(c) = [f \in ClaimFields |-> Noted(c)[f]]
                        /\ Noted(c).timer = c.timer /\ Noted(c).slot = c.slot
  <2> SUFFICES ASSUME NEW c \in claims
               PROVE  /\ Noted(c) = [f \in ClaimFields |-> Noted(c)[f]]
                      /\ Noted(c).timer = c.timer /\ Noted(c).slot = c.slot
    OBVIOUS
  <2>1. c = [f \in ClaimFields |-> c[f]]
    BY DEF Inv, ClaimsOK
  <2>2. CASE c.timer = id /\ c.slot = slot
    <3> PICK y : y = [c EXCEPT !.decision = last]
      OBVIOUS
    <3>1. y = [f \in ClaimFields |-> y[f]] /\ y.timer = c.timer /\ y.slot = c.slot
      BY <2>1 DEF ClaimFields
    <3> QED
      BY <2>2, <3>1
  <2>3. CASE ~(c.timer = id /\ c.slot = slot)
    BY <2>1, <2>3
  <2> QED
    BY <2>2, <2>3
<1> HIDE DEF Noted
<1>5. ClaimsOK'
  BY <1>3, <1>4 DEF ClaimsOK
<1>6. ASSUME NEW x, Claimed(x) PROVE Claimed(x)'
  <2>1. PICK c \in claims : c.timer = x.timer /\ c.slot = x.slot
    BY <1>6 DEF Claimed, ClaimedSlots
  <2>2. Noted(c) \in claims' /\ Noted(c).timer = x.timer /\ Noted(c).slot = x.slot
    BY <1>3, <1>4, <2>1
  <2> QED
    BY <2>2 DEF Claimed, ClaimedSlots
<1> QED
  BY <1>1, <1>2, <1>5, <1>6, TickStep

-----------------------------------------------------------------------------
(* The claim.                                                              *)

\* The others have their slots still, and p has one that nobody had claimed.
LEMMA SlotsClaim ==
  ASSUME SlotsOK, NEW p \in Ticks, NEW x, ~Claimed(x), Claimed(x)',
         \A z : Claimed(z) => Claimed(z)', issues' = issues, decisions' = decisions,
         RunSlot(tick[p])' = x,
         \A q \in Ticks \ {p} : tick'[q] = tick[q] /\ RunSlot(tick[q])' = RunSlot(tick[q])
  PROVE  SlotsOK'
<1>1. Early \subseteq Undecided /\ Undecided \subseteq Holding
  BY DEF Undecided, Holding
<1>2. ASSUME NEW q \in Ticks, tick'[q].pc \in Holding
      PROVE  /\ Claimed(RunSlot(tick[q]))'
             /\ \A o \in Ticks \ {q} : tick'[o].pc \in Holding =>
                  RunSlot(tick[o])' # RunSlot(tick[q])'
  <2> PICK z : z = RunSlot(tick[q])'
    OBVIOUS
  <2>1. \A o \in Ticks \ {p} : tick'[o].pc \in Holding => Claimed(RunSlot(tick[o]))
    BY DEF SlotsOK
  <2>2. Claimed(z)'
    BY <1>2, <2>1
  <2>3. Claimed(RunSlot(tick[q]))'
    BY <2>2 DEF Claimed
  <2>4. \A o \in Ticks \ {q} : tick'[o].pc \in Holding => RunSlot(tick[o])' # RunSlot(tick[q])'
    <3>1. CASE q = p
      BY <2>1, <3>1
    <3>2. CASE q # p
      <4> TAKE o \in Ticks \ {q}
      <4>1. CASE o = p
        BY <1>2, <2>1, <3>2, <4>1
      <4>2. CASE o # p
        BY <1>2, <3>2, <4>2 DEF SlotsOK
      <4> QED
        BY <4>1, <4>2
    <3> QED
      BY <3>1, <3>2
  <2> QED
    BY <2>3, <2>4
<1>3. ASSUME NEW n \in DOMAIN issues, issues[n].heard
      PROVE  /\ Claimed(SlotOf(issues[n]))'
             /\ \A q \in Ticks : tick'[q].pc \in Early => RunSlot(tick[q])' # SlotOf(issues[n])
  <2> PICK z : z = SlotOf(issues[n])
    OBVIOUS
  <2>1. Claimed(z) /\ Claimed(z)' /\ z = SlotOf(issues'[n])
    BY <1>3 DEF SlotsOK
  <2>2. Claimed(SlotOf(issues[n]))'
    BY <2>1 DEF Claimed, SlotOf
  <2> QED
    BY <1>3, <2>1, <2>2 DEF SlotsOK
<1>4. ASSUME NEW n \in DOMAIN decisions, decisions[n].timer # None
      PROVE  /\ Claimed(SlotOf(decisions[n]))'
             /\ \A q \in Ticks : tick'[q].pc \in Undecided => RunSlot(tick[q])' # SlotOf(decisions[n])
  <2> PICK z : z = SlotOf(decisions[n])
    OBVIOUS
  <2>1. Claimed(z) /\ Claimed(z)'
    BY <1>4 DEF SlotsOK
  <2>2. Claimed(SlotOf(decisions[n]))'
    BY <2>1 DEF Claimed, SlotOf
  <2> QED
    BY <1>4, <2>1, <2>2 DEF SlotsOK
<1>5. /\ IsList(issues') /\ \A n \in DOMAIN issues : issues[n].timer # None
      /\ \A n \in DOMAIN decisions : decisions[n].timer # None =>
           \A m \in DOMAIN decisions : SlotOf(decisions[m]) = SlotOf(decisions[n]) => m = n
      /\ \A m, n \in DOMAIN issues :
           m < n /\ SlotOf(issues[m]) = SlotOf(issues[n]) => ~issues[m].heard
  BY DEF SlotsOK
<1>6. /\ \A n \in DOMAIN issues : SlotOf(issues[n])' = SlotOf(issues[n])
      /\ \A n \in DOMAIN decisions : SlotOf(decisions[n])' = SlotOf(decisions[n])
  BY DEF SlotOf
<1> QED
  BY <1>2, <1>3, <1>4, <1>5, <1>6 DEF SlotsOK

LEMMA ClaimKeeps ==
  ASSUME Inv, NEW p \in Ticks, Claim(p)
  PROVE  Inv'
<1>1. /\ tick[p].pc # "idle" /\ UNCHANGED <<world, file, cards, live, issues, decisions, context>>
  BY DEF Claim, At, config
<1>2. CASE NextTimer(p) /\ claims' = claims
  <2>1. \E y : RunOK(y) /\ StillAt(y, tick[p]) /\ tick' = [tick EXCEPT ![p] = y]
    BY <1>1, <1>2, NextTimerOK
  <2>2. ClaimsOK' /\ \A x : Claimed(x) => Claimed(x)'
    BY <1>2, ClaimsStay DEF Inv
  <2> QED
    BY <1>1, <2>1, <2>2, TickStep
<1>3. CASE /\ tick[p].slot \notin ClaimedSlots(Timer(p).id) /\ Goto(p, "seed")
           /\ claims' = claims \cup {[timer |-> Timer(p).id, slot |-> tick[p].slot, decision |-> 0]}
  <2> PICK x : x = RunSlot(tick[p])
    OBVIOUS
  <2> PICK c : c = [timer |-> Timer(p).id, slot |-> tick[p].slot, decision |-> 0]
    OBVIOUS
  <2>1. x.timer = Timer(p).id /\ x.slot = tick[p].slot
    BY DEF RunSlot, TimerOf, Timer
  <2>2. ~Claimed(x)
    BY <1>3, <2>1 DEF Claimed
  <2>3. c \in claims' /\ c.timer = x.timer /\ c.slot = x.slot /\ claims' = claims \cup {c}
    BY <1>3, <2>1
  <2>4. Claimed(x)' /\ \A z : Claimed(z) => Claimed(z)'
    BY <2>3 DEF Claimed, ClaimedSlots
  <2>5. ClaimsOK'
    <3>1. c = [f \in ClaimFields |-> c[f]]
      BY DEF ClaimFields
    <3> QED
      BY <2>3, <3>1 DEF Inv, ClaimsOK
  <2>6. PICK y : /\ RunOK(y) /\ y.pc = "seed" /\ RunSlot(y) = x
                 /\ tick' = [tick EXCEPT ![p] = y]
    BY <1>1, <1>3, GotoOK
  <2>7. Keeping
    BY <1>1, StoresKeep
  <2>8. ConfigsOK' /\ DecisionsOK' /\ ContextsOK'
    BY <1>1, <2>7, ConfigsStay, DecisionsStay, ContextsStay DEF Inv
  <2>9. RunOK(y)' /\ \A r : RunSlot(r)' = RunSlot(r)
    BY <2>6, <2>7, Kept
  <2>10. RunsOK' /\ tick'[p] = y /\ \A q \in Ticks \ {p} : tick'[q] = tick[q]
    BY <2>6, <2>7, <2>9, RunsStep DEF Inv
  <2>11. RunSlot(tick[p])' = x
    BY <2>6, <2>9, <2>10 DEF RunSlot
  <2>12. \A q \in Ticks \ {p} : RunSlot(tick[q])' = RunSlot(tick[q])
    <3> TAKE q \in Ticks \ {p}
    <3> PICK r : r = tick[q]
      OBVIOUS
    <3>1. RunSlot(r)' = RunSlot(r) /\ tick'[q] = r
      BY <2>9, <2>10
    <3> QED
      BY <3>1 DEF RunSlot
  <2>13. SlotsOK'
    BY <1>1, <2>2, <2>4, <2>10, <2>11, <2>12, SlotsClaim DEF Inv
  <2> QED
    BY <2>5, <2>8, <2>10, <2>13 DEF Inv
<1> QED
  BY <1>2, <1>3 DEF Claim

-----------------------------------------------------------------------------
(* The contexts.                                                           *)

LEMMA RowStep ==
  ASSUME ContextsOK, NEW key \in Keys, NEW row, IsRow(row), world' = world,
         row.session # None => SessionFor(row.session, key)',
         \A s, k : SessionFor(s, k) => SessionFor(s, k)',
         context' = [context EXCEPT ![key] = row]
  PROVE  Keeping /\ ContextsOK' /\ Seeded(key)'
<1>1. Keys' = Keys
  BY DEF Keys
<1>2. context' = [k \in Keys |-> IF k = key THEN row ELSE context[k]]
  BY DEF ContextsOK
<1>3. Seeded(key)'
  BY <1>1, <1>2 DEF Seeded, IsRow
<1>4. \A k : Seeded(k) => Seeded(k)'
  <2> TAKE k
  <2>1. CASE k = key
    BY <1>3, <2>1
  <2>2. CASE k # key
    BY <1>1, <1>2, <2>2 DEF Seeded, IsRow
  <2> QED
    BY <2>1, <2>2
<1>5. \A k \in Keys : context'[k] = None \/ Seeded(k)'
  BY <1>2, <1>3, <1>4 DEF ContextsOK
<1>6. context' = [k \in Keys |-> context'[k]]
  BY <1>2
<1> QED
  BY <1>1, <1>3, <1>4, <1>5, <1>6 DEF Keeping, ContextsOK

\* A tick that has its slot makes or resets the context of its timer.
LEMMA ContextStep ==
  ASSUME Inv, NEW p \in Ticks, tick[p].pc \in Early, NEW pc \in Early \ {"seed"}, Goto(p, pc),
         NEW row, IsRow(row),
         row.session # None => SessionFor(row.session, Timer(p).key),
         context' = [context EXCEPT ![Timer(p).key] = row],
         UNCHANGED <<world, file, cards, live, claims, issues, decisions>>
  PROVE  Inv'
<1> PICK r, timer : r = tick[p] /\ timer = Timer(p)
  OBVIOUS
<1>1. /\ "idle" \notin Early /\ Early \subseteq Holding /\ Early \subseteq Undecided
  BY DEF Holding, Undecided, Early
<1>2. /\ RunOK(r) /\ IsRun(r) /\ Good(r.config) /\ r.timer \in DOMAIN Timers(r.config)
      /\ TimerOf(r) = timer /\ timer.key \in Keys
  BY <1>1, Running
<1>3. \A s, k : SessionFor(s, k) => SessionFor(s, k)'
  BY DEF SessionFor
<1>4. Keeping /\ ContextsOK' /\ Seeded(timer.key)'
  <2>1. row.session # None => SessionFor(row.session, timer.key)'
    BY <1>3
  <2>2. context' = [context EXCEPT ![timer.key] = row]
    OBVIOUS
  <2> QED
    BY <1>2, <1>3, <2>1, <2>2, RowStep DEF Inv
<1> PICK y : y = [r EXCEPT !.pc = pc]
  OBVIOUS
<1>5. /\ IsRun(y) /\ y.pc = pc /\ y.config = r.config /\ y.timer = r.timer
      /\ y.slot = r.slot /\ y.session = r.session
  BY <1>2 DEF IsRun, RunFields
<1>6. TimerOf(y) = timer /\ RunSlot(y) = RunSlot(r)
  BY <1>2, <1>5 DEF TimerOf, RunSlot
<1>7. /\ \A c : (Good(c) => Good(c)') /\ Timers(c)' = Timers(c)
      /\ \A z : TimerOf(z)' = TimerOf(z) /\ RunSlot(z)' = RunSlot(z)
  BY <1>4, Kept
<1>8. RunOK(y)'
  <2>1. y.session # None => SessionFor(y.session, timer.key) /\ timer.mode = "reuse"
    BY <1>1, <1>2, <1>5 DEF RunOK
  <2>2. TimerOf(y)' = timer
    BY <1>6, <1>7
  <2>3. IsRun(y)'
    BY <1>5 DEF IsRun
  <2>4. Good(y.config)' /\ y.timer \in DOMAIN Timers(y.config)'
    BY <1>2, <1>5, <1>7
  <2> QED
    BY <1>3, <1>4, <2>1, <2>2, <2>3, <2>4 DEF RunOK
<1>9. tick' = [tick EXCEPT ![p] = y]
  BY DEF Goto
<1>10. RunsOK' /\ tick'[p] = y /\ \A q \in Ticks \ {p} : tick'[q] = tick[q]
  BY <1>4, <1>8, <1>9, RunsStep DEF Inv
<1>11. ClaimsOK' /\ \A x : Claimed(x) => Claimed(x)'
  BY ClaimsStay DEF Inv
<1>12. ConfigsOK' /\ DecisionsOK'
  BY <1>4, ConfigsStay, DecisionsStay DEF Inv
<1>13. ASSUME NEW q \in Ticks, tick'[q].pc \in Holding
       PROVE  /\ tick[q].pc \in Holding /\ RunSlot(tick[q])' = RunSlot(tick[q])
              /\ tick'[q].pc \in Undecided => tick[q].pc \in Undecided
              /\ tick'[q].pc \in Early => tick[q].pc \in Early
  <2> PICK z : z = tick'[q]
    OBVIOUS
  <2>1. RunSlot(tick[q])' = RunSlot(z)
    <3>1. RunSlot(tick[q])' = RunSlot(z)'
      BY DEF RunSlot
    <3> QED
      BY <1>7, <3>1
  <2>2. CASE q = p
    <3>1. z = y /\ tick[q] = r
      BY <1>10, <2>2
    <3> QED
      BY <1>1, <1>6, <2>1, <3>1
  <2>3. CASE q # p
    BY <1>10, <1>13, <2>1, <2>3
  <2> QED
    BY <2>2, <2>3
<1>14. SlotsOK'
  BY <1>11, <1>13, SlotsMove DEF Inv
<1> QED
  BY <1>4, <1>10, <1>11, <1>12, <1>14 DEF Inv

LEMMA SeedKeeps ==
  ASSUME Inv, NEW p \in Ticks, Seed(p)
  PROVE  Inv'
<1> PICK key, old : key = Timer(p).key /\ old = context[key]
  OBVIOUS
<1>1. /\ tick[p].pc = "seed" /\ Goto(p, "read")
      /\ UNCHANGED <<world, file, cards, live, claims, issues, decisions>>
      /\ "seed" \in Early /\ "read" \in Early \ {"seed"}
  BY DEF Seed, At, config, Early
<1>2. key \in Keys
  BY <1>1, Running
<1> PICK row : row = IF old = None THEN [session |-> None, runs |-> 0, low |-> FALSE,
                                         status |-> None, at |-> now]
                     ELSE [old EXCEPT !.at = now]
  OBVIOUS
<1>3. context' = [context EXCEPT ![key] = row]
  BY DEF Seed
<1>4. IsRow(row) /\ (row.session # None => SessionFor(row.session, key))
  <2>1. CASE old = None
    <3>1. row = [session |-> None, runs |-> 0, low |-> FALSE, status |-> None, at |-> now]
      BY <2>1
    <3> QED
      BY <3>1 DEF IsRow, RowFields
  <2>2. CASE old # None
    <3>1. IsRow(old) /\ (old.session # None => SessionFor(old.session, key))
      BY <1>2, <2>2 DEF Inv, ContextsOK, Seeded
    <3>2. row = [old EXCEPT !.at = now]
      BY <2>2
    <3>3. IsRow(row) /\ row.session = old.session
      BY <3>1, <3>2 DEF IsRow, RowFields
    <3> QED
      BY <3>1, <3>3
  <2> QED
    BY <2>1, <2>2
<1> QED
  BY <1>1, <1>3, <1>4, ContextStep

LEMMA ResetContextKeeps ==
  ASSUME Inv, NEW p \in Ticks, ResetContext(p)
  PROVE  Inv'
<1>1. /\ tick[p].pc = "reset" /\ Goto(p, "issue")
      /\ UNCHANGED <<world, file, cards, live, claims, issues, decisions>>
      /\ "reset" \in Early /\ "issue" \in Early \ {"seed"}
  BY DEF ResetContext, At, config, Early
<1> PICK row : row = [session |-> None, runs |-> 0, low |-> FALSE, status |-> None, at |-> now]
  OBVIOUS
<1>2. context' = [context EXCEPT ![Timer(p).key] = row]
  BY DEF ResetContext
<1>3. IsRow(row) /\ row.session = None
  BY DEF IsRow, RowFields
<1> QED
  BY <1>1, <1>2, <1>3, ContextStep

-----------------------------------------------------------------------------
(* Decisions that change, and new ones.                                    *)

\* y is decision d in another state.
SameDecision(y, d) ==
  IsDecision(y) /\ \A f \in DecisionFields \ {"state", "refusal"} : y[f] = d[f]

LEMMA SameIsOK ==
  ASSUME NEW d, DecisionOK(d), NEW y, SameDecision(y, d), RefusalOK(y)
  PROVE  DecisionOK(y)
<1>1. /\ y.timer = d.timer /\ y.key = d.key /\ y.mode = d.mode /\ y.session = d.session
      /\ y.principal = d.principal /\ y.role = d.role /\ y.directive = d.directive
      /\ y.reason = d.reason /\ y.under = d.under /\ y.literal = d.literal
  BY DEF SameDecision, DecisionFields
<1>2. ByTimer(d) => ByTimer(y)
  BY <1>1 DEF ByTimer
<1>3. ByComment(d) => ByComment(y)
  BY <1>1 DEF ByComment
<1> QED
  BY <1>1, <1>2, <1>3 DEF DecisionOK, SameDecision

LEMMA DecisionStep ==
  ASSUME DecisionsOK, NEW n \in DOMAIN decisions, NEW y, SameDecision(y, decisions[n]),
         decisions' = [decisions EXCEPT ![n] = y]
  PROVE  /\ \A s, k : SessionFor(s, k) => SessionFor(s, k)'
         /\ IsList(decisions') /\ DOMAIN decisions' = DOMAIN decisions
         /\ \A m \in DOMAIN decisions :
              /\ SlotOf(decisions'[m]) = SlotOf(decisions[m])
              /\ decisions'[m].timer = decisions[m].timer
         /\ decisions'[n] = y /\ \A m \in DOMAIN decisions \ {n} : decisions'[m] = decisions[m]
<1>1. IsList(decisions) /\ DOMAIN decisions = 1..Len(decisions) /\ Len(decisions) \in Nat
  BY DEF DecisionsOK, IsList
<1>2. decisions' = [m \in 1..Len(decisions) |-> IF m = n THEN y ELSE decisions[m]]
  BY <1>1
<1>3. Len(decisions') = Len(decisions) /\ DOMAIN decisions' = DOMAIN decisions
  BY <1>1, <1>2
<1>4. IsList(decisions')
  BY <1>1, <1>2, <1>3 DEF IsList
<1>5. y.timer = decisions[n].timer /\ y.slot = decisions[n].slot /\ y.key = decisions[n].key
  BY DEF SameDecision, DecisionFields
<1>6. \A m \in DOMAIN decisions :
        /\ decisions'[m].timer = decisions[m].timer /\ decisions'[m].slot = decisions[m].slot
        /\ decisions'[m].key = decisions[m].key
  BY <1>1, <1>2, <1>5
<1>7. \A s, k : SessionFor(s, k) => SessionFor(s, k)'
  BY <1>3, <1>6 DEF SessionFor
<1>8. \A m \in DOMAIN decisions : SlotOf(decisions'[m]) = SlotOf(decisions[m])
  BY <1>6 DEF SlotOf
<1> QED
  BY <1>1, <1>2, <1>3, <1>4, <1>6, <1>7, <1>8

\* The rest is as it was; the contexts may have changed.
LEMMA DecisionKeeps ==
  ASSUME Inv, NEW n \in DOMAIN decisions, NEW y, SameDecision(y, decisions[n]), RefusalOK(y),
         decisions' = [decisions EXCEPT ![n] = y],
         UNCHANGED <<world, file, cards, live, claims, issues, tick>>, Keeping, ContextsOK'
  PROVE  Inv'
<1>1. ConfigsOK' /\ RunsOK'
  BY ConfigsStay, RunsStay DEF Inv
<1>2. ClaimsOK' /\ \A x : Claimed(x) => Claimed(x)'
  BY ClaimsStay DEF Inv
<1>3. /\ IsList(decisions') /\ DOMAIN decisions' = DOMAIN decisions
      /\ \A m \in DOMAIN decisions :
           /\ SlotOf(decisions'[m]) = SlotOf(decisions[m])
           /\ decisions'[m].timer = decisions[m].timer
      /\ decisions'[n] = y /\ \A m \in DOMAIN decisions \ {n} : decisions'[m] = decisions[m]
  BY DecisionStep DEF Inv
<1>4. \A q \in Ticks : RunSlot(tick[q])' = RunSlot(tick[q])
  <2> TAKE q \in Ticks
  <2> PICK r : r = tick[q]
    OBVIOUS
  <2>1. RunSlot(r)' = RunSlot(r)
    BY Kept
  <2> QED
    BY <2>1 DEF RunSlot
<1>5. SlotsOK'
  BY <1>2, <1>3, <1>4, SlotsMove DEF Inv
<1>6. ASSUME NEW m \in DOMAIN decisions PROVE DecisionOK(decisions[m])'
  <2> PICK d : d = decisions'[m]
    OBVIOUS
  <2>1. DecisionOK(decisions[n]) /\ DecisionOK(decisions[m])
    BY DEF Inv, DecisionsOK
  <2>2. DecisionOK(d)
    <3>1. CASE m = n
      <4>1. d = y
        BY <1>3, <3>1
      <4> QED
        BY <2>1, <4>1, SameIsOK
    <3>2. CASE m # n
      BY <1>3, <2>1, <3>2
    <3> QED
      BY <3>1, <3>2
  <2>3. DecisionOK(d)'
    BY <2>2, Kept
  <2> QED
    BY <2>3 DEF DecisionOK, IsDecision
<1>7. DecisionsOK'
  BY <1>3, <1>6 DEF DecisionsOK
<1> QED
  BY <1>1, <1>2, <1>5, <1>7 DEF Inv

LEMMA ContextsKeep ==
  ASSUME Inv, world' = world, context' = context,
         \A s, k : SessionFor(s, k) => SessionFor(s, k)'
  PROVE  Keeping /\ ContextsOK'
<1>1. Keeping
  BY DEF Keeping, Seeded, Keys, IsRow
<1> QED
  BY <1>1, ContextsStay DEF Inv

\* A decision gets another state and nothing else happens.
LEMMA StateKeeps ==
  ASSUME Inv, NEW n \in DOMAIN decisions, NEW state,
         decisions' = [decisions EXCEPT ![n].state = state],
         UNCHANGED <<world, config, claims, issues, context, tick>>
  PROVE  Inv'
<1> PICK d, y : d = decisions[n] /\ y = [d EXCEPT !.state = state]
  OBVIOUS
<1>1. DecisionOK(d)
  BY DEF Inv, DecisionsOK
<1>2. IsDecision(y) /\ y.refusal = d.refusal /\ SameDecision(y, d)
  BY <1>1 DEF DecisionOK, IsDecision, DecisionFields, SameDecision
<1>3. RefusalOK(y)
  <2>1. y.under = d.under /\ y.timer = d.timer /\ y.literal = d.literal
    BY <1>2 DEF SameDecision, DecisionFields
  <2> QED
    BY <1>1, <1>2, <2>1 DEF DecisionOK, RefusalOK
<1>4. decisions' = [decisions EXCEPT ![n] = y]
  OBVIOUS
<1>5. Keeping /\ ContextsOK'
  BY <1>2, <1>4, DecisionStep, ContextsKeep DEF Inv
<1> QED
  BY <1>2, <1>3, <1>4, <1>5, DecisionKeeps DEF config

\* What is refused under the configuration it was decided under.
LEMMA Refusal ==
  ASSUME ConfigsOK, NEW d, DecisionOK(d), PlanOutcome(Config(d.under), d) # "ok"
  PROVE  IF d.timer # None THEN PlanOutcome(Config(d.under), d) \in {"actor", "binding"}
         ELSE d.literal => PlanOutcome(Config(d.under), d) \notin {"directive", "role"}
<1>1. CASE d.timer # None
  <2>1. Good(d.under) /\ ByTimer(d)
    BY <1>1 DEF DecisionOK
  <2>2. PICK n \in DOMAIN Timers(d.under) :
          /\ Timers(d.under)[n].role = d.role /\ Timers(d.under)[n].directive = d.directive
          /\ Timers(d.under)[n].principal = d.principal
    BY <2>1 DEF ByTimer
  <2>3. d.reason = "timer"
    BY <2>1 DEF ByTimer
  <2> QED
    BY <1>1, <2>1, <2>2, <2>3, PlanOfTimer
<1>2. CASE d.timer = None
  BY <1>2, PlanOfLiteral DEF DecisionOK, ByComment
<1> QED
  BY <1>1, <1>2

LEMMA PlanKeeps ==
  ASSUME Inv, NEW n \in DOMAIN decisions, Plan(n)
  PROVE  Inv'
<1> PICK d, outcome, under : /\ d = decisions[n] /\ under = live
                             /\ outcome = PlanOutcome(Config(live), d)
  OBVIOUS
<1>1. DecisionOK(d) /\ ConfigsOK /\ UNCHANGED <<world, config, claims, issues, context, tick>>
  BY DEF Inv, DecisionsOK, Plan
<1>2. CASE outcome = "ok"
  <2>1. decisions' = [decisions EXCEPT ![n].state = "active"]
    BY <1>2 DEF Plan
  <2> QED
    BY <1>1, <2>1, StateKeeps
<1>3. CASE outcome # "ok"
  <2> PICK refusal : refusal = [outcome |-> outcome, under |-> under]
    OBVIOUS
  <2> PICK y : y = [d EXCEPT !.state = "purged", !.refusal = refusal]
    OBVIOUS
  <2>1. IsDecision(y) /\ y.refusal = refusal /\ SameDecision(y, d)
    BY <1>1 DEF DecisionOK, IsDecision, DecisionFields, SameDecision
  <2>2. y.under = d.under /\ y.timer = d.timer /\ y.literal = d.literal
    BY <2>1 DEF SameDecision, DecisionFields
  <2>3. RefusalOK(y)
    <3>1. under = d.under =>
            IF d.timer # None THEN outcome \in {"actor", "binding"}
            ELSE d.literal => outcome \notin {"directive", "role"}
      BY <1>1, <1>3, Refusal
    <3> QED
      BY <2>1, <2>2, <3>1 DEF RefusalOK
  <2>4. decisions' = [decisions EXCEPT ![n] = y]
    BY <1>3 DEF Plan
  <2>5. Keeping /\ ContextsOK'
    BY <1>1, <2>1, <2>4, DecisionStep, ContextsKeep DEF Inv
  <2> QED
    BY <1>1, <2>1, <2>3, <2>4, <2>5, DecisionKeeps DEF config
<1> QED
  BY <1>2, <1>3

LEMMA EndRunKeeps ==
  ASSUME Inv, NEW n \in DOMAIN decisions, EndRun(n)
  PROVE  Inv'
BY StateKeeps DEF EndRun

LEMMA LoseCompletionKeeps ==
  ASSUME Inv, NEW n \in DOMAIN decisions, LoseCompletion(n)
  PROVE  Inv'
BY StateKeeps DEF LoseCompletion

LEMMA RecordCompletionKeeps ==
  ASSUME Inv, NEW n \in DOMAIN decisions, RecordCompletion(n)
  PROVE  Inv'
<1> PICK d, y : d = decisions[n] /\ y = [d EXCEPT !.state = "recorded"]
  OBVIOUS
<1> PICK key, old : key = d.key /\ old = context[key]
  OBVIOUS
<1>1. /\ DecisionOK(d) /\ d.timer # None /\ decisions' = [decisions EXCEPT ![n] = y]
      /\ UNCHANGED <<world, config, claims, issues, tick>>
  BY DEF Inv, DecisionsOK, RecordCompletion
<1>2. IsDecision(y) /\ y.refusal = d.refusal /\ SameDecision(y, d)
  BY <1>1 DEF DecisionOK, IsDecision, DecisionFields, SameDecision
<1>3. RefusalOK(y)
  <2>1. y.under = d.under /\ y.timer = d.timer /\ y.literal = d.literal
    BY <1>2 DEF SameDecision, DecisionFields
  <2> QED
    BY <1>1, <1>2, <2>1 DEF DecisionOK, RefusalOK
<1>4. /\ Seeded(key) /\ key \in Keys
      /\ d.session # None => SessionFor(d.session, key)
      /\ SessionFor(n, key)
  BY <1>1 DEF DecisionOK, ByTimer, Seeded, SessionFor
<1>5. PICK session \in {SessionOf(n)} \cup (IF decisions[n].state = "failed" THEN {None} ELSE {}),
           low \in W.low :
             context' = [context EXCEPT
               ![decisions[n].key] =
                  [session |-> IF session = None THEN @.session ELSE session,
                   runs |-> @.runs + 1, low |-> low, status |-> decisions[n].state, at |-> now]]
  BY DEF RecordCompletion
<1> PICK row : row = [session |-> IF session = None THEN old.session ELSE session,
                      runs |-> old.runs + 1, low |-> low, status |-> d.state, at |-> now]
  OBVIOUS
<1>6. IsRow(row) /\ context' = [context EXCEPT ![key] = row]
  BY <1>5 DEF IsRow, RowFields
<1>7. row.session # None => SessionFor(row.session, key)
  <2>1. SessionOf(n) # None => SessionFor(SessionOf(n), key)
    BY <1>4 DEF SessionOf
  <2>2. old.session # None => SessionFor(old.session, key)
    BY <1>4 DEF Seeded
  <2>3. row.session = IF session = None THEN old.session ELSE session
    OBVIOUS
  <2> QED
    BY <1>5, <2>1, <2>2, <2>3
<1>8. \A s, k : SessionFor(s, k) => SessionFor(s, k)'
  BY <1>1, <1>2, DecisionStep DEF Inv
<1>9. Keeping /\ ContextsOK'
  BY <1>1, <1>4, <1>6, <1>7, <1>8, RowStep DEF Inv
<1> QED
  BY <1>1, <1>2, <1>3, <1>9, DecisionKeeps DEF config

\* A comment's decision: no timer, no slot.
LEMMA CommentKeeps ==
  ASSUME Inv, Comment
  PROVE  Inv'
<1>1. /\ UNCHANGED <<world, file, cards, live, claims, issues, context, tick>> /\ live # None
      /\ \E ctx \in W.contexts : Decide(ctx)
  BY DEF Comment, config
<1> PICK c : c = live
  OBVIOUS
<1>2. PICK ctx \in W.contexts : Decide(ctx)
  BY <1>1
<1> PICK parsed : parsed = ParseDirective(ctx.text)
  OBVIOUS
<1> PICK won : won = Winner(Config(c).triggers, ctx, parsed)
  OBVIOUS
<1> PICK outcome : outcome = decide(Config(c).triggers, won, ctx, parsed)
  OBVIOUS
<1> PICK d : d = [timer |-> None, slot |-> 0, key |-> None, mode |-> None, session |-> None,
                  actor |-> ctx.actor, principal |-> outcome.principal, role |-> outcome.role,
                  directive |-> outcome.directive, repo |-> ctx.repo,
                  reason |-> Config(c).triggers[won].class, under |-> c,
                  literal |-> Config(c).triggers[won].role \in Config(c).roles
                              /\ Config(c).triggers[won].directive # "parsed",
                  state |-> "pending", refusal |-> None]
  OBVIOUS
<1>3. outcome # None /\ decisions' = Append(decisions, d)
  BY <1>2 DEF Decide
<1>4. ConfigsOK /\ Good(c) /\ DecisionsOK
  BY <1>1 DEF Inv, ConfigsOK
<1>5. DecisionOK(d)
  <2>1. IsDecision(d)
    BY DEF IsDecision, DecisionFields
  <2>2. /\ d.timer = None /\ d.refusal = None /\ d.under = c /\ d.session = None
        /\ d.role = outcome.role /\ d.directive = outcome.directive
        /\ d.literal => /\ Config(c).triggers[won].role \in Config(c).roles
                        /\ Config(c).triggers[won].directive # "parsed"
    OBVIOUS
  <2>3. d.literal => /\ d.role \in Config(c).roles
                     /\ d.directive \in DOMAIN Config(c).directives
    BY <1>3, <1>4, <2>2, LiteralKnown
  <2> QED
    BY <1>4, <2>1, <2>2, <2>3 DEF DecisionOK, RefusalOK, ByComment
<1>6. /\ IsList(decisions') /\ Len(decisions') = Len(decisions) + 1
      /\ \A n \in DOMAIN decisions : n \in DOMAIN decisions' /\ decisions'[n] = decisions[n]
      /\ \A n \in DOMAIN decisions' : n \in DOMAIN decisions \/ decisions'[n] = d
  BY <1>3, <1>4, AppendList DEF DecisionsOK
<1>7. \A s, k : SessionFor(s, k) => SessionFor(s, k)'
  BY <1>6 DEF SessionFor
<1>8. Keeping /\ ContextsOK'
  BY <1>1, <1>7, ContextsKeep
<1>9. ConfigsOK' /\ RunsOK'
  BY <1>1, <1>8, ConfigsStay, RunsStay DEF Inv
<1>10. ClaimsOK' /\ \A x : Claimed(x) => Claimed(x)'
  BY <1>1, ClaimsStay DEF Inv
<1>11. DecisionsOK'
  <2>1. ASSUME NEW n \in DOMAIN decisions' PROVE DecisionOK(decisions[n])'
    <3> PICK e : e = decisions'[n]
      OBVIOUS
    <3>1. DecisionOK(e)
      BY <1>4, <1>5, <1>6 DEF DecisionsOK
    <3>2. DecisionOK(e)'
      BY <1>8, <3>1, Kept
    <3> QED
      BY <3>2 DEF DecisionOK, IsDecision
  <2> QED
    BY <1>6, <2>1 DEF DecisionsOK
<1>12. \A q \in Ticks : RunSlot(tick[q])' = RunSlot(tick[q])
  <2> TAKE q \in Ticks
  <2> PICK r : r = tick[q]
    OBVIOUS
  <2>1. RunSlot(r)' = RunSlot(r)
    BY <1>8, Kept
  <2> QED
    BY <1>1, <2>1 DEF RunSlot
<1>13. \A n \in DOMAIN decisions' : decisions'[n].timer # None =>
         n \in DOMAIN decisions /\ SlotOf(decisions'[n]) = SlotOf(decisions[n])
  BY <1>6
<1>14. SlotsOK'
  BY <1>1, <1>10, <1>12, <1>13, SlotsMove DEF Inv
<1> QED
  BY <1>8, <1>9, <1>10, <1>11, <1>14 DEF Inv

\* The decision of a tick.
LEMMA InsertDecisionKeeps ==
  ASSUME Inv, NEW p \in Ticks, InsertDecision(p)
  PROVE  Inv'
<1>1. /\ tick[p].pc = "decision" /\ "decision" \in Undecided /\ "decision" \in Holding \ {"seed"}
      /\ UNCHANGED <<world, file, cards, live, claims, issues, context>>
  BY DEF InsertDecision, At, config, Holding, Undecided, Early
<1> PICK r, timer : r = tick[p] /\ timer = Timer(p)
  OBVIOUS
<1>2. /\ ConfigsOK /\ RunOK(r) /\ IsRun(r) /\ Good(r.config) /\ TimerOf(r) = timer
      /\ r.timer \in DOMAIN Timers(r.config)
      /\ timer = Timers(r.config)[r.timer] /\ timer.id # None /\ Seeded(timer.key)
      /\ r.session # None => SessionFor(r.session, timer.key) /\ timer.mode = "reuse"
  <2>1. RunOK(r) /\ IsRun(r) /\ TimerOf(r) = timer /\ timer.id # None /\ ConfigsOK
    BY <1>1, Running
  <2> QED
    BY <1>1, <2>1 DEF RunOK, TimerOf
<1> PICK d : d = [timer |-> timer.id, slot |-> r.slot, key |-> timer.key, mode |-> timer.mode,
                  session |-> r.session, actor |-> Orchd, principal |-> timer.principal,
                  role |-> timer.role, directive |-> timer.directive, repo |-> timer.repo,
                  reason |-> "timer", under |-> r.config, literal |-> TRUE,
                  state |-> "pending", refusal |-> None]
  OBVIOUS
<1>3. decisions' = Append(decisions, d) /\ DecisionsOK
  BY DEF InsertDecision, Inv
<1>4. DecisionOK(d)
  <2>1. IsDecision(d)
    BY DEF IsDecision, DecisionFields
  <2>2. /\ d.timer = timer.id /\ d.refusal = None /\ d.under = r.config /\ d.reason = "timer"
        /\ d.key = timer.key /\ d.mode = timer.mode /\ d.session = r.session
        /\ d.role = timer.role /\ d.directive = timer.directive /\ d.principal = timer.principal
    OBVIOUS
  <2>3. ByTimer(d)
    BY <1>2, <2>2 DEF ByTimer
  <2> QED
    BY <1>2, <2>1, <2>2, <2>3 DEF DecisionOK, RefusalOK
<1>5. /\ IsList(decisions') /\ Len(decisions') = Len(decisions) + 1
      /\ \A n \in DOMAIN decisions : n \in DOMAIN decisions' /\ decisions'[n] = decisions[n]
      /\ \A n \in DOMAIN decisions' :
           n \in DOMAIN decisions \/ (n = Len(decisions) + 1 /\ decisions'[n] = d)
      /\ Len(decisions) + 1 \notin DOMAIN decisions
  <2>1. IsList(decisions)
    BY <1>3 DEF DecisionsOK
  <2> QED
    BY <1>3, <2>1, AppendList DEF IsList
<1>6. \A s, k : SessionFor(s, k) => SessionFor(s, k)'
  BY <1>5 DEF SessionFor
<1>7. Keeping /\ ContextsOK'
  BY <1>1, <1>6, ContextsKeep
<1>8. ConfigsOK' /\ ClaimsOK' /\ \A x : Claimed(x) => Claimed(x)'
  BY <1>1, ConfigsStay, ClaimsStay DEF Inv
<1>9. DecisionsOK'
  <2>1. ASSUME NEW n \in DOMAIN decisions' PROVE DecisionOK(decisions[n])'
    <3> PICK e : e = decisions'[n]
      OBVIOUS
    <3>1. DecisionOK(e)
      BY <1>3, <1>4, <1>5 DEF DecisionsOK
    <3>2. DecisionOK(e)'
      BY <1>7, <3>1, Kept
    <3> QED
      BY <3>2 DEF DecisionOK, IsDecision
  <2> QED
    BY <1>5, <2>1 DEF DecisionsOK
<1>10. ASSUME NEW q \in Ticks
       PROVE  /\ RunOK(tick'[q]) /\ RunSlot(tick'[q]) = RunSlot(tick[q])
              /\ IF q = p THEN tick'[q].pc = "annotate" ELSE tick'[q].pc = tick[q].pc
  <2> PICK z : z = tick[q]
    OBVIOUS
  <2>1. RunOK(z)
    BY DEF Inv, RunsOK
  <2>2. CASE q = p
    <3> PICK y : y = [r EXCEPT !.pc = "annotate"]
      OBVIOUS
    <3>1. tick'[q] = y
      BY <2>2 DEF InsertDecision
    <3>2. /\ IsRun(y) /\ y.pc = "annotate" /\ y.config = r.config /\ y.timer = r.timer
          /\ y.slot = r.slot /\ y.session = r.session
      BY <1>2 DEF IsRun, RunFields
    <3>3. TimerOf(y) = timer /\ RunSlot(y) = RunSlot(r)
      BY <1>2, <3>2 DEF TimerOf, RunSlot
    <3>4. RunOK(y)
      BY <1>2, <3>2, <3>3 DEF RunOK
    <3> QED
      BY <2>2, <3>1, <3>2, <3>3, <3>4
  <2>3. CASE q # p /\ ~At(q, "idle") /\ Timer(q).id = timer.id
    <3> PICK y : y = [z EXCEPT !.overtaken = TRUE]
      OBVIOUS
    <3>1. tick'[q] = y
      BY <2>3 DEF InsertDecision
    <3>2. IsRun(z) /\ z.pc # "idle"
      BY <2>1, <2>3 DEF RunOK, At
    <3>3. /\ IsRun(y) /\ y.pc = z.pc /\ y.config = z.config /\ y.timer = z.timer
          /\ y.slot = z.slot /\ y.session = z.session
      BY <3>2 DEF IsRun, RunFields
    <3>4. TimerOf(y) = TimerOf(z)
      BY <3>3 DEF TimerOf
    <3>5. RunOK(y) /\ RunSlot(y) = RunSlot(z)
      BY <2>1, <3>3, <3>4 DEF RunOK, RunSlot
    <3> QED
      BY <2>3, <3>1, <3>3, <3>5
  <2>4. CASE q # p /\ ~(~At(q, "idle") /\ Timer(q).id = timer.id)
    <3>1. tick'[q] = z
      BY <2>4 DEF InsertDecision
    <3> QED
      BY <2>1, <2>4, <3>1
  <2> QED
    BY <2>2, <2>3, <2>4
<1>11. RunsOK'
  <2>1. ASSUME NEW q \in Ticks PROVE RunOK(tick[q])'
    <3> PICK y : y = tick'[q]
      OBVIOUS
    <3>1. RunOK(y)'
      BY <1>7, <1>10, Kept
    <3> QED
      BY <3>1 DEF RunOK
  <2>2. tick' = [q \in Ticks |-> tick'[q]]
    BY DEF InsertDecision
  <2> QED
    BY <2>1, <2>2 DEF RunsOK
<1>12. SlotsOK'
  <2> PICK x, last : x = RunSlot(r) /\ last = Len(decisions) + 1
    OBVIOUS
  <2>1. \A q \in Ticks : RunSlot(tick[q])' = RunSlot(tick[q])
    <3> TAKE q \in Ticks
    <3> PICK y : y = tick'[q]
      OBVIOUS
    <3>1. RunSlot(y)' = RunSlot(y)
      BY <1>7, Kept
    <3>2. RunSlot(tick[q])' = RunSlot(y)'
      BY DEF RunSlot
    <3> QED
      BY <1>10, <3>1, <3>2
  <2>2. x = SlotOf(d)
    BY <1>2 DEF RunSlot, SlotOf
  <2>3. SlotsOK /\ Early \subseteq Undecided /\ Undecided \subseteq Holding
        /\ "annotate" \in Holding \ Undecided
    BY DEF Inv, Holding, Undecided, Early
  <2>4. \A n \in DOMAIN decisions : decisions[n].timer # None => SlotOf(decisions[n]) # x
    BY <1>1, <2>3 DEF SlotsOK
  <2>5. Claimed(x) /\ \A q \in Ticks \ {p} : tick[q].pc \in Holding => RunSlot(tick[q]) # x
    BY <1>1, <2>3 DEF SlotsOK
  <2>6. ASSUME NEW q \in Ticks, tick'[q].pc \in Holding
        PROVE  /\ Claimed(RunSlot(tick[q]))'
               /\ \A o \in Ticks \ {q} : tick'[o].pc \in Holding =>
                    RunSlot(tick[o])' # RunSlot(tick[q])'
    <3> PICK z : z = RunSlot(tick[q])
      OBVIOUS
    <3>1. \A o \in Ticks : tick'[o].pc \in Holding => tick[o].pc \in Holding
      BY <1>1, <1>10
    <3>2. Claimed(z)' /\ RunSlot(tick[q])' = z
      BY <1>8, <2>1, <2>3, <2>6, <3>1 DEF SlotsOK
    <3>3. Claimed(RunSlot(tick[q]))'
      BY <3>2 DEF Claimed
    <3> QED
      BY <2>1, <2>3, <2>6, <3>1, <3>3 DEF SlotsOK
  <2>7. ASSUME NEW n \in DOMAIN issues, issues[n].heard
        PROVE  /\ Claimed(SlotOf(issues[n]))'
               /\ \A q \in Ticks : tick'[q].pc \in Early => RunSlot(tick[q])' # SlotOf(issues[n])
    <3> PICK z : z = SlotOf(issues[n])
      OBVIOUS
    <3>1. Claimed(z)' /\ z = SlotOf(issues'[n])
      BY <1>1, <1>8, <2>3, <2>7 DEF SlotsOK
    <3>2. Claimed(SlotOf(issues[n]))'
      BY <3>1 DEF Claimed, SlotOf
    <3> QED
      BY <1>10, <2>1, <2>3, <2>7, <3>2 DEF SlotsOK
  <2>8. ASSUME NEW n \in DOMAIN decisions', decisions'[n].timer # None
        PROVE  /\ Claimed(SlotOf(decisions[n]))'
               /\ \A q \in Ticks : tick'[q].pc \in Undecided =>
                    RunSlot(tick[q])' # SlotOf(decisions'[n])
               /\ \A m \in DOMAIN decisions' :
                    SlotOf(decisions'[m]) = SlotOf(decisions'[n]) => m = n
    <3> PICK z : z = SlotOf(decisions'[n])
      OBVIOUS
    <3>1. CASE n \in DOMAIN decisions
      <4>1. z = SlotOf(decisions[n]) /\ decisions[n].timer # None
        BY <1>5, <2>8, <3>1
      <4>2. Claimed(z)'
        BY <1>8, <2>3, <3>1, <4>1 DEF SlotsOK
      <4>3. Claimed(SlotOf(decisions[n]))'
        BY <4>2 DEF Claimed, SlotOf
      <4>4. \A q \in Ticks : tick'[q].pc \in Undecided => RunSlot(tick[q])' # z
        BY <1>10, <2>1, <2>3, <3>1, <4>1 DEF SlotsOK
      <4>5. \A m \in DOMAIN decisions' : SlotOf(decisions'[m]) = z => m = n
        <5> TAKE m \in DOMAIN decisions'
        <5>1. CASE m \in DOMAIN decisions
          BY <1>5, <2>3, <3>1, <4>1, <5>1 DEF SlotsOK
        <5>2. CASE decisions'[m] = d
          BY <2>2, <2>4, <3>1, <4>1, <5>2
        <5> QED
          BY <1>5, <5>1, <5>2
      <4> QED
        BY <4>3, <4>4, <4>5
    <3>2. CASE n = last /\ decisions'[n] = d
      <4>1. z = x /\ Claimed(z)'
        BY <1>8, <2>2, <2>5, <3>2
      <4>2. Claimed(SlotOf(decisions[n]))'
        BY <4>1 DEF Claimed, SlotOf
      <4>3. \A q \in Ticks : tick'[q].pc \in Undecided => RunSlot(tick[q])' # z
        BY <1>10, <2>1, <2>3, <2>5, <4>1
      <4>4. \A m \in DOMAIN decisions' : SlotOf(decisions'[m]) = z => m = n
        <5> TAKE m \in DOMAIN decisions'
        <5>1. SlotOf(decisions'[m]) = x => decisions'[m].timer # None
          BY <1>2, <2>2 DEF SlotOf
        <5> QED
          BY <1>5, <2>4, <3>2, <4>1, <5>1
      <4> QED
        BY <4>2, <4>3, <4>4
    <3> QED
      BY <1>5, <3>1, <3>2
  <2>9. /\ IsList(issues') /\ \A n \in DOMAIN issues : issues[n].timer # None
        /\ \A m, n \in DOMAIN issues :
             m < n /\ SlotOf(issues[m]) = SlotOf(issues[n]) => ~issues[m].heard
    BY <1>1, <2>3 DEF SlotsOK
  <2>10. \A n \in DOMAIN issues : SlotOf(issues[n])' = SlotOf(issues[n])
    BY <1>1 DEF SlotOf
  <2> QED
    BY <1>1, <2>6, <2>7, <2>8, <2>9, <2>10 DEF SlotsOK
<1> QED
  BY <1>7, <1>8, <1>9, <1>11, <1>12 DEF Inv

-----------------------------------------------------------------------------
(* The run issue, and a slot that is given back.                           *)

\* What a tick adds to the issues: nothing, or one for its slot.
LEMMA IssueAdded ==
  ASSUME SlotsOK, NEW p \in Ticks, tick[p].pc \in Early, Timer(p).id # None,
         NEW heard \in BOOLEAN, issues' = NewIssue(p, heard)
  PROVE  /\ IsList(issues')
         /\ \A n \in DOMAIN issues' :
              \/ n \in DOMAIN issues /\ issues'[n] = issues[n]
              \/ /\ n = Len(issues) + 1 /\ issues'[n].timer # None
                 /\ issues'[n].heard = heard /\ SlotOf(issues'[n]) = RunSlot(tick[p])
         /\ \A m, n \in DOMAIN issues' :
              m < n /\ SlotOf(issues'[m]) = SlotOf(issues'[n]) => ~issues'[m].heard
<1> PICK new : new = [timer |-> Timer(p).id, slot |-> tick[p].slot, heard |-> heard]
  OBVIOUS
<1>1. issues' = Append(issues, new) /\ IsList(issues) /\ Len(issues) \in Nat
  BY DEF NewIssue, SlotsOK, IsList
<1>2. /\ IsList(issues') /\ Len(issues') = Len(issues) + 1
      /\ DOMAIN issues = 1..Len(issues) /\ DOMAIN issues' = 1..Len(issues')
      /\ \A n \in 1..Len(issues) : issues'[n] = issues[n]
      /\ issues'[Len(issues) + 1] = new
  <2>1. IsList(issues') /\ Len(issues') = Len(issues) + 1
    BY <1>1, AppendList
  <2> QED
    BY <1>1, <2>1, AppendList DEF IsList
<1>3. SlotOf(new) = RunSlot(tick[p]) /\ new.timer # None /\ new.heard = heard
  BY DEF SlotOf, RunSlot, TimerOf, Timer
<1>4. ASSUME NEW m \in DOMAIN issues', NEW n \in DOMAIN issues', m < n,
             SlotOf(issues'[m]) = SlotOf(issues'[n])
      PROVE  ~issues'[m].heard
  <2>1. m \in DOMAIN issues /\ issues'[m] = issues[m]
    BY <1>1, <1>2, <1>4
  <2>2. CASE n \in DOMAIN issues
    <3>1. SlotOf(issues[m]) = SlotOf(issues[n])
      BY <1>2, <1>4, <2>1, <2>2
    <3> QED
      BY <1>4, <2>1, <2>2, <3>1 DEF SlotsOK
  <2>3. CASE n = Len(issues) + 1
    <3>1. SlotOf(issues[m]) = RunSlot(tick[p])
      BY <1>2, <1>3, <1>4, <2>1, <2>3
    <3> QED
      BY <2>1, <3>1 DEF SlotsOK
  <2> QED
    BY <1>1, <1>2, <2>2, <2>3
<1> QED
  BY <1>1, <1>2, <1>3, <1>4

LEMMA CreateIssueKeeps ==
  ASSUME Inv, NEW p \in Ticks, CreateIssue(p)
  PROVE  Inv'
<1>1. /\ tick[p].pc = "issue" /\ Goto(p, "event") /\ issues' = NewIssue(p, TRUE)
      /\ UNCHANGED <<world, file, cards, live, claims, decisions, context>>
      /\ "issue" \in Early /\ "event" \in Undecided \ Early
      /\ Early \subseteq Undecided /\ Undecided \subseteq Holding /\ "event" \in Holding \ {"seed"}
      /\ "issue" \in Holding \ {"seed"}
  BY DEF CreateIssue, At, config, Holding, Undecided, Early
<1>2. /\ RunOK(tick[p]) /\ TimerOf(tick[p]) = Timer(p) /\ Timer(p).id # None /\ SlotsOK
  BY <1>1, Running DEF Inv
<1>3. Seeded(Timer(p).key)
  BY <1>1, <1>2 DEF RunOK
<1>4. PICK y : /\ RunOK(y) /\ y.pc = "event" /\ RunSlot(y) = RunSlot(tick[p])
               /\ tick' = [tick EXCEPT ![p] = y]
  BY <1>1, <1>3, GotoOK
<1>5. Keeping /\ ConfigsOK' /\ DecisionsOK' /\ ContextsOK'
  <2>1. Keeping
    BY <1>1, StoresKeep
  <2> QED
    BY <1>1, <2>1, ConfigsStay, DecisionsStay, ContextsStay DEF Inv
<1>6. RunOK(y)' /\ \A r : RunSlot(r)' = RunSlot(r)
  BY <1>4, <1>5, Kept
<1>7. RunsOK' /\ tick'[p] = y /\ \A q \in Ticks \ {p} : tick'[q] = tick[q]
  BY <1>4, <1>5, <1>6, RunsStep DEF Inv
<1>8. ClaimsOK' /\ \A x : Claimed(x) => Claimed(x)'
  BY <1>1, ClaimsStay DEF Inv
<1> PICK x : x = RunSlot(tick[p])
  OBVIOUS
<1>9. /\ IsList(issues')
      /\ \A n \in DOMAIN issues' :
           \/ n \in DOMAIN issues /\ issues'[n] = issues[n]
           \/ /\ n = Len(issues) + 1 /\ issues'[n].timer # None
              /\ issues'[n].heard = TRUE /\ SlotOf(issues'[n]) = x
      /\ \A m, n \in DOMAIN issues' :
           m < n /\ SlotOf(issues'[m]) = SlotOf(issues'[n]) => ~issues'[m].heard
  BY <1>1, <1>2, IssueAdded
<1>10. \A q \in Ticks : /\ RunSlot(tick[q])' = RunSlot(tick[q])
                        /\ IF q = p THEN tick'[q].pc = "event" ELSE tick'[q].pc = tick[q].pc
  <2> TAKE q \in Ticks
  <2> PICK z : z = tick'[q]
    OBVIOUS
  <2>1. RunSlot(tick[q])' = RunSlot(z)'
    BY DEF RunSlot
  <2>2. CASE q = p
    BY <1>4, <1>6, <1>7, <2>1, <2>2
  <2>3. CASE q # p
    BY <1>6, <1>7, <2>1, <2>3
  <2> QED
    BY <2>2, <2>3
<1>11. ASSUME NEW q \in Ticks, tick'[q].pc \in Holding
       PROVE  /\ Claimed(RunSlot(tick[q]))'
              /\ \A o \in Ticks \ {q} : tick'[o].pc \in Holding =>
                   RunSlot(tick[o])' # RunSlot(tick[q])'
  <2> PICK z : z = RunSlot(tick[q])
    OBVIOUS
  <2>1. \A o \in Ticks : tick'[o].pc \in Holding => tick[o].pc \in Holding
    BY <1>1, <1>10
  <2>2. Claimed(z)' /\ RunSlot(tick[q])' = z
    BY <1>2, <1>8, <1>10, <1>11, <2>1 DEF SlotsOK
  <2>3. Claimed(RunSlot(tick[q]))'
    BY <2>2 DEF Claimed
  <2> QED
    BY <1>2, <1>10, <1>11, <2>1, <2>3 DEF SlotsOK
<1>12. ASSUME NEW n \in DOMAIN issues', issues'[n].heard
       PROVE  /\ Claimed(SlotOf(issues[n]))'
              /\ \A q \in Ticks : tick'[q].pc \in Early => RunSlot(tick[q])' # SlotOf(issues'[n])
  <2> PICK z : z = SlotOf(issues'[n])
    OBVIOUS
  <2>1. Claimed(z) /\ \A q \in Ticks : tick'[q].pc \in Early => RunSlot(tick[q]) # z
    <3>1. CASE n \in DOMAIN issues /\ issues'[n] = issues[n]
      <4>1. \A q \in Ticks : tick'[q].pc \in Early => tick[q].pc \in Early
        BY <1>1, <1>10
      <4> QED
        BY <1>2, <1>12, <3>1, <4>1 DEF SlotsOK
    <3>2. CASE z = x
      <4>1. \A q \in Ticks : tick'[q].pc \in Early => q # p /\ tick[q].pc \in Holding
        BY <1>1, <1>10
      <4>2. /\ Claimed(RunSlot(tick[p]))
            /\ \A q \in Ticks \ {p} : tick[q].pc \in Holding => RunSlot(tick[q]) # RunSlot(tick[p])
        BY <1>1, <1>2 DEF SlotsOK
      <4>3. Claimed(z)
        BY <3>2, <4>2
      <4>4. \A q \in Ticks : tick'[q].pc \in Early => RunSlot(tick[q]) # z
        BY <3>2, <4>1, <4>2
      <4> QED
        BY <4>3, <4>4
    <3> QED
      BY <1>9, <3>1, <3>2
  <2>2. Claimed(SlotOf(issues[n]))'
    <3>1. Claimed(z)'
      BY <1>8, <2>1
    <3> QED
      BY <3>1 DEF Claimed, SlotOf
  <2> QED
    BY <1>10, <2>1, <2>2
<1>13. ASSUME NEW n \in DOMAIN decisions, decisions[n].timer # None
       PROVE  /\ Claimed(SlotOf(decisions[n]))'
              /\ \A q \in Ticks : tick'[q].pc \in Undecided =>
                   RunSlot(tick[q])' # SlotOf(decisions[n])
  <2> PICK z : z = SlotOf(decisions[n])
    OBVIOUS
  <2>1. Claimed(z)'
    BY <1>2, <1>8, <1>13 DEF SlotsOK
  <2>2. Claimed(SlotOf(decisions[n]))'
    BY <1>1, <2>1 DEF Claimed, SlotOf
  <2>3. \A q \in Ticks : tick'[q].pc \in Undecided => tick[q].pc \in Undecided
    BY <1>1, <1>10
  <2> QED
    BY <1>2, <1>10, <1>13, <2>2, <2>3 DEF SlotsOK
<1>14. /\ \A n \in DOMAIN issues' : issues'[n].timer # None
       /\ \A n \in DOMAIN decisions : decisions[n].timer # None =>
            \A m \in DOMAIN decisions : SlotOf(decisions[m]) = SlotOf(decisions[n]) => m = n
  BY <1>2, <1>9 DEF SlotsOK
<1>15. /\ \A n \in DOMAIN issues' : SlotOf(issues[n])' = SlotOf(issues'[n])
       /\ \A n \in DOMAIN decisions : SlotOf(decisions[n])' = SlotOf(decisions[n])
  BY <1>1 DEF SlotOf
<1>16. SlotsOK'
  BY <1>1, <1>9, <1>11, <1>12, <1>13, <1>14, <1>15 DEF SlotsOK
<1> QED
  BY <1>5, <1>7, <1>8, <1>16 DEF Inv

\* The claim of the slot goes; an issue of which the tick has not heard may stay.
LEMMA GiveUpKeeps ==
  ASSUME Inv, NEW p \in Ticks, tick[p].pc = "issue", GiveUp(p),
         issues' = issues \/ issues' = NewIssue(p, FALSE),
         UNCHANGED <<world, file, cards, live, decisions, context>>
  PROVE  Inv'
<1>1. /\ tick' = [tick EXCEPT ![p] = Idle] /\ "issue" \in Early
      /\ Early \subseteq Undecided /\ Undecided \subseteq Holding /\ "idle" \notin Holding
      /\ Idle.pc = "idle"
  BY DEF GiveUp, Quit, Idle, Holding, Undecided, Early
<1>2. Timer(p).id # None /\ SlotsOK /\ TimerOf(tick[p]) = Timer(p)
  BY Running DEF Inv
<1>3. Keeping /\ ConfigsOK' /\ DecisionsOK' /\ ContextsOK'
  <2>1. Keeping
    BY StoresKeep
  <2> QED
    BY <2>1, ConfigsStay, DecisionsStay, ContextsStay DEF Inv
<1>4. RunOK(Idle)' /\ \A r : RunSlot(r)' = RunSlot(r)
  BY <1>3, Kept, IdleOK
<1>5. RunsOK' /\ tick'[p] = Idle /\ \A q \in Ticks \ {p} : tick'[q] = tick[q]
  BY <1>1, <1>3, <1>4, RunsStep DEF Inv
<1> PICK x : x = RunSlot(tick[p])
  OBVIOUS
<1>6. ClaimsOK' /\ \A z : Claimed(z) /\ (z.timer # x.timer \/ z.slot # x.slot) => Claimed(z)'
  <2>1. x.timer = Timer(p).id /\ x.slot = tick[p].slot
    BY <1>2 DEF RunSlot
  <2>2. claims' = {c \in claims : ~(c.timer = x.timer /\ c.slot = x.slot)}
    BY <2>1 DEF GiveUp
  <2> QED
    BY <2>2 DEF ClaimsOK, Claimed, ClaimedSlots, Inv
<1>7. /\ IsList(issues')
      /\ \A n \in DOMAIN issues' :
           \/ n \in DOMAIN issues /\ issues'[n] = issues[n]
           \/ issues'[n].timer # None /\ ~issues'[n].heard
      /\ \A m, n \in DOMAIN issues' :
           m < n /\ SlotOf(issues'[m]) = SlotOf(issues'[n]) => ~issues'[m].heard
  <2>1. CASE issues' = issues
    BY <1>2, <2>1 DEF SlotsOK
  <2>2. CASE issues' = NewIssue(p, FALSE)
    BY <1>1, <1>2, <2>2, IssueAdded
  <2> QED
    BY <2>1, <2>2
<1>8. \A q \in Ticks : tick'[q].pc \in Holding =>
        q # p /\ tick'[q].pc = tick[q].pc /\ RunSlot(tick[q])' = RunSlot(tick[q])
  <2> TAKE q \in Ticks
  <2> PICK z : z = tick'[q]
    OBVIOUS
  <2>1. RunSlot(tick[q])' = RunSlot(z)'
    BY DEF RunSlot
  <2>2. q # p => RunSlot(tick[q])' = RunSlot(tick[q]) /\ tick'[q].pc = tick[q].pc
    BY <1>4, <1>5, <2>1
  <2>3. q = p => tick'[q].pc \notin Holding
    BY <1>1, <1>5
  <2> QED
    BY <2>2, <2>3
<1>9. ASSUME NEW q \in Ticks, tick'[q].pc \in Holding
      PROVE  /\ Claimed(RunSlot(tick[q]))'
             /\ \A o \in Ticks \ {q} : tick'[o].pc \in Holding =>
                  RunSlot(tick[o])' # RunSlot(tick[q])'
  <2> PICK z : z = RunSlot(tick[q])
    OBVIOUS
  <2>1. Claimed(z) /\ z # x /\ q # p
    BY <1>1, <1>2, <1>8, <1>9 DEF SlotsOK
  <2>2. z.timer # x.timer \/ z.slot # x.slot
    BY <2>1 DEF RunSlot
  <2>3. Claimed(z)' /\ RunSlot(tick[q])' = z
    BY <1>6, <1>8, <1>9, <2>1, <2>2
  <2>4. Claimed(RunSlot(tick[q]))'
    BY <2>3 DEF Claimed
  <2> QED
    BY <1>2, <1>8, <1>9, <2>4 DEF SlotsOK
<1>10. ASSUME NEW n \in DOMAIN issues', issues'[n].heard
       PROVE  /\ Claimed(SlotOf(issues[n]))'
              /\ \A q \in Ticks : tick'[q].pc \in Early => RunSlot(tick[q])' # SlotOf(issues'[n])
  <2> PICK z : z = SlotOf(issues'[n])
    OBVIOUS
  <2>1. n \in DOMAIN issues /\ issues'[n] = issues[n]
    BY <1>7, <1>10
  <2>2. Claimed(z) /\ \A q \in Ticks : tick[q].pc \in Early => RunSlot(tick[q]) # z
    BY <1>2, <1>10, <2>1 DEF SlotsOK
  <2>3. z.timer # x.timer \/ z.slot # x.slot
    BY <1>1, <2>2 DEF RunSlot, SlotOf
  <2>4. Claimed(z)'
    BY <1>6, <2>2, <2>3
  <2>5. Claimed(SlotOf(issues[n]))'
    BY <2>4 DEF Claimed, SlotOf
  <2> QED
    BY <1>1, <1>8, <2>2, <2>5
<1>11. ASSUME NEW n \in DOMAIN decisions, decisions[n].timer # None
       PROVE  /\ Claimed(SlotOf(decisions[n]))'
              /\ \A q \in Ticks : tick'[q].pc \in Undecided =>
                   RunSlot(tick[q])' # SlotOf(decisions[n])
  <2> PICK z : z = SlotOf(decisions[n])
    OBVIOUS
  <2>1. Claimed(z) /\ \A q \in Ticks : tick[q].pc \in Undecided => RunSlot(tick[q]) # z
    BY <1>2, <1>11 DEF SlotsOK
  <2>2. z.timer # x.timer \/ z.slot # x.slot
    BY <1>1, <2>1 DEF RunSlot, SlotOf
  <2>3. Claimed(z)'
    BY <1>6, <2>1, <2>2
  <2>4. Claimed(SlotOf(decisions[n]))'
    BY <2>3 DEF Claimed, SlotOf
  <2> QED
    BY <1>1, <1>8, <2>1, <2>4
<1>12. /\ \A n \in DOMAIN issues' : issues'[n].timer # None
       /\ \A n \in DOMAIN decisions : decisions[n].timer # None =>
            \A m \in DOMAIN decisions : SlotOf(decisions[m]) = SlotOf(decisions[n]) => m = n
  BY <1>2, <1>7 DEF SlotsOK
<1>13. /\ \A n \in DOMAIN issues' : SlotOf(issues[n])' = SlotOf(issues'[n])
       /\ \A n \in DOMAIN decisions : SlotOf(decisions[n])' = SlotOf(decisions[n])
  BY DEF SlotOf
<1>14. SlotsOK'
  BY <1>7, <1>9, <1>10, <1>11, <1>12, <1>13 DEF SlotsOK
<1> QED
  BY <1>3, <1>5, <1>6, <1>14 DEF Inv

LEMMA FailEarlyKeeps ==
  ASSUME Inv, NEW p \in Ticks, FailEarly(p)
  PROVE  Inv'
<1>1. /\ tick[p].pc = "issue" /\ GiveUp(p)
      /\ UNCHANGED <<world, file, cards, live, decisions, context>>
      /\ issues' = issues \/ issues' = NewIssue(p, FALSE)
  BY DEF FailEarly, At, config
<1> QED
  BY <1>1, GiveUpKeeps

LEMMA NoBodyKeeps ==
  ASSUME Inv, NEW p \in Ticks, NoBody(p)
  PROVE  Inv'
<1>1. /\ tick[p].pc = "issue" /\ GiveUp(p) /\ issues' = issues
      /\ UNCHANGED <<world, file, cards, live, decisions, context>>
  BY DEF NoBody, At, config
<1> QED
  BY <1>1, GiveUpKeeps

-----------------------------------------------------------------------------
(* The world and orchd's configuration.                                    *)

LEMMA StoresStay ==
  ASSUME Inv, UNCHANGED <<world, stores, tick>>, ConfigsOK'
  PROVE  Inv'
<1>1. Keeping /\ UNCHANGED <<claims, issues, decisions, context, tick>>
  BY StoresKeep DEF stores
<1>2. RunsOK' /\ DecisionsOK' /\ ContextsOK'
  BY <1>1, RunsStay, DecisionsStay, ContextsStay DEF Inv
<1>3. ClaimsOK' /\ \A x : Claimed(x) => Claimed(x)'
  BY <1>1, ClaimsStay DEF Inv
<1>4. \A q \in Ticks : RunSlot(tick[q])' = RunSlot(tick[q])
  <2> TAKE q \in Ticks
  <2> PICK r : r = tick[q]
    OBVIOUS
  <2>1. RunSlot(r)' = RunSlot(r)
    BY <1>1, Kept
  <2> QED
    BY <2>1 DEF RunSlot
<1>5. SlotsOK'
  BY <1>1, <1>3, <1>4, SlotsMove DEF Inv
<1> QED
  BY <1>2, <1>3, <1>5 DEF Inv

LEMMA TimePassesKeeps == ASSUME Inv, TimePasses PROVE Inv'
BY ConfigsStay, StoresStay DEF TimePasses, config, Inv

LEMMA EditKeeps == ASSUME Inv, Edit PROVE Inv'
<1>1. UNCHANGED <<world, stores, tick, live>>
  BY DEF Edit
<1>2. (file' \in DOMAIN W.texts \/ file' = 0 \/ file' = file)
      /\ (cards' \in DOMAIN W.cards \/ cards' = cards)
  BY DEF Edit
<1>3. (Good(live)' <=> Good(live)) /\ W' = W
  BY <1>1 DEF Good, W
<1>4. ConfigsOK'
  BY <1>1, <1>2, <1>3 DEF ConfigsOK, Inv
<1> QED
  BY <1>1, <1>4, StoresStay

\* orchd comes to another configuration only by accepting what is on disk.
LEMMA LiveKeeps ==
  ASSUME Inv, UNCHANGED <<world, file, cards, stores, tick>>,
         live' = live \/ live' = None \/ (Accepted /\ live' = OnDisk)
  PROVE  Inv'
<1> PICK c : c = live'
  OBVIOUS
<1>1. ConfigsOK /\ (Accepted => Good(OnDisk)) /\ W' = W
  BY AcceptedIsGood DEF Inv, W
<1>2. c # None => Good(c)
  BY <1>1 DEF ConfigsOK
<1>3. live' # None => Good(live)'
  BY <1>1, <1>2 DEF Good
<1>4. ConfigsOK'
  BY <1>1, <1>3 DEF ConfigsOK
<1> QED
  BY <1>4, StoresStay

LEMMA ReloadKeeps == ASSUME Inv, Reload PROVE Inv'
<1>1. UNCHANGED <<world, file, cards, stores, tick>>
  BY DEF Reload
<1>2. live' = live \/ (Accepted /\ live' = OnDisk)
  <2>1. CASE file = 0
    BY <2>1 DEF Reload
  <2>2. CASE file # 0 /\ file = lastGood
    BY <2>2 DEF Reload
  <2>3. CASE file \notin {0, lastGood} /\ lastError = file
    BY <2>3 DEF Reload
  <2>4. CASE file \notin {0, lastGood} /\ lastError # file
    BY <2>4 DEF Reload
  <2> QED
    BY <2>1, <2>2, <2>3, <2>4
<1> QED
  BY <1>1, <1>2, LiveKeeps

LEMMA StartKeeps == ASSUME Inv, Start PROVE Inv'
BY LiveKeeps DEF Start

LEMMA StopKeeps == ASSUME Inv, Stop PROVE Inv'
BY LiveKeeps DEF Stop

-----------------------------------------------------------------------------
LEMMA InitInv == Init => Inv
<1> SUFFICES ASSUME Init PROVE Inv
  OBVIOUS
<1>1. /\ world \in DOMAIN Worlds /\ 1 \in DOMAIN Worlds[world].texts
      /\ 1 \in DOMAIN Worlds[world].cards
      /\ Loads(Worlds[world].texts[1], Worlds[world].cards[1], Orchd)
  BY ScheduleWorlds DEF ScheduleWorlds, Init, AllWorlds
<1>2. ConfigsOK
  <2>1. file = 1 /\ cards = 1 /\ live.text = 1 /\ live.cards = 1
    BY DEF Init
  <2>2. Good(live)
    BY <1>1, <2>1 DEF Good, W, AllWorlds
  <2> QED
    BY <1>1, <2>1, <2>2 DEF ConfigsOK, W, AllWorlds
<1>3. IsList(<<>>) /\ DOMAIN <<>> = {}
  BY DEF IsList
<1>4. RunsOK /\ \A p \in Ticks : tick[p].pc = "idle"
  <2>1. \A p \in Ticks : tick[p] = Idle /\ Idle.pc = "idle"
    BY DEF Init, Idle
  <2> QED
    BY <2>1 DEF RunsOK, RunOK, Init
<1>5. ClaimsOK
  BY DEF ClaimsOK, Init
<1>6. SlotsOK
  BY <1>3, <1>4 DEF SlotsOK, Init, Holding, Undecided, Early
<1>7. DecisionsOK
  BY <1>3 DEF DecisionsOK, Init
<1>8. ContextsOK
  BY DEF ContextsOK, Init
<1> QED
  BY <1>2, <1>4, <1>5, <1>6, <1>7, <1>8 DEF Inv

LEMMA NextInv == Inv /\ [Next]_vars => Inv'
<1> SUFFICES ASSUME Inv, [Next]_vars PROVE Inv'
  OBVIOUS
<1>1. ASSUME NEW p \in Ticks, StepOf(p) PROVE Inv'
  BY <1>1, CountKeeps, FindSlotKeeps, ClaimKeeps, SeedKeeps, ReadContextKeeps,
     ResetContextKeeps, CreateIssueKeeps, InsertEventKeeps, InsertDecisionKeeps,
     AnnotateKeeps, NoBodyKeeps DEF StepOf
<1>2. CASE BeginUnit
  <2>1. Unit \in Ticks
    BY DEF Ticks
  <2> QED
    BY <1>2, <2>1, BeginKeeps DEF BeginUnit
<1>3. CASE BeginHand
  <2>1. Hand \in Ticks
    BY DEF Ticks
  <2>2. \E only, manual : Begin(Hand, only, manual)
    BY <1>3 DEF BeginHand
  <2> QED
    BY <2>1, <2>2, BeginKeeps
<1>4. CASE Dispatching
  BY <1>4, PlanKeeps, EndRunKeeps, RecordCompletionKeeps DEF Dispatching
<1>5. CASE Mishap
  <2>1. ASSUME NEW p \in Ticks, FailLate(p) \/ Kill(p) PROVE Inv'
    BY <2>1, QuitKeeps DEF FailLate, Kill
  <2> QED
    BY <1>5, <2>1, StopKeeps, FailEarlyKeeps, LoseCompletionKeeps DEF Mishap
<1>6. CASE UNCHANGED vars
  BY <1>6, ConfigsStay, StoresStay DEF vars, config, Inv
<1> QED
  BY <1>1, <1>2, <1>3, <1>4, <1>5, <1>6, TimePassesKeeps, EditKeeps, CommentKeeps,
     ReloadKeeps, StartKeeps DEF Next

\* The inductive invariant: who may still open an issue or decide for a claimed slot
\* (execute_timer_tick, claim_schedule_slot), and from which configuration every decision
\* and every session comes (load_dispatch_config, reload_once, plan_dispatch).
THEOREM ScheduleHolds == Spec => []Inv
<1> QED
  BY InitInv, NextInv, PTL DEF Spec

\* A slot of a timer is decided at most once, and has a second run issue only if the tick
\* that opened the first gave the slot back without having heard of it: the claim in
\* schedule_claims outlives every failure but those before the issue is reported.
THEOREM SlotDecidedOnce == Spec => []OneRunPerSlot
<1>1. ASSUME Inv PROVE OneRunPerSlot
  <2> SUFFICES ASSUME NEW m \in DOMAIN issues, NEW n \in DOMAIN issues, m < n,
                      issues[m].timer = issues[n].timer, issues[m].slot = issues[n].slot
               PROVE  ~issues[m].heard /\ Cardinality(DecidedFor(issues[n])) <= 1
    BY DEF OneRunPerSlot
  <2>1. SlotOf(issues[m]) = SlotOf(issues[n]) /\ issues[n].timer # None
    BY <1>1 DEF SlotOf, Inv, SlotsOK
  <2>2. ~issues[m].heard
    BY <1>1, <2>1 DEF Inv, SlotsOK
  <2>3. \A i, j \in DecidedFor(issues[n]) : i = j
    <3> TAKE i, j \in DecidedFor(issues[n])
    <3>1. /\ i \in DOMAIN decisions /\ j \in DOMAIN decisions /\ decisions[j].timer # None
          /\ SlotOf(decisions[i]) = SlotOf(decisions[j])
      BY <2>1 DEF DecidedFor, SlotOf
    <3> QED
      BY <1>1, <3>1 DEF Inv, SlotsOK
  <2> QED
    BY <2>2, <2>3, AtMostOne
<1> QED
  BY <1>1, ScheduleHolds, PTL

\* A timer resumes the session of another role only after an edit, or when a timer in fresh
\* mode wrote to the context key: what validate_timer_context_keys compares.
THEOREM SessionKeepsRole == Spec => []SessionStaysWithRole
<1>1. ASSUME Inv PROVE SessionStaysWithRole
  <2> SUFFICES ASSUME NEW n \in DOMAIN decisions, decisions[n].session # None,
                      decisions[decisions[n].session].under = decisions[n].under,
                      decisions[decisions[n].session].mode # "fresh"
               PROVE  decisions[decisions[n].session].role = decisions[n].role
    BY DEF SessionStaysWithRole
  <2> PICK d, first : d = decisions[n] /\ first = decisions[d.session]
    OBVIOUS
  <2>1. ConfigsOK /\ DecisionOK(d)
    BY <1>1 DEF Inv, DecisionsOK
  <2>2. Good(d.under) /\ ByTimer(d)
    BY <2>1 DEF DecisionOK, ByComment
  <2>3. SessionFor(d.session, d.key) /\ d.mode = "reuse"
    BY <2>2 DEF ByTimer
  <2>4. first.timer # None /\ first.key = d.key /\ DecisionOK(first)
    BY <1>1, <2>3 DEF SessionFor, Inv, DecisionsOK
  <2>5. ByTimer(first) /\ first.under = d.under /\ first.mode # "fresh"
    BY <2>4 DEF DecisionOK
  <2>6. PICK i \in DOMAIN Timers(d.under) :
          /\ Timers(d.under)[i].key = d.key /\ Timers(d.under)[i].mode = "reuse"
          /\ Timers(d.under)[i].role = d.role
    BY <2>2, <2>3 DEF ByTimer
  <2>7. PICK j \in DOMAIN Timers(d.under) :
          /\ Timers(d.under)[j].key = d.key /\ Timers(d.under)[j].mode = first.mode
          /\ Timers(d.under)[j].role = first.role
    BY <2>4, <2>5 DEF ByTimer
  <2>8. Timers(d.under)[j].mode = "reuse"
    BY <2>1, <2>2, <2>5, <2>7, TimerFields
  <2> QED
    BY <2>1, <2>2, <2>6, <2>7, <2>8, ContextHasRole
<1> QED
  BY <1>1, ScheduleHolds, PTL

\* What the loader has accepted is carried out: plan_dispatch refuses a timer's decision
\* under the configuration of its tick only for what compile_timer_config does not check,
\* and never for role or directive what a trigger names literally.
THEOREM AcceptedIsPlanned == Spec => []RefusedOnlyAfterEdit
<1>1. ASSUME Inv PROVE RefusedOnlyAfterEdit
  BY <1>1 DEF Inv, DecisionsOK, DecisionOK, RefusalOK, RefusedOnlyAfterEdit
<1> QED
  BY <1>1, ScheduleHolds, PTL

-----------------------------------------------------------------------------
(* How many decisions of a timer are unfinished.                           *)

\* What a tick counted, it may act on until its decision is inserted.
Counted == {"slot", "claim"} \cup Undecided
Room(r) == Cardinality(Active(TimerOf(r).id)) < TimerOf(r).maxInflight
RoomOK(r) == r.pc \in Counted /\ ~r.overtaken => Room(r)
Slack == \A p \in Ticks : RoomOK(tick[p])

\* The tick stays with the timer that it counted for.
Passing(y, r) ==
  /\ y.pc # "annotate"
  /\ y.pc \in Counted => /\ r.pc \in Counted
                         /\ y.config = r.config /\ y.timer = r.timer
                         /\ y.overtaken = r.overtaken

\* A step of one tick that inserts no decision.
Moves(p) ==
  /\ UNCHANGED <<world, decisions>>
  /\ \E y : RoomOK(y) /\ y.pc # "annotate" /\ tick' = [tick EXCEPT ![p] = y]

LEMMA PassingRoom ==
  ASSUME NEW r, RoomOK(r), NEW y, Passing(y, r)
  PROVE  RoomOK(y)
<1>1. y.pc \in Counted => TimerOf(y) = TimerOf(r)
  BY DEF Passing, TimerOf
<1> QED
  BY <1>1 DEF Passing, RoomOK, Room

LEMMA NextTimerPassing ==
  ASSUME Inv, NEW p \in Ticks, tick[p].pc # "idle", NextTimer(p)
  PROVE  \E y : Passing(y, tick[p]) /\ tick' = [tick EXCEPT ![p] = y]
<1> PICK r : r = tick[p]
  OBVIOUS
<1>1. ConfigsOK /\ IsRun(r) /\ Good(r.config)
  BY Running
<1>2. PICK y : y = Advance(r, r.timer + 1) /\ y.pc \in {"idle", "count"}
  BY <1>1, AdvanceOK
<1>3. Passing(y, r)
  BY <1>2 DEF Passing, Counted, Undecided, Early
<1> QED
  BY <1>2, <1>3 DEF NextTimer

\* It moves on, and may learn its slot or its session.
LEMMA MovePassing ==
  ASSUME Inv, NEW p \in Ticks, tick[p].pc # "idle", NEW y, NEW pc,
         pc \in Counted => tick[p].pc \in Counted, pc # "annotate",
         \/ y = [tick[p] EXCEPT !.pc = pc]
         \/ \E slot : y = [tick[p] EXCEPT !.pc = pc, !.slot = slot]
         \/ \E session : y = [tick[p] EXCEPT !.pc = pc, !.session = session]
  PROVE  Passing(y, tick[p])
<1> PICK r : r = tick[p]
  OBVIOUS
<1>1. IsRun(r)
  BY Running
<1>2. /\ y.pc = pc /\ y.config = r.config /\ y.timer = r.timer /\ y.overtaken = r.overtaken
  BY <1>1 DEF IsRun, RunFields
<1> QED
  BY <1>2 DEF Passing

LEMMA GotoPassing ==
  ASSUME Inv, NEW p \in Ticks, tick[p].pc # "idle", NEW pc, Goto(p, pc),
         pc \in Counted => tick[p].pc \in Counted, pc # "annotate"
  PROVE  \E y : Passing(y, tick[p]) /\ tick' = [tick EXCEPT ![p] = y]
<1> PICK y : y = [tick[p] EXCEPT !.pc = pc]
  OBVIOUS
<1>1. tick' = [tick EXCEPT ![p] = y]
  BY DEF Goto, Inv, RunsOK
<1> QED
  BY <1>1, MovePassing

LEMMA QuitPassing ==
  ASSUME NEW p \in Ticks, Quit(p)
  PROVE  \E y : Passing(y, tick[p]) /\ tick' = [tick EXCEPT ![p] = y]
BY DEF Quit, Idle, Passing, Counted, Undecided, Early

LEMMA ActiveFinite ==
  ASSUME IsList(decisions), NEW id
  PROVE  IsFiniteSet(Active(id)) /\ Cardinality(Active(id)) \in Nat
<1>1. DOMAIN decisions = 1..Len(decisions) /\ Len(decisions) \in Nat
  BY DEF IsList
<1>2. IsFiniteSet(DOMAIN decisions) /\ Active(id) \subseteq DOMAIN decisions
  BY <1>1, FS_Interval DEF Active
<1> QED
  BY <1>2, FS_Subset, FS_CardinalityType

\* No decision becomes active: what a tick counted is still right.
LEMMA RoomStays ==
  ASSUME Inv, world' = world, NEW r, RunOK(r), RoomOK(r),
         \A id : id # None => Active(id)' \subseteq Active(id)
  PROVE  RoomOK(r)'
<1> SUFFICES ASSUME r.pc \in Counted, ~r.overtaken PROVE Room(r)'
  BY DEF RoomOK, Counted, Undecided, Early
<1> PICK timer : timer = TimerOf(r)
  OBVIOUS
<1>1. TimerOf(r)' = timer
  BY DEF TimerOf, Timers, Config, W
<1>2. timer.id # None /\ timer.maxInflight \in Nat /\ IsList(decisions)
  <2>1. ConfigsOK /\ Good(r.config) /\ r.timer \in DOMAIN Timers(r.config)
    BY DEF Inv, RunOK, Counted, Undecided, Early
  <2> QED
    BY <2>1, TimerFields DEF TimerOf, Inv, DecisionsOK
<1> PICK id : id = timer.id
  OBVIOUS
<1>3. Cardinality(Active(id)) < timer.maxInflight
  BY DEF RoomOK, Room
<1>4. Active(id)' \subseteq Active(id) /\ IsFiniteSet(Active(id)) /\ Cardinality(Active(id)) \in Nat
  BY <1>2, ActiveFinite
<1>5. Cardinality(Active(id)') <= Cardinality(Active(id)) /\ Cardinality(Active(id)') \in Nat
  BY <1>4, FS_Subset, FS_CardinalityType
<1>6. Cardinality(Active(id)') < timer.maxInflight
  BY <1>2, <1>3, <1>4, <1>5
<1> QED
  BY <1>1, <1>6 DEF Room

LEMMA SlackStep ==
  ASSUME Inv, Slack, NEW p \in Ticks, Moves(p)
  PROVE  Slack'
<1> PICK y : RoomOK(y) /\ tick' = [tick EXCEPT ![p] = y]
  BY DEF Moves
<1>1. \A r : RoomOK(r)' <=> RoomOK(r)
  <2> TAKE r
  <2>1. TimerOf(r)' = TimerOf(r) /\ \A id : Active(id)' = Active(id)
    BY DEF TimerOf, Timers, Config, W, Active, Moves
  <2> QED
    BY <2>1 DEF RoomOK, Room
<1>2. tick' = [q \in Ticks |-> IF q = p THEN y ELSE tick[q]]
  BY DEF Inv, RunsOK
<1>3. ASSUME NEW q \in Ticks PROVE RoomOK(tick[q])'
  <2> PICK x : x = tick'[q]
    OBVIOUS
  <2>1. RoomOK(x)
    BY <1>2 DEF Slack
  <2>2. RoomOK(x)'
    BY <1>1, <2>1
  <2> QED
    BY <2>2 DEF RoomOK, Room, TimerOf
<1> QED
  BY <1>3 DEF Slack

\* The ticks stand still, and no timer gets an unfinished decision.
Settled ==
  /\ UNCHANGED <<world, tick>>
  /\ \A id : id # None => Active(id)' \subseteq Active(id)

LEMMA SlackStays ==
  ASSUME Inv, Slack, Settled
  PROVE  Slack'
<1>1. ASSUME NEW q \in Ticks PROVE RoomOK(tick[q])'
  <2> PICK x : x = tick[q]
    OBVIOUS
  <2>1. RunOK(x) /\ RoomOK(x)
    BY DEF Slack, Inv, RunsOK
  <2>2. RoomOK(x)'
    BY <2>1, RoomStays DEF Settled
  <2> QED
    BY <2>2 DEF RoomOK, Room, TimerOf, Settled
<1> QED
  BY <1>1 DEF Slack

LEMMA PassingMoves ==
  ASSUME Slack, NEW p \in Ticks, UNCHANGED <<world, decisions>>,
         \E y : Passing(y, tick[p]) /\ tick' = [tick EXCEPT ![p] = y]
  PROVE  Moves(p)
<1>1. PICK y : Passing(y, tick[p]) /\ tick' = [tick EXCEPT ![p] = y]
  OBVIOUS
<1>2. RoomOK(tick[p])
  BY DEF Slack
<1> QED
  BY <1>1, <1>2, PassingRoom DEF Passing, Moves

LEMMA BeginMoves ==
  ASSUME Inv, Slack, NEW p \in Ticks, NEW only, NEW manual, Begin(p, only, manual)
  PROVE  Moves(p)
<1> PICK r : r = [pc |-> "count", config |-> OnDisk, timer |-> 0, only |-> only,
                  manual |-> manual, slot |-> 0, session |-> None, overtaken |-> FALSE]
  OBVIOUS
<1>1. IsRun(r) /\ r.config = OnDisk
  BY DEF IsRun, RunFields
<1>2. ConfigsOK /\ Good(r.config)
  BY <1>1, AcceptedIsGood DEF Inv, Begin
<1>3. PICK y : y = Advance(r, 1) /\ y.pc \in {"idle", "count"}
  BY <1>1, <1>2, AdvanceOK
<1>4. RoomOK(y) /\ y.pc # "annotate" /\ tick' = [tick EXCEPT ![p] = y]
  BY <1>3 DEF RoomOK, Counted, Undecided, Early, Begin
<1> QED
  BY <1>4 DEF Begin, stores, Moves

LEMMA CountMoves ==
  ASSUME Inv, Slack, NEW p \in Ticks, Count(p)
  PROVE  Moves(p)
<1>1. tick[p].pc # "idle" /\ UNCHANGED <<world, decisions>>
  BY DEF Count, At, stores
<1>2. CASE NextTimer(p)
  BY <1>1, <1>2, NextTimerPassing, PassingMoves
<1>3. CASE ~(Cardinality(Active(Timer(p).id)) >= Timer(p).maxInflight) /\ Goto(p, "slot")
  <2> PICK r : r = tick[p]
    OBVIOUS
  <2> PICK y : y = [r EXCEPT !.pc = "slot"]
    OBVIOUS
  <2>1. IsRun(r) /\ TimerOf(r) = Timer(p) /\ ConfigsOK /\ Good(r.config)
        /\ r.timer \in DOMAIN Timers(r.config)
    BY <1>1, Running
  <2>2. y.config = r.config /\ y.timer = r.timer /\ y.pc = "slot"
    BY <2>1 DEF IsRun, RunFields
  <2>3. TimerOf(y) = TimerOf(r) /\ TimerOf(r).maxInflight \in Nat
    BY <2>1, <2>2, TimerFields DEF TimerOf
  <2>4. Cardinality(Active(TimerOf(r).id)) \in Nat
    BY ActiveFinite DEF Inv, DecisionsOK
  <2>5. Room(y)
    BY <1>3, <2>1, <2>3, <2>4 DEF Room
  <2>6. tick' = [tick EXCEPT ![p] = y]
    BY <1>3 DEF Goto, Inv, RunsOK
  <2> QED
    BY <1>1, <2>2, <2>5, <2>6 DEF RoomOK, Moves
<1> QED
  BY <1>2, <1>3 DEF Count

\* The steps of a tick but those that count or decide.
LEMMA TickMoves ==
  ASSUME Inv, Slack, NEW p \in Ticks, tick[p].pc # "idle", UNCHANGED <<world, decisions>>,
         \/ FindSlot(p) \/ Claim(p) \/ Seed(p) \/ ReadContext(p) \/ ResetContext(p)
         \/ CreateIssue(p) \/ InsertEvent(p) \/ Annotate(p) \/ Quit(p)
  PROVE  Moves(p)
<1> DEFINE Passes == \E y : Passing(y, tick[p]) /\ tick' = [tick EXCEPT ![p] = y]
<1>1. CASE FindSlot(p)
  <2>1. ASSUME NEW due, tick' = [tick EXCEPT ![p].pc = "claim", ![p].slot = due] PROVE Passes
    <3> PICK y : y = [tick[p] EXCEPT !.pc = "claim", !.slot = due]
      OBVIOUS
    <3>1. tick[p].pc \in Counted
      BY <1>1 DEF FindSlot, At, Counted
    <3>2. Passing(y, tick[p])
      BY <3>1, MovePassing
    <3>3. tick' = [tick EXCEPT ![p] = y]
      BY <2>1 DEF Inv, RunsOK
    <3> QED
      BY <3>2, <3>3
  <2>2. Passes
    BY <1>1, <2>1, NextTimerPassing DEF FindSlot
  <2> QED
    BY <2>2, PassingMoves
<1>2. CASE ReadContext(p)
  <2>1. tick[p].pc \in Counted
    BY <1>2 DEF ReadContext, At, Counted, Undecided, Early
  <2>2. ASSUME NEW s, tick' = [tick EXCEPT ![p].pc = "issue", ![p].session = s] PROVE Passes
    <3> PICK y : y = [tick[p] EXCEPT !.pc = "issue", !.session = s]
      OBVIOUS
    <3>1. Passing(y, tick[p])
      BY <2>1, MovePassing
    <3>2. tick' = [tick EXCEPT ![p] = y]
      BY <2>2 DEF Inv, RunsOK
    <3> QED
      BY <3>1, <3>2
  <2>3. Passes
    BY <1>2, <2>1, <2>2, GotoPassing DEF ReadContext
  <2> QED
    BY <2>3, PassingMoves
<1>3. CASE Claim(p)
  <2>1. Passes
    BY <1>3, NextTimerPassing, GotoPassing DEF Claim, At, Counted
  <2> QED
    BY <2>1, PassingMoves
<1>4. CASE Seed(p) \/ ResetContext(p) \/ CreateIssue(p)
  <2>1. tick[p].pc \in Counted /\ \E pc \in {"read", "issue", "event"} : Goto(p, pc)
    BY <1>4 DEF Seed, ResetContext, CreateIssue, At, Counted, Undecided, Early
  <2>2. Passes
    BY <2>1, GotoPassing
  <2> QED
    BY <2>2, PassingMoves
<1>5. CASE InsertEvent(p)
  <2>1. tick[p].pc \in Counted /\ (Quit(p) \/ Goto(p, "decision"))
    BY <1>5 DEF InsertEvent, At, Counted, Undecided, Quit
  <2>2. Passes
    BY <2>1, GotoPassing, QuitPassing
  <2> QED
    BY <2>2, PassingMoves
<1>6. CASE Annotate(p) \/ Quit(p)
  <2>1. Passes
    BY <1>6, NextTimerPassing, QuitPassing DEF Annotate
  <2> QED
    BY <2>1, PassingMoves
<1> QED
  BY <1>1, <1>2, <1>3, <1>4, <1>5, <1>6

\* A decision that is unfinished was unfinished before.
LEMMA DecisionRoom ==
  ASSUME Inv, NEW n \in DOMAIN decisions,
         Plan(n) \/ EndRun(n) \/ RecordCompletion(n) \/ LoseCompletion(n)
  PROVE  Settled
<1> PICK d : d = decisions[n]
  OBVIOUS
<1>1. IsList(decisions) /\ d = [f \in DecisionFields |-> d[f]]
  BY DEF Inv, DecisionsOK, DecisionOK, IsDecision
<1>2. \E y : /\ decisions' = [decisions EXCEPT ![n] = y] /\ y.timer = d.timer
             /\ \/ y.state \notin {"pending", "active"}
                \/ y.state = "active" /\ d.state = "pending"
  <2>1. ASSUME NEW s, decisions' = [decisions EXCEPT ![n].state = s],
               s \notin {"pending", "active"} \/ (s = "active" /\ d.state = "pending")
        PROVE  \E y : /\ decisions' = [decisions EXCEPT ![n] = y] /\ y.timer = d.timer
                      /\ \/ y.state \notin {"pending", "active"}
                         \/ y.state = "active" /\ d.state = "pending"
    <3> PICK y : y = [d EXCEPT !.state = s]
      OBVIOUS
    <3>1. y.timer = d.timer /\ y.state = s
      BY <1>1 DEF DecisionFields
    <3> QED
      BY <2>1, <3>1
  <2>2. CASE Plan(n)
    <3>1. CASE decisions' = [decisions EXCEPT ![n].state = "active"]
      BY <2>1, <2>2, <3>1 DEF Plan, Pending
    <3>2. ASSUME NEW refusal,
                 decisions' = [decisions EXCEPT ![n] =
                   [@ EXCEPT !.state = "purged", !.refusal = refusal]]
          PROVE  \E y : /\ decisions' = [decisions EXCEPT ![n] = y] /\ y.timer = d.timer
                        /\ y.state \notin {"pending", "active"}
      <4> PICK y : y = [d EXCEPT !.state = "purged", !.refusal = refusal]
        OBVIOUS
      <4>1. y.timer = d.timer /\ y.state = "purged"
        BY <1>1 DEF DecisionFields
      <4> QED
        BY <3>2, <4>1
    <3> QED
      BY <2>2, <3>1, <3>2 DEF Plan
  <2>3. CASE EndRun(n)
    BY <2>1, <2>3 DEF EndRun
  <2>4. CASE RecordCompletion(n) \/ LoseCompletion(n)
    BY <2>1, <2>4 DEF RecordCompletion, LoseCompletion
  <2> QED
    BY <2>2, <2>3, <2>4
<1>3. \A id : Active(id)' \subseteq Active(id)
  BY <1>2 DEF Active
<1> QED
  BY <1>3 DEF Settled, Plan, EndRun, RecordCompletion, LoseCompletion

\* Decisions of comments are no timer's.
LEMMA CommentRoom ==
  ASSUME Inv, Comment
  PROVE  Settled
<1>1. \E d : decisions' = Append(decisions, d) /\ d.timer = None
  BY DEF Comment, Decide
<1>2. IsList(decisions)
  BY DEF Inv, DecisionsOK
<1>3. \A id : id # None => Active(id)' \subseteq Active(id)
  BY <1>1, <1>2, AppendList DEF Active, IsList
<1> QED
  BY <1>3 DEF Settled, Comment

LEMMA OneAdded ==
  ASSUME NEW S, IsFiniteSet(S), NEW e, NEW T, T \subseteq S \cup {e}
  PROVE  Cardinality(T) \in Nat /\ Cardinality(T) <= Cardinality(S) + 1
<1>1. Cardinality(S) \in Nat
  BY FS_CardinalityType
<1>2. /\ IsFiniteSet(S \cup {e}) /\ Cardinality(S \cup {e}) \in Nat
      /\ Cardinality(S \cup {e}) <= Cardinality(S) + 1
  BY <1>1, FS_AddElement, FS_CardinalityType
<1>3. Cardinality(T) <= Cardinality(S \cup {e}) /\ Cardinality(T) \in Nat
  BY <1>2, FS_Subset, FS_CardinalityType
<1> QED
  BY <1>1, <1>2, <1>3

\* The decision of a tick: one more for its timer, and none for the others.
LEMMA OneMore ==
  ASSUME Inv, NEW p \in Ticks, InsertDecision(p)
  PROVE  /\ \A id : id # Timer(p).id => Active(id)' \subseteq Active(id)
         /\ \A id : /\ Cardinality(Active(id)') \in Nat
                    /\ Cardinality(Active(id)') <= Cardinality(Active(id)) + 1
<1>1. /\ IsList(decisions) /\ IsList(decisions')
      /\ \A n \in DOMAIN decisions : n \in DOMAIN decisions' /\ decisions'[n] = decisions[n]
      /\ \A n \in DOMAIN decisions' : n \in DOMAIN decisions \/ n = Len(decisions) + 1
      /\ decisions'[Len(decisions) + 1].timer = Timer(p).id
  <2>1. \E d : decisions' = Append(decisions, d) /\ d.timer = Timer(p).id
    BY DEF InsertDecision
  <2>2. IsList(decisions)
    BY DEF Inv, DecisionsOK
  <2> QED
    BY <2>1, <2>2, AppendList DEF IsList
<1>2. \A id : Active(id)' \subseteq Active(id) \cup {Len(decisions) + 1}
  BY <1>1 DEF Active
<1>3. \A id : id # Timer(p).id => Active(id)' \subseteq Active(id)
  BY <1>1 DEF Active
<1>4. ASSUME NEW id
      PROVE  /\ Cardinality(Active(id)') \in Nat
             /\ Cardinality(Active(id)') <= Cardinality(Active(id)) + 1
  <2>1. IsFiniteSet(Active(id))
    BY <1>1, ActiveFinite
  <2> QED
    BY <1>2, <2>1, OneAdded
<1> QED
  BY <1>3, <1>4

\* Who counted for the same timer before is marked as overtaken.
LEMMA InsertDecisionRoom ==
  ASSUME Inv, Slack, NEW p \in Ticks, InsertDecision(p)
  PROVE  Slack'
<1>1. world' = world /\ tick[p].pc = "decision"
  BY DEF InsertDecision, At
<1>2. ASSUME NEW q \in Ticks PROVE RoomOK(tick[q])'
  <2> PICK x, y : x = tick[q] /\ y = tick'[q]
    OBVIOUS
  <2>1. SUFFICES ASSUME y.pc \in Counted, ~y.overtaken PROVE Room(y)'
    BY DEF RoomOK, Room, TimerOf
  <2>2. q # p
    <3>1. ASSUME q = p PROVE FALSE
      <4>1. IsRun(x) /\ y = [x EXCEPT !.pc = "annotate"]
        BY <1>1, <3>1, Running DEF InsertDecision
      <4>2. y.pc = "annotate"
        BY <4>1 DEF IsRun, RunFields
      <4> QED
        BY <2>1, <4>2 DEF Counted, Undecided, Early
    <3> QED
      BY <3>1
  <2>3. y = x /\ Timer(q).id # Timer(p).id
    <3>1. CASE x.pc # "idle" /\ Timer(q).id = Timer(p).id
      <4>1. IsRun(x) /\ y = [x EXCEPT !.overtaken = TRUE]
        BY <2>2, <3>1, Running DEF InsertDecision, At
      <4>2. y.overtaken
        BY <4>1 DEF IsRun, RunFields
      <4> QED
        BY <2>1, <4>2
    <3>2. CASE ~(x.pc # "idle" /\ Timer(q).id = Timer(p).id)
      <4>1. y = x
        BY <2>2, <3>2 DEF InsertDecision, At
      <4> QED
        BY <2>1, <3>2, <4>1 DEF Counted, Undecided, Early
    <3> QED
      BY <3>1, <3>2
  <2>4. x.pc # "idle" /\ Room(x)
    BY <2>1, <2>3 DEF Slack, RoomOK, Counted, Undecided, Early
  <2> PICK timer : timer = TimerOf(x)
    OBVIOUS
  <2>5. timer = Timer(q) /\ timer.maxInflight \in Nat /\ IsList(decisions)
    <3>1. /\ ConfigsOK /\ Good(x.config) /\ x.timer \in DOMAIN Timers(x.config)
          /\ timer = Timer(q)
      BY <2>4, Running
    <3>2. timer.maxInflight \in Nat
      BY <3>1, TimerFields DEF TimerOf
    <3> QED
      BY <3>1, <3>2 DEF Inv, DecisionsOK
  <2>6. TimerOf(x)' = timer
    BY <1>1 DEF TimerOf, Timers, Config, W
  <2>7. Active(timer.id)' \subseteq Active(timer.id)
    BY <2>3, <2>5, OneMore
  <2>8. IsFiniteSet(Active(timer.id)) /\ Cardinality(Active(timer.id)) \in Nat
    BY <2>5, ActiveFinite
  <2>9. /\ Cardinality(Active(timer.id)') <= Cardinality(Active(timer.id))
        /\ Cardinality(Active(timer.id)') \in Nat
    BY <2>7, <2>8, FS_Subset, FS_CardinalityType
  <2>10. Cardinality(Active(timer.id)') < timer.maxInflight
    BY <2>4, <2>5, <2>8, <2>9 DEF Room
  <2>11. Room(x)'
    BY <2>6, <2>10 DEF Room
  <2> QED
    BY <2>3, <2>11
<1> QED
  BY <1>2 DEF Slack

\* Every step moves one tick, inserts its decision, or leaves them alone.
LEMMA StepKinds ==
  ASSUME Inv, Slack, [Next]_vars
  PROVE  Settled \/ \E p \in Ticks : Moves(p) \/ InsertDecision(p)
<1>1. ASSUME NEW p \in Ticks, StepOf(p) PROVE Moves(p) \/ InsertDecision(p)
  <2>1. CASE Count(p)
    BY <2>1, CountMoves
  <2>2. CASE \/ FindSlot(p) \/ Claim(p) \/ Seed(p) \/ ReadContext(p) \/ ResetContext(p)
             \/ CreateIssue(p) \/ InsertEvent(p) \/ Annotate(p)
    <3>1. tick[p].pc # "idle" /\ UNCHANGED <<world, decisions>>
      BY <2>2 DEF FindSlot, Claim, Seed, ReadContext, ResetContext, CreateIssue, InsertEvent,
                  Annotate, At, stores
    <3> QED
      BY <2>2, <3>1, TickMoves
  <2>3. CASE NoBody(p)
    BY <2>3, QuitPassing, PassingMoves DEF NoBody, GiveUp
  <2> QED
    BY <1>1, <2>1, <2>2, <2>3 DEF StepOf
<1>2. CASE BeginUnit \/ BeginHand
  <2>1. \E p \in Ticks : \E only, manual : Begin(p, only, manual)
    BY <1>2 DEF BeginUnit, BeginHand, Ticks
  <2> QED
    BY <2>1, BeginMoves
<1>3. CASE Dispatching
  BY <1>3, DecisionRoom DEF Dispatching
<1>4. CASE Mishap
  <2>1. CASE Stop
    BY <2>1 DEF Stop, stores, Active, Settled
  <2>2. ASSUME NEW p \in Ticks, FailEarly(p) \/ FailLate(p) \/ Kill(p) PROVE Moves(p)
    BY <2>2, QuitPassing, PassingMoves DEF FailEarly, FailLate, Kill, GiveUp, stores
  <2> QED
    BY <1>4, <2>1, <2>2, DecisionRoom DEF Mishap
<1>5. CASE TimePasses \/ Edit \/ Reload \/ Start \/ UNCHANGED vars
  BY <1>5 DEF TimePasses, Edit, Reload, Start, vars, stores, Settled, Active
<1> QED
  BY <1>1, <1>2, <1>3, <1>4, <1>5, CommentRoom DEF Next

\* Only a tick that was overtaken leaves its timer with more than max_inflight unfinished
\* decisions: timer_active_dispatch_count is asked before the slot is claimed, and what was
\* counted holds until the decision is inserted unless another tick decides for the timer.
THEOREM InflightLimitHolds == Spec => OverrunOnlyByOverlap
<1>1. Init => Slack
  BY DEF Init, Slack, RoomOK, Idle, Counted, Undecided, Early
<1>2. Inv /\ Slack /\ [Next]_vars => Slack'
  BY StepKinds, SlackStep, SlackStays, InsertDecisionRoom
<1>3. ASSUME Inv, Slack, [Next]_vars, NEW p \in Ticks,
             At(p, "decision"), tick'[p].pc = "annotate", ~tick[p].overtaken
      PROVE  Cardinality(Active(Timer(p).id)') <= Timer(p).maxInflight
  <2>1. InsertDecision(p)
    <3>1. ~Settled /\ \A q \in Ticks : ~Moves(q)
      BY <1>3 DEF Settled, Moves, At, Inv, RunsOK
    <3>2. PICK q \in Ticks : InsertDecision(q)
      BY <1>3, <3>1, StepKinds
    <3>3. CASE q # p
      <4>1. IsRun(tick[p])
        BY <1>3, Running DEF At
      <4>2. tick'[p] = tick[p] \/ tick'[p] = [tick[p] EXCEPT !.overtaken = TRUE]
        BY <3>2, <3>3 DEF InsertDecision
      <4> QED
        BY <1>3, <4>1, <4>2 DEF At, IsRun, RunFields
    <3> QED
      BY <3>2, <3>3
  <2> PICK timer : timer = Timer(p)
    OBVIOUS
  <2>2. /\ ConfigsOK /\ Good(tick[p].config) /\ tick[p].timer \in DOMAIN Timers(tick[p].config)
        /\ timer = TimerOf(tick[p]) /\ IsList(decisions)
    BY <1>3, Running DEF At, Inv, DecisionsOK
  <2>3. timer.maxInflight \in Nat
    BY <2>2, TimerFields DEF TimerOf
  <2>4. Cardinality(Active(timer.id)) < timer.maxInflight
    BY <1>3, <2>2 DEF Slack, RoomOK, Room, At, Counted, Undecided
  <2>5. Cardinality(Active(timer.id)) \in Nat
    BY <2>2, ActiveFinite
  <2>6. /\ Cardinality(Active(timer.id)') \in Nat
        /\ Cardinality(Active(timer.id)') <= Cardinality(Active(timer.id)) + 1
    BY <1>3, <2>1, OneMore
  <2>7. Timer(p)' = timer
    <3>1. IsRun(tick[p]) /\ tick'[p] = [tick[p] EXCEPT !.pc = "annotate"] /\ world' = world
      BY <1>3, <2>1, Running DEF InsertDecision, At
    <3>2. tick'[p].config = tick[p].config /\ tick'[p].timer = tick[p].timer
      BY <3>1 DEF IsRun, RunFields
    <3> QED
      BY <3>1, <3>2 DEF Timer, Timers, Config, W
  <2> QED
    BY <2>3, <2>4, <2>5, <2>6, <2>7
<1>4. Inv /\ Slack /\ [Next]_vars =>
        [\A p \in Ticks :
           At(p, "decision") /\ tick'[p].pc = "annotate" /\ ~tick[p].overtaken
             => Cardinality(Active(Timer(p).id)') <= Timer(p).maxInflight]_vars
  BY <1>3
<1> QED
  BY <1>1, <1>2, <1>4, ScheduleHolds, PTL DEF Spec, OverrunOnlyByOverlap
===============================================================================
