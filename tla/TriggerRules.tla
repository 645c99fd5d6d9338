----------------------------- MODULE TriggerRules -----------------------------
(***************************************************************************)
(* The rules by which orchd reads an event: what a text asks for, whether  *)
(* a trigger's guards hold, and whom a matching trigger would dispatch.    *)
(* Logins and directives are model values or short names; a text is a      *)
(* sequence of lines, and a line is what its tokens are, not its spelling. *)
(***************************************************************************)
EXTENDS Integers, Sequences

CONSTANTS
  Roles,   \* logins that start with codex-
  Orch,    \* codex-orch, which the bare name codex stands for
  None     \* an absent value

ASSUME TriggerConstants == Orch \in Roles /\ None \notin Roles

\* A sequence of anything.
IsList(s) == Len(s) \in Nat /\ s = [n \in 1..Len(s) |-> s[n]]

Directives ==
  {"design", "investigate", "triage", "impl", "reply", "audit", "audit-failure"}

-----------------------------------------------------------------------------
(* Directives in texts.  A line: [form: "cc", "at" or "prose"; name: the   *)
(* role token; quoted: it or the directive token holds a quote; word: the  *)
(* directive token; punct: that token ends in one of , . ; : ; tail: more  *)
(* text follows it].                                                       *)

RoleOfName(name) ==
  IF name = "codex" THEN Orch ELSE IF name \in Roles THEN name ELSE None

ParseDirectiveLine(line) ==
  LET role == RoleOfName(line.name)
  IN  IF line.quoted \/ role = None THEN None
      ELSE IF line.form = "cc" THEN [role |-> role, directive |-> "reply"]
      ELSE IF /\ line.form = "at"
              /\ line.tail => line.punct
              /\ line.word \in Directives \cup {"poke"}
           THEN [role |-> role,
                 directive |-> IF line.word = "poke" THEN "reply" ELSE line.word]
           ELSE None

\* The first line that parses decides.
ParseDirective(text) ==
  LET parsed == SelectSeq([n \in DOMAIN text |-> ParseDirectiveLine(text[n])],
                          LAMBDA directive : directive # None)
  IN  IF parsed = <<>> THEN None ELSE parsed[1]

-----------------------------------------------------------------------------
(* Triggers *)

ClassRank(class) ==
  CASE class = "explicit_directive" -> 3
    [] class = "assignee_reply"     -> 2
    [] class = "registered_trigger" -> 1

ExplicitOn(event, action) ==
  [class |-> "explicit_directive", priority |-> 0, event |-> event,
   actions |-> {action}, guardDirective |-> "require_parsed",
   guardAssignee |-> "any", guardActor |-> "any", actorsNone |-> {},
   directive |-> "parsed", role |-> "parsed", principal |-> "actor",
   guardrails |-> FALSE]

ConversationReply ==
  [class |-> "assignee_reply", priority |-> 1, event |-> "issue_comment",
   actions |-> {"created"}, guardDirective |-> "require_absent",
   guardAssignee |-> "any", guardActor |-> "any", actorsNone |-> {},
   directive |-> "reply", role |-> "conversation", principal |-> "conversation",
   guardrails |-> TRUE]

AssigneeReply ==
  [ConversationReply EXCEPT !.priority = 0,
                            !.guardAssignee = "require_single_codex",
                            !.guardActor = "require_not_assignee",
                            !.role = "assignee", !.principal = "assignee"]

legacy_trigger_pack ==
  << ExplicitOn("issue_comment", "created"), ExplicitOn("issues", "opened"),
     ConversationReply, AssigneeReply >>

\* What a configuration loads: the legacy pack or nothing of it, and the triggers it
\* registers.  Their order is left open.
LegacyTriggers == {legacy_trigger_pack[n] : n \in 1..4}

ConfiguredTriggers(triggers) ==
  /\ Len(triggers) \in Nat /\ DOMAIN triggers = 1..Len(triggers)
  /\ \A n \in DOMAIN triggers :
       \/ triggers[n] \in LegacyTriggers
       \/ /\ triggers[n].class = "registered_trigger"
          /\ triggers[n].priority \in Int /\ triggers[n].guardrails \in BOOLEAN
  /\ \A n \in DOMAIN triggers : triggers[n].class # "registered_trigger" =>
       \A legacy \in LegacyTriggers : \E m \in DOMAIN triggers : triggers[m] = legacy

\* The context of an event: [event, action, actor, assignees, text,
\* conversation], the last one a role or None.
single_codex_assignee(ctx) ==
  IF Len(ctx.assignees) = 1 /\ ctx.assignees[1] \in Roles
  THEN ctx.assignees[1] ELSE None

Matches(trigger, ctx) ==
  ctx.event = trigger.event /\ ctx.action \in trigger.actions

\* Mutant: an assignee's own comment passes the actor guard.
MutGuardsAnyActor(trigger, ctx, parsed) ==
  /\ trigger.guardDirective = "require_parsed" => parsed # None
  /\ trigger.guardDirective = "require_absent" => parsed = None
  /\ trigger.guardAssignee = "require_single_codex" =>
       single_codex_assignee(ctx) # None
  /\ ctx.actor # None => ctx.actor \notin trigger.actorsNone

trigger_guards_hold(trigger, ctx, parsed) ==
  LET assignee == single_codex_assignee(ctx)
  IN  /\ trigger.guardDirective = "require_parsed" => parsed # None
      /\ trigger.guardDirective = "require_absent" => parsed = None
      /\ trigger.guardAssignee = "require_single_codex" => assignee # None
      /\ ctx.actor # None => ctx.actor \notin trigger.actorsNone
      /\ trigger.guardActor = "require_not_assignee" =>
           assignee # None /\ ctx.actor # None /\ ctx.actor # assignee

resolve_trigger_directive(trigger, parsed) ==
  IF trigger.directive # "parsed" THEN trigger.directive
  ELSE IF parsed = None THEN None ELSE parsed.directive

\* A role or a principal: a literal, or where it is to be taken from.
Resolve(source, ctx, parsed) ==
  CASE source = "parsed"       -> IF parsed = None THEN None ELSE parsed.role
    [] source = "assignee"     -> single_codex_assignee(ctx)
    [] source = "conversation" -> ctx.conversation
    [] source = "actor"        -> IF ctx.actor = None THEN "" ELSE ctx.actor
    [] OTHER                   -> source

\* The trigger would dispatch this event.
Applies(trigger, ctx, parsed) ==
  /\ Matches(trigger, ctx)
  /\ trigger_guards_hold(trigger, ctx, parsed)
  /\ resolve_trigger_directive(trigger, parsed) # None
  /\ Resolve(trigger.role, ctx, parsed) # None
  /\ Resolve(trigger.principal, ctx, parsed) # None

\* Mutant: on equal priorities the later trigger wins.
MutPreferLater(triggers, n, best) ==
  \/ best = 0
  \/ LET rank == ClassRank(triggers[n].class)
         bestRank == ClassRank(triggers[best].class)
     IN  \/ rank > bestRank
         \/ /\ rank = bestRank
            /\ triggers[n].priority >= triggers[best].priority

\* best is the position of the best trigger so far, 0 for none.
prefer_candidate(triggers, n, best) ==
  \/ best = 0
  \/ LET rank == ClassRank(triggers[n].class)
         bestRank == ClassRank(triggers[best].class)
     IN  \/ rank > bestRank
         \/ /\ rank = bestRank
            /\ \/ triggers[n].priority > triggers[best].priority
               \/ /\ triggers[n].priority = triggers[best].priority
                  /\ n < best

\* decide: the triggers in their order, keeping the best candidate so far; best[n] is
\* the best of the first n.
Winner(triggers, ctx, parsed) ==
  LET best[n \in 0..Len(triggers)] ==
        IF n = 0 THEN 0
        ELSE IF /\ Applies(triggers[n], ctx, parsed)
                /\ prefer_candidate(triggers, n, best[n - 1])
             THEN n ELSE best[n - 1]
  IN  best[Len(triggers)]

\* What the trigger at position n makes of the event.
Outcome(triggers, n, ctx, parsed) ==
  [trigger |-> n,
   directive |-> resolve_trigger_directive(triggers[n], parsed),
   role |-> Resolve(triggers[n].role, ctx, parsed),
   principal |-> Resolve(triggers[n].principal, ctx, parsed),
   guardrails |-> triggers[n].guardrails]

\* What a winning trigger makes of the event; edits never dispatch.
decide(triggers, won, ctx, parsed) ==
  IF ctx.action = "edited" \/ won = 0 THEN None
  ELSE Outcome(triggers, won, ctx, parsed)

=============================================================================
