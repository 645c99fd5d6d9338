--------------------------- MODULE MCWebhookIngest ---------------------------
(* The worlds of WebhookIngest that TLC explores: one issue, on which humans *)
(* and roles comment.                                                        *)
EXTENDS WebhookIngest

CONSTANTS Human, Dev, Issue, t1, t2

Line(form, name, word) ==
  [form |-> form, name |-> name, word |-> word,
   quoted |-> FALSE, punct |-> FALSE, tail |-> FALSE]
ImplNow == <<Line("at", Dev, "impl")>>

Carries(ctx, anchor) == [issue |-> Issue, anchor |-> anchor, ctx |-> ctx]
Comment(actor, text, anchor) ==
  Carries([event |-> "issue_comment", action |-> "created", actor |-> actor,
           assignees |-> <<Dev>>, text |-> text, conversation |-> None], anchor)

World(content, triggers, tasks, sent, cuts, time) ==
  [content |-> content, anonymous |-> {}, triggers |-> triggers, tasks |-> tasks,
   depth |-> 2, sends |-> sent, cuts |-> cuts, time |-> time]

\* A directive under two delivery ids, the second without a header, and another
\* comment, each sent twice.
Redelivery ==
  [World(<<Comment(Human, ImplNow, 1), Comment(Human, ImplNow, 1), Comment(Orch, <<>>, 2)>>,
         legacy_trigger_pack, {t1, t2}, 2, 1, 0)
   EXCEPT !.anonymous = {2}]

\* Three comments race through the guardrails while the clock passes the window and
\* the cooldown.
Guardrails(depth) ==
  [World([n \in 1..3 |-> Comment(Human, <<>>, n)], legacy_trigger_pack, {t1, t2}, 1, 0, 3)
   EXCEPT !.depth = depth]

-----------------------------------------------------------------------------
\* One event after another against four trigger lists, one at a time.  Silence, a
\* directive after prose, an alias, and three lines that must not parse.
Texts ==
  { <<>>, <<Line("prose", Human, "other"), Line("at", Dev, "impl")>>,
    <<Line("cc", "codex", "other")>>,
    <<[Line("at", Dev, "impl") EXCEPT !.tail = TRUE],
      [Line("at", Orch, "poke") EXCEPT !.tail = TRUE, !.punct = TRUE]>>,
    <<[Line("cc", Dev, "other") EXCEPT !.quoted = TRUE]>>,
    <<Line("at", Human, "impl"), Line("at", Dev, "other")>> }

Contexts ==
  { ctx \in
      [event: {"issue_comment", "issues"}, action: {"created", "opened", "edited"},
       actor: {Human, Dev, None}, assignees: {<<>>, <<Dev>>, <<Dev, Orch>>, <<Human>>},
       text: Texts, conversation: {None}] :
    ctx.action # IF ctx.event = "issues" THEN "created" ELSE "opened" }

Registered(priority, role, principal) ==
  [AssigneeReply EXCEPT !.class = "registered_trigger", !.priority = priority,
     !.guardDirective = "any", !.guardAssignee = "any", !.guardActor = "any",
     !.actorsNone = {Dev}, !.role = role, !.principal = principal]
Eager == Registered(9, Orch, "actor")
OnAssignee == Registered(9, "assignee", Orch)
OnParsed == [Registered(-1, "parsed", "actor") EXCEPT !.directive = "parsed"]

Packs ==
  { legacy_trigger_pack, <<Eager>> \o legacy_trigger_pack,
    legacy_trigger_pack \o <<OnAssignee, Eager>>, <<OnParsed, Eager, OnAssignee>> }

\* What was said before: nothing, or a role's comment.
Before == {<<>>} \cup {<<Comment(role, <<>>, 1)>> : role \in Roles}

MCWorlds ==
  {Redelivery, Guardrails(1), Guardrails(2)} \cup
  {World(before \o <<Carries(ctx, 2)>>, pack, {t1}, 1, 0, 0) :
     before \in Before, ctx \in Contexts, pack \in Packs}

=============================================================================
