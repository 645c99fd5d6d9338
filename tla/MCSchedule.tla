------------------------------ MODULE MCSchedule ------------------------------
(* The worlds of Schedule that TLC explores, each for a question of its own. *)
EXTENDS Schedule

CONSTANTS Dev, Human, Repo, Docs, tok1, tok2, tok3, scrub, audit, lane

\* Orch and Dev are roles; orchd and a human are allowed as well.
Ranks1 == [l \in {Orchd, Orch, Dev, Human} |->
             CASE l = Orchd -> 10 [] l = Human -> 8 [] l = Orch -> 6 [] l = Dev -> 2]
Ranks2 == [Ranks1 EXCEPT ![Dev] = 6]
NoDevCard == [l \in {Orchd, Orch, Human} |-> Ranks1[l]]

Timer1 ==
  [id |-> scrub, enabled |-> TRUE, interval |-> 1, start |-> 0, catchUp |-> "coalesce",
   maxInflight |-> 1, repo |-> Docs, title |-> scrub, workflow |-> "ready",
   directive |-> "investigate", role |-> Orch, principal |-> None, mode |-> "reuse",
   key |-> None, maxAge |-> 0, maxRuns |-> 0, resetOnFailure |-> TRUE, minPct |-> 50]
Timer2 == [Timer1 EXCEPT !.id = audit, !.role = Dev, !.directive = "impl"]

Text(timers) ==
  [version |-> 1, allowed |-> {Orchd, Human, Blank},
   roles |-> [r \in {Orch, Dev} |->
                IF r = Orch THEN [login |-> Orch, token |-> tok1]
                ELSE [login |-> Dev, token |-> tok2]],
   control |-> tok3,
   acl |-> [enabled |-> TRUE, ranks |-> <<>>, overrides |-> <<>>],
   directives |-> [d \in {"impl", "reply", "investigate"} |-> Dev],
   bindings |-> <<[repo |-> Repo, remote |-> "origin", base |-> "main", sidecar |-> None]>>,
   legacy |-> FALSE, triggers |-> <<>>, timers |-> timers]

World(texts, time, hands, mishaps) ==
  [texts |-> texts, cards |-> <<Ranks1>>, time |-> time, hands |-> hands, edits |-> 0,
   faults |-> mishaps, jitter |-> [s \in 0..3 |-> 0], noBody |-> {}, low |-> {FALSE},
   comments |-> 0, contexts |-> {}]

-----------------------------------------------------------------------------
\* One timer, the unit and a person's tick, calls that fail, processes that die.
Racing == World(<<Text(<<Timer1>>)>>, 0, 1, 2)
RoomForTwo ==
  [World(<<Text(<<[Timer1 EXCEPT !.maxInflight = 2, !.catchUp = "skip", !.maxRuns = 1]>>)>>, 2, 0, 1)
   EXCEPT !.low = BOOLEAN]

\* Two timers with one context, the first one in fresh mode and of another role; a
\* text in which both reuse it is refused.
Shared(mode) ==
  Text(<<[Timer2 EXCEPT !.key = lane, !.mode = mode, !.directive = "reply"],
         [Timer1 EXCEPT !.key = lane]>>)
SharedKey ==
  [World(<<Shared("fresh"), Shared("reuse")>>, 1, 0, 0)
   EXCEPT !.edits = 1]

\* The standing order of the first timer is missing.
NoOrder ==
  [World(<<Text(<<[Timer1 EXCEPT !.maxAge = 1], Timer2>>), Text(<<Timer2, Timer1>>)>>, 2, 0, 1)
   EXCEPT !.noBody = {scrub}, !.edits = 1, !.jitter = [s \in 0..3 |-> s % 2]]

-----------------------------------------------------------------------------
\* Edits under running timers: narrower ranks and an override, a principal below the
\* role (refused), one who acts while orchd is nobody, an impl without a binding, a card
\* that is missing.
Overridden ==
  [Text(<<Timer1>>) EXCEPT !.acl = [enabled |-> TRUE,
     ranks |-> [r \in {6} |-> [own |-> {"reply", "investigate"}, delegation |-> {}]],
     overrides |-> [r \in {Dev} |-> [own |-> {"reply"}, delegation |-> {}]]]]
ByHuman == [Text(<<[Timer1 EXCEPT !.principal = Human]>>) EXCEPT !.allowed = {Human}]
Upward == Text(<<[Timer1 EXCEPT !.principal = Dev]>>)
Unbound == Text(<<[Timer2 EXCEPT !.repo = Docs]>>)

Edits(first, second, third) ==
  [World(<<Text(<<first>>), second, third>>, 0, 0, 1)
   EXCEPT !.edits = 2, !.cards = <<Ranks1, NoDevCard>>]
OverDev == [Timer1 EXCEPT !.role = Dev, !.directive = "reply", !.principal = Orch]

\* Comments that registered triggers answer.
Trigger(id, directive, role) ==
  [id |-> id, priority |-> 0, event |-> "issue_comment", actions |-> {"created"},
   guardDirective |-> "any", guardAssignee |-> "any", guardActor |-> "any",
   actorsNone |-> {}, guardrails |-> FALSE, reason |-> None,
   directive |-> directive, directiveFrom |-> IF directive = None THEN "parsed" ELSE None,
   role |-> role, roleFrom |-> IF role = None THEN "parsed" ELSE None,
   principal |-> None, principalFrom |-> "actor"]
Line(word) ==
  [form |-> "at", name |-> Dev, word |-> word, quoted |-> FALSE, punct |-> FALSE, tail |-> FALSE]
CommentOf(actor, word) ==
  [event |-> "issue_comment", action |-> "created", actor |-> actor, assignees |-> <<>>,
   text |-> <<Line(word)>>, conversation |-> None, repo |-> Docs]
Triggered(triggers) == [Text(<<>>) EXCEPT !.triggers = triggers]
Comments ==
  [World(<<Triggered(<<Trigger(scrub, "reply", Orch), Trigger(audit, None, None)>>),
           Triggered(<<Trigger(scrub, None, None)>>),
           Triggered(<<Trigger(scrub, "triage", Dev)>>),
           [Triggered(<<Trigger(scrub, "impl", Dev)>>)
            EXCEPT !.roles = [r \in {Dev} |-> [login |-> Dev, token |-> tok2]]]>>, 0, 0, 1)
   EXCEPT !.edits = 3, !.comments = 2, !.cards = <<Ranks1, Ranks2>>,
          !.contexts = {CommentOf(Human, "impl"), CommentOf(Dev, "triage")}]

-----------------------------------------------------------------------------
MCWorlds ==
  << Racing, RoomForTwo, SharedKey, NoOrder,
     Edits(Timer1, Overridden, Upward), Edits(OverDev, ByHuman, Unbound), Comments >>

=============================================================================
