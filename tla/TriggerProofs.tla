---------------------------- MODULE TriggerProofs ----------------------------
(***************************************************************************)
(* What decide's loop over the triggers leaves, for every list of          *)
(* triggers and every event.  The loop is a recursive function; that it    *)
(* has a value, and what the value is, are proved by the least position    *)
(* at which the claim would fail.                                          *)
(***************************************************************************)
EXTENDS TriggerRules, WellFoundedInduction, SequenceTheorems, FiniteSetTheorems, TLAPS

-----------------------------------------------------------------------------
(* Sets of natural numbers have a least element.                           *)

Below == {p \in Nat \X Nat : p[1] < p[2]}

LEMMA BelowWellFounded == IsWellFoundedOn(Below, Nat)
<1>1. Below = OpToRel(<, Nat)
  BY DEF Below, OpToRel
<1> QED
  BY <1>1, NatLessThanWellFounded

LEMMA LeastNumber ==
  ASSUME NEW T, T \subseteq Nat, T # {}
  PROVE  \E x \in T : \A y \in T : x <= y
<1>1. \E x \in T : \A y \in T : ~(<<y, x>> \in Below)
  BY BelowWellFounded, WFMin
<1>2. PICK x \in T : \A y \in T : ~(<<y, x>> \in Below)
  BY <1>1
<1>3. ASSUME NEW y \in T PROVE x <= y
  <2>1. x \in Nat /\ y \in Nat
    OBVIOUS
  <2>2. y < x => <<y, x>> \in Below
    BY <2>1 DEF Below
  <2> QED
    BY <1>2, <2>1, <2>2
<1> QED
  BY <1>3

-----------------------------------------------------------------------------
(* Lists and small sets.                                                   *)

LEMMA AppendList ==
  ASSUME NEW s, IsList(s), NEW e
  PROVE  /\ IsList(Append(s, e)) /\ Len(Append(s, e)) = Len(s) + 1
         /\ \A n \in 1..Len(s) : Append(s, e)[n] = s[n]
         /\ Append(s, e)[Len(s) + 1] = e
<1> DEFINE S == {s[n] : n \in 1..Len(s)} \cup {e}
<1>1. s \in Seq(S)
  <2>1. Len(s) \in Nat /\ s \in [1..Len(s) -> S]
    BY DEF IsList
  <2> QED
    BY <2>1
<1>2. e \in S
  OBVIOUS
<1> HIDE DEF S
<1>3. /\ Append(s, e) \in Seq(S) /\ Len(Append(s, e)) = Len(s) + 1
      /\ \A n \in 1..Len(s) : Append(s, e)[n] = s[n]
      /\ Append(s, e)[Len(s) + 1] = e
  BY <1>1, <1>2, AppendProperties
<1>4. IsList(Append(s, e))
  <2> DEFINE a == Append(s, e)
  <2> HIDE DEF a
  <2>1. a \in Seq(S)
    BY <1>3 DEF a
  <2>2. Len(a) \in Nat /\ a \in [1..Len(a) -> S]
    BY <2>1
  <2>3. IsList(a)
    BY <2>2 DEF IsList
  <2> QED
    BY <2>3 DEF a
<1> QED
  BY <1>3, <1>4

LEMMA AtMostOne ==
  ASSUME NEW S, \A m, n \in S : m = n
  PROVE  Cardinality(S) <= 1
<1>1. CASE S = {}
  BY <1>1, FS_EmptySet
<1>2. CASE S # {}
  <2>1. PICK x \in S : TRUE
    BY <1>2
  <2>2. S = {x}
    BY <2>1
  <2> QED
    BY <2>2, FS_Singleton
<1> QED
  BY <1>1, <1>2

-----------------------------------------------------------------------------
(* The order of the triggers.                                              *)

\* Trigger m of the list is better than trigger n: by its class, its priority, or
\* its place.
LexAbove(rank, priority, m, n) ==
  rank > 0 \/ (rank = 0 /\ priority > 0) \/ (rank = 0 /\ priority = 0 /\ m < n)

Better(triggers, m, n) ==
  LexAbove(ClassRank(triggers[m].class) - ClassRank(triggers[n].class),
           triggers[m].priority - triggers[n].priority, m, n)

LEMMA LexTransitive ==
  ASSUME NEW r1 \in Int, NEW r2 \in Int, NEW r3 \in Int,
         NEW p1 \in Int, NEW p2 \in Int, NEW p3 \in Int,
         NEW n1 \in Int, NEW n2 \in Int, NEW n3 \in Int,
         LexAbove(r1 - r2, p1 - p2, n1, n2), LexAbove(r2 - r3, p2 - p3, n2, n3)
  PROVE  LexAbove(r1 - r3, p1 - p3, n1, n3)
BY DEF LexAbove

LEMMA LegacyFields ==
  ASSUME NEW trigger \in LegacyTriggers
  PROVE  /\ trigger.class \in {"explicit_directive", "assignee_reply"}
         /\ trigger.priority \in Int
         /\ trigger.guardrails => trigger.class # "explicit_directive"
         /\ trigger.class = "assignee_reply" => trigger \in {ConversationReply, AssigneeReply}
<1>1. PICK n \in 1..4 : trigger = legacy_trigger_pack[n]
  BY DEF LegacyTriggers
<1>2. \/ trigger = ExplicitOn("issue_comment", "created") \/ trigger = ExplicitOn("issues", "opened")
      \/ trigger = ConversationReply \/ trigger = AssigneeReply
  BY <1>1 DEF legacy_trigger_pack
<1>3. ConversationReply.class = "assignee_reply" /\ ConversationReply.priority = 1
  BY DEF ConversationReply
<1>4. AssigneeReply.class = "assignee_reply" /\ AssigneeReply.priority = 0
  BY DEF AssigneeReply, ConversationReply
<1>5. ASSUME NEW event, NEW action, trigger = ExplicitOn(event, action)
      PROVE  /\ trigger.class = "explicit_directive" /\ trigger.priority = 0
             /\ ~trigger.guardrails
  BY <1>5 DEF ExplicitOn
<1> QED
  BY <1>2, <1>3, <1>4, <1>5

LEMMA TriggerFields ==
  ASSUME NEW triggers, ConfiguredTriggers(triggers), NEW n \in DOMAIN triggers
  PROVE  /\ triggers[n].class \in {"explicit_directive", "assignee_reply", "registered_trigger"}
         /\ ClassRank(triggers[n].class) \in Int
         /\ triggers[n].priority \in Int
         /\ triggers[n].guardrails
              => triggers[n].class \in {"assignee_reply", "registered_trigger"}
BY LegacyFields DEF ConfiguredTriggers, ClassRank

-----------------------------------------------------------------------------
(* The loop.                                                               *)

\* What one turn of the loop makes of the best position so far.
Turn(triggers, ctx, parsed, n, best) ==
  IF Applies(triggers[n], ctx, parsed) /\ prefer_candidate(triggers, n, best)
  THEN n ELSE best

Loop(best, last, triggers, ctx, parsed) ==
  best = [n \in 0..last |->
            IF n = 0 THEN 0 ELSE Turn(triggers, ctx, parsed, n, best[n - 1])]

LEMMA LoopExists ==
  ASSUME NEW triggers, NEW ctx, NEW parsed, NEW last \in Nat
  PROVE  \E best : Loop(best, last, triggers, ctx, parsed)
<1> DEFINE Fails == {m \in Nat : ~\E best : Loop(best, m, triggers, ctx, parsed)}
<1>1. CASE Fails = {}
  BY <1>1
<1>2. ASSUME Fails # {} PROVE FALSE
  <2>1. PICK m \in Fails : \A k \in Fails : m <= k
    <3> HIDE DEF Fails
    <3>1. Fails \subseteq Nat
      BY DEF Fails
    <3> QED
      BY <1>2, <3>1, LeastNumber
  <2>2. CASE m = 0
    <3> DEFINE b == [n \in 0..0 |-> 0]
    <3>1. Loop(b, 0, triggers, ctx, parsed)
      BY DEF Loop
    <3> QED
      BY <2>1, <2>2, <3>1
  <2>3. CASE m > 0
    <3>1. m - 1 \in Nat /\ m - 1 \notin Fails
      BY <2>1, <2>3
    <3>2. PICK b : Loop(b, m - 1, triggers, ctx, parsed)
      BY <3>1
    <3> DEFINE c == [n \in 0..m |-> IF n < m THEN b[n] ELSE Turn(triggers, ctx, parsed, m, b[m - 1])]
    <3>3. ASSUME NEW n \in 0..m
          PROVE  c[n] = IF n = 0 THEN 0 ELSE Turn(triggers, ctx, parsed, n, c[n - 1])
      <4>1. CASE n = m
        <5>1. c[m - 1] = b[m - 1] /\ c[m] = Turn(triggers, ctx, parsed, m, b[m - 1])
          BY <2>3
        <5> QED
          BY <4>1, <5>1, <2>3
      <4>2. CASE n < m
        <5>1. n \in 0..(m - 1) /\ c[n] = b[n] /\ (n # 0 => c[n - 1] = b[n - 1])
          BY <2>3, <4>2
        <5>2. b[n] = IF n = 0 THEN 0 ELSE Turn(triggers, ctx, parsed, n, b[n - 1])
          BY <3>2, <5>1 DEF Loop
        <5> QED
          BY <5>1, <5>2
      <4> QED
        BY <4>1, <4>2
    <3>4. Loop(c, m, triggers, ctx, parsed)
      <4>1. c = [n \in 0..m |-> c[n]]
        OBVIOUS
      <4> HIDE DEF c
      <4> QED
        BY <3>3, <4>1 DEF Loop
    <3> QED
      BY <2>1, <3>4
  <2> QED
    BY <2>1, <2>2, <2>3
<1> QED
  BY <1>1, <1>2

\* The loop's function has the turns for its values.
LEMMA WinnerLoop ==
  ASSUME NEW triggers, NEW ctx, NEW parsed, Len(triggers) \in Nat
  PROVE  \E best : /\ Loop(best, Len(triggers), triggers, ctx, parsed)
                   /\ Winner(triggers, ctx, parsed) = best[Len(triggers)]
<1> DEFINE best == CHOOSE best : best = [n \in 0..Len(triggers) |->
                     IF n = 0 THEN 0
                     ELSE IF /\ Applies(triggers[n], ctx, parsed)
                             /\ prefer_candidate(triggers, n, best[n - 1])
                          THEN n ELSE best[n - 1]]
<1>1. Winner(triggers, ctx, parsed) = best[Len(triggers)]
  BY DEF Winner
<1>2. best = CHOOSE b : Loop(b, Len(triggers), triggers, ctx, parsed)
  BY Zenon DEF Loop, Turn
<1>3. Loop(best, Len(triggers), triggers, ctx, parsed)
  <2> HIDE DEF best
  <2> QED
    BY <1>2, LoopExists
<1> QED
  BY <1>1, <1>3

-----------------------------------------------------------------------------
(* What the loop finds.                                                    *)

\* best is the best of the first last triggers: 0 when none of them applies.
BestOf(triggers, ctx, parsed, last, best) ==
  /\ best \in 0..last
  /\ best = 0 => \A n \in 1..last : ~Applies(triggers[n], ctx, parsed)
  /\ best # 0 => /\ Applies(triggers[best], ctx, parsed)
                 /\ \A n \in 1..last :
                      Applies(triggers[n], ctx, parsed) => ~Better(triggers, n, best)

LEMMA TurnKeepsBest ==
  ASSUME NEW triggers, ConfiguredTriggers(triggers), NEW ctx, NEW parsed,
         NEW last \in 1..Len(triggers), NEW best, BestOf(triggers, ctx, parsed, last - 1, best)
  PROVE  BestOf(triggers, ctx, parsed, last, Turn(triggers, ctx, parsed, last, best))
<1>1. /\ Len(triggers) \in Nat /\ DOMAIN triggers = 1..Len(triggers)
      /\ last \in Nat /\ best \in Nat /\ best < last
  BY DEF ConfiguredTriggers, BestOf
<1>2. \A n \in 1..last : n \in DOMAIN triggers /\ n \in Int
                        /\ ClassRank(triggers[n].class) \in Int /\ triggers[n].priority \in Int
  BY <1>1, TriggerFields
<1>3. CASE ~Applies(triggers[last], ctx, parsed)
  BY <1>1, <1>3 DEF BestOf, Turn
<1>4. CASE Applies(triggers[last], ctx, parsed) /\ best = 0
  <2>1. Turn(triggers, ctx, parsed, last, best) = last
    BY <1>4 DEF Turn, prefer_candidate
  <2>2. ~Better(triggers, last, last)
    BY <1>1, <1>2 DEF Better, LexAbove
  <2> QED
    BY <1>1, <1>4, <2>1, <2>2 DEF BestOf
<1>5. CASE Applies(triggers[last], ctx, parsed) /\ best # 0
  <2>1. best \in 1..last /\ last \in 1..last
    BY <1>1, <1>5
  <2>2. prefer_candidate(triggers, last, best) <=> Better(triggers, last, best)
    BY <1>1, <1>2, <1>5, <2>1 DEF prefer_candidate, Better, LexAbove
  <2>3. ASSUME NEW n \in 1..last, Better(triggers, n, last), Better(triggers, last, best)
        PROVE  Better(triggers, n, best)
    <3>1. n \in Int /\ ClassRank(triggers[n].class) \in Int /\ triggers[n].priority \in Int
      BY <1>2
    <3>2. /\ best \in Int /\ ClassRank(triggers[best].class) \in Int
          /\ triggers[best].priority \in Int
      BY <1>2, <2>1
    <3>3. /\ last \in Int /\ ClassRank(triggers[last].class) \in Int
          /\ triggers[last].priority \in Int
      BY <1>2, <2>1
    <3> DEFINE R(k) == ClassRank(triggers[k].class)
               P(k) == triggers[k].priority
    <3>4. LexAbove(R(n) - R(last), P(n) - P(last), n, last)
      BY <2>3, Zenon DEF Better
    <3>5. LexAbove(R(last) - R(best), P(last) - P(best), last, best)
      BY <2>3, Zenon DEF Better
    <3>6. LexAbove(R(n) - R(best), P(n) - P(best), n, best)
      <4> HIDE DEF R, P
      <4>1. R(n) \in Int /\ R(last) \in Int /\ R(best) \in Int /\ P(n) \in Int
            /\ P(last) \in Int /\ P(best) \in Int
        BY <3>1, <3>2, <3>3 DEF R, P
      <4> QED
        BY <3>1, <3>2, <3>3, <3>4, <3>5, <4>1, LexTransitive
    <3> QED
      BY <3>6, Zenon DEF Better
  <2>4. ~Better(triggers, last, last)
    BY <1>1, <1>2, <2>1 DEF Better, LexAbove
  <2>5. CASE Better(triggers, last, best)
    <3>1. Turn(triggers, ctx, parsed, last, best) = last
      BY <1>5, <2>2, <2>5 DEF Turn
    <3> QED
      BY <1>1, <1>5, <2>3, <2>4, <2>5, <3>1 DEF BestOf
  <2>6. CASE ~Better(triggers, last, best)
    <3>1. Turn(triggers, ctx, parsed, last, best) = best
      BY <1>5, <2>2, <2>6 DEF Turn
    <3> QED
      BY <1>1, <1>5, <2>6, <3>1 DEF BestOf
  <2> QED
    BY <2>5, <2>6
<1> QED
  BY <1>3, <1>4, <1>5

\* decide's loop keeps, of any configured list of triggers, the best that applies: by
\* class, then priority, then place; and none only if none applies.
THEOREM WinnerIsBest ==
  ASSUME NEW triggers, ConfiguredTriggers(triggers), NEW ctx, NEW parsed
  PROVE  BestOf(triggers, ctx, parsed, Len(triggers), Winner(triggers, ctx, parsed))
<1>1. Len(triggers) \in Nat
  BY DEF ConfiguredTriggers
<1>2. PICK best : /\ Loop(best, Len(triggers), triggers, ctx, parsed)
                  /\ Winner(triggers, ctx, parsed) = best[Len(triggers)]
  BY <1>1, WinnerLoop
<1> DEFINE Fails == {m \in 0..Len(triggers) : ~BestOf(triggers, ctx, parsed, m, best[m])}
<1>3. ASSUME Fails # {} PROVE FALSE
  <2>1. PICK m \in Fails : \A k \in Fails : m <= k
    <3> HIDE DEF Fails
    <3>1. Fails \subseteq Nat
      BY DEF Fails
    <3> QED
      BY <1>3, <3>1, LeastNumber
  <2>2. CASE m = 0
    <3>1. best[0] = 0
      BY <1>1, <1>2 DEF Loop
    <3>2. BestOf(triggers, ctx, parsed, 0, 0)
      BY DEF BestOf
    <3> QED
      BY <2>1, <2>2, <3>1, <3>2
  <2>3. CASE m # 0
    <3>1. m \in 1..Len(triggers) /\ m - 1 \in 0..Len(triggers) /\ m - 1 \notin Fails
      BY <1>1, <2>1, <2>3
    <3>2. BestOf(triggers, ctx, parsed, m - 1, best[m - 1])
      BY <3>1
    <3>3. best[m] = Turn(triggers, ctx, parsed, m, best[m - 1])
      BY <1>1, <1>2, <3>1 DEF Loop
    <3> QED
      BY <2>1, <3>1, <3>2, <3>3, TurnKeepsBest
  <2> QED
    BY <2>2, <2>3
<1>4. Len(triggers) \in 0..Len(triggers) /\ Len(triggers) \notin Fails
  BY <1>1, <1>3
<1> QED
  BY <1>2, <1>4
=============================================================================
