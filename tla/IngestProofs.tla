---------------------------- MODULE IngestProofs ----------------------------
(***************************************************************************)
(* Theorems about WebhookIngest for every world: any deliveries, any       *)
(* configured list of triggers, any number of requests and any limits.     *)
(*                                                                         *)
(* Shape types a reachable state and says what a request has decided.  On  *)
(* it rest four invariants, each inductive given Shape: who answers which  *)
(* event (Answered), who holds which key (KeysOK), how long ago a decision *)
(* was made (ClockOK), and how many requests the guardrails have let       *)
(* through (DepthOK).                                                      *)
(***************************************************************************)
EXTENDS WebhookIngest, TriggerProofs, SequenceTheorems, FiniteSetTheorems

-----------------------------------------------------------------------------
(* The largest of some rows of a table.                                    *)

LEMMA LargestNumber ==
  ASSUME NEW N \in Nat, NEW T, T \subseteq 1..N, T # {}
  PROVE  \E x \in T : \A y \in T : y <= x
<1> DEFINE S == {N - y : y \in T}
<1>1. S \subseteq Nat
  OBVIOUS
<1>2. S # {}
  <2>1. PICK y \in T : TRUE
    OBVIOUS
  <2>2. N - y \in S
    BY <2>1
  <2> QED
    BY <2>2
<1> HIDE DEF S
<1>3. PICK s \in S : \A z \in S : s <= z
  BY <1>1, <1>2, LeastNumber
<1>4. PICK x \in T : s = N - x
  BY DEF S
<1>5. ASSUME NEW y \in T PROVE y <= x
  <2>1. N - y \in S
    BY DEF S
  <2> QED
    BY <1>3, <1>4, <2>1
<1> QED
  BY <1>5

-----------------------------------------------------------------------------
(* A request's record.                                                     *)

Request(O, K) ==
  [pc: {"idle", "decide", "claim", "total", "recent", "last", "insert"},
   id: Nat, began: Nat, accepted: BOOLEAN, outcome: O, key: K,
   since: Int, total: Nat, recent: Nat]

RequestOK(x) == \E O, K : x \in Request(O, K)

TasksOK ==
  /\ task = [t \in Tasks |-> task[t]]
  /\ \A t \in Tasks : RequestOK(task[t])

Others(t) == \A u \in Tasks : u # t => task'[u] = task[u]

LEMMA OneTask ==
  ASSUME TasksOK, NEW t \in Tasks, NEW x, RequestOK(x), task' = [task EXCEPT ![t] = x]
  PROVE  TasksOK' /\ task'[t] = x /\ Others(t)
BY DEF TasksOK, Others

LEMMA IdleOK == RequestOK(Idle)
<1>1. Idle \in Request({None}, {<<>>})
  BY DEF Idle, Request
<1> QED
  BY <1>1 DEF RequestOK

LEMMA NewOK ==
  ASSUME NEW id \in Nat, NEW began \in Nat
  PROVE  LET x == [Idle EXCEPT !.pc = "decide", !.id = id, !.began = began]
         IN  RequestOK(x) /\ x.pc = "decide" /\ x.id = id /\ x.began = began
<1> DEFINE x == [Idle EXCEPT !.pc = "decide", !.id = id, !.began = began]
<1>1. Idle \in Request({None}, {<<>>})
  BY DEF Idle, Request
<1>2. x \in Request({None}, {<<>>}) /\ x.pc = "decide" /\ x.id = id /\ x.began = began
  BY <1>1 DEF Request
<1> QED
  BY <1>1, <1>2 DEF RequestOK

-----------------------------------------------------------------------------
(* The shape of a state.                                                   *)

\* What decide makes of the event with this id.
OutcomeOf(id) ==
  LET ctx == ContextOf(id)
      parsed == ParseDirective(ctx.text)
  IN  decide(Triggers, Winner(Triggers, ctx, parsed), ctx, parsed)

Rows == 1..Len(decisions)

RowOK(row, n) ==
  /\ row.event \in 1..Len(events)
  /\ row.issue = Content[events[row.event]].issue
  /\ row.accepted \in BOOLEAN
  /\ row.accepted => row.trigger \in DOMAIN Triggers
  /\ row.at \in 0..now
  /\ row.began \in 0..(n - 1)

\* A busy request works for a recorded event; once decided it keeps the outcome, and
\* there is one wherever it may still be accepted.
BusyOK(t, x) ==
  /\ x.pc # "idle" => /\ t \in world.tasks
                      /\ x.id \in 1..Len(events) /\ x.began \in 0..Len(decisions)
  /\ x.pc \notin {"idle", "decide"} => x.outcome = OutcomeOf(x.id)
  /\ x.pc \in {"claim", "total", "recent", "last"} => x.outcome # None
  /\ x.pc = "insert" /\ x.accepted => x.outcome # None

TablesOK ==
  /\ world \in Worlds /\ now \in Nat
  /\ IsList(events) /\ \A n \in 1..Len(events) : events[n] \in Deliveries
  /\ IsList(decisions) /\ \A n \in Rows : RowOK(decisions[n], n)

Shape ==
  /\ TablesOK /\ TasksOK
  /\ \A t \in Tasks : BusyOK(t, task[t])

LEMMA WorldFacts ==
  ASSUME TablesOK
  PROVE  /\ ConfiguredTriggers(Triggers)
         /\ world.tasks \subseteq Tasks /\ world.tasks # {} /\ IsFiniteSet(world.tasks)
         /\ world.depth \in Nat \ {0}
BY IngestConstants, FS_Subset DEF TablesOK, IngestConstants, Triggers

\* What is decided of an event does not change with the events that follow it.
LEMMA OutcomeStable ==
  ASSUME TablesOK, world' = world, NEW id \in 1..Len(events),
         \A n \in 1..Len(events) : events'[n] = events[n]
  PROVE  OutcomeOf(id)' = OutcomeOf(id)
<1>1. Content' = Content /\ Triggers' = Triggers
  BY DEF Content, Triggers
<1>2. id - 1 <= Len(events) /\ \A n \in 1..id : events'[n] = events[n]
  BY DEF TablesOK, IsList
<1> DEFINE H(e) == {n \in 1..(id - 1) :
                      /\ Content[e[n]].issue = Content[e[id]].issue
                      /\ Content[e[n]].ctx.event = "issue_comment"
                      /\ Content[e[n]].ctx.action = "created"
                      /\ Content[e[n]].ctx.actor \in Roles}
<1>3. {n \in 1..(id - 1) :
         /\ Content[events'[n]].issue = Content[events'[id]].issue
         /\ Content[events'[n]].ctx.event = "issue_comment"
         /\ Content[events'[n]].ctx.action = "created"
         /\ Content[events'[n]].ctx.actor \in Roles} = H(events)
  BY <1>2 DEF TablesOK, IsList
<1>4. latest_role_comment(id)' = latest_role_comment(id)
  <2> DEFINE L == CHOOSE n \in H(events) : \A other \in H(events) : other <= n
  <2>1. H(events) \subseteq 1..Len(events)
    BY <1>2 DEF TablesOK, IsList
  <2>2. CASE H(events) = {}
    BY <1>1, <1>3, <2>2 DEF latest_role_comment
  <2>3. CASE H(events) # {}
    <3>1. L \in H(events)
      <4> HIDE DEF H
      <4>1. \E n \in H(events) : \A other \in H(events) : other <= n
        BY <2>1, <2>3, LargestNumber DEF TablesOK, IsList
      <4> QED
        BY <4>1
    <3>2. events'[L] = events[L]
      BY <2>1, <3>1
    <3>3. latest_role_comment(id) = Content[events[L]].ctx.actor
      BY <2>3 DEF latest_role_comment
    <3>4. latest_role_comment(id)' = Content[events'[L]].ctx.actor
      BY <1>1, <1>3, <2>3 DEF latest_role_comment
    <3> QED
      BY <3>2, <3>3, <3>4
  <2> QED
    BY <2>2, <2>3
<1>5. ContextOf(id)' = ContextOf(id)
  BY <1>1, <1>2, <1>4 DEF ContextOf
<1> QED
  BY <1>1, <1>5 DEF OutcomeOf
-----------------------------------------------------------------------------
(* What one step changes.                                                  *)

\* A request moves on with the event it works for, or goes.
Moved(t) ==
  /\ task[t].pc # "idle" /\ task'[t].pc # "idle"
  /\ TasksOK' /\ Others(t)
  /\ task'[t].id = task[t].id /\ task'[t].began = task[t].began

Gone(t) == TasksOK' /\ Others(t) /\ task'[t] = Idle

LEMMA ReceiveStep ==
  ASSUME Shape, NEW t \in Tasks, NEW d \in Deliveries, Receive(t, d)
  PROVE  /\ UNCHANGED <<claims, decisions, now>>
         /\ \/ events' = events /\ task' = task
            \/ /\ d \in world.anonymous \/ \A n \in 1..Len(events) : events[n] # d
               /\ task[t].pc = "idle" /\ task'[t].pc = "decide"
               /\ task'[t].id = Len(events) + 1 /\ task'[t].began = Len(decisions)
               /\ events' = Append(events, d) /\ TasksOK' /\ Others(t)
<1>1. CASE d \notin world.anonymous /\ \E n \in DOMAIN events : events[n] = d
  BY <1>1 DEF Receive
<1>2. CASE ~(d \notin world.anonymous /\ \E n \in DOMAIN events : events[n] = d)
  <2> DEFINE x == [Idle EXCEPT !.pc = "decide", !.id = Len(events) + 1, !.began = Len(decisions)]
  <2>1. task' = [task EXCEPT ![t] = x] /\ events' = Append(events, d)
        /\ UNCHANGED <<claims, decisions, now>> /\ task[t].pc = "idle"
    BY <1>2 DEF Receive
  <2>2. Len(events) + 1 \in Nat /\ Len(decisions) \in Nat /\ DOMAIN events = 1..Len(events)
    BY DEF Shape, TablesOK, IsList
  <2>3. RequestOK(x) /\ x.pc = "decide" /\ x.id = Len(events) + 1 /\ x.began = Len(decisions)
    BY <2>2, NewOK
  <2> HIDE DEF x
  <2>4. TasksOK' /\ task'[t] = x /\ Others(t)
    BY <2>1, <2>3, OneTask DEF Shape
  <2> QED
    BY <1>2, <2>1, <2>2, <2>3, <2>4
<1> QED
  BY <1>1, <1>2

LEMMA DecideStep ==
  ASSUME Shape, NEW t \in Tasks, Decide(t)
  PROVE  /\ UNCHANGED <<events, claims, decisions, now>> /\ Moved(t)
         /\ task[t].pc = "decide"
         /\ task'[t].outcome = OutcomeOf(task[t].id)
         /\ task'[t].pc = IF task'[t].outcome = None THEN "insert" ELSE "claim"
         /\ task'[t].accepted <=> task'[t].outcome # None
<1> DEFINE o == OutcomeOf(task[t].id)
           pc == IF o = None THEN "insert" ELSE "claim"
           acc == o # None
           x == [task[t] EXCEPT !.pc = pc, !.accepted = acc, !.outcome = o]
<1>1. task' = [task EXCEPT ![t] = x] /\ UNCHANGED <<events, claims, decisions, now>>
      /\ task[t].pc = "decide"
  BY DEF Decide, OutcomeOf, Shape, TasksOK
<1>2. PICK O, K : task[t] \in Request(O, K)
  BY DEF Shape, TasksOK, RequestOK
<1>3. pc \in {"insert", "claim"} /\ acc \in BOOLEAN
  OBVIOUS
<1>4. pc = IF o = None THEN "insert" ELSE "claim"
  OBVIOUS
<1>5. acc <=> o # None
  OBVIOUS
<1> HIDE DEF o, pc, acc
<1>6. /\ x \in Request(O \cup {o}, K)
      /\ x.pc = pc /\ x.outcome = o /\ x.id = task[t].id /\ x.began = task[t].began
  BY <1>2, <1>3 DEF Request
<1>7. x.accepted = acc
  BY <1>2 DEF Request
<1>8. RequestOK(x)
  BY <1>6 DEF RequestOK
<1> HIDE DEF x
<1>9. TasksOK' /\ task'[t] = x /\ Others(t)
  BY <1>1, <1>8, OneTask DEF Shape
<1>10. Moved(t)
  BY <1>1, <1>3, <1>6, <1>9 DEF Moved
<1>11. task'[t].accepted <=> task'[t].outcome # None
  BY <1>5, <1>6, <1>7, <1>9
<1>12. task'[t].pc = IF task'[t].outcome = None THEN "insert" ELSE "claim"
  BY <1>4, <1>6, <1>9
<1> QED
  BY <1>1, <1>6, <1>9, <1>10, <1>11, <1>12 DEF o

KeyOf(t) == trigger_dedupe_key(events[task[t].id], task[t].outcome.trigger)

LEMMA ClaimStep ==
  ASSUME Shape, NEW t \in Tasks, Claim(t)
  PROVE  /\ UNCHANGED <<events, decisions, now>> /\ Moved(t)
         /\ claims' = claims \cup {KeyOf(t)} /\ task[t].pc = "claim"
         /\ task'[t].key = KeyOf(t) /\ task'[t].outcome = task[t].outcome
         /\ task'[t].accepted <=> KeyOf(t) \notin claims
         /\ task'[t].pc = IF KeyOf(t) \notin claims /\ task[t].outcome.guardrails
                          THEN "total" ELSE "insert"
<1> DEFINE k == KeyOf(t)
           pc == IF k \notin claims /\ task[t].outcome.guardrails THEN "total" ELSE "insert"
           acc == k \notin claims
           since == now - Window
           x == [task[t] EXCEPT !.pc = pc, !.accepted = acc, !.key = k, !.since = since]
<1>1. task' = [task EXCEPT ![t] = x] /\ UNCHANGED <<events, decisions, now>>
      /\ task[t].pc = "claim" /\ claims' = claims \cup {k}
  BY DEF Claim, KeyOf, Shape, TasksOK
<1>2. PICK O, K : task[t] \in Request(O, K)
  BY DEF Shape, TasksOK, RequestOK
<1>3. pc \in {"insert", "total"} /\ acc \in BOOLEAN
  OBVIOUS
<1>4. since \in Int
  BY IngestConstants DEF IngestConstants, Shape, TablesOK
<1>5. acc <=> k \notin claims
  OBVIOUS
<1>6. pc = IF k \notin claims /\ task[t].outcome.guardrails THEN "total" ELSE "insert"
  OBVIOUS
<1> HIDE DEF k, pc, acc, since
<1>7. /\ x \in Request(O, K \cup {k})
      /\ x.pc = pc /\ x.key = k /\ x.id = task[t].id /\ x.began = task[t].began
      /\ x.outcome = task[t].outcome
  BY <1>2, <1>3, <1>4 DEF Request
<1>8. x.accepted = acc
  BY <1>2 DEF Request
<1>9. RequestOK(x)
  BY <1>7 DEF RequestOK
<1> HIDE DEF x
<1>10. TasksOK' /\ task'[t] = x /\ Others(t)
  BY <1>1, <1>9, OneTask DEF Shape
<1>11. Moved(t)
  BY <1>1, <1>3, <1>7, <1>10 DEF Moved
<1>12. task'[t].accepted <=> k \notin claims
  BY <1>5, <1>8, <1>10
<1> QED
  BY <1>1, <1>6, <1>7, <1>10, <1>11, <1>12 DEF k

\* The three reads of the guardrail statistics keep the outcome and the key.
Reads(t) ==
  /\ UNCHANGED <<events, claims, decisions, now>> /\ Moved(t)
  /\ task'[t].outcome = task[t].outcome /\ task'[t].key = task[t].key

LEMMA RowsFinite ==
  ASSUME TablesOK, NEW S, S \subseteq Rows
  PROVE  IsFiniteSet(S) /\ Cardinality(S) \in Nat
<1>1. IsFiniteSet(1..Len(decisions))
  BY FS_Interval DEF TablesOK, IsList
<1>2. IsFiniteSet(S)
  BY <1>1, FS_Subset DEF Rows
<1> QED
  BY <1>2, FS_CardinalityType

LEMMA TriggerRowsAreRows ==
  ASSUME TablesOK, NEW i
  PROVE  TriggerRows(i) \subseteq Rows
BY DEF TablesOK, IsList, TriggerRows, Rows

LEMMA ReadTotalStep ==
  ASSUME Shape, NEW t \in Tasks, ReadTotal(t)
  PROVE  /\ Reads(t) /\ task[t].pc = "total" /\ task'[t].pc = "recent"
         /\ task'[t].total = Cardinality(TriggerRows(IssueOf(t)))
<1> DEFINE c == Cardinality(TriggerRows(IssueOf(t)))
           x == [task[t] EXCEPT !.pc = "recent", !.total = c]
<1>1. task' = [task EXCEPT ![t] = x] /\ UNCHANGED <<events, claims, decisions, now>>
      /\ task[t].pc = "total"
  BY DEF ReadTotal, Shape, TasksOK
<1>2. PICK O, K : task[t] \in Request(O, K)
  BY DEF Shape, TasksOK, RequestOK
<1>3. c \in Nat
  BY RowsFinite, TriggerRowsAreRows DEF Shape
<1> HIDE DEF c
<1>4. /\ x \in Request(O, K)
      /\ x.pc = "recent" /\ x.total = c /\ x.key = task[t].key /\ x.id = task[t].id
      /\ x.began = task[t].began /\ x.outcome = task[t].outcome
  BY <1>2, <1>3 DEF Request
<1>5. RequestOK(x)
  BY <1>4 DEF RequestOK
<1> HIDE DEF x
<1>6. TasksOK' /\ task'[t] = x /\ Others(t)
  BY <1>1, <1>5, OneTask DEF Shape
<1> QED
  BY <1>1, <1>4, <1>6 DEF Moved, Reads, c

LEMMA ReadRecentStep ==
  ASSUME Shape, NEW t \in Tasks, ReadRecent(t)
  PROVE  /\ Reads(t) /\ task[t].pc = "recent" /\ task'[t].pc = "last"
         /\ task'[t].total = task[t].total
<1> DEFINE c == Cardinality({n \in TriggerRows(IssueOf(t)) : decisions[n].at >= task[t].since})
           x == [task[t] EXCEPT !.pc = "last", !.recent = c]
<1>1. task' = [task EXCEPT ![t] = x] /\ UNCHANGED <<events, claims, decisions, now>>
      /\ task[t].pc = "recent"
  BY DEF ReadRecent, Shape, TasksOK
<1>2. PICK O, K : task[t] \in Request(O, K)
  BY DEF Shape, TasksOK, RequestOK
<1>3. c \in Nat
  <2>1. {n \in TriggerRows(IssueOf(t)) : decisions[n].at >= task[t].since} \subseteq Rows
    BY TriggerRowsAreRows DEF Shape
  <2> QED
    BY <2>1, RowsFinite DEF Shape
<1> HIDE DEF c
<1>4. /\ x \in Request(O, K)
      /\ x.pc = "last" /\ x.total = task[t].total /\ x.key = task[t].key /\ x.id = task[t].id
      /\ x.began = task[t].began /\ x.outcome = task[t].outcome
  BY <1>2, <1>3 DEF Request
<1>5. RequestOK(x)
  BY <1>4 DEF RequestOK
<1> HIDE DEF x
<1>6. TasksOK' /\ task'[t] = x /\ Others(t)
  BY <1>1, <1>5, OneTask DEF Shape
<1> QED
  BY <1>1, <1>4, <1>6 DEF Moved, Reads

LEMMA ReadLastStep ==
  ASSUME Shape, NEW t \in Tasks, ReadLast(t)
  PROVE  /\ Reads(t) /\ task[t].pc = "last" /\ task'[t].pc = "insert"
         /\ task'[t].accepted <=> guardrails_hold(t, LastTriggered(IssueOf(t)))
         /\ task'[t].total = task[t].total
<1> DEFINE g == guardrails_hold(t, LastTriggered(IssueOf(t)))
           x == [task[t] EXCEPT !.pc = "insert", !.accepted = g]
<1>1. task' = [task EXCEPT ![t] = x] /\ UNCHANGED <<events, claims, decisions, now>>
      /\ task[t].pc = "last"
  BY DEF ReadLast, Shape, TasksOK
<1>2. PICK O, K : task[t] \in Request(O, K)
  BY DEF Shape, TasksOK, RequestOK
<1>3. g \in BOOLEAN
  BY DEF guardrails_hold
<1>4. g <=> guardrails_hold(t, LastTriggered(IssueOf(t)))
  OBVIOUS
<1> HIDE DEF g
<1>5. /\ x \in Request(O, K)
      /\ x.pc = "insert" /\ x.total = task[t].total /\ x.key = task[t].key /\ x.id = task[t].id
      /\ x.began = task[t].began /\ x.outcome = task[t].outcome
  BY <1>2, <1>3 DEF Request
<1>6. x.accepted = g
  BY <1>2 DEF Request
<1>7. RequestOK(x)
  BY <1>5 DEF RequestOK
<1> HIDE DEF x
<1>8. TasksOK' /\ task'[t] = x /\ Others(t)
  BY <1>1, <1>7, OneTask DEF Shape
<1>9. task'[t].accepted <=> guardrails_hold(t, LastTriggered(IssueOf(t)))
  BY <1>4, <1>6, <1>8
<1> QED
  BY <1>1, <1>5, <1>8, <1>9 DEF Moved, Reads

NewRow(t) ==
  [event |-> task[t].id, issue |-> IssueOf(t), accepted |-> task[t].accepted,
   trigger |-> IF task[t].accepted THEN task[t].outcome.trigger ELSE 0,
   key |-> IF task[t].accepted THEN task[t].key ELSE <<>>,
   at |-> now, began |-> task[t].began]

LEMMA NewRowFields ==
  ASSUME NEW t
  PROVE  /\ NewRow(t).event = task[t].id /\ NewRow(t).issue = IssueOf(t)
         /\ NewRow(t).accepted = task[t].accepted /\ NewRow(t).at = now
         /\ NewRow(t).began = task[t].began
         /\ task[t].accepted => /\ NewRow(t).trigger = task[t].outcome.trigger
                                /\ NewRow(t).key = task[t].key
BY DEF NewRow

LEMMA InsertStep ==
  ASSUME Shape, NEW t \in Tasks, InsertDecision(t)
  PROVE  /\ UNCHANGED <<events, claims, now>> /\ Gone(t) /\ task[t].pc = "insert"
         /\ decisions' = Append(decisions, NewRow(t))
BY OneTask, IdleOK DEF InsertDecision, Gone, NewRow, Shape

LEMMA CutStep ==
  ASSUME Shape, NEW t \in Tasks, Cut(t)
  PROVE  UNCHANGED <<events, claims, decisions, now>> /\ Gone(t)
BY OneTask, IdleOK DEF Cut, Gone, Shape
-----------------------------------------------------------------------------
(* Shape holds.                                                            *)

\* The tables grow at their ends, and the clock does not go back.
Grows ==
  /\ world' = world
  /\ Len(events) <= Len(events') /\ \A n \in 1..Len(events) : events'[n] = events[n]
  /\ Len(decisions) <= Len(decisions')
  /\ now <= now'

LEMMA SameGrows ==
  ASSUME TablesOK, UNCHANGED <<world, events, decisions, now>>
  PROVE  Grows /\ TablesOK'
BY DEF TablesOK, IsList, Grows, Rows, RowOK, Content, Triggers, Deliveries

LEMMA BusyStays ==
  ASSUME TablesOK, TablesOK', Grows, NEW t, NEW x, BusyOK(t, x), task'[t] = x
  PROVE  BusyOK(t, task[t])'
<1>1. Len(events) \in Nat /\ Len(events') \in Nat /\ Len(decisions) \in Nat /\ Len(decisions') \in Nat
  BY DEF TablesOK, IsList
<1>2. x.pc # "idle" => OutcomeOf(x.id)' = OutcomeOf(x.id)
  BY OutcomeStable DEF BusyOK, Grows
<1>3. BusyOK(t, x)'
  BY <1>1, <1>2 DEF BusyOK, Grows
<1> QED
  BY <1>3

LEMMA RowStays ==
  ASSUME TablesOK, now' \in Nat, Len(events') \in Nat, Grows,
         NEW row, NEW n \in Nat, RowOK(row, n), decisions'[n] = row
  PROVE  RowOK(decisions[n], n)'
<1>1. Content' = Content /\ Triggers' = Triggers
  BY DEF Grows, Content, Triggers
<1>2. Len(events) \in Nat /\ now \in Nat
  BY DEF TablesOK, IsList
<1>3. RowOK(row, n)'
  BY <1>1, <1>2 DEF RowOK, Grows
<1> QED
  BY <1>3

LEMMA ShapeStays ==
  ASSUME Shape, TablesOK', Grows, NEW t \in Tasks, TasksOK', Others(t), BusyOK(t, task[t])'
  PROVE  Shape'
<1>1. ASSUME NEW u \in Tasks PROVE BusyOK(u, task[u])'
  <2>1. CASE u # t
    BY <2>1, BusyStays DEF Shape, Others
  <2> QED
    BY <2>1
<1> QED
  BY <1>1 DEF Shape

LEMMA MovedShape ==
  ASSUME Shape, UNCHANGED <<world, events, decisions, now>>, NEW t \in Tasks, Moved(t),
         BusyOK(t, task'[t])
  PROVE  Shape'
<1>1. Grows /\ TablesOK'
  BY SameGrows DEF Shape
<1>2. BusyOK(t, task[t])'
  BY <1>1, BusyStays DEF Shape
<1> QED
  BY <1>1, <1>2, ShapeStays DEF Moved

LEMMA WorkShape ==
  ASSUME Shape, NEW t \in Tasks, world' = world,
         Decide(t) \/ Claim(t) \/ ReadTotal(t) \/ ReadRecent(t) \/ ReadLast(t)
  PROVE  Shape'
<1>1. BusyOK(t, task[t])
  BY DEF Shape
<1>2. CASE Decide(t)
  <2>1. BusyOK(t, task'[t])
    BY <1>1, <1>2, DecideStep DEF BusyOK, Moved
  <2> QED
    BY <1>2, <2>1, DecideStep, MovedShape
<1>3. CASE Claim(t)
  <2>1. BusyOK(t, task'[t])
    BY <1>1, <1>3, ClaimStep DEF BusyOK, Moved
  <2> QED
    BY <1>3, <2>1, ClaimStep, MovedShape
<1>4. CASE ReadTotal(t) \/ ReadRecent(t)
  <2>1. Reads(t) /\ task[t].pc \in {"total", "recent"} /\ task'[t].pc \in {"recent", "last"}
    BY <1>4, ReadTotalStep, ReadRecentStep
  <2>2. BusyOK(t, task'[t])
    BY <1>1, <2>1 DEF BusyOK, Moved, Reads
  <2> QED
    BY <2>1, <2>2, MovedShape DEF Reads
<1>5. CASE ReadLast(t)
  <2>1. BusyOK(t, task'[t])
    BY <1>1, <1>5, ReadLastStep DEF BusyOK, Moved, Reads
  <2> QED
    BY <1>5, <2>1, ReadLastStep, MovedShape DEF Reads
<1> QED
  BY <1>2, <1>3, <1>4, <1>5

LEMMA IdleBusy == \A t : BusyOK(t, Idle)
BY DEF BusyOK, Idle

LEMMA CutShape ==
  ASSUME Shape, NEW t \in Tasks, world' = world, Cut(t)
  PROVE  Shape'
<1>1. Grows /\ TablesOK'
  BY CutStep, SameGrows DEF Shape
<1>2. task'[t] = Idle /\ BusyOK(t, Idle)
  BY CutStep, IdleBusy DEF Gone
<1>3. BusyOK(t, task[t])'
  BY <1>1, <1>2, BusyStays DEF Shape
<1> QED
  BY <1>1, <1>3, CutStep, ShapeStays DEF Gone

\* A request that inserts has decided: what it accepted has a trigger of the list.
LEMMA AcceptedOutcome ==
  ASSUME TablesOK, NEW t, BusyOK(t, task[t]), task[t].pc \notin {"idle", "decide"},
         task[t].outcome # None
  PROVE  \E ctx \in {ContextOf(task[t].id)} : \E parsed \in {ParseDirective(ctx.text)} :
           \E won \in DOMAIN Triggers :
             /\ ctx.action # "edited"
             /\ task[t].outcome = Outcome(Triggers, won, ctx, parsed)
             /\ BestOf(Triggers, ctx, parsed, Len(Triggers), won)
<1> DEFINE ctx == ContextOf(task[t].id)
           parsed == ParseDirective(ctx.text)
           won == Winner(Triggers, ctx, parsed)
<1>1. task[t].outcome = decide(Triggers, won, ctx, parsed)
  BY DEF BusyOK, OutcomeOf
<1>2. BestOf(Triggers, ctx, parsed, Len(Triggers), won)
  BY WorldFacts, WinnerIsBest
<1> HIDE DEF won, parsed
<1>3. /\ ctx.action # "edited" /\ won # 0
      /\ task[t].outcome = Outcome(Triggers, won, ctx, parsed)
  BY <1>1 DEF decide
<1>4. won \in DOMAIN Triggers
  BY <1>2, <1>3, WorldFacts DEF BestOf, ConfiguredTriggers
<1> QED
  BY <1>2, <1>3, <1>4 DEF parsed

LEMMA OutcomeFields ==
  ASSUME NEW triggers, NEW n, NEW ctx, NEW parsed
  PROVE  /\ Outcome(triggers, n, ctx, parsed).trigger = n
         /\ Outcome(triggers, n, ctx, parsed).role = Resolve(triggers[n].role, ctx, parsed)
         /\ Outcome(triggers, n, ctx, parsed).guardrails <=> triggers[n].guardrails
BY DEF Outcome

LEMMA InsertTables ==
  ASSUME Shape, NEW t \in Tasks, world' = world, InsertDecision(t)
  PROVE  /\ TablesOK' /\ Grows /\ Len(decisions') = Len(decisions) + 1
         /\ \A n \in Rows : decisions'[n] = decisions[n]
         /\ decisions'[Len(decisions) + 1] = NewRow(t)
<1> DEFINE N == Len(decisions) + 1
<1>1. BusyOK(t, task[t]) /\ task[t].pc = "insert" /\ RequestOK(task[t])
  BY InsertStep DEF Shape, TasksOK
<1>2. /\ IsList(decisions') /\ Len(decisions') = N /\ decisions'[N] = NewRow(t)
      /\ \A n \in Rows : decisions'[n] = decisions[n]
  <2>1. IsList(decisions) /\ decisions' = Append(decisions, NewRow(t))
    BY InsertStep DEF Shape, TablesOK
  <2> QED
    BY <2>1, AppendList DEF Rows
<1>3. Len(decisions) \in Nat /\ Len(events) \in Nat /\ now \in Nat
  BY DEF Shape, TablesOK, IsList
<1>4. Grows
  BY <1>2, <1>3, InsertStep DEF Grows
<1>5. /\ NewRow(t).event = task[t].id /\ NewRow(t).issue = IssueOf(t)
      /\ NewRow(t).accepted = task[t].accepted /\ NewRow(t).at = now
      /\ NewRow(t).began = task[t].began
      /\ task[t].accepted => NewRow(t).trigger = task[t].outcome.trigger
  BY NewRowFields
<1>6. task[t].accepted => task[t].outcome.trigger \in DOMAIN Triggers
  <2>1. task[t].accepted => task[t].outcome # None
    BY <1>1 DEF BusyOK
  <2> QED
    BY <1>1, <2>1, AcceptedOutcome, OutcomeFields DEF Shape
<1>7. task[t].accepted \in BOOLEAN
  BY <1>1 DEF RequestOK, Request
<1>8. RowOK(NewRow(t), N)
  BY <1>1, <1>3, <1>5, <1>6, <1>7 DEF RowOK, BusyOK, IssueOf
<1>9. \A n \in 1..N : RowOK(decisions'[n], n)
  BY <1>2, <1>3, <1>8 DEF Shape, TablesOK, Rows
<1>10. now' \in Nat /\ Len(events') \in Nat /\ events' = events
  BY <1>3, InsertStep
<1>11. \A n \in 1..N : RowOK(decisions[n], n)'
  BY <1>3, <1>4, <1>9, <1>10, RowStays DEF Shape
<1>12. TablesOK'
  BY <1>2, <1>3, <1>10, <1>11 DEF Shape, TablesOK, Rows, Deliveries, IsList
<1> QED
  BY <1>2, <1>4, <1>12

LEMMA InsertShape ==
  ASSUME Shape, NEW t \in Tasks, world' = world, InsertDecision(t)
  PROVE  Shape'
<1>1. Grows /\ TablesOK'
  BY InsertTables
<1>2. task'[t] = Idle /\ BusyOK(t, Idle)
  BY InsertStep, IdleBusy DEF Gone
<1>3. BusyOK(t, task[t])'
  BY <1>1, <1>2, BusyStays DEF Shape
<1> QED
  BY <1>1, <1>3, InsertStep, ShapeStays DEF Gone

LEMMA TickShape ==
  ASSUME Shape, world' = world, Tick
  PROVE  Shape'
<1>1. now' \in Nat /\ now \in Nat /\ now <= now' /\ UNCHANGED <<events, decisions, task>>
  BY DEF Tick, Shape, TablesOK
<1>2. Grows
  BY <1>1 DEF Grows, Shape, TablesOK, IsList
<1>3. \A n \in Rows : RowOK(decisions[n], n)'
  BY <1>1, <1>2, RowStays DEF Shape, TablesOK, IsList, Rows
<1>4. TablesOK'
  BY <1>1, <1>3 DEF Shape, TablesOK, Rows, Deliveries, IsList
<1>5. \A t \in Tasks : BusyOK(t, task[t])'
  BY <1>1, <1>2, <1>4, BusyStays DEF Shape
<1> QED
  BY <1>1, <1>4, <1>5 DEF Shape, TasksOK

\* The event of a request that was let in is the last of the table.
LEMMA ReceiveTables ==
  ASSUME Shape, NEW d \in Deliveries, world' = world, events' = Append(events, d),
         UNCHANGED <<decisions, now>>
  PROVE  /\ TablesOK' /\ Grows /\ Len(events') = Len(events) + 1
         /\ events'[Len(events) + 1] = d
<1>1. /\ IsList(events') /\ Len(events') = Len(events) + 1 /\ events'[Len(events) + 1] = d
      /\ \A n \in 1..Len(events) : events'[n] = events[n]
  BY AppendList DEF Shape, TablesOK
<1>2. Len(decisions) \in Nat /\ Len(events) \in Nat /\ now \in Nat
  BY DEF Shape, TablesOK, IsList
<1>3. Grows
  BY <1>1, <1>2 DEF Grows
<1>4. \A n \in Rows : RowOK(decisions[n], n)'
  BY <1>1, <1>2, <1>3, RowStays DEF Shape, TablesOK, Rows
<1>5. TablesOK'
  BY <1>1, <1>2, <1>4 DEF Shape, TablesOK, Rows, Deliveries, IsList
<1> QED
  BY <1>1, <1>3, <1>5

LEMMA SameShape ==
  ASSUME Shape, UNCHANGED <<world, events, decisions, task, now>>
  PROVE  Shape'
<1>1. Grows /\ TablesOK'
  BY SameGrows DEF Shape
<1>2. \A t \in Tasks : BusyOK(t, task[t])'
  BY <1>1, BusyStays DEF Shape
<1> QED
  BY <1>1, <1>2 DEF Shape, TasksOK

LEMMA ReceiveShape ==
  ASSUME Shape, NEW t \in world.tasks, NEW d \in Deliveries, world' = world, Receive(t, d)
  PROVE  Shape'
<1>1. t \in Tasks
  BY WorldFacts DEF Shape
<1>2. CASE events' = events /\ task' = task
  BY <1>1, <1>2, ReceiveStep, SameShape
<1>3. CASE /\ task'[t].pc = "decide" /\ events' = Append(events, d) /\ TasksOK' /\ Others(t)
           /\ task'[t].id = Len(events) + 1 /\ task'[t].began = Len(decisions)
  <2>1. TablesOK' /\ Grows /\ Len(events') = Len(events) + 1 /\ decisions' = decisions
    BY <1>1, <1>3, ReceiveStep, ReceiveTables
  <2>2. BusyOK(t, task[t])'
    BY <1>3, <2>1 DEF BusyOK, Shape, TablesOK, IsList
  <2> QED
    BY <1>1, <1>3, <2>1, <2>2, ShapeStays
<1> QED
  BY <1>1, <1>2, <1>3, ReceiveStep

LEMMA InitShape == Init => Shape
<1> SUFFICES ASSUME Init PROVE Shape
  OBVIOUS
<1>1. TablesOK
  BY DEF Init, TablesOK, IsList, Rows
<1>2. TasksOK
  BY IdleOK DEF Init, TasksOK
<1> QED
  BY <1>1, <1>2, IdleBusy DEF Init, Shape

LEMMA NextShape == Shape /\ [Next]_vars => Shape'
<1> SUFFICES ASSUME Shape, [Next]_vars PROVE Shape'
  OBVIOUS
<1>1. CASE UNCHANGED vars
  BY <1>1, SameShape DEF vars
<1>2. ASSUME NEW t \in world.tasks, Work(t) \/ (Cut(t) /\ UNCHANGED world) PROVE Shape'
  <2>1. t \in Tasks
    BY WorldFacts DEF Shape
  <2> QED
    BY <1>2, <2>1, WorkShape, InsertShape, CutShape DEF Work
<1> QED
  BY <1>1, <1>2, ReceiveShape, TickShape DEF Next

\* In every reachable state the tables are typed, a busy request works for a recorded event,
\* and what it has decided is what the rules make of that event.
THEOREM ShapeHolds == Spec => []Shape
BY InitShape, NextShape, PTL DEF Spec
-----------------------------------------------------------------------------
(* Who answers which event.                                                *)

Answered ==
  /\ \A m, n \in 1..Len(events) :
       events[m] = events[n] /\ events[m] \notin world.anonymous => m = n
  /\ \A t, u \in Tasks :
       task[t].pc # "idle" /\ task[u].pc # "idle" /\ task[t].id = task[u].id => t = u
  /\ \A m, n \in Rows : decisions[m].event = decisions[n].event => m = n
  /\ \A t \in Tasks, n \in Rows : task[t].pc # "idle" => decisions[n].event # task[t].id

LEMMA MovedAnswered ==
  ASSUME Answered, UNCHANGED <<world, events, decisions>>, NEW t \in Tasks, Moved(t) \/ Gone(t)
  PROVE  Answered'
BY DEF Answered, Moved, Gone, Idle, Others, Rows

LEMMA ReceiveAnswered ==
  ASSUME Shape, Answered, NEW t \in Tasks, NEW d \in Deliveries, world' = world, Receive(t, d)
  PROVE  Answered'
<1>1. CASE events' = events /\ task' = task
  BY <1>1, ReceiveStep DEF Answered, Rows
<1>2. CASE /\ d \in world.anonymous \/ \A n \in 1..Len(events) : events[n] # d
           /\ events' = Append(events, d) /\ TasksOK' /\ Others(t)
           /\ task[t].pc = "idle" /\ task'[t].id = Len(events) + 1
  <2>1. /\ Len(events') = Len(events) + 1 /\ events'[Len(events) + 1] = d
        /\ \A n \in 1..Len(events) : events'[n] = events[n]
        /\ decisions' = decisions /\ Len(events) \in Nat
    BY <1>2, ReceiveStep, ReceiveTables DEF Grows, Shape, TablesOK, IsList
  <2>2. \A n \in Rows : decisions[n].event \in 1..Len(events)
    BY DEF Shape, TablesOK, RowOK
  <2>3. \A u \in Tasks : task[u].pc # "idle" => task[u].id \in 1..Len(events)
    BY DEF Shape, BusyOK
  <2>4. \A m, n \in 1..Len(events') :
          events'[m] = events'[n] /\ events'[m] \notin world'.anonymous => m = n
    BY <1>2, <2>1 DEF Answered
  <2>5. \A u, v \in Tasks :
          task'[u].pc # "idle" /\ task'[v].pc # "idle" /\ task'[u].id = task'[v].id => u = v
    BY <1>2, <2>1, <2>3 DEF Answered, Others
  <2>6. \A u \in Tasks, n \in Rows : task'[u].pc # "idle" => decisions[n].event # task'[u].id
    BY <1>2, <2>1, <2>2 DEF Answered, Others
  <2> QED
    BY <2>1, <2>4, <2>5, <2>6 DEF Answered, Rows
<1> QED
  BY <1>1, <1>2, ReceiveStep

LEMMA InsertAnswered ==
  ASSUME Shape, Answered, NEW t \in Tasks, world' = world, InsertDecision(t)
  PROVE  Answered'
<1>1. /\ Len(decisions') = Len(decisions) + 1 /\ Len(decisions) \in Nat
      /\ \A n \in Rows : decisions'[n] = decisions[n]
      /\ decisions'[Len(decisions) + 1].event = task[t].id
  BY InsertTables, NewRowFields DEF Shape, TablesOK, IsList
<1>2. task[t].pc = "insert" /\ task'[t].pc = "idle" /\ Others(t) /\ events' = events
  BY InsertStep DEF Gone, Idle
<1>3. \A m, n \in Rows' : decisions'[m].event = decisions'[n].event => m = n
  BY <1>1, <1>2 DEF Answered, Rows
<1>4. \A u \in Tasks, n \in Rows' : task'[u].pc # "idle" => decisions'[n].event # task'[u].id
  BY <1>1, <1>2 DEF Answered, Rows, Others
<1>5. \A u, v \in Tasks :
        task'[u].pc # "idle" /\ task'[v].pc # "idle" /\ task'[u].id = task'[v].id => u = v
  BY <1>2 DEF Answered, Others
<1> QED
  BY <1>2, <1>3, <1>4, <1>5 DEF Answered

LEMMA NextAnswered ==
  ASSUME Shape, Answered, [Next]_vars
  PROVE  Answered'
<1>1. CASE UNCHANGED vars \/ (Tick /\ UNCHANGED world)
  BY <1>1 DEF vars, Tick, Answered, Rows
<1>2. ASSUME NEW t \in world.tasks, Work(t) \/ (Cut(t) /\ UNCHANGED world) PROVE Answered'
  <2>1. t \in Tasks /\ world' = world
    BY <1>2, WorldFacts DEF Shape, Work
  <2>2. CASE Decide(t) \/ Claim(t) \/ Cut(t)
    BY <2>1, <2>2, DecideStep, ClaimStep, CutStep, MovedAnswered
  <2>3. CASE ReadTotal(t) \/ ReadRecent(t) \/ ReadLast(t)
    BY <2>1, <2>3, ReadTotalStep, ReadRecentStep, ReadLastStep, MovedAnswered DEF Reads
  <2> QED
    BY <1>2, <2>1, <2>2, <2>3, InsertAnswered DEF Work
<1>3. ASSUME NEW t \in world.tasks, NEW d \in Deliveries, Receive(t, d), world' = world
      PROVE  Answered'
  BY <1>3, WorldFacts, ReceiveAnswered DEF Shape
<1> QED
  BY <1>1, <1>2, <1>3 DEF Next

LEMMA InitAnswered == Init => Answered
BY DEF Init, Answered, Rows, Idle

LEMMA AnsweredOnce == Shape /\ Answered => DecidedAtMostOnce
<1> SUFFICES ASSUME Shape, Answered, NEW d \in Deliveries \ world.anonymous
             PROVE  Cardinality({n \in DOMAIN decisions : events[decisions[n].event] = d}) <= 1
  BY DEF DecidedAtMostOnce
<1> DEFINE S == {n \in DOMAIN decisions : events[decisions[n].event] = d}
<1>1. \A n \in S : n \in Rows /\ decisions[n].event \in 1..Len(events)
  BY DEF Shape, TablesOK, IsList, RowOK, Rows
<1>2. \A m, n \in S : m = n
  BY <1>1 DEF Answered
<1> QED
  BY <1>2, AtMostOne

\* A delivery that names itself gets at most one decision.
THEOREM DecidedOnce == Spec => []DecidedAtMostOnce
<1>1. Shape /\ Answered /\ [Next]_vars => Answered'
  BY NextAnswered
<1>2. Spec => []Answered
  BY <1>1, InitAnswered, ShapeHolds, PTL DEF Spec
<1> QED
  BY <1>2, AnsweredOnce, ShapeHolds, PTL

-----------------------------------------------------------------------------
(* What a request has decided of its event.                                *)

LEMMA HeardRole ==
  ASSUME TablesOK, NEW id \in 1..Len(events)
  PROVE  latest_role_comment(id) \in Roles \cup {None}
<1> DEFINE H == {n \in 1..(id - 1) :
                   /\ Content[events[n]].issue = Content[events[id]].issue
                   /\ Content[events[n]].ctx.event = "issue_comment"
                   /\ Content[events[n]].ctx.action = "created"
                   /\ Content[events[n]].ctx.actor \in Roles}
           last == CHOOSE n \in H : \A other \in H : other <= n
<1>1. CASE H = {}
  BY <1>1 DEF latest_role_comment
<1>2. CASE H # {}
  <2>1. latest_role_comment(id) = Content[events[last]].ctx.actor
    BY <1>2 DEF latest_role_comment
  <2>2. last \in H
    <3>1. H \subseteq 1..Len(events) /\ Len(events) \in Nat
      BY DEF TablesOK, IsList
    <3> HIDE DEF H
    <3>2. \E n \in H : \A other \in H : other <= n
      BY <1>2, <3>1, LargestNumber
    <3> QED
      BY <3>2
  <2> QED
    BY <2>1, <2>2
<1> QED
  BY <1>1, <1>2

LEMMA OutcomeIsSomething ==
  ASSUME TablesOK, NEW id \in 1..Len(events), NEW n \in DOMAIN Triggers
  PROVE  Outcome(Triggers, n, ContextOf(id), ParseDirective(ContextOf(id).text)) # None
<1>1. world \in Worlds /\ events[id] \in DOMAIN world.content
  BY DEF TablesOK, Deliveries
<1>2. ContextOf(id) \in {world.content[events[id]].ctx} \cup
        {[world.content[events[id]].ctx EXCEPT !.conversation = role] : role \in Roles \cup {None}}
  BY HeardRole DEF ContextOf, Content
<1> QED
  BY <1>1, <1>2, NoneIsNoOutcome DEF NoneIsNoOutcome, Triggers

LEMMA BestWins == Shape => BestTriggerWins
<1> SUFFICES ASSUME Shape, NEW t \in Tasks, Decided(t), ContextOf(task[t].id).action # "edited"
             PROVE  LET ctx == ContextOf(task[t].id)
                        candidates == Candidates(ctx, ParseDirective(ctx.text))
                    IN  IF task[t].outcome = None THEN candidates = {}
                        ELSE /\ task[t].outcome.trigger \in candidates
                             /\ \A n \in candidates : ~Beats(n, task[t].outcome.trigger)
  BY DEF BestTriggerWins
<1> DEFINE ctx == ContextOf(task[t].id)
           parsed == ParseDirective(ctx.text)
           won == Winner(Triggers, ctx, parsed)
<1>1. BusyOK(t, task[t]) /\ TablesOK
  BY DEF Shape
<1>2. task[t].outcome = decide(Triggers, won, ctx, parsed) /\ task[t].id \in 1..Len(events)
  BY <1>1 DEF Decided, BusyOK, OutcomeOf
<1>3. BestOf(Triggers, ctx, parsed, Len(Triggers), won)
      /\ DOMAIN Triggers = 1..Len(Triggers) /\ Len(Triggers) \in Nat
  BY <1>1, WorldFacts, WinnerIsBest DEF ConfiguredTriggers
<1>4. won # 0 => Outcome(Triggers, won, ctx, parsed) # None
  BY <1>1, <1>2, <1>3, OutcomeIsSomething DEF BestOf
<1>5. CASE task[t].outcome = None
  <2>1. won = 0
    BY <1>2, <1>4, <1>5 DEF decide
  <2> QED
    BY <1>3, <1>5, <2>1 DEF BestOf, Candidates
<1>6. CASE task[t].outcome # None
  <2>1. won # 0 /\ task[t].outcome.trigger = won
    BY <1>2, <1>6, OutcomeFields DEF decide
  <2>2. \A n \in DOMAIN Triggers : Beats(n, won) <=> Better(Triggers, n, won)
    BY Zenon DEF Beats, Better, LexAbove
  <2> HIDE DEF won, parsed
  <2> QED
    BY <1>3, <1>6, <2>1, <2>2 DEF BestOf, Candidates, parsed
<1> QED
  BY <1>5, <1>6

\* What decides an event is the best of the triggers that apply to it, and an event is
\* ignored only when none does.
THEOREM BestTriggerDecides == Spec => []BestTriggerWins
BY BestWins, ShapeHolds, PTL

\* The two triggers of the pack that answer a plain comment: whenever the assignee's
\* applies and a role was heard, the conversation's applies and is better.
LEMMA ConversationFirst ==
  ASSUME NEW triggers, NEW ctx, NEW parsed, NEW m, NEW n,
         triggers[m] = ConversationReply, triggers[n] = AssigneeReply,
         Applies(triggers[n], ctx, parsed), ctx.conversation # None
  PROVE  Applies(triggers[m], ctx, parsed) /\ Better(triggers, m, n)
<1>1. ConversationReply.class = AssigneeReply.class /\ ConversationReply.priority = 1
      /\ AssigneeReply.priority = 0 /\ AssigneeReply.class = "assignee_reply"
  BY DEF ConversationReply, AssigneeReply
<1>2. Better(triggers, m, n)
  BY <1>1 DEF Better, LexAbove, ClassRank
<1>3. Applies(AssigneeReply, ctx, parsed)
  OBVIOUS
<1>4. Matches(ConversationReply, ctx)
  BY <1>3 DEF Applies, Matches, ConversationReply, AssigneeReply
<1>5. trigger_guards_hold(ConversationReply, ctx, parsed)
  BY <1>3 DEF Applies, trigger_guards_hold, ConversationReply, AssigneeReply
<1>6. resolve_trigger_directive(ConversationReply, parsed) # None
  BY <1>3 DEF Applies, resolve_trigger_directive, ConversationReply, AssigneeReply
<1>7. /\ ConversationReply.role = "conversation" /\ ConversationReply.principal = "conversation"
      /\ Resolve("conversation", ctx, parsed) = ctx.conversation
  BY DEF ConversationReply, Resolve
<1> QED
  BY <1>2, <1>4, <1>5, <1>6, <1>7 DEF Applies

LEMMA ReplyFollows == Shape => ReplyFollowsConversation
<1> SUFFICES ASSUME Shape, NEW t \in Tasks, Decided(t), task[t].outcome # None,
                    Triggers[task[t].outcome.trigger].class = "assignee_reply"
             PROVE  LET ctx == ContextOf(task[t].id)
                    IN  /\ ParseDirective(ctx.text) = None
                        /\ IF ctx.conversation # None THEN task[t].outcome.role = ctx.conversation
                           ELSE /\ task[t].outcome.role = ctx.assignees[1]
                                /\ ctx.actor # task[t].outcome.role
  BY DEF ReplyFollowsConversation
<1> DEFINE ctx == ContextOf(task[t].id)
           parsed == ParseDirective(ctx.text)
<1>1. BusyOK(t, task[t]) /\ TablesOK /\ task[t].pc \notin {"idle", "decide"}
  BY DEF Shape, Decided
<1>2. PICK won \in DOMAIN Triggers :
         /\ task[t].outcome = Outcome(Triggers, won, ctx, parsed)
         /\ BestOf(Triggers, ctx, parsed, Len(Triggers), won)
  BY <1>1, AcceptedOutcome
<1>3. /\ task[t].outcome.trigger = won
      /\ task[t].outcome.role = Resolve(Triggers[won].role, ctx, parsed)
  BY <1>2, OutcomeFields
<1>4. ConfiguredTriggers(Triggers) /\ DOMAIN Triggers = 1..Len(Triggers) /\ Len(Triggers) \in Nat
  BY <1>1, WorldFacts DEF ConfiguredTriggers
<1>5. Triggers[won] \in {ConversationReply, AssigneeReply} /\ Triggers[won].class # "registered_trigger"
  BY <1>3, <1>4, LegacyFields DEF ConfiguredTriggers
<1>6. won # 0 /\ Applies(Triggers[won], ctx, parsed)
  BY <1>2, <1>4 DEF BestOf
<1>7. CASE Triggers[won] = ConversationReply
  <2>1. ConversationReply.guardDirective = "require_absent" /\ ConversationReply.role = "conversation"
    BY DEF ConversationReply
  <2>2. Resolve("conversation", ctx, parsed) = ctx.conversation
    BY DEF Resolve
  <2>3. parsed = None /\ ctx.conversation # None
    BY <1>6, <1>7, <2>1, <2>2 DEF Applies, trigger_guards_hold
  <2> QED
    BY <1>3, <1>7, <2>1, <2>2, <2>3
<1>8. CASE Triggers[won] = AssigneeReply
  <2>1. /\ AssigneeReply.guardDirective = "require_absent" /\ AssigneeReply.role = "assignee"
        /\ AssigneeReply.guardActor = "require_not_assignee"
    BY DEF AssigneeReply, ConversationReply
  <2>2. Resolve("assignee", ctx, parsed) = single_codex_assignee(ctx)
    BY DEF Resolve
  <2>3. /\ parsed = None /\ single_codex_assignee(ctx) # None
        /\ ctx.actor # single_codex_assignee(ctx)
    BY <1>6, <1>8, <2>1, <2>2 DEF Applies, trigger_guards_hold
  <2>4. ctx.conversation = None
    <3>1. ConversationReply \in LegacyTriggers
      <4>1. legacy_trigger_pack[3] = ConversationReply
        BY DEF legacy_trigger_pack
      <4> QED
        BY <4>1 DEF LegacyTriggers
    <3>2. PICK m \in DOMAIN Triggers : Triggers[m] = ConversationReply
      BY <1>4, <1>5, <3>1 DEF ConfiguredTriggers
    <3>3. ctx.conversation # None
            => Applies(Triggers[m], ctx, parsed) /\ Better(Triggers, m, won)
      BY <1>6, <1>8, <3>2, ConversationFirst
    <3>4. Applies(Triggers[m], ctx, parsed) => ~Better(Triggers, m, won)
      BY <1>2, <1>4, <1>6 DEF BestOf
    <3> QED
      BY <3>3, <3>4
  <2>5. single_codex_assignee(ctx) = ctx.assignees[1]
    BY <2>3 DEF single_codex_assignee
  <2> QED
    BY <1>3, <1>8, <2>1, <2>2, <2>3, <2>4, <2>5
<1> QED
  BY <1>5, <1>7, <1>8

\* A plain comment is answered by the role last heard on the issue, without one by the
\* assignee, and never by its own author through the assignment.
THEOREM ReplyGoesToConversation == Spec => []ReplyFollowsConversation
BY ReplyFollows, ShapeHolds, PTL

-----------------------------------------------------------------------------
(* Who holds which key.                                                    *)

\* The request claimed its key and may still insert an accepted decision.
Holds(t) ==
  task[t].pc \in {"total", "recent", "last"} \/ (task[t].pc = "insert" /\ task[t].accepted)

RowKey(n) == trigger_dedupe_key(events[decisions[n].event], decisions[n].trigger)

KeysOK ==
  /\ \A t \in Tasks : Holds(t) => KeyOf(t) \in claims
  /\ \A t, u \in Tasks : Holds(t) /\ Holds(u) /\ KeyOf(t) = KeyOf(u) => t = u
  /\ \A n \in Rows : decisions[n].accepted =>
       /\ RowKey(n) \in claims
       /\ \A t \in Tasks : Holds(t) => KeyOf(t) # RowKey(n)
       /\ \A m \in Rows : decisions[m].accepted /\ RowKey(m) = RowKey(n) => m = n

LEMMA KeyStays ==
  ASSUME Shape, Grows, NEW u \in Tasks, task[u].pc # "idle",
         task'[u].id = task[u].id, task'[u].outcome = task[u].outcome
  PROVE  KeyOf(u)' = KeyOf(u)
<1>1. task[u].id \in 1..Len(events)
  BY DEF Shape, BusyOK
<1>2. events'[task[u].id] = events[task[u].id] /\ world' = world
  BY <1>1 DEF Grows
<1> QED
  BY <1>2 DEF KeyOf, trigger_dedupe_key, Content

LEMMA RowKeyStays ==
  ASSUME Shape, Grows, NEW n \in Rows, decisions'[n] = decisions[n]
  PROVE  RowKey(n)' = RowKey(n)
<1>1. decisions[n].event \in 1..Len(events)
  BY DEF Shape, TablesOK, RowOK
<1> QED
  BY <1>1 DEF RowKey, trigger_dedupe_key, Content, Grows

LEMMA OthersHold ==
  ASSUME Shape, Grows, NEW t \in Tasks, Others(t), NEW u \in Tasks, u # t
  PROVE  Holds(u)' = Holds(u) /\ (Holds(u) => KeyOf(u)' = KeyOf(u))
<1>1. task'[u] = task[u]
  BY DEF Others
<1> QED
  BY <1>1, KeyStays DEF Holds

\* No request comes to hold a key.
LEMMA KeysKept ==
  ASSUME Shape, Grows, KeysOK, claims \subseteq claims', decisions' = decisions,
         NEW t \in Tasks, Others(t), Holds(t)' => Holds(t) /\ KeyOf(t)' = KeyOf(t)
  PROVE  KeysOK'
<1>1. \A u \in Tasks : Holds(u)' => Holds(u) /\ KeyOf(u)' = KeyOf(u)
  BY OthersHold
<1>2. Rows' = Rows /\ \A n \in Rows : RowKey(n)' = RowKey(n)
  BY RowKeyStays DEF Rows
<1> QED
  BY <1>1, <1>2 DEF KeysOK

LEMMA ClaimKeys ==
  ASSUME Shape, KeysOK, NEW t \in Tasks, world' = world, Claim(t)
  PROVE  KeysOK'
<1> DEFINE k == KeyOf(t)
<1>1. /\ UNCHANGED <<world, events, decisions, now>> /\ claims' = claims \cup {k} /\ Others(t)
      /\ task[t].pc = "claim" /\ task'[t].outcome = task[t].outcome /\ task'[t].id = task[t].id
      /\ task'[t].accepted <=> k \notin claims
      /\ k \in claims => task'[t].pc = "insert"
  BY ClaimStep DEF Moved
<1>2. Grows
  BY <1>1, SameGrows DEF Shape
<1>3. ~Holds(t) /\ KeyOf(t)' = k
  BY <1>1, <1>2, KeyStays DEF Holds
<1>4. CASE k \in claims
  <2>1. ~Holds(t)'
    BY <1>1, <1>4 DEF Holds
  <2> QED
    BY <1>1, <1>2, <2>1, KeysKept
<1>5. CASE k \notin claims
  <2>1. \A u \in Tasks : u # t => Holds(u)' = Holds(u) /\ (Holds(u) => KeyOf(u)' = KeyOf(u))
    BY <1>1, <1>2, OthersHold
  <2>2. Rows' = Rows /\ \A n \in Rows : RowKey(n)' = RowKey(n)
    BY <1>1, <1>2, RowKeyStays DEF Rows
  <2> HIDE DEF k
  <2>3. \A u \in Tasks : Holds(u)' => KeyOf(u)' \in claims'
    BY <1>1, <1>3, <2>1 DEF KeysOK
  <2>4. \A u, v \in Tasks : Holds(u)' /\ Holds(v)' /\ KeyOf(u)' = KeyOf(v)' => u = v
    BY <1>3, <1>5, <2>1 DEF KeysOK
  <2>5. ASSUME NEW n \in Rows, decisions[n].accepted
        PROVE  /\ RowKey(n)' \in claims'
               /\ \A u \in Tasks : Holds(u)' => KeyOf(u)' # RowKey(n)'
               /\ \A m \in Rows : decisions[m].accepted /\ RowKey(m)' = RowKey(n)' => m = n
    BY <1>1, <1>3, <1>5, <2>1, <2>2, <2>5 DEF KeysOK
  <2> QED
    BY <1>1, <2>2, <2>3, <2>4, <2>5 DEF KeysOK
<1> QED
  BY <1>4, <1>5

LEMMA SameKeys ==
  ASSUME KeysOK, UNCHANGED <<world, events, claims, decisions, task>>
  PROVE  KeysOK'
<1>1. \A u \in Tasks : Holds(u)' = Holds(u) /\ KeyOf(u)' = KeyOf(u)
  BY DEF Holds, KeyOf, trigger_dedupe_key, Content
<1>2. Rows' = Rows /\ \A n \in Rows : RowKey(n)' = RowKey(n)
  BY DEF Rows, RowKey, trigger_dedupe_key, Content
<1> QED
  BY <1>1, <1>2 DEF KeysOK

LEMMA InsertKeys ==
  ASSUME Shape, KeysOK, NEW t \in Tasks, world' = world, InsertDecision(t)
  PROVE  KeysOK'
<1>0. PICK N \in Nat : N = Len(decisions) + 1
  BY DEF Shape, TablesOK, IsList
<1>1. /\ Grows /\ Rows' = Rows \cup {N} /\ N \notin Rows
      /\ \A n \in Rows : decisions'[n] = decisions[n]
      /\ decisions'[N] = NewRow(t)
  BY <1>0, InsertTables DEF Rows, Shape, TablesOK, IsList
<1>2. task[t].pc = "insert" /\ Others(t) /\ events' = events /\ claims' = claims /\ task'[t].pc = "idle"
  BY InsertStep DEF Gone, Idle
<1>3. \A u \in Tasks : Holds(u)' => u # t /\ Holds(u) /\ KeyOf(u)' = KeyOf(u)
  BY <1>1, <1>2, OthersHold DEF Holds
<1>4. \A n \in Rows : RowKey(n)' = RowKey(n)
  BY <1>1, RowKeyStays
<1>5. decisions'[N].accepted = task[t].accepted
  BY <1>1, NewRowFields
<1>6. ASSUME task[t].accepted PROVE Holds(t) /\ RowKey(N)' = KeyOf(t)
  <2>1. decisions'[N].trigger = task[t].outcome.trigger /\ decisions'[N].event = task[t].id
    BY <1>1, <1>6, NewRowFields
  <2> QED
    BY <1>2, <1>6, <2>1 DEF Holds, RowKey, KeyOf, trigger_dedupe_key, Content
<1>7. \A u \in Tasks : Holds(u)' => KeyOf(u)' \in claims'
  BY <1>2, <1>3 DEF KeysOK
<1>8. \A u, v \in Tasks : Holds(u)' /\ Holds(v)' /\ KeyOf(u)' = KeyOf(v)' => u = v
  BY <1>3 DEF KeysOK
<1>9. ASSUME NEW n \in Rows', decisions'[n].accepted
      PROVE  /\ RowKey(n)' \in claims'
             /\ \A u \in Tasks : Holds(u)' => KeyOf(u)' # RowKey(n)'
             /\ \A m \in Rows' : decisions'[m].accepted /\ RowKey(m)' = RowKey(n)' => m = n
  <2>1. CASE n \in Rows
    BY <1>1, <1>2, <1>3, <1>4, <1>5, <1>6, <1>9, <2>1 DEF KeysOK
  <2>2. CASE n = N
    BY <1>1, <1>2, <1>3, <1>4, <1>5, <1>6, <1>9, <2>2 DEF KeysOK
  <2> QED
    BY <1>1, <2>1, <2>2
<1> QED
  BY <1>7, <1>8, <1>9 DEF KeysOK

LEMMA NextKeys ==
  ASSUME Shape, KeysOK, [Next]_vars
  PROVE  KeysOK'
<1>1. CASE UNCHANGED vars \/ (Tick /\ UNCHANGED world)
  BY <1>1, SameKeys DEF vars, Tick
<1>2. ASSUME NEW t \in world.tasks, Work(t) \/ (Cut(t) /\ UNCHANGED world) PROVE KeysOK'
  <2>1. t \in Tasks /\ world' = world
    BY <1>2, WorldFacts DEF Shape, Work
  <2>2. CASE Decide(t)
    <3>1. UNCHANGED <<world, events, claims, decisions, now>> /\ Others(t)
      BY <2>1, <2>2, DecideStep DEF Moved
    <3>2. ~Holds(t)'
      BY <2>1, <2>2, DecideStep DEF Holds
    <3> QED
      BY <2>1, <3>1, <3>2, SameGrows, KeysKept DEF Shape
  <2>3. CASE Cut(t)
    <3>1. UNCHANGED <<world, events, claims, decisions, now>> /\ Others(t)
      BY <2>1, <2>3, CutStep DEF Gone
    <3>2. ~Holds(t)'
      BY <2>1, <2>3, CutStep DEF Holds, Gone, Idle
    <3> QED
      BY <2>1, <3>1, <3>2, SameGrows, KeysKept DEF Shape
  <2>4. CASE ReadTotal(t) \/ ReadRecent(t) \/ ReadLast(t)
    <3>1. Reads(t) /\ task[t].pc \in {"total", "recent", "last"}
      BY <2>1, <2>4, ReadTotalStep, ReadRecentStep, ReadLastStep
    <3>2. Grows
      BY <2>1, <3>1, SameGrows DEF Reads, Shape
    <3>3. Holds(t) /\ KeyOf(t)' = KeyOf(t)
      BY <2>1, <3>1, <3>2, KeyStays DEF Holds, Reads, Moved
    <3> QED
      BY <2>1, <3>1, <3>2, <3>3, KeysKept DEF Reads, Moved
  <2> QED
    BY <1>2, <2>1, <2>2, <2>3, <2>4, ClaimKeys, InsertKeys DEF Work
<1>3. ASSUME NEW t \in world.tasks, NEW d \in Deliveries, Receive(t, d), world' = world
      PROVE  KeysOK'
  <2>1. t \in Tasks
    BY WorldFacts DEF Shape
  <2>2. CASE events' = events /\ task' = task
    <3>1. UNCHANGED <<claims, decisions>>
      BY <1>3, <2>1, ReceiveStep
    <3> QED
      BY <1>3, <2>2, <3>1, SameKeys
  <2>3. CASE task'[t].pc = "decide" /\ events' = Append(events, d) /\ Others(t)
    <3>1. UNCHANGED <<claims, decisions, now>>
      BY <1>3, <2>1, ReceiveStep
    <3>2. Grows
      BY <1>3, <2>3, <3>1, ReceiveTables
    <3>3. ~Holds(t)'
      BY <2>3 DEF Holds
    <3> QED
      BY <2>1, <2>3, <3>1, <3>2, <3>3, KeysKept
  <2> QED
    BY <1>3, <2>1, <2>2, <2>3, ReceiveStep
<1> QED
  BY <1>1, <1>2, <1>3 DEF Next

LEMMA InitKeys == Init => KeysOK
BY DEF Init, KeysOK, Rows, Idle, Holds

LEMMA KeysFireOnce == Shape /\ KeysOK => TriggerFiresOnce
<1> SUFFICES ASSUME Shape, KeysOK, NEW m \in Rows, NEW n \in Rows,
                    decisions[m].accepted, decisions[n].accepted, m # n,
                    decisions[m].trigger = decisions[n].trigger, Source(m) = Source(n)
             PROVE  FALSE
  BY DEF TriggerFiresOnce, Shape, TablesOK, IsList, Rows
<1>1. RowKey(m) = RowKey(n)
  BY DEF RowKey, trigger_dedupe_key, Source
<1> QED
  BY <1>1 DEF KeysOK

\* A trigger dispatches a comment at most once, whatever ids its deliveries carry.
THEOREM FiresOnce == Spec => []TriggerFiresOnce
<1>1. Shape /\ KeysOK /\ [Next]_vars => KeysOK'
  BY NextKeys
<1>2. Spec => []KeysOK
  BY <1>1, InitKeys, ShapeHolds, PTL DEF Spec
<1> QED
  BY <1>2, KeysFireOnce, ShapeHolds, PTL

-----------------------------------------------------------------------------
(* How long ago a decision was made.                                       *)

\* A guardrail has let the request through to its insert.
Passed(t) == task[t].pc = "insert" /\ task[t].accepted /\ task[t].outcome.guardrails

ClockOK ==
  /\ \A m, n \in Rows : m <= n => decisions[m].at <= decisions[n].at
  /\ \A t \in Tasks : Passed(t) =>
       \A m \in GuardedOn(IssueOf(t)) : m <= task[t].began => now - decisions[m].at >= Cooldown
  /\ CooldownKeepsApart

LEMMA IssueStays ==
  ASSUME Shape, Grows, NEW u \in Tasks, task[u].pc # "idle", task'[u].id = task[u].id
  PROVE  IssueOf(u)' = IssueOf(u)
<1>1. task[u].id \in 1..Len(events)
  BY DEF Shape, BusyOK
<1> QED
  BY <1>1 DEF IssueOf, Content, Grows

LEMMA OthersPass ==
  ASSUME Shape, Grows, NEW t \in Tasks, Others(t), NEW u \in Tasks, u # t
  PROVE  /\ task'[u] = task[u] /\ Passed(u)' = Passed(u)
         /\ task[u].pc # "idle" => IssueOf(u)' = IssueOf(u)
<1>1. task'[u] = task[u]
  BY DEF Others
<1> QED
  BY <1>1, IssueStays DEF Passed

LEMMA SameGuarded ==
  ASSUME UNCHANGED <<world, decisions>>
  PROVE  Rows' = Rows /\ \A i : GuardedOn(i)' = GuardedOn(i)
BY DEF Rows, GuardedOn, Guarded, Triggers

LEMMA GuardedAreRows ==
  ASSUME TablesOK, NEW i
  PROVE  GuardedOn(i) \subseteq Rows
BY DEF GuardedOn, TablesOK, IsList, Rows

\* What a guarded trigger has decided is among the rows the statistics count.
LEMMA GuardedAreCounted ==
  ASSUME TablesOK, NEW i
  PROVE  GuardedOn(i) \subseteq TriggerRows(i)
<1> SUFFICES ASSUME NEW n \in GuardedOn(i) PROVE n \in TriggerRows(i)
  OBVIOUS
<1>1. n \in Rows /\ n \in DOMAIN decisions /\ decisions[n].accepted /\ decisions[n].issue = i
  BY DEF GuardedOn, Guarded, TablesOK, IsList, Rows
<1>2. Triggers[decisions[n].trigger].guardrails
  BY DEF GuardedOn, Guarded
<1>3. decisions[n].trigger \in DOMAIN Triggers
  BY <1>1 DEF TablesOK, RowOK
<1>4. Triggers[decisions[n].trigger].class \in {"assignee_reply", "registered_trigger"}
  BY <1>2, <1>3, WorldFacts, TriggerFields
<1> QED
  BY <1>1, <1>4 DEF TriggerRows, CountsAsTrigger

LEMMA LastIsLast ==
  ASSUME TablesOK, \A m, n \in Rows : m <= n => decisions[m].at <= decisions[n].at,
         NEW i, NEW m \in TriggerRows(i)
  PROVE  decisions[m].at <= LastTriggered(i) /\ LastTriggered(i) \in Nat
<1> DEFINE last == CHOOSE n \in TriggerRows(i) : \A other \in TriggerRows(i) : other <= n
<1>1. TriggerRows(i) \subseteq Rows /\ Len(decisions) \in Nat
  BY TriggerRowsAreRows DEF TablesOK, IsList
<1>2. \E n \in TriggerRows(i) : \A other \in TriggerRows(i) : other <= n
  BY <1>1, LargestNumber DEF Rows
<1>3. last \in TriggerRows(i) /\ m <= last
  BY <1>2
<1>4. LastTriggered(i) = decisions[last].at
  BY DEF LastTriggered
<1> HIDE DEF last
<1>5. decisions[last].at \in Nat
  BY <1>1, <1>3 DEF TablesOK, RowOK
<1> QED
  BY <1>1, <1>3, <1>4, <1>5

LEMMA OutcomeGuardrails ==
  ASSUME Shape, NEW t \in Tasks, task[t].pc = "insert", task[t].accepted
  PROVE  Triggers[task[t].outcome.trigger].guardrails <=> task[t].outcome.guardrails
<1>1. TablesOK /\ BusyOK(t, task[t]) /\ task[t].outcome # None
  BY DEF Shape, BusyOK
<1> QED
  BY <1>1, AcceptedOutcome, OutcomeFields

\* An insert adds a guarded decision only for a request that passed the guardrails.
LEMMA GuardedGrows ==
  ASSUME Shape, NEW t \in Tasks, world' = world, InsertDecision(t),
         NEW N \in Nat, N = Len(decisions) + 1
  PROVE  /\ Grows /\ TablesOK' /\ Rows' = Rows \cup {N} /\ N \notin Rows
         /\ \A n \in Rows : decisions'[n] = decisions[n]
         /\ decisions'[N].at = now /\ decisions'[N].began = task[t].began
         /\ decisions'[N].issue = IssueOf(t)
         /\ Guarded(N)' => Passed(t)
         /\ \A n \in Rows : Guarded(n)' = Guarded(n)
         /\ \A i : GuardedOn(i)' = IF Passed(t) /\ IssueOf(t) = i THEN GuardedOn(i) \cup {N}
                                   ELSE GuardedOn(i)
<1>1. /\ Grows /\ TablesOK' /\ Rows' = Rows \cup {N} /\ N \notin Rows
      /\ \A n \in Rows : decisions'[n] = decisions[n]
      /\ decisions'[N] = NewRow(t)
  BY InsertTables DEF Rows, Shape, TablesOK, IsList
<1>2. /\ decisions'[N].at = now /\ decisions'[N].began = task[t].began
      /\ decisions'[N].issue = IssueOf(t) /\ decisions'[N].accepted = task[t].accepted
  BY <1>1, NewRowFields
<1>3. \A n \in Rows : Guarded(n)' = Guarded(n)
  BY <1>1 DEF Guarded, Triggers
<1>4. Guarded(N)' <=> Passed(t)
  <2>1. task[t].pc = "insert"
    BY InsertStep
  <2>2. CASE task[t].accepted
    <3>1. decisions'[N].trigger = task[t].outcome.trigger
      BY <1>1, <2>2, NewRowFields
    <3>2. decisions'[N].accepted
      BY <1>2, <2>2
    <3>3. Guarded(N)' <=> Triggers[task[t].outcome.trigger].guardrails
      BY <3>1, <3>2 DEF Guarded, Triggers
    <3> QED
      BY <2>1, <2>2, <3>3, OutcomeGuardrails DEF Passed
  <2>3. CASE ~task[t].accepted
    BY <1>2, <2>3 DEF Guarded, Passed
  <2> QED
    BY <2>2, <2>3
<1>5. DOMAIN decisions = Rows /\ DOMAIN decisions' = Rows'
  BY <1>1 DEF Shape, TablesOK, IsList, Rows
<1>6. ASSUME NEW i
      PROVE  GuardedOn(i)' = IF Passed(t) /\ IssueOf(t) = i THEN GuardedOn(i) \cup {N}
                             ELSE GuardedOn(i)
  BY <1>1, <1>2, <1>3, <1>4, <1>5 DEF GuardedOn
<1> QED
  BY <1>1, <1>2, <1>3, <1>4, <1>6

LEMMA ClockKept ==
  ASSUME Shape, Grows, TablesOK', ClockOK, decisions' = decisions, NEW t \in Tasks, Others(t),
         Passed(t)' => \A m \in GuardedOn(IssueOf(t)) : now - decisions[m].at >= Cooldown,
         Passed(t)' => IssueOf(t)' = IssueOf(t)
  PROVE  ClockOK'
<1>1. Rows' = Rows /\ (\A i : GuardedOn(i)' = GuardedOn(i)) /\ \A n \in Rows : Guarded(n)' = Guarded(n)
  BY SameGuarded DEF Grows, Guarded, Triggers
<1>2. now \in Nat /\ now' \in Nat /\ now <= now' /\ \A m \in Rows : decisions[m].at \in Nat
  BY DEF Shape, TablesOK, RowOK, Grows
<1>3. ASSUME NEW u \in Tasks, Passed(u)', NEW m \in GuardedOn(IssueOf(u)'),
             m <= task'[u].began
      PROVE  now' - decisions[m].at >= Cooldown
  <2>1. m \in GuardedOn(IssueOf(u)) /\ now - decisions[m].at >= Cooldown
    <3>1. CASE u = t
      BY <1>3, <3>1
    <3>2. CASE u # t
      BY <1>3, <3>2, OthersPass DEF ClockOK, Passed
    <3> QED
      BY <3>1, <3>2
  <2>2. decisions[m].at \in Nat /\ Cooldown \in Nat
    BY <1>2, <2>1, GuardedAreRows, IngestConstants DEF Shape, IngestConstants
  <2> QED
    BY <1>2, <2>1, <2>2
<1>4. CooldownKeepsApart'
  BY <1>1 DEF ClockOK, CooldownKeepsApart, Rows
<1> QED
  BY <1>1, <1>3, <1>4 DEF ClockOK

LEMMA InsertClock ==
  ASSUME Shape, ClockOK, NEW t \in Tasks, world' = world, InsertDecision(t)
  PROVE  ClockOK'
<1>0. PICK N \in Nat : N = Len(decisions) + 1
  BY DEF Shape, TablesOK, IsList
<1>1. /\ Grows /\ TablesOK' /\ Rows' = Rows \cup {N} /\ N \notin Rows
      /\ \A n \in Rows : decisions'[n] = decisions[n]
      /\ decisions'[N].at = now /\ decisions'[N].began = task[t].began
      /\ decisions'[N].issue = IssueOf(t)
      /\ Guarded(N)' => Passed(t)
      /\ \A n \in Rows : Guarded(n)' = Guarded(n)
      /\ \A i : GuardedOn(i)' \cap Rows = GuardedOn(i)
  <2>1. \A i : GuardedOn(i) \subseteq Rows
    BY GuardedAreRows DEF Shape
  <2> QED
    BY <1>0, <2>1, GuardedGrows
<1>2. /\ now' = now /\ Others(t) /\ ~Passed(t)'
  BY InsertStep DEF Gone, Idle, Passed
<1>3. /\ Rows = 1..(N - 1) /\ now \in Nat
      /\ \A n \in Rows : decisions[n].at \in 0..now /\ decisions[n].began \in 0..(n - 1)
      /\ \A u \in Tasks : task[u].pc # "idle" => task[u].began \in 0..(N - 1)
  BY <1>0 DEF Rows, Shape, TablesOK, RowOK, BusyOK
<1>4. \A m, n \in Rows' : m <= n => decisions'[m].at <= decisions'[n].at
  <2> SUFFICES ASSUME NEW m \in Rows \cup {N}, NEW n \in Rows \cup {N}, m <= n
               PROVE  decisions'[m].at <= decisions'[n].at
    BY <1>1
  <2>1. CASE n = N /\ m \in Rows
    BY <1>1, <1>3, <2>1
  <2>2. CASE n = N /\ m = N
    BY <1>1, <1>3, <2>2
  <2>3. CASE n \in Rows
    <3>1. m \in Rows
      BY <1>0, <1>3, <2>3
    <3> QED
      BY <1>1, <2>3, <3>1 DEF ClockOK
  <2> QED
    BY <2>1, <2>2, <2>3
<1>5. ASSUME NEW u \in Tasks, Passed(u)', NEW m \in GuardedOn(IssueOf(u)'),
             m <= task'[u].began
      PROVE  now' - decisions[m].at >= Cooldown
  BY <1>1, <1>2, <1>5, OthersPass DEF ClockOK, Passed
<1>6. ASSUME NEW u \in Tasks, Passed(u)', NEW m \in GuardedOn(IssueOf(u))',
             m <= task'[u].began
      PROVE  now' - decisions'[m].at >= Cooldown
  <2>1. u # t /\ task'[u] = task[u] /\ task[u].pc # "idle" /\ IssueOf(u)' = IssueOf(u)
    BY <1>1, <1>2, <1>6, OthersPass DEF Passed
  <2>2. m \in Rows' /\ m <= N - 1
    <3>1. m \in Rows'
      BY <1>1, <1>6 DEF GuardedOn, TablesOK, IsList, Rows
    <3>2. m \in Nat
      BY <1>0, <1>1, <1>3, <3>1
    <3> QED
      BY <1>0, <1>3, <1>6, <2>1, <3>1, <3>2
  <2>3. m \in Rows
    BY <1>0, <1>1, <1>3, <2>2
  <2>4. m \in GuardedOn(IssueOf(u)')
    BY <1>1, <1>6, <2>3
  <2> QED
    BY <1>1, <1>5, <1>6, <2>3, <2>4
<1>7. CooldownKeepsApart'
  <2> SUFFICES ASSUME NEW m \in Rows', NEW n \in Rows', Guarded(n)',
                      m <= decisions'[n].began, m \in GuardedOn(decisions[n].issue)'
               PROVE  decisions'[n].at - decisions'[m].at >= Cooldown
    BY <1>1 DEF CooldownKeepsApart, TablesOK, IsList, Rows
  <2>1. CASE n \in Rows
    <3>1. m \in Rows
      BY <1>0, <1>1, <1>3, <2>1
    <3>2. m \in GuardedOn(decisions[n].issue) /\ Guarded(n)
      BY <1>1, <2>1, <3>1
    <3>3. m \in DOMAIN decisions /\ n \in DOMAIN decisions
      BY <2>1, <3>1 DEF Shape, TablesOK, IsList, Rows
    <3>4. m <= decisions[n].began /\ decisions'[n] = decisions[n] /\ decisions'[m] = decisions[m]
      BY <1>1, <2>1, <3>1
    <3>5. CooldownKeepsApart
      BY DEF ClockOK
    <3>6. decisions[n].at - decisions[m].at >= Cooldown
      BY <3>2, <3>3, <3>4, <3>5 DEF CooldownKeepsApart
    <3> QED
      BY <3>4, <3>6
  <2>2. CASE n = N
    <3>1. Passed(t) /\ m <= task[t].began /\ task[t].began \in 0..(N - 1)
      BY <1>0, <1>1, <1>3, <2>2 DEF Passed
    <3>2. m \in Rows
      BY <1>0, <1>1, <1>3, <3>1
    <3>3. m \in GuardedOn(IssueOf(t))
      BY <1>1, <2>2, <3>2
    <3> QED
      BY <1>1, <2>2, <3>1, <3>2, <3>3 DEF ClockOK
  <2> QED
    BY <1>1, <2>1, <2>2
<1> QED
  BY <1>4, <1>6, <1>7 DEF ClockOK

LEMMA SameClock ==
  ASSUME ClockOK, UNCHANGED <<world, events, decisions, task, now>>
  PROVE  ClockOK'
<1>1. Rows' = Rows /\ \A i : GuardedOn(i)' = GuardedOn(i)
  BY SameGuarded
<1>2. \A u : Passed(u)' = Passed(u) /\ IssueOf(u)' = IssueOf(u) /\ Guarded(u)' = Guarded(u)
  BY DEF Passed, IssueOf, Content, Guarded, Triggers
<1>3. CooldownKeepsApart'
  BY <1>1, <1>2 DEF ClockOK, CooldownKeepsApart
<1> QED
  BY <1>1, <1>2, <1>3 DEF ClockOK

LEMMA NextClock ==
  ASSUME Shape, ClockOK, [Next]_vars
  PROVE  ClockOK'
<1>1. CASE UNCHANGED vars
  BY <1>1, SameClock DEF vars
<1>2. CASE Tick /\ UNCHANGED world
  <2>1. /\ UNCHANGED <<world, events, decisions, task>>
        /\ now \in Nat /\ now' = now + 1 /\ Cooldown \in Nat
        /\ \A m \in Rows : decisions[m].at \in Nat
    BY <1>2, IngestConstants DEF Tick, Shape, TablesOK, RowOK, IngestConstants
  <2>2. Rows' = Rows /\ \A i : GuardedOn(i)' = GuardedOn(i) /\ GuardedOn(i) \subseteq Rows
    BY <2>1, SameGuarded, GuardedAreRows DEF Shape
  <2>3. \A u : Passed(u)' = Passed(u) /\ IssueOf(u)' = IssueOf(u) /\ Guarded(u)' = Guarded(u)
    BY <2>1 DEF Passed, IssueOf, Content, Guarded, Triggers
  <2>4. CooldownKeepsApart'
    BY <2>1, <2>2, <2>3 DEF ClockOK, CooldownKeepsApart
  <2>5. ASSUME NEW u \in Tasks, Passed(u), NEW m \in GuardedOn(IssueOf(u)), m <= task[u].began
        PROVE  now' - decisions[m].at >= Cooldown
    <3>1. now - decisions[m].at >= Cooldown /\ decisions[m].at \in Nat
      BY <2>1, <2>2, <2>5 DEF ClockOK
    <3> QED
      BY <2>1, <3>1
  <2> QED
    BY <2>1, <2>2, <2>3, <2>4, <2>5 DEF ClockOK
<1>3. ASSUME NEW t \in world.tasks, Work(t) \/ (Cut(t) /\ UNCHANGED world) PROVE ClockOK'
  <2>1. t \in Tasks /\ world' = world
    BY <1>3, WorldFacts DEF Shape, Work
  <2>2. CASE Decide(t) \/ Claim(t) \/ Cut(t) \/ ReadTotal(t) \/ ReadRecent(t)
    <3>1. UNCHANGED <<world, events, decisions, now>> /\ Others(t)
      BY <2>1, <2>2, DecideStep, ClaimStep, CutStep, ReadTotalStep, ReadRecentStep
         DEF Moved, Gone, Reads
    <3>2. ~Passed(t)'
      BY <2>1, <2>2, DecideStep, ClaimStep, CutStep, ReadTotalStep, ReadRecentStep
         DEF Passed, Gone, Idle
    <3> QED
      BY <2>1, <3>1, <3>2, SameGrows, ClockKept DEF Shape
  <2>3. CASE ReadLast(t)
    <3>1. /\ UNCHANGED <<world, events, decisions, now>> /\ Others(t) /\ task[t].pc = "last"
          /\ task'[t].id = task[t].id
          /\ task'[t].accepted <=> guardrails_hold(t, LastTriggered(IssueOf(t)))
      BY <2>1, <2>3, ReadLastStep DEF Reads, Moved
    <3>2. Grows
      BY <3>1, SameGrows DEF Shape
    <3>3. IssueOf(t)' = IssueOf(t)
      BY <2>1, <3>1, <3>2, IssueStays
    <3>4. ASSUME Passed(t)', NEW m \in GuardedOn(IssueOf(t))
          PROVE  now - decisions[m].at >= Cooldown
      <4>1. now - LastTriggered(IssueOf(t)) >= Cooldown
        BY <3>1, <3>4 DEF Passed, guardrails_hold
      <4>2. m \in TriggerRows(IssueOf(t)) /\ m \in Rows
        BY GuardedAreCounted, TriggerRowsAreRows DEF Shape
      <4>3. decisions[m].at <= LastTriggered(IssueOf(t)) /\ LastTriggered(IssueOf(t)) \in Nat
        BY <4>2, LastIsLast DEF Shape, ClockOK
      <4>4. decisions[m].at \in Nat /\ now \in Nat /\ Cooldown \in Nat
        BY <4>2, IngestConstants DEF IngestConstants, Shape, TablesOK, RowOK
      <4> QED
        BY <4>1, <4>3, <4>4
    <3> QED
      BY <2>1, <3>1, <3>2, <3>3, <3>4, SameGrows, ClockKept DEF Shape
  <2> QED
    BY <1>3, <2>1, <2>2, <2>3, InsertClock DEF Work
<1>4. ASSUME NEW t \in world.tasks, NEW d \in Deliveries, Receive(t, d), world' = world
      PROVE  ClockOK'
  <2>1. t \in Tasks
    BY WorldFacts DEF Shape
  <2>2. UNCHANGED <<decisions, now>>
    BY <1>4, <2>1, ReceiveStep
  <2>3. CASE events' = events /\ task' = task
    BY <1>4, <2>2, <2>3, SameClock
  <2>4. CASE task'[t].pc = "decide" /\ events' = Append(events, d) /\ Others(t)
    <3>1. Grows /\ TablesOK'
      BY <1>4, <2>2, <2>4, ReceiveTables
    <3>2. ~Passed(t)'
      BY <2>4 DEF Passed
    <3> QED
      BY <2>1, <2>2, <2>4, <3>1, <3>2, ClockKept
  <2> QED
    BY <1>4, <2>1, <2>3, <2>4, ReceiveStep
<1> QED
  BY <1>1, <1>2, <1>3, <1>4 DEF Next

LEMMA InitClock == Init => ClockOK
BY DEF Init, ClockOK, Rows, Idle, Passed, CooldownKeepsApart

\* An event recorded after a guarded decision was made is not dispatched by a guarded
\* trigger before the cooldown has passed.
THEOREM CooldownHolds == Spec => []CooldownKeepsApart
<1>1. Shape /\ ClockOK /\ [Next]_vars => ClockOK'
  BY NextClock
<1>2. Spec => []ClockOK
  BY <1>1, InitClock, ShapeHolds, PTL DEF Spec
<1>3. ClockOK => CooldownKeepsApart
  BY DEF ClockOK
<1> QED
  BY <1>2, <1>3, PTL

-----------------------------------------------------------------------------
(* How many requests the guardrails have let through.                      *)

\* The requests on the issue that found fewer decisions than the limit.
Admitted(issue) ==
  {t \in world.tasks : /\ Passed(t) \/ task[t].pc \in {"recent", "last"}
                       /\ task[t].total < world.depth /\ IssueOf(t) = issue}

DepthOK ==
  /\ \A t \in Tasks : Passed(t) => task[t].total < world.depth
  /\ \A i : Cardinality(GuardedOn(i)) + Cardinality(Admitted(i)) <= world.depth + Overshoot

LEMMA AdmittedFinite ==
  ASSUME TablesOK, NEW S, S \subseteq world.tasks
  PROVE  /\ IsFiniteSet(S) /\ Cardinality(S) \in Nat
         /\ Cardinality(S) <= Cardinality(world.tasks) /\ Cardinality(world.tasks) \in Nat
BY WorldFacts, FS_Subset, FS_CardinalityType

\* No request comes to be admitted, and no guarded decision is added.
LEMMA DepthKept ==
  ASSUME Shape, Grows, DepthOK, decisions' = decisions, NEW t \in Tasks, Others(t),
         Passed(t)' => task'[t].total < world.depth,
         \A i : t \in Admitted(i)' => t \in Admitted(i)
  PROVE  DepthOK'
<1>1. world' = world /\ Overshoot' = Overshoot /\ \A i : GuardedOn(i)' = GuardedOn(i)
  BY SameGuarded DEF Grows, Overshoot
<1>2. \A u \in Tasks : Passed(u)' => task'[u].total < world'.depth
  BY <1>1, OthersPass DEF DepthOK
<1>3. ASSUME NEW i
      PROVE  Cardinality(GuardedOn(i)') + Cardinality(Admitted(i)') <= world'.depth + Overshoot'
  <2>1. Admitted(i)' \subseteq Admitted(i)
    <3> SUFFICES ASSUME NEW u \in Admitted(i)' PROVE u \in Admitted(i)
      OBVIOUS
    <3>1. CASE u = t
      BY <3>1
    <3>2. CASE u # t
      <4>1. /\ u \in world.tasks /\ (Passed(u)' \/ task'[u].pc \in {"recent", "last"})
            /\ task'[u].total < world.depth /\ IssueOf(u)' = i
        BY <1>1 DEF Admitted
      <4>2. u \in Tasks
        BY <4>1, WorldFacts DEF Shape
      <4>3. task'[u] = task[u] /\ Passed(u)' = Passed(u) /\ (task[u].pc # "idle" => IssueOf(u)' = IssueOf(u))
        BY <3>2, <4>2, OthersPass
      <4>4. task[u].pc # "idle"
        BY <4>1, <4>3 DEF Passed
      <4> QED
        BY <4>1, <4>3, <4>4 DEF Admitted
    <3> QED
      BY <3>1, <3>2
  <2>2. IsFiniteSet(Admitted(i)) /\ Cardinality(Admitted(i)) \in Nat
    BY AdmittedFinite DEF Admitted, Shape
  <2>3. Cardinality(Admitted(i)') <= Cardinality(Admitted(i)) /\ Cardinality(Admitted(i)') \in Nat
    BY <2>1, <2>2, FS_Subset, FS_CardinalityType
  <2>4. Cardinality(GuardedOn(i)) \in Nat
    BY RowsFinite, GuardedAreRows DEF Shape
  <2>5. world.depth + Overshoot \in Int
    BY WorldFacts, FS_CardinalityType DEF Overshoot, Shape
  <2>6. Cardinality(GuardedOn(i)) + Cardinality(Admitted(i)) <= world.depth + Overshoot
    BY DEF DepthOK
  <2>7. Cardinality(GuardedOn(i)) + Cardinality(Admitted(i)') <= world.depth + Overshoot
    BY <2>2, <2>3, <2>4, <2>5, <2>6
  <2> QED
    BY <1>1, <2>7
<1> QED
  BY <1>2, <1>3 DEF DepthOK

\* Who is admitted found fewer decisions than the limit: all the other requests that
\* may be admitted beside it add at most one each.
LEMMA TotalDepth ==
  ASSUME Shape, DepthOK, NEW t \in world.tasks, world' = world, ReadTotal(t)
  PROVE  DepthOK'
<1>0. t \in Tasks
  BY WorldFacts DEF Shape
<1>1. /\ UNCHANGED <<world, events, decisions, now>> /\ Others(t)
      /\ task[t].pc = "total" /\ task'[t].pc = "recent" /\ task'[t].id = task[t].id
      /\ task'[t].total = Cardinality(TriggerRows(IssueOf(t)))
  BY <1>0, ReadTotalStep DEF Reads, Moved
<1>2. Grows
  BY <1>1, SameGrows DEF Shape
<1>3. ~Passed(t)' /\ IssueOf(t)' = IssueOf(t)
  BY <1>0, <1>1, <1>2, IssueStays DEF Passed
<1>4. CASE ~(task'[t].total < world.depth)
  BY <1>0, <1>1, <1>2, <1>3, <1>4, DepthKept DEF Admitted
<1>5. CASE task'[t].total < world.depth
  <2>1. Overshoot' = Overshoot /\ \A i : GuardedOn(i)' = GuardedOn(i)
    BY <1>1, SameGuarded DEF Overshoot
  <2>2. \A u \in Tasks : Passed(u)' => task'[u].total < world'.depth
    BY <1>0, <1>1, <1>2, <1>3, OthersPass DEF DepthOK
  <2>3. ASSUME NEW i
        PROVE  Cardinality(GuardedOn(i)') + Cardinality(Admitted(i)') <= world'.depth + Overshoot'
    <3>1. Admitted(i)' \subseteq world.tasks
      BY <1>1 DEF Admitted
    <3>2. Cardinality(Admitted(i)') \in Nat /\ Cardinality(Admitted(i)') <= Cardinality(world.tasks)
          /\ Cardinality(world.tasks) \in Nat
      BY <3>1, AdmittedFinite DEF Shape
    <3>3. Cardinality(GuardedOn(i)) \in Nat /\ world.depth \in Nat
      BY RowsFinite, GuardedAreRows, WorldFacts DEF Shape
    <3>4. CASE i = IssueOf(t)
      <4>1. TriggerRows(i) \subseteq Rows /\ GuardedOn(i) \subseteq TriggerRows(i)
        BY TriggerRowsAreRows, GuardedAreCounted DEF Shape
      <4>2. IsFiniteSet(TriggerRows(i)) /\ Cardinality(TriggerRows(i)) \in Nat
        BY <4>1, RowsFinite DEF Shape
      <4>3. Cardinality(GuardedOn(i)) <= Cardinality(TriggerRows(i))
        BY <4>1, <4>2, FS_Subset
      <4>4. Cardinality(TriggerRows(i)) < world.depth
        BY <1>1, <1>5, <3>4
      <4>5. Cardinality(GuardedOn(i)) + Cardinality(Admitted(i)')
              <= world.depth + (Cardinality(world.tasks) - 1)
        BY <3>2, <3>3, <4>2, <4>3, <4>4
      <4> QED
        BY <1>1, <2>1, <4>5 DEF Overshoot
    <3>5. CASE i # IssueOf(t)
      <4>1. Admitted(i)' \subseteq Admitted(i)
        <5> SUFFICES ASSUME NEW u \in Admitted(i)' PROVE u \in Admitted(i)
          OBVIOUS
        <5>1. /\ u \in world.tasks /\ (Passed(u)' \/ task'[u].pc \in {"recent", "last"})
              /\ task'[u].total < world.depth /\ IssueOf(u)' = i
          BY <1>1 DEF Admitted
        <5>2. u \in Tasks /\ u # t
          BY <1>3, <3>5, <5>1, WorldFacts DEF Shape
        <5>3. task'[u] = task[u] /\ Passed(u)' = Passed(u)
              /\ (task[u].pc # "idle" => IssueOf(u)' = IssueOf(u))
          BY <1>0, <1>1, <1>2, <5>2, OthersPass
        <5>4. task[u].pc # "idle"
          BY <5>1, <5>3 DEF Passed
        <5> QED
          BY <5>1, <5>3, <5>4 DEF Admitted
      <4>2. IsFiniteSet(Admitted(i)) /\ Cardinality(Admitted(i)) \in Nat
        BY AdmittedFinite DEF Admitted, Shape
      <4>3. Cardinality(Admitted(i)') <= Cardinality(Admitted(i))
        BY <4>1, <4>2, FS_Subset
      <4>4. Cardinality(GuardedOn(i)) + Cardinality(Admitted(i))
              <= world.depth + (Cardinality(world.tasks) - 1)
        BY DEF DepthOK, Overshoot
      <4>5. Cardinality(GuardedOn(i)) + Cardinality(Admitted(i)')
              <= world.depth + (Cardinality(world.tasks) - 1)
        BY <3>2, <3>3, <4>2, <4>3, <4>4
      <4> QED
        BY <1>1, <2>1, <4>5 DEF Overshoot
    <3> QED
      BY <3>4, <3>5
  <2> QED
    BY <2>2, <2>3 DEF DepthOK
<1> QED
  BY <1>4, <1>5

\* An admitted request that inserts turns from one admitted into one decision.
LEMMA InsertDepth ==
  ASSUME Shape, DepthOK, NEW t \in world.tasks, world' = world, InsertDecision(t)
  PROVE  DepthOK'
<1>0. t \in Tasks
  BY WorldFacts DEF Shape
<1>1. PICK N \in Nat : N = Len(decisions) + 1
  BY DEF Shape, TablesOK, IsList
<1>2. /\ Grows /\ N \notin Rows
      /\ \A i : GuardedOn(i)' = IF Passed(t) /\ IssueOf(t) = i THEN GuardedOn(i) \cup {N}
                                ELSE GuardedOn(i)
  BY <1>0, <1>1, GuardedGrows
<1>3. task[t].pc = "insert" /\ task'[t].pc = "idle" /\ Others(t) /\ ~Passed(t)'
  BY <1>0, InsertStep DEF Gone, Idle, Passed
<1>4. \A u \in Tasks : Passed(u)' => task'[u].total < world'.depth
  BY <1>0, <1>2, <1>3, OthersPass DEF DepthOK
<1>5. Overshoot' = Overshoot
  BY DEF Overshoot
<1>6. ASSUME NEW i
      PROVE  Cardinality(GuardedOn(i)') + Cardinality(Admitted(i)') <= world'.depth + Overshoot'
  <2>1. Admitted(i)' \subseteq Admitted(i) \ {t}
    <3> SUFFICES ASSUME NEW u \in Admitted(i)' PROVE u \in Admitted(i) /\ u # t
      OBVIOUS
    <3>1. /\ u \in world.tasks /\ (Passed(u)' \/ task'[u].pc \in {"recent", "last"})
          /\ task'[u].total < world.depth /\ IssueOf(u)' = i
      BY DEF Admitted
    <3>2. u \in Tasks /\ u # t
      BY <1>3, <3>1, WorldFacts DEF Shape
    <3>3. task'[u] = task[u] /\ Passed(u)' = Passed(u) /\ (task[u].pc # "idle" => IssueOf(u)' = IssueOf(u))
      BY <1>0, <1>2, <1>3, <3>2, OthersPass
    <3>4. task[u].pc # "idle"
      BY <3>1, <3>3 DEF Passed
    <3> QED
      BY <3>1, <3>2, <3>3, <3>4 DEF Admitted
  <2>2. IsFiniteSet(Admitted(i)) /\ Cardinality(Admitted(i)) \in Nat
    BY AdmittedFinite DEF Admitted, Shape
  <2>3. IsFiniteSet(GuardedOn(i)) /\ Cardinality(GuardedOn(i)) \in Nat /\ N \notin GuardedOn(i)
    BY <1>2, RowsFinite, GuardedAreRows DEF Shape
  <2>4. world.depth + Overshoot \in Int
    BY WorldFacts, FS_CardinalityType DEF Overshoot, Shape
  <2>5. Cardinality(GuardedOn(i)) + Cardinality(Admitted(i)) <= world.depth + Overshoot
    BY DEF DepthOK
  <2>6. IsFiniteSet(Admitted(i) \ {t})
    BY <2>2, FS_Subset
  <2>7. Cardinality(Admitted(i)') <= Cardinality(Admitted(i) \ {t}) /\ Cardinality(Admitted(i)') \in Nat
    BY <2>1, <2>6, FS_Subset, FS_CardinalityType
  <2>8. CASE Passed(t) /\ IssueOf(t) = i
    <3>1. t \in Admitted(i)
      BY <1>0, <2>8 DEF DepthOK, Admitted
    <3>2. Cardinality(Admitted(i) \ {t}) = Cardinality(Admitted(i)) - 1
      BY <2>2, <3>1, FS_RemoveElement
    <3>3. GuardedOn(i)' = GuardedOn(i) \cup {N}
      BY <1>2, <2>8
    <3>4. Cardinality(GuardedOn(i)') = Cardinality(GuardedOn(i)) + 1
      BY <2>3, <3>3, FS_AddElement
    <3>5. Cardinality(GuardedOn(i)') + Cardinality(Admitted(i)') <= world.depth + Overshoot
      BY <2>2, <2>3, <2>4, <2>5, <2>7, <3>2, <3>4
    <3> QED
      BY <1>5, <3>5
  <2>9. CASE ~(Passed(t) /\ IssueOf(t) = i)
    <3>1. GuardedOn(i)' = GuardedOn(i)
      BY <1>2, <2>9
    <3>2. Cardinality(Admitted(i) \ {t}) <= Cardinality(Admitted(i))
          /\ Cardinality(Admitted(i) \ {t}) \in Nat
      BY <2>2, <2>6, FS_Subset, FS_CardinalityType
    <3>3. Cardinality(GuardedOn(i)) + Cardinality(Admitted(i)') <= world.depth + Overshoot
      BY <2>2, <2>3, <2>4, <2>5, <2>7, <3>2
    <3> QED
      BY <1>5, <3>1, <3>3
  <2> QED
    BY <2>8, <2>9
<1> QED
  BY <1>4, <1>6 DEF DepthOK

LEMMA SameDepth ==
  ASSUME DepthOK, UNCHANGED <<world, events, decisions, task>>
  PROVE  DepthOK'
<1>1. Overshoot' = Overshoot /\ \A i : GuardedOn(i)' = GuardedOn(i)
  BY SameGuarded DEF Overshoot
<1>2. \A u : Passed(u)' = Passed(u) /\ IssueOf(u)' = IssueOf(u)
  BY DEF Passed, IssueOf, Content
<1>3. \A i : Admitted(i)' = Admitted(i)
  BY <1>2 DEF Admitted
<1> QED
  BY <1>1, <1>2, <1>3 DEF DepthOK

LEMMA NextDepth ==
  ASSUME Shape, DepthOK, [Next]_vars
  PROVE  DepthOK'
<1>1. CASE UNCHANGED vars \/ (Tick /\ UNCHANGED world)
  BY <1>1, SameDepth DEF vars, Tick
<1>2. ASSUME NEW t \in world.tasks, Work(t) \/ (Cut(t) /\ UNCHANGED world) PROVE DepthOK'
  <2>1. t \in Tasks /\ world' = world
    BY <1>2, WorldFacts DEF Shape, Work
  <2>2. CASE Decide(t) \/ Claim(t) \/ Cut(t)
    <3>1. UNCHANGED <<world, events, decisions, now>> /\ Others(t)
      BY <2>1, <2>2, DecideStep, ClaimStep, CutStep DEF Moved, Gone
    <3>2. ~Passed(t)' /\ task'[t].pc \notin {"recent", "last"}
      BY <2>1, <2>2, DecideStep, ClaimStep, CutStep DEF Passed, Gone, Idle
    <3> QED
      BY <2>1, <3>1, <3>2, SameGrows, DepthKept DEF Shape, Admitted
  <2>3. CASE ReadRecent(t) \/ ReadLast(t)
    <3>1. /\ UNCHANGED <<world, events, decisions, now>> /\ Others(t)
          /\ task[t].pc \in {"recent", "last"}
          /\ task'[t].id = task[t].id /\ task'[t].total = task[t].total
      BY <2>1, <2>3, ReadRecentStep, ReadLastStep DEF Reads, Moved
    <3>2. Grows
      BY <3>1, SameGrows DEF Shape
    <3>3. IssueOf(t)' = IssueOf(t)
      BY <2>1, <3>1, <3>2, IssueStays
    <3>4. Passed(t)' => task'[t].total < world.depth
      <4>1. CASE ReadRecent(t)
        BY <2>1, <4>1, ReadRecentStep DEF Passed
      <4>2. CASE ReadLast(t)
        BY <2>1, <4>2, ReadLastStep DEF Passed, guardrails_hold
      <4> QED
        BY <2>3, <4>1, <4>2
    <3>5. \A i : t \in Admitted(i)' => t \in Admitted(i)
      BY <2>1, <3>1, <3>3 DEF Admitted
    <3> QED
      BY <2>1, <3>1, <3>2, <3>4, <3>5, DepthKept
  <2> QED
    BY <1>2, <2>1, <2>2, <2>3, TotalDepth, InsertDepth DEF Work
<1>3. ASSUME NEW t \in world.tasks, NEW d \in Deliveries, Receive(t, d), world' = world
      PROVE  DepthOK'
  <2>1. t \in Tasks /\ UNCHANGED <<decisions, now>>
    BY <1>3, WorldFacts, ReceiveStep DEF Shape
  <2>2. CASE events' = events /\ task' = task
    BY <1>3, <2>1, <2>2, SameDepth
  <2>3. CASE task'[t].pc = "decide" /\ events' = Append(events, d) /\ Others(t)
    <3>1. Grows
      BY <1>3, <2>1, <2>3, ReceiveTables
    <3>2. ~Passed(t)' /\ \A i : t \notin Admitted(i)'
      BY <2>3 DEF Passed, Admitted
    <3> QED
      BY <2>1, <2>3, <3>1, <3>2, DepthKept
  <2> QED
    BY <1>3, <2>1, <2>2, <2>3, ReceiveStep
<1> QED
  BY <1>1, <1>2, <1>3 DEF Next

LEMMA InitDepth == Init => DepthOK
<1> SUFFICES ASSUME Init PROVE DepthOK
  OBVIOUS
<1>1. TablesOK /\ world.tasks \subseteq Tasks
  BY InitShape, WorldFacts DEF Shape
<1>2. \A u \in Tasks : ~Passed(u) /\ task[u].pc = "idle"
  BY DEF Init, Passed, Idle
<1>3. ASSUME NEW i PROVE Cardinality(GuardedOn(i)) = 0 /\ Cardinality(Admitted(i)) = 0
  <2>1. Admitted(i) = {}
    BY <1>1, <1>2 DEF Admitted
  <2>2. GuardedOn(i) = {}
    BY <1>1, GuardedAreRows DEF Init, Rows
  <2> QED
    BY <2>1, <2>2, FS_EmptySet
<1>4. Cardinality(world.tasks) \in Nat /\ Cardinality(world.tasks) # 0 /\ world.depth \in Nat
  BY <1>1, WorldFacts, FS_CardinalityType, FS_EmptySet
<1>5. 0 + 0 <= world.depth + Overshoot
  BY <1>4 DEF Overshoot
<1> QED
  BY <1>2, <1>3, <1>5 DEF DepthOK

\* A guarded limit is exceeded by at most one decision for each other request that may be
\* in progress.
THEOREM DepthHolds == Spec => []DepthNearlyHolds
<1>1. Shape /\ DepthOK /\ [Next]_vars => DepthOK'
  BY NextDepth
<1>2. Spec => []DepthOK
  BY <1>1, InitDepth, ShapeHolds, PTL DEF Spec
<1>3. Shape /\ DepthOK => DepthNearlyHolds
  <2> SUFFICES ASSUME Shape, DepthOK, NEW i
               PROVE  Cardinality(GuardedOn(i)) <= world.depth + Overshoot
    BY DEF DepthNearlyHolds
  <2>1. Cardinality(Admitted(i)) \in Nat
    BY AdmittedFinite DEF Admitted, Shape
  <2>2. Cardinality(GuardedOn(i)) \in Nat /\ world.depth + Overshoot \in Int
    BY RowsFinite, GuardedAreRows, WorldFacts, FS_CardinalityType DEF Overshoot, Shape
  <2>3. Cardinality(GuardedOn(i)) + Cardinality(Admitted(i)) <= world.depth + Overshoot
    BY DEF DepthOK
  <2> QED
    BY <2>1, <2>2, <2>3
<1> QED
  BY <1>2, <1>3, ShapeHolds, PTL
=============================================================================
