------------------------------ MODULE LabelProofs ------------------------------
(***************************************************************************)
(* Theorems about IssueLabels for every world that LabelWorlds allows: any *)
(* number of programs, of any length, and any number of failures.          *)
(*                                                                         *)
(* Base says what the calls that a process still has to make may do, and   *)
(* that the claim of a process that holds the issue is on it.  WorkerOK    *)
(* says where a worker may be; StateOK, that an issue which only workers   *)
(* touch has somebody who will bring it back to ready.                     *)
(***************************************************************************)
EXTENDS IssueLabels, SequenceTheorems, FiniteSetTheorems, TLAPS

IsList(s) == Len(s) \in Nat /\ s = [n \in 1..Len(s) |-> s[n]]

Procs == DOMAIN world.script
Own(p) == ClaimsOf(Script(p))
Unclaimed == \A p \in Procs : Own(p) = {}
OneState(view) == \A x, y \in StatesIn(view) : x = y

-----------------------------------------------------------------------------
(* What is left for a process to do.                                       *)

CallOK(p, c) ==
  /\ c = Do(c.do, c.arg)
  /\ c.do = "add" => c.arg[1] # "claimed" \/ c.arg \in Own(p)
  /\ c.do = "drop" => ClaimsIn(c.arg) \subseteq Own(p)
  /\ c.do = "retract" => c.arg \in Own(p)
  /\ c.do = "claim" => Claim(c.arg) \in Own(p)
  /\ c.do = "confirm" => c.arg.own \in Own(p)
  /\ c.do = "release" => {Claim(agent) : agent \in c.arg} \subseteq Own(p)
  /\ c.do = "ensure" => c.arg[1] # "claimed"
  /\ c.do = "clear" => c.arg # "claimed"
  /\ c.do = "replace" => OneState(c.arg) /\ ClaimsIn(c.arg) = {}
  /\ c.do \in {"replace", "project", "reset", "reset state"} => Unclaimed

\* The steps of a claim come alone.
OfClaim == {"claim", "confirm", "retract"}

CallsOK(p, calls) ==
  /\ IsList(calls)
  /\ \A c \in Range(calls) :
       /\ CallOK(p, c)
       /\ c.do \in OfClaim => \/ calls = <<c>>
                              \/ c.do = "confirm" /\ calls = <<Do("add", c.arg.own), c>>

\* A holder takes its claim off the issue only by its release.
Harmless(p, c) ==
  /\ c.do = "drop" => c.arg \cap Own(p) = {}
  /\ c.do # "retract"
  /\ c.do = "confirm" => c.arg.had

HoldOK(p, calls, view, held) ==
  /\ p \in held => /\ Own(p) # {} /\ Own(p) \subseteq view
                   /\ \A c \in Range(calls) : Harmless(p, c)
  /\ \A c \in Range(calls) : c.do = "confirm" /\ calls = <<c>> => c.arg.own \in view

ProcOK(p, y, view, held) ==
  /\ y = [at |-> y.at, calls |-> y.calls]
  /\ y.at \in DOMAIN Script(p).commands
  /\ CallsOK(p, y.calls)
  /\ HoldOK(p, y.calls, view, held)

LabelsOK(view) ==
  /\ OneState(view)
  /\ ClaimsIn(view) \subseteq UNION {Own(p) : p \in Procs}

Base ==
  /\ world \in Worlds
  /\ holds \subseteq Procs /\ faulted \subseteq Procs
  /\ LabelsOK(labels)
  /\ proc = [p \in Procs |-> proc[p]]
  /\ \A p \in Procs : ProcOK(p, proc[p], labels, holds)

\* What Continue makes of a process.
After(p, calls) ==
  LET left == calls \o Tail(proc[p].calls)
  IN  IF left = <<>> THEN NextCommand(p) ELSE [at |-> proc[p].at, calls |-> left]

\* Calls that no claim is made of and that take none of the process's claims away.
Plain(p, calls) ==
  /\ IsList(calls)
  /\ \A c \in Range(calls) : CallOK(p, c) /\ c.do \notin OfClaim /\ Harmless(p, c)

-----------------------------------------------------------------------------
(* Where a worker is.                                                      *)

Free(p, view, held) == p \notin held /\ Own(p) \cap view = {}

\* ensure_issue_state has still to give the issue this state.
Entering(calls, state) ==
  \/ calls = <<Do("ensure", state)>>
  \/ calls = <<Do("add", state)>>
  \/ Len(calls) = 2 /\ calls = <<Do("drop", calls[1].arg), Do("add", state)>>
                    /\ ClaimsIn(calls[1].arg) = {}

InProgress == WorkflowState("in-progress")
Ready == WorkflowState("ready")

AtWork(p, y, agent, view, held) ==
  LET own == Claim(agent)
      confirm == Do("confirm", [own |-> own, had |-> FALSE])
  IN  \/ y.at = 1 /\ y.calls = <<Do("pick", {})>> /\ Free(p, view, held)
      \/ y.at = 2 /\ y.calls = <<Do("claim", agent)>> /\ Free(p, view, held)
      \/ y.at = 2 /\ y.calls = <<Do("add", own), confirm>> /\ Free(p, view, held)
      \/ y.at = 2 /\ y.calls = <<confirm>> /\ p \notin held
      \/ y.at = 2 /\ y.calls = <<Do("retract", own)>> /\ p \notin held
      \/ y.at = 2 /\ p \in held /\ Entering(y.calls, InProgress)
      \/ y.at = 3 /\ p \in held /\ y.calls = <<Do("release", {agent})>>
      \/ y.at = 3 /\ p \notin held
           /\ y.calls \in {<<Do("drop", {own})>>, <<Do("drop", {own}), Do("ensure", Ready)>>}
      \/ y.at = 3 /\ Free(p, view, held) /\ Entering(y.calls, Ready)
      \/ y.calls = <<>> /\ Free(p, view, held)

WorkerOK(p, y, view, held, failed) ==
  IsWorker(p) =>
    IF p \in failed THEN y.calls = <<>> /\ p \notin held
    ELSE \E c \in Range(Script(p).commands) :
           /\ c.do = "claim" /\ Script(p) = Worker(c.arg)
           /\ AtWork(p, y, c.arg, view, held)

WorkersOK == \A p \in Procs : WorkerOK(p, proc[p], labels, holds, faulted)

\* Who has undertaken to give the issue a state, and who to make it ready again.
WillState(y) ==
  \E c \in Range(y.calls) : c \in {Do("add", Ready), Do("add", InProgress)}
WillReady(p, y, held) ==
  p \in held \/ \E c \in Range(y.calls) : c \in {Do("ensure", Ready), Do("add", Ready)}

\* A step of a worker that leaves the issue without a state, or in progress, leaves it in
\* somebody's care.
Moves(p, y, view, held) ==
  /\ view \subseteq labels \cup {Ready, InProgress} \cup Own(p)
  /\ StatesIn(view) = {} =>
       WillState(y) \/ (StatesIn(labels) = {} /\ ~WillState(proc[p]))
  /\ StatesIn(view) = {InProgress} =>
       \/ WillReady(p, y, held)
       \/ StatesIn(labels) = {InProgress} /\ ~WillReady(p, proc[p], holds)

StateOK ==
  world.labels = {Ready} /\ (\A p \in Procs : IsWorker(p)) /\ faulted = {} =>
    /\ labels \subseteq {Ready, InProgress} \cup UNION {Own(p) : p \in Procs}
    /\ StatesIn(labels) = {} => \E p \in Procs : WillState(proc[p])
    /\ StatesIn(labels) = {InProgress} => \E p \in Procs : WillReady(p, proc[p], holds)

-----------------------------------------------------------------------------
(* Lists.                                                                  *)

LEMMA ListInSeq ==
  ASSUME NEW s, IsList(s)
  PROVE  /\ s \in Seq(Range(s)) /\ DOMAIN s = 1..Len(s)
         /\ s = <<>> => Len(s) = 0
         /\ Len(s) = 0 => s = <<>>
<1>1. DOMAIN s = 1..Len(s) /\ s \in [1..Len(s) -> Range(s)]
  BY DEF IsList, Range
<1>2. s \in Seq(Range(s))
  BY <1>1 DEF IsList
<1>3. ASSUME Len(s) = 0 PROVE s = <<>>
  BY <1>2, <1>3
<1>4. ASSUME s = <<>> PROVE Len(s) = 0
  BY <1>4
<1> QED
  BY <1>1, <1>2, <1>3, <1>4

LEMMA SeqIsList ==
  ASSUME NEW S, NEW s \in Seq(S)
  PROVE  IsList(s) /\ Range(s) \subseteq S
BY DEF IsList, Range

LEMMA Singles ==
  ASSUME NEW c
  PROVE  /\ IsList(<<c>>) /\ Range(<<c>>) = {c} /\ <<c>> # <<>>
         /\ Head(<<c>>) = c /\ Tail(<<c>>) = <<>>
         /\ IsList(<<>>) /\ Range(<<>>) = {}
BY DEF IsList, Range

LEMMA Pairs ==
  ASSUME NEW c, NEW d
  PROVE  /\ IsList(<<c, d>>) /\ Range(<<c, d>>) = {c, d} /\ <<c, d>> # <<>>
         /\ Len(<<c, d>>) = 2
         /\ Head(<<c, d>>) = c /\ Tail(<<c, d>>) = <<d>> /\ <<c>> \o <<d>> = <<c, d>>
<1>1. IsList(<<c, d>>) /\ Len(<<c, d>>) = 2
  BY DEF IsList
<1>2. DOMAIN <<c, d>> = {1, 2} /\ <<c, d>>[1] = c /\ <<c, d>>[2] = d
  OBVIOUS
<1>3. Range(<<c, d>>) = {c, d}
  BY <1>2 DEF Range
<1>4. Head(<<c, d>>) = c /\ <<c, d>> # <<>>
  OBVIOUS
<1>5. Tail(<<c, d>>) = <<d>>
  <2> DEFINE t == Tail(<<c, d>>)
  <2>1. <<c, d>> \in Seq({c, d}) /\ <<d>> \in Seq({c, d})
    OBVIOUS
  <2>2. t \in Seq({c, d}) /\ Len(t) = 1 /\ \A i \in 1..1 : t[i] = <<c, d>>[i + 1]
    BY <1>1, <1>4, <2>1, HeadTailProperties
  <2>3. t[1] = d
    BY <1>2, <2>2
  <2> HIDE DEF t
  <2>4. Len(<<d>>) = 1 /\ <<d>>[1] = d
    OBVIOUS
  <2>5. \A i \in 1..Len(t) : t[i] = <<d>>[i]
    BY <2>2, <2>3, <2>4
  <2>6. t = <<d>>
    BY <2>1, <2>2, <2>4, <2>5, SeqEqual
  <2> QED
    BY <2>6 DEF t
<1>6. <<c>> \o <<d>> = <<c, d>>
  <2> DEFINE t == <<c>> \o <<d>>
  <2>1. <<c>> \in Seq({c, d}) /\ <<d>> \in Seq({c, d}) /\ <<c, d>> \in Seq({c, d})
    OBVIOUS
  <2>2. Len(<<c>>) = 1 /\ Len(<<d>>) = 1 /\ <<c>>[1] = c /\ <<d>>[1] = d
    OBVIOUS
  <2>3. /\ t \in Seq({c, d}) /\ Len(t) = 2
        /\ \A i \in 1..2 : t[i] = IF i <= 1 THEN <<c>>[i] ELSE <<d>>[i - 1]
    BY <2>1, <2>2, ConcatProperties
  <2>4. t[1] = c /\ t[2] = d
    BY <2>2, <2>3
  <2> HIDE DEF t
  <2>5. \A i \in 1..Len(t) : t[i] = <<c, d>>[i]
    BY <1>2, <2>3, <2>4
  <2>6. t = <<c, d>>
    BY <1>1, <2>1, <2>3, <2>5, SeqEqual
  <2> QED
    BY <2>6 DEF t
<1> QED
  BY <1>1, <1>3, <1>4, <1>5, <1>6

LEMMA Joined ==
  ASSUME NEW s, NEW t, IsList(s), IsList(t)
  PROVE  /\ IsList(s \o t) /\ Range(s \o t) = Range(s) \cup Range(t)
         /\ s = <<>> => s \o t = t
         /\ t = <<>> => s \o t = s
         /\ s # <<>> => s \o t # <<>>
<1> DEFINE S == Range(s) \cup Range(t)
<1>1. s \in Seq(S) /\ t \in Seq(S) /\ DOMAIN s = 1..Len(s) /\ DOMAIN t = 1..Len(t)
  <2>1. s \in Seq(Range(s)) /\ t \in Seq(Range(t))
    BY ListInSeq
  <2> QED
    BY <2>1, ListInSeq
<1>2. /\ s \o t \in Seq(S) /\ Len(s \o t) = Len(s) + Len(t)
      /\ \A i \in 1..(Len(s) + Len(t)) :
           (s \o t)[i] = IF i <= Len(s) THEN s[i] ELSE t[i - Len(s)]
  BY <1>1, ConcatProperties
<1>3. IsList(s \o t) /\ Range(s \o t) \subseteq S
  BY <1>2, SeqIsList
<1>4. DOMAIN (s \o t) = 1..(Len(s) + Len(t)) /\ Len(s) \in Nat /\ Len(t) \in Nat
  BY <1>2, <1>3, ListInSeq DEF IsList
<1>5. \A i \in 1..Len(s) : s[i] \in Range(s \o t)
  <2> TAKE i \in 1..Len(s)
  <2>1. i \in 1..(Len(s) + Len(t)) /\ (s \o t)[i] = s[i]
    BY <1>2, <1>4
  <2> QED
    BY <1>4, <2>1 DEF Range
<1>6. \A i \in 1..Len(t) : t[i] \in Range(s \o t)
  <2> TAKE i \in 1..Len(t)
  <2>1. /\ Len(s) + i \in 1..(Len(s) + Len(t)) /\ ~(Len(s) + i <= Len(s))
        /\ (Len(s) + i) - Len(s) = i
    BY <1>4
  <2>2. (s \o t)[Len(s) + i] = t[i]
    BY <1>2, <2>1
  <2> QED
    BY <1>4, <2>1, <2>2 DEF Range
<1>7. Range(s) \subseteq Range(s \o t) /\ Range(t) \subseteq Range(s \o t)
  BY <1>1, <1>5, <1>6 DEF Range
<1>8. s = <<>> => s \o t = t
  BY <1>1, ConcatEmptySeq
<1>9. t = <<>> => s \o t = s
  BY <1>1, ConcatEmptySeq
<1>10. s # <<>> => s \o t # <<>>
  BY <1>2, <1>3, <1>4, ListInSeq
<1> QED
  BY <1>3, <1>7, <1>8, <1>9, <1>10

LEMMA Rest ==
  ASSUME NEW s, IsList(s), s # <<>>
  PROVE  /\ IsList(Tail(s)) /\ Range(Tail(s)) \subseteq Range(s) /\ Head(s) \in Range(s)
         /\ Range(s) = {Head(s)} \cup Range(Tail(s))
<1>1. s \in Seq(Range(s)) /\ DOMAIN s = 1..Len(s)
  BY ListInSeq
<1>2. /\ Head(s) \in Range(s) /\ Tail(s) \in Seq(Range(s)) /\ Len(Tail(s)) = Len(s) - 1
      /\ \A i \in 1..Len(Tail(s)) : Tail(s)[i] = s[i + 1]
  BY <1>1, HeadTailProperties
<1>3. IsList(Tail(s)) /\ Range(Tail(s)) \subseteq Range(s) /\ DOMAIN Tail(s) = 1..Len(Tail(s))
  BY <1>2, SeqIsList, ListInSeq
<1>4. Head(s) = s[1]
  BY <1>1
<1>5. \A i \in 1..Len(s) : s[i] \in {Head(s)} \cup Range(Tail(s))
  <2> TAKE i \in 1..Len(s)
  <2>1. CASE i = 1
    BY <1>4, <2>1
  <2>2. CASE i # 1
    <3>1. i - 1 \in 1..Len(Tail(s)) /\ (i - 1) + 1 = i
      BY <1>2, <2>2 DEF IsList
    <3>2. Tail(s)[i - 1] = s[i]
      BY <1>2, <3>1
    <3> QED
      BY <1>3, <3>1, <3>2 DEF Range
  <2> QED
    BY <2>1, <2>2
<1> QED
  BY <1>1, <1>2, <1>3, <1>5 DEF Range

-----------------------------------------------------------------------------
(* The worlds.                                                             *)

LEMMA WorkerProgram ==
  ASSUME NEW agent
  PROVE  LET commands == Worker(agent).commands
         IN  /\ Len(commands) = 3 /\ DOMAIN commands = 1..3
             /\ commands[1] = Do("pick", {}) /\ commands[2] = Do("claim", agent)
             /\ commands[3] = Do("release", {agent})
             /\ Range(commands) = {Do("pick", {}), Do("claim", agent), Do("release", {agent})}
             /\ ClaimsOf(Worker(agent)) = {Claim(agent)}
             /\ Worker(agent).stops = TRUE /\ Worker(agent).loops = FALSE
<1> DEFINE commands == Worker(agent).commands
<1>1. commands = <<Do("pick", {}), Do("claim", agent), Do("release", {agent})>>
  BY DEF Worker
<1>2. Worker(agent).stops = TRUE /\ Worker(agent).loops = FALSE
  BY DEF Worker
<1>3. /\ Len(commands) = 3 /\ DOMAIN commands = 1..3 /\ DOMAIN commands = {1, 2, 3}
      /\ commands[1] = Do("pick", {}) /\ commands[2] = Do("claim", agent)
      /\ commands[3] = Do("release", {agent})
  BY <1>1
<1>4. Range(commands) = {Do("pick", {}), Do("claim", agent), Do("release", {agent})}
  BY <1>3 DEF Range
<1>5. ClaimsOf(Worker(agent)) = {Claim(agent)}
  <2>1. \A c \in Range(commands) : c.do = "claim" <=> c = Do("claim", agent)
    BY <1>4 DEF Do
  <2>2. {c \in Range(commands) : c.do = "claim"} = {Do("claim", agent)}
    BY <1>4, <2>1
  <2>3. Do("claim", agent).arg = agent
    BY DEF Do
  <2> HIDE DEF commands
  <2>4. {Claim(c.arg) : c \in {c \in Range(commands) : c.do = "claim"}} = {Claim(agent)}
    BY <2>2, <2>3
  <2> QED
    BY <2>4 DEF ClaimsOf, commands
<1> QED
  BY <1>2, <1>3, <1>4, <1>5

\* The commands of a program are a list of commands that it may begin.
LEMMA Scripts ==
  ASSUME world \in Worlds, NEW p \in Procs
  PROVE  LET commands == Script(p).commands
         IN  /\ IsList(commands) /\ Len(commands) \in Nat \ {0}
             /\ DOMAIN commands = 1..Len(commands)
             /\ \A c \in Range(commands) : IsCommand(c) /\ CallOK(p, c)
<1> DEFINE commands == Script(p).commands
<1>1. IsList(commands) /\ Len(commands) \in Nat \ {0}
  BY LabelConstants, LabelWorlds DEF IsList, Script, Procs
<1>2. DOMAIN commands = 1..Len(commands)
  BY <1>1, ListInSeq
<1>3. \A c \in Range(commands) : IsCommand(c)
  BY LabelWorlds DEF Script, Procs
<1>4. ASSUME NEW c \in Range(commands)
      PROVE  CallOK(p, c)
  <2>1. CASE c.do = "release"
    <3>1. {Claim(agent) : agent \in c.arg} \subseteq Own(p)
      BY <2>1, LabelWorlds DEF Own, Script, Procs
    <3> QED
      BY <1>3, <2>1, <3>1 DEF CallOK, IsCommand
  <2>2. CASE c.do \in {"project", "reset"}
    <3>1. Uses(Script(p), {"project", "reset"})
      BY <2>2 DEF Uses
    <3>2. \A q \in Procs : Own(q) = {}
      BY <3>1, LabelWorlds DEF Own, Script, Procs
    <3> QED
      BY <1>3, <2>2, <3>2 DEF CallOK, IsCommand, Unclaimed
  <2>3. CASE c.do = "claim"
    BY <1>3, <2>3 DEF CallOK, IsCommand, Own, ClaimsOf
  <2>4. CASE c.do = "drop"
    BY <1>3, <2>4 DEF CallOK, IsCommand
  <2> QED
    BY <1>3, <2>1, <2>2, <2>3, <2>4 DEF CallOK, IsCommand
<1> QED
  BY <1>1, <1>2, <1>3, <1>4

\* Each program claims for an agent of its own, if at all.
LEMMA Owners ==
  ASSUME world \in Worlds, NEW p \in Procs
  PROVE  /\ \A x, y \in Own(p) : x = y
         /\ \A x \in Own(p) : x[1] = "claimed"
         /\ \A q \in Procs : q # p => Own(p) \cap Own(q) = {}
<1>1. \A x, y \in Own(p) : x = y
  BY LabelWorlds DEF Own, Script, Procs
<1>2. \A x \in Own(p) : x[1] = "claimed"
  BY DEF Own, ClaimsOf, Claim
<1>3. \A q \in Procs : q # p => Own(p) \cap Own(q) = {}
  BY LabelWorlds DEF Own, Script, Procs
<1> QED
  BY <1>1, <1>2, <1>3

-----------------------------------------------------------------------------
(* What comes after a call.                                                *)

LEMMA Nexts ==
  ASSUME world \in Worlds, NEW p \in Procs, proc[p].at \in DOMAIN Script(p).commands
  PROVE  \E at \in DOMAIN Script(p).commands :
           NextCommand(p) \in {[at |-> at, calls |-> <<>>],
                               [at |-> at, calls |-> <<Script(p).commands[at]>>]}
<1> DEFINE commands == Script(p).commands
<1>1. Len(commands) \in Nat \ {0} /\ DOMAIN commands = 1..Len(commands)
  BY Scripts
<1> DEFINE at == IF proc[p].at < Len(commands) THEN proc[p].at + 1 ELSE 1
<1>2. at \in DOMAIN commands
  BY <1>1
<1> QED
  BY <1>2 DEF NextCommand, End

LEMMA NextFits ==
  ASSUME world \in Worlds, NEW p \in Procs, proc[p].at \in DOMAIN Script(p).commands,
         NEW view, NEW held, p \in held => Own(p) # {} /\ Own(p) \subseteq view
  PROVE  ProcOK(p, NextCommand(p), view, held) /\ ProcOK(p, End(p), view, held)
<1> DEFINE commands == Script(p).commands
           Stop(at) == [at |-> at, calls |-> <<>>]
           Begin(at) == [at |-> at, calls |-> <<commands[at]>>]
<1>1. PICK at \in DOMAIN commands : NextCommand(p) \in {Stop(at), Begin(at)}
  BY Nexts
<1>2. ASSUME NEW n \in DOMAIN commands
      PROVE  ProcOK(p, Stop(n), view, held)
  <2>1. CallsOK(p, <<>>)
    BY Singles DEF CallsOK
  <2>2. HoldOK(p, <<>>, view, held)
    BY Singles DEF HoldOK
  <2> QED
    BY <2>1, <2>2 DEF ProcOK
<1>3. ProcOK(p, Begin(at), view, held)
  <2> DEFINE c == commands[at]
  <2>1. c \in Range(commands)
    BY DEF Range
  <2>2. IsCommand(c) /\ CallOK(p, c)
    BY <2>1, Scripts
  <2>3. CallsOK(p, <<c>>)
    BY <2>2, Singles DEF CallsOK
  <2>4. Harmless(p, c) /\ c.do # "confirm"
    BY <2>2, Owners DEF Harmless, IsCommand, ClaimsIn, OfScope
  <2>5. HoldOK(p, <<c>>, view, held)
    BY <2>4, Singles DEF HoldOK
  <2> QED
    BY <2>3, <2>5 DEF ProcOK
<1>4. ProcOK(p, Stop(at), view, held)
  BY <1>2
<1>5. ProcOK(p, NextCommand(p), view, held)
  BY <1>1, <1>3, <1>4
<1>6. ProcOK(p, Stop(proc[p].at), view, held)
  BY <1>2
<1> QED
  BY <1>5, <1>6 DEF End

\* A call other than the addition of a label, done outside a claim, leaves no step of a
\* claim behind.
LEMMA RestIsPlain ==
  ASSUME NEW p, NEW calls, CallsOK(p, calls), calls # <<>>,
         Head(calls).do \notin OfClaim \cup {"add"}
  PROVE  \A c \in Range(Tail(calls)) : c.do \notin OfClaim
<1> SUFFICES ASSUME NEW c \in Range(Tail(calls)), c.do \in OfClaim
             PROVE  FALSE
  OBVIOUS
<1>1. IsList(calls)
  BY DEF CallsOK
<1>2. c \in Range(calls)
  BY <1>1, Rest
<1>3. calls = <<c>> \/ calls = <<Do("add", c.arg.own), c>>
  BY <1>2 DEF CallsOK
<1>4. Head(calls) = c \/ Head(calls) = Do("add", c.arg.own)
  BY <1>3, Singles, Pairs
<1> QED
  BY <1>4 DEF Do

LEMMA ContinueFits ==
  ASSUME world \in Worlds, NEW p \in Procs, ProcOK(p, proc[p], labels, holds), ~Ended(p),
         Head(proc[p].calls).do \notin OfClaim \cup {"add"},
         NEW calls, IsList(calls),
         \A c \in Range(calls) : CallOK(p, c) /\ c.do \notin OfClaim,
         NEW view, NEW held,
         p \in held => /\ p \in holds /\ Own(p) \subseteq view
                       /\ \A c \in Range(calls) : Harmless(p, c)
  PROVE  ProcOK(p, After(p, calls), view, held)
<1> DEFINE rest == Tail(proc[p].calls)
           left == calls \o rest
<1>1. /\ CallsOK(p, proc[p].calls) /\ HoldOK(p, proc[p].calls, labels, holds)
      /\ proc[p].calls # <<>> /\ proc[p].at \in DOMAIN Script(p).commands
  BY DEF ProcOK, Ended
<1>2. IsList(rest) /\ Range(rest) \subseteq Range(proc[p].calls)
  BY <1>1, Rest DEF CallsOK
<1>3. \A c \in Range(rest) : CallOK(p, c) /\ c.do \notin OfClaim
  BY <1>1, <1>2, RestIsPlain DEF CallsOK
<1>4. IsList(left) /\ Range(left) = Range(calls) \cup Range(rest)
  BY <1>2, Joined
<1>5. CallsOK(p, left)
  BY <1>3, <1>4 DEF CallsOK
<1>6. HoldOK(p, left, view, held)
  <2>1. ASSUME p \in held
        PROVE  /\ Own(p) # {} /\ Own(p) \subseteq view
               /\ \A c \in Range(left) : Harmless(p, c)
    BY <1>1, <1>2, <1>4, <2>1 DEF HoldOK
  <2> QED
    BY <1>3, <1>4, <2>1 DEF HoldOK, OfClaim
<1>7. CASE left = <<>>
  <2>1. p \in held => Own(p) # {} /\ Own(p) \subseteq view
    BY <1>1 DEF HoldOK
  <2> QED
    BY <1>1, <1>7, <2>1, NextFits DEF After
<1>8. CASE left # <<>>
  BY <1>1, <1>5, <1>6, <1>8 DEF After, ProcOK
<1> QED
  BY <1>7, <1>8

-----------------------------------------------------------------------------
(* A step of one process leaves the others as they were.                   *)

LEMMA Continues ==
  ASSUME Base, NEW p \in Procs, NEW calls, Continue(p, calls)
  PROVE  proc' = [proc EXCEPT ![p] = After(p, calls)]
<1> DEFINE left == calls \o Tail(proc[p].calls)
<1>1. proc[p] = [at |-> proc[p].at, calls |-> proc[p].calls]
  BY DEF Base, ProcOK
<1>2. ASSUME NEW list
      PROVE  [proc[p] EXCEPT !.calls = list] = [at |-> proc[p].at, calls |-> list]
  BY <1>1
<1>3. [proc[p] EXCEPT !.calls = left] = [at |-> proc[p].at, calls |-> left]
  BY <1>2
<1>4. proc' = [proc EXCEPT ![p] = IF left = <<>> THEN NextCommand(p)
                                  ELSE [proc[p] EXCEPT !.calls = left]]
  BY DEF Continue
<1> QED
  BY <1>3, <1>4 DEF After

LEMMA Failed ==
  ASSUME Base, NEW p \in Procs, Fails(p)
  PROVE  \E y \in {NextCommand(p), End(p)} : proc' = [proc EXCEPT ![p] = y]
BY DEF Fails

LEMMA SameWorld ==
  ASSUME UNCHANGED world
  PROVE  /\ Procs' = Procs
         /\ \A p : Own(p)' = Own(p) /\ Script(p)' = Script(p)
         /\ \A view : LabelsOK(view)' <=> LabelsOK(view)
         /\ \A p, y, view, held : ProcOK(p, y, view, held)' <=> ProcOK(p, y, view, held)
<1>1. Procs' = Procs
  BY DEF Procs
<1>2. \A p : Own(p)' = Own(p) /\ Script(p)' = Script(p)
  BY DEF Own, Script
<1>3. ASSUME NEW view PROVE LabelsOK(view)' <=> LabelsOK(view)
  BY <1>1, <1>2 DEF LabelsOK
<1>4. Unclaimed' <=> Unclaimed
  BY <1>1, <1>2 DEF Unclaimed
<1>5. ASSUME NEW p, NEW c PROVE CallOK(p, c)' <=> CallOK(p, c)
  BY <1>2, <1>4 DEF CallOK
<1>6. ASSUME NEW p, NEW calls PROVE CallsOK(p, calls)' <=> CallsOK(p, calls)
  BY <1>5 DEF CallsOK
<1>7. ASSUME NEW p, NEW c PROVE Harmless(p, c)' <=> Harmless(p, c)
  BY <1>2 DEF Harmless
<1>8. ASSUME NEW p, NEW calls, NEW view, NEW held
      PROVE  HoldOK(p, calls, view, held)' <=> HoldOK(p, calls, view, held)
  BY <1>2, <1>7 DEF HoldOK
<1>9. ASSUME NEW p, NEW y, NEW view, NEW held
      PROVE  ProcOK(p, y, view, held)' <=> ProcOK(p, y, view, held)
  BY <1>2, <1>6, <1>8 DEF ProcOK
<1> QED
  BY <1>1, <1>2, <1>3, <1>9

LEMMA BaseStep ==
  ASSUME Base, UNCHANGED world, NEW p \in Procs, NEW y,
         proc' = [proc EXCEPT ![p] = y], ProcOK(p, y, labels', holds'),
         LabelsOK(labels'), holds' \subseteq holds \cup {p}, faulted' \subseteq Procs,
         \A q \in Procs \ {p} : Own(q) \cap labels \subseteq labels'
  PROVE  Base'
<1>1. Procs' = Procs
  BY SameWorld
<1>2. PICK view, held, now : view = labels' /\ held = holds' /\ now = proc'
  OBVIOUS
<1>3. ASSUME NEW q \in Procs
      PROVE  ProcOK(q, now[q], view, held)
  <2>1. CASE q = p
    BY <1>2, <2>1 DEF Base
  <2>2. CASE q # p
    <3>1. ProcOK(q, proc[q], labels, holds) /\ now[q] = proc[q]
      BY <1>2, <2>2 DEF Base
    <3>2. q \in held => q \in holds
      BY <1>2, <2>2
    <3>3. Own(q) \cap labels \subseteq view
      BY <1>2, <2>2
    <3>4. \A c \in Range(proc[q].calls) : c.do = "confirm" => c.arg.own \in Own(q)
      BY <3>1 DEF ProcOK, CallsOK, CallOK
    <3>5. HoldOK(q, proc[q].calls, view, held)
      BY <3>1, <3>2, <3>3, <3>4 DEF ProcOK, HoldOK
    <3> QED
      BY <3>1, <3>5 DEF ProcOK
  <2> QED
    BY <2>1, <2>2
<1>4. \A q \in Procs : ProcOK(q, now[q], view, held)'
  BY <1>3, SameWorld
<1>5. ASSUME NEW q \in Procs PROVE ProcOK(q, proc[q], labels, holds)'
  BY <1>2, <1>4 DEF ProcOK, CallsOK, HoldOK
<1>6. LabelsOK(view)'
  BY <1>2, SameWorld
<1>7. LabelsOK(labels)'
  BY <1>2, <1>6 DEF LabelsOK
<1>8. proc' = [q \in Procs |-> proc'[q]]
  BY DEF Base
<1>9. world' \in Worlds /\ holds' \subseteq Procs' /\ faulted' \subseteq Procs'
  BY <1>1 DEF Base
<1> QED
  BY <1>1, <1>5, <1>7, <1>8, <1>9 DEF Base

LEMMA PlainLists ==
  ASSUME NEW p
  PROVE  /\ Plain(p, <<>>)
         /\ \A c : CallOK(p, c) /\ c.do \notin OfClaim /\ Harmless(p, c) => Plain(p, <<c>>)
         /\ \A b, c : (b => Plain(p, <<c>>)) => Plain(p, Maybe(b, c))
         /\ \A s, t : Plain(p, s) /\ Plain(p, t) => Plain(p, s \o t)
<1>1. Plain(p, <<>>)
  BY Singles DEF Plain
<1>2. \A c : CallOK(p, c) /\ c.do \notin OfClaim /\ Harmless(p, c) => Plain(p, <<c>>)
  BY Singles DEF Plain
<1>3. \A b, c : (b => Plain(p, <<c>>)) => Plain(p, Maybe(b, c))
  BY <1>1 DEF Maybe
<1>4. ASSUME NEW s, NEW t, Plain(p, s), Plain(p, t) PROVE Plain(p, s \o t)
  BY <1>4, Joined DEF Plain
<1> QED
  BY <1>1, <1>2, <1>3, <1>4

LEMMA PlainCalls ==
  ASSUME world \in Worlds, NEW p \in Procs
  PROVE  /\ \A set : ClaimsIn(set) = {} => Plain(p, Drop(set))
         /\ \A label : label[1] # "claimed" => /\ Plain(p, <<Do("add", label)>>)
                                              /\ Plain(p, <<Do("ensure", label)>>)
         /\ \A do \in {"transition", "blocker", "set open"} : \A arg : Plain(p, <<Do(do, arg)>>)
         /\ \A scope : scope # "claimed" => Plain(p, <<Do("clear", scope)>>)
<1>1. ASSUME NEW set, ClaimsIn(set) = {} PROVE Plain(p, Drop(set))
  <2> DEFINE c == Do("drop", set)
  <2>1. c.do = "drop" /\ c.arg = set /\ c = Do(c.do, c.arg)
    BY DEF Do
  <2>2. set \cap Own(p) = {}
    BY <1>1, Owners DEF ClaimsIn, OfScope
  <2>3. CallOK(p, c) /\ c.do \notin OfClaim /\ Harmless(p, c)
    BY <1>1, <2>1, <2>2 DEF CallOK, OfClaim, Harmless
  <2> QED
    BY <2>3, PlainLists DEF Drop
<1>2. ASSUME NEW label, label[1] # "claimed", NEW do \in {"add", "ensure"}
      PROVE  Plain(p, <<Do(do, label)>>)
  <2> DEFINE c == Do(do, label)
  <2>1. c.do = do /\ c.arg = label /\ c = Do(c.do, c.arg)
    BY DEF Do
  <2>2. CallOK(p, c) /\ c.do \notin OfClaim /\ Harmless(p, c)
    BY <1>2, <2>1 DEF CallOK, OfClaim, Harmless
  <2> QED
    BY <2>2, PlainLists
<1>3. ASSUME NEW do \in {"transition", "blocker", "set open"}, NEW arg
      PROVE  Plain(p, <<Do(do, arg)>>)
  <2> DEFINE c == Do(do, arg)
  <2>1. c.do = do /\ c.arg = arg /\ c = Do(c.do, c.arg)
    BY DEF Do
  <2>2. CallOK(p, c) /\ c.do \notin OfClaim /\ Harmless(p, c)
    BY <2>1 DEF CallOK, OfClaim, Harmless
  <2> QED
    BY <2>2, PlainLists
<1>4. ASSUME NEW scope, scope # "claimed" PROVE Plain(p, <<Do("clear", scope)>>)
  <2> DEFINE c == Do("clear", scope)
  <2>1. c.do = "clear" /\ c.arg = scope /\ c = Do(c.do, c.arg)
    BY DEF Do
  <2>2. CallOK(p, c) /\ c.do \notin OfClaim /\ Harmless(p, c)
    BY <1>4, <2>1 DEF CallOK, OfClaim, Harmless
  <2> QED
    BY <2>2, PlainLists
<1> QED
  BY <1>1, <1>2, <1>3, <1>4

LEMMA PlainStep ==
  ASSUME Base, UNCHANGED <<world, faulted>>, NEW p \in Procs, ~Ended(p),
         Head(proc[p].calls).do \notin OfClaim \cup {"add"},
         NEW calls, Plain(p, calls), Continue(p, calls),
         LabelsOK(labels'), holds' \subseteq holds, p \in holds' => Own(p) \subseteq labels',
         \A q \in Procs \ {p} : Own(q) \cap labels \subseteq labels'
  PROVE  Base'
<1>1. PICK view, held : view = labels' /\ held = holds'
  OBVIOUS
<1>2. ProcOK(p, After(p, calls), view, held)
  BY <1>1, ContinueFits DEF Base, Plain
<1>3. PICK y : y = After(p, calls)
  OBVIOUS
<1>4. proc' = [proc EXCEPT ![p] = y]
  BY <1>3, Continues
<1>5. ProcOK(p, y, labels', holds')
  BY <1>1, <1>2, <1>3
<1> QED
  BY <1>4, <1>5, BaseStep DEF Base

LEMMA ReadStep ==
  ASSUME Base, UNCHANGED <<world, labels, holds, faulted>>, NEW p \in Procs, ~Ended(p),
         Head(proc[p].calls).do \notin OfClaim \cup {"add"},
         NEW calls, Plain(p, calls), Continue(p, calls)
  PROVE  Base'
<1>1. LabelsOK(labels') /\ (p \in holds' => Own(p) \subseteq labels')
  BY DEF Base, ProcOK, HoldOK, LabelsOK, OneState, StatesIn, ClaimsIn, OfScope
<1> QED
  BY <1>1, PlainStep

LEMMA FailStep ==
  ASSUME Base, UNCHANGED world, NEW p \in Procs, faulted' \subseteq Procs,
         NEW y \in {NextCommand(p), End(p)}, proc' = [proc EXCEPT ![p] = y],
         LabelsOK(labels'), holds' \subseteq holds, p \in holds' => Own(p) \subseteq labels',
         \A q \in Procs \ {p} : Own(q) \cap labels \subseteq labels'
  PROVE  Base'
<1>1. PICK view, held : view = labels' /\ held = holds'
  OBVIOUS
<1>2. p \in held => Own(p) # {} /\ Own(p) \subseteq view
  BY <1>1 DEF Base, ProcOK, HoldOK
<1>3. ProcOK(p, y, view, held)
  BY <1>2, NextFits DEF Base, ProcOK
<1> QED
  BY <1>1, <1>3, BaseStep

LEMMA FailedRead ==
  ASSUME Base, UNCHANGED <<world, labels, holds, faulted>>, NEW p \in Procs,
         Fails(p) \/ proc' = [proc EXCEPT ![p] = End(p)]
  PROVE  Base'
<1>1. PICK y \in {NextCommand(p), End(p)} : proc' = [proc EXCEPT ![p] = y]
  BY Failed
<1>2. LabelsOK(labels') /\ (p \in holds' => Own(p) \subseteq labels')
  BY DEF Base, ProcOK, HoldOK, LabelsOK, OneState, StatesIn, ClaimsIn, OfScope
<1> QED
  BY <1>1, <1>2, FailStep DEF Base

-----------------------------------------------------------------------------
(* Base holds at first, and every step keeps it.                           *)

LEMMA BaseInit == Init => Base
<1> SUFFICES ASSUME Init PROVE Base
  OBVIOUS
<1>1. world \in Worlds /\ holds = {} /\ faulted = {} /\ labels = world.labels
  BY DEF Init
<1>2. LabelsOK(labels)
  BY <1>1, LabelWorlds DEF LabelsOK, OneState
<1>3. proc = [p \in Procs |-> [at |-> 1, calls |-> <<Script(p).commands[1]>>]]
  BY DEF Init, Procs
<1>4. ASSUME NEW p \in Procs
      PROVE  ProcOK(p, proc[p], labels, holds)
  <2> DEFINE commands == Script(p).commands
             c == commands[1]
  <2>1. 1 \in DOMAIN commands /\ c \in Range(commands)
    BY <1>1, Scripts DEF Range
  <2>2. IsCommand(c) /\ CallOK(p, c)
    BY <1>1, <2>1, Scripts
  <2>3. CallsOK(p, <<c>>)
    BY <2>2, Singles DEF CallsOK
  <2>4. c.do # "confirm"
    BY <2>2 DEF IsCommand
  <2>5. HoldOK(p, <<c>>, labels, holds)
    BY <1>1, <2>4, Singles DEF HoldOK
  <2>6. proc[p].at = 1 /\ proc[p].calls = <<c>> /\ proc[p] = [at |-> 1, calls |-> <<c>>]
    BY <1>3
  <2> QED
    BY <2>1, <2>3, <2>5, <2>6 DEF ProcOK
<1> QED
  BY <1>1, <1>2, <1>3, <1>4 DEF Base

\* A label that is added leaves the claims of the others.
LEMMA AddedLabel ==
  ASSUME NEW label, NEW view, OneState(view)
  PROVE  /\ OneState(WithLabel(label, view))
         /\ ClaimsIn(WithLabel(label, view)) \subseteq ClaimsIn(view) \cup {label}
         /\ label[1] # "claimed" => ClaimsIn(WithLabel(label, view)) = ClaimsIn(view)
         /\ ClaimsIn(view) \subseteq WithLabel(label, view)
         /\ label \in WithLabel(label, view)
         /\ label[1] = "state" => StatesIn(WithLabel(label, view)) = {label}
         /\ label[1] # "state" => StatesIn(WithLabel(label, view)) = StatesIn(view)
BY DEF WithLabel, OneState, ClaimsIn, StatesIn, OfScope, Exclusive

LEMMA BaseAdd ==
  ASSUME Base, UNCHANGED world, NEW p \in Procs, AddLabel(p)
  PROVE  Base'
<1> DEFINE calls == proc[p].calls
           label == Arg(p)
           rest == Tail(calls)
<1>1. /\ calls # <<>> /\ Head(calls).do = "add" /\ labels' = WithLabel(label, labels)
      /\ Continue(p, <<>>) /\ holds' = holds /\ faulted' = faulted
  BY DEF AddLabel, Doing, Ended
<1>2. /\ world \in Worlds /\ CallsOK(p, calls) /\ HoldOK(p, calls, labels, holds)
      /\ LabelsOK(labels) /\ proc[p].at \in DOMAIN Script(p).commands
  BY DEF Base, ProcOK
<1>3. IsList(calls) /\ IsList(rest) /\ Range(rest) \subseteq Range(calls)
      /\ Head(calls) \in Range(calls)
  BY <1>1, <1>2, Rest DEF CallsOK
<1>4. label[1] # "claimed" \/ label \in Own(p)
  BY <1>1, <1>2, <1>3 DEF CallsOK, CallOK, Arg
<1>5. PICK view : view = labels'
  OBVIOUS
<1>6. LabelsOK(view)
  BY <1>1, <1>2, <1>4, <1>5, AddedLabel DEF LabelsOK, ClaimsIn, OfScope
<1>7. \A q \in Procs : Own(q) \cap labels \subseteq view
  BY <1>1, <1>2, <1>5, AddedLabel, Owners DEF LabelsOK, ClaimsIn, OfScope
<1>8. PICK y : y = After(p, <<>>)
  OBVIOUS
<1>9. proc' = [proc EXCEPT ![p] = y]
  BY <1>1, <1>8, Continues
<1>10. p \in holds => Own(p) # {} /\ Own(p) \subseteq view
  BY <1>2, <1>7 DEF HoldOK
<1>11. <<>> \o rest = rest
  BY <1>3, Joined, Singles
<1>12. CASE rest = <<>>
  <2>1. y = NextCommand(p)
    BY <1>8, <1>11, <1>12 DEF After
  <2> QED
    BY <1>1, <1>2, <1>5, <1>6, <1>7, <1>9, <1>10, <2>1, FailStep DEF Base
<1>13. CASE rest # <<>>
  <2>1. y = [at |-> proc[p].at, calls |-> rest]
    BY <1>8, <1>11, <1>13 DEF After
  <2>2. ASSUME NEW c \in Range(rest), c.do \in OfClaim
        PROVE  c.do = "confirm" /\ rest = <<c>> /\ label = c.arg.own
    <3>1. calls = <<c>> \/ (c.do = "confirm" /\ calls = <<Do("add", c.arg.own), c>>)
      BY <1>2, <1>3, <2>2 DEF CallsOK
    <3>2. calls # <<c>>
      BY <1>13, Singles
    <3>3. rest = <<c>> /\ Head(calls) = Do("add", c.arg.own)
      BY <3>1, <3>2, Pairs
    <3> QED
      BY <3>1, <3>2, <3>3 DEF Do, Arg
  <2>3. CallsOK(p, rest)
    BY <1>2, <1>3, <2>2 DEF CallsOK
  <2>4. \A c \in Range(rest) : c.do = "confirm" /\ rest = <<c>> => c.arg.own \in view
    BY <1>1, <1>2, <1>5, <2>2, AddedLabel DEF OfClaim, LabelsOK
  <2>5. p \in holds => \A c \in Range(rest) : Harmless(p, c)
    BY <1>2, <1>3 DEF HoldOK
  <2>6. HoldOK(p, rest, view, holds)
    BY <1>10, <2>4, <2>5 DEF HoldOK
  <2>7. ProcOK(p, y, view, holds)
    BY <1>2, <2>1, <2>3, <2>6 DEF ProcOK
  <2> QED
    BY <1>1, <1>5, <1>6, <1>7, <1>9, <2>7, BaseStep DEF Base
<1> QED
  BY <1>12, <1>13

LEMMA BaseDrop ==
  ASSUME Base, UNCHANGED world, NEW p \in Procs, DropLabel(p)
  PROVE  Base'
<1> DEFINE c == Head(proc[p].calls)
<1>1. PICK label \in c.arg : labels' = labels \ {label} /\ Continue(p, Drop(c.arg \ {label}))
  BY DEF DropLabel, Arg
<1>2. /\ proc[p].calls # <<>> /\ ~Ended(p) /\ c.do = "drop" /\ holds' = holds
      /\ faulted' = faulted
  BY DEF DropLabel, Doing, Ended
<1>3. /\ world \in Worlds /\ CallsOK(p, proc[p].calls) /\ LabelsOK(labels)
      /\ HoldOK(p, proc[p].calls, labels, holds) /\ proc[p].at \in DOMAIN Script(p).commands
      /\ ProcOK(p, proc[p], labels, holds)
  BY DEF Base, ProcOK
<1>4. CallOK(p, c) /\ (p \in holds => Harmless(p, c)) /\ c \in Range(proc[p].calls)
  BY <1>2, <1>3, Rest DEF CallsOK, HoldOK
<1>5. ClaimsIn(c.arg) \subseteq Own(p) /\ (p \in holds => c.arg \cap Own(p) = {})
  BY <1>2, <1>4 DEF CallOK, Harmless
<1>6. PICK view : view = labels'
  OBVIOUS
<1>7. LabelsOK(view)
  BY <1>1, <1>3, <1>6 DEF LabelsOK, OneState, StatesIn, ClaimsIn, OfScope
<1>8. p \in holds => Own(p) \subseteq view
  BY <1>1, <1>3, <1>5, <1>6 DEF HoldOK
<1>9. \A q \in Procs \ {p} : Own(q) \cap labels \subseteq view
  <2> SUFFICES ASSUME NEW q \in Procs \ {p}, label \in Own(q) PROVE FALSE
    BY <1>1, <1>6
  <2>1. label \in ClaimsIn(c.arg)
    BY <1>1, <1>3, Owners DEF ClaimsIn, OfScope
  <2> QED
    BY <1>3, <1>5, <2>1, Owners
<1> DEFINE left == c.arg \ {label}
           d == Do("drop", left)
<1>10. d.do = "drop" /\ d.arg = left /\ d = Do(d.do, d.arg)
  BY DEF Do
<1>11. CallOK(p, d) /\ d.do \notin OfClaim /\ (p \in holds => Harmless(p, d))
  BY <1>5, <1>10 DEF CallOK, OfClaim, Harmless, ClaimsIn, OfScope
<1>12. IsList(Drop(left)) /\ Range(Drop(left)) \subseteq {d}
  BY Singles DEF Drop, Maybe
<1>13. c.do \notin OfClaim \cup {"add"}
  BY <1>2 DEF OfClaim
<1>14. PICK y : y = After(p, Drop(left))
  OBVIOUS
<1>15. ProcOK(p, y, view, holds)
  BY <1>2, <1>3, <1>8, <1>11, <1>12, <1>13, <1>14, ContinueFits
<1>16. proc' = [proc EXCEPT ![p] = y]
  BY <1>1, <1>12, <1>14, Continues
<1> QED
  BY <1>2, <1>6, <1>7, <1>9, <1>15, <1>16, BaseStep DEF Base

\* What a process does first is one of its calls.
LEMMA First ==
  ASSUME Base, NEW p \in Procs, NEW do, Doing(p, do)
  PROVE  LET c == Head(proc[p].calls)
         IN  /\ c.do = do /\ Arg(p) = c.arg /\ ~Ended(p) /\ CallOK(p, c)
             /\ p \in holds => Own(p) # {} /\ Own(p) \subseteq labels /\ Harmless(p, c)
             /\ do \in OfClaim => proc[p].calls = <<c>>
             /\ do = "confirm" => c.arg.own \in labels
             /\ proc[p].at \in DOMAIN Script(p).commands
<1> DEFINE calls == proc[p].calls
           c == Head(calls)
<1>1. c.do = do /\ Arg(p) = c.arg /\ ~Ended(p) /\ calls # <<>>
  BY DEF Doing, Arg, Ended
<1>2. /\ CallsOK(p, calls) /\ HoldOK(p, calls, labels, holds)
      /\ proc[p].at \in DOMAIN Script(p).commands
  BY DEF Base, ProcOK
<1>3. c \in Range(calls)
  BY <1>1, <1>2, Rest DEF CallsOK
<1>4. ASSUME do \in OfClaim PROVE calls = <<c>>
  <2>1. calls = <<c>> \/ calls = <<Do("add", c.arg.own), c>>
    BY <1>1, <1>2, <1>3, <1>4 DEF CallsOK
  <2>2. ASSUME calls = <<Do("add", c.arg.own), c>> PROVE FALSE
    <3>1. c = Do("add", c.arg.own)
      BY <2>2, Pairs
    <3>2. c.do = "add"
      BY <3>1 DEF Do
    <3> QED
      BY <1>1, <1>4, <3>2 DEF OfClaim
  <2> QED
    BY <2>1, <2>2
<1>5. do = "confirm" => c.arg.own \in labels
  BY <1>1, <1>2, <1>3, <1>4 DEF HoldOK, OfClaim
<1> QED
  BY <1>1, <1>2, <1>3, <1>4, <1>5 DEF CallsOK, HoldOK

LEMMA AfterAlone ==
  ASSUME NEW p, NEW c, proc[p].calls = <<c>>, NEW calls, IsList(calls)
  PROVE  After(p, calls) = IF calls = <<>> THEN NextCommand(p)
                           ELSE [at |-> proc[p].at, calls |-> calls]
<1>1. Tail(proc[p].calls) = <<>>
  BY Singles
<1>2. calls \o <<>> = calls
  BY Joined, Singles
<1> QED
  BY <1>1, <1>2 DEF After

LEMMA AfterLast ==
  ASSUME NEW p, NEW c, proc[p].calls = <<c>>
  PROVE  After(p, <<>>) = NextCommand(p)
<1>1. IsList(<<>>)
  BY Singles
<1> QED
  BY <1>1, AfterAlone

LEMMA AfterThen ==
  ASSUME NEW p, NEW c, proc[p].calls = <<c>>, NEW e
  PROVE  After(p, <<e>>) = [at |-> proc[p].at, calls |-> <<e>>]
<1>1. IsList(<<e>>) /\ <<e>> # <<>>
  BY Singles
<1> QED
  BY <1>1, AfterAlone

LEMMA BaseReplace ==
  ASSUME Base, UNCHANGED world, NEW p \in Procs, ReplaceLabels(p)
  PROVE  Base'
<1>1. Doing(p, "replace") /\ labels' = Arg(p) /\ Continue(p, <<>>) /\ UNCHANGED <<holds, faulted>>
  BY DEF ReplaceLabels
<1>2. OneState(labels') /\ ClaimsIn(labels') = {} /\ Unclaimed /\ ~Ended(p)
  BY <1>1, First DEF CallOK
<1>3. Head(proc[p].calls).do \notin OfClaim \cup {"add"} /\ p \notin holds
  BY <1>1, <1>2, First DEF OfClaim, Unclaimed
<1>4. LabelsOK(labels')
  BY <1>2 DEF LabelsOK
<1>5. \A q \in Procs \ {p} : Own(q) \cap labels \subseteq labels'
  BY <1>2 DEF Unclaimed
<1> QED
  BY <1>1, <1>2, <1>3, <1>4, <1>5, PlainLists, PlainStep

LEMMA BaseRetract ==
  ASSUME Base, UNCHANGED world, NEW p \in Procs, Retract(p)
  PROVE  Base'
<1>1. Doing(p, "retract") /\ labels' = labels \ {Arg(p)} /\ Fails(p) /\ UNCHANGED <<holds, faulted>>
  BY DEF Retract
<1>2. Arg(p) \in Own(p) /\ p \notin holds
  BY <1>1, First DEF CallOK, Harmless
<1>3. LabelsOK(labels')
  BY <1>1 DEF Base, LabelsOK, OneState, StatesIn, ClaimsIn, OfScope
<1>4. \A q \in Procs \ {p} : Own(q) \cap labels \subseteq labels'
  BY <1>1, <1>2, Owners DEF Base
<1>5. PICK y \in {NextCommand(p), End(p)} : proc' = [proc EXCEPT ![p] = y]
  BY <1>1, Failed
<1> QED
  BY <1>1, <1>2, <1>3, <1>4, <1>5, FailStep DEF Base

\* What the labels of one scope are made of.
LEMMA Scopes ==
  ASSUME NEW view, NEW scope, scope # "claimed", NEW set
  PROVE  ClaimsIn(OfScope(scope, view)) = {} /\ ClaimsIn(OfScope(scope, view) \ set) = {}
BY DEF ClaimsIn, OfScope

LEMMA NoClaims ==
  ASSUME NEW name
  PROVE  /\ WorkflowState(name)[1] = "state" /\ Resolution(name)[1] = "done"
         /\ RuntimeState(name)[1] = "orchd/state"
BY DEF WorkflowState, Resolution, RuntimeState

LEMMA BaseEnsure ==
  ASSUME Base, UNCHANGED world, NEW p \in Procs, Ensure(p)
  PROVE  Base'
<1> DEFINE label == Arg(p)
           drops == Drop(OfScope(label[1], labels) \ {label})
           adds == Maybe(label \notin labels, Do("add", label))
<1>1. Doing(p, "ensure") /\ Continue(p, drops \o adds) /\ Read(p)
  BY DEF Ensure
<1>2. label[1] # "claimed" /\ ~Ended(p) /\ Head(proc[p].calls).do \notin OfClaim \cup {"add"}
  <2> DEFINE c == Head(proc[p].calls)
  <2>1. c.do = "ensure" /\ label = c.arg /\ ~Ended(p) /\ CallOK(p, c)
    BY <1>1, First
  <2> HIDE DEF c
  <2>2. c.arg[1] # "claimed" /\ c.do \notin OfClaim \cup {"add"}
    BY <2>1 DEF CallOK, OfClaim
  <2> QED
    BY <2>1, <2>2 DEF c
<1>3. Plain(p, drops) /\ Plain(p, adds)
  BY <1>2, Scopes, PlainCalls, PlainLists DEF Base
<1>4. Plain(p, drops \o adds)
  BY <1>3, PlainLists
<1> QED
  BY <1>1, <1>2, <1>4, ReadStep DEF Read

LEMMA BaseClaim ==
  ASSUME Base, UNCHANGED world, NEW p \in Procs, ClaimIssue(p)
  PROVE  Base'
<1> DEFINE own == Claim(Arg(p))
           c == Do("confirm", [own |-> own, had |-> own \in labels])
           calls == Maybe(own \notin labels, Do("add", own)) \o <<c>>
<1>1. Doing(p, "claim") /\ UNCHANGED <<labels, holds, faulted>>
  BY DEF ClaimIssue, Read
<1>2. /\ own \in Own(p) /\ proc[p].calls = <<Head(proc[p].calls)>> /\ world \in Worlds
      /\ p \in holds => Own(p) # {} /\ Own(p) \subseteq labels
      /\ proc[p].at \in DOMAIN Script(p).commands
  BY <1>1, First DEF CallOK, OfClaim, Base
<1>3. CASE Fails(p)
  BY <1>1, <1>3, FailedRead
<1>4. CASE Continue(p, calls)
  <2>1. c.do = "confirm" /\ c.arg = [own |-> own, had |-> own \in labels] /\ c = Do(c.do, c.arg)
        /\ c.arg.own = own /\ c.arg.had = (own \in labels)
    BY DEF Do
  <2>2. CallOK(p, c)
    BY <1>2, <2>1 DEF CallOK
  <2>4. PICK y : y = After(p, calls)
    OBVIOUS
  <2>5. ProcOK(p, y, labels, holds)
    <3>1. CASE own \in labels
      <4>1. calls = <<c>>
        BY <3>1, Singles, Joined DEF Maybe
      <4>2. y = [at |-> proc[p].at, calls |-> <<c>>]
        BY <1>2, <2>4, <4>1, AfterThen
      <4>3. CallsOK(p, <<c>>)
        BY <2>2, Singles DEF CallsOK
      <4>4. Harmless(p, c)
        BY <2>1, <3>1 DEF Harmless
      <4>5. HoldOK(p, <<c>>, labels, holds)
        BY <1>2, <2>1, <3>1, <4>4, Singles DEF HoldOK
      <4> QED
        BY <1>2, <4>2, <4>3, <4>5 DEF ProcOK
    <3>2. CASE own \notin labels
      <4> DEFINE a == Do("add", own)
      <4>1. calls = <<a, c>>
        BY <3>2, Pairs DEF Maybe
      <4>2. y = [at |-> proc[p].at, calls |-> <<a, c>>]
        <5>1. IsList(calls) /\ calls # <<>>
          BY <4>1, Pairs
        <5>2. After(p, calls) = [at |-> proc[p].at, calls |-> calls]
          BY <1>2, <5>1, AfterAlone
        <5> QED
          BY <2>4, <4>1, <5>2
      <4>3. a.do = "add" /\ a.arg = own /\ a = Do(a.do, a.arg)
        BY DEF Do
      <4>4. CallOK(p, a)
        BY <1>2, <4>3 DEF CallOK
      <4>5. IsList(<<a, c>>) /\ Range(<<a, c>>) = {a, c}
        BY Pairs
      <4>6. CallsOK(p, <<a, c>>)
        BY <2>1, <2>2, <4>3, <4>4, <4>5 DEF CallsOK, OfClaim
      <4>7. <<a, c>> # <<a>> /\ <<a, c>> # <<c>>
        BY Pairs, Singles
      <4>8. p \notin holds
        BY <1>2, <3>2
      <4>9. HoldOK(p, <<a, c>>, labels, holds)
        BY <4>5, <4>7, <4>8 DEF HoldOK
      <4> QED
        BY <1>2, <4>2, <4>6, <4>9 DEF ProcOK
    <3> QED
      BY <3>1, <3>2
  <2>6. LabelsOK(labels')
    BY <1>1 DEF Base
  <2>7. proc' = [proc EXCEPT ![p] = y]
    BY <1>4, <2>4, Continues
  <2>8. ProcOK(p, y, labels', holds')
    BY <1>1, <2>5
  <2> QED
    BY <1>1, <2>6, <2>7, <2>8, BaseStep DEF Base
<1> QED
  BY <1>3, <1>4 DEF ClaimIssue

LEMMA BaseConfirm ==
  ASSUME Base, UNCHANGED world, NEW p \in Procs, ConfirmClaim(p)
  PROVE  Base'
<1> DEFINE c == Head(proc[p].calls)
           own == c.arg.own
           e == Do("ensure", WorkflowState("in-progress"))
           t == Do("retract", own)
<1>1. Doing(p, "confirm") /\ UNCHANGED <<labels, faulted>>
  BY DEF ConfirmClaim
<1>2. Arg(p) = c.arg /\ c.do = "confirm" /\ CallOK(p, c) /\ own \in labels
  BY <1>1, First
<1>3. own \in Own(p)
  BY <1>2 DEF CallOK
<1>4. proc[p].calls = <<c>>
  BY <1>1, First DEF OfClaim
<1>5. /\ p \in holds => Own(p) # {} /\ Own(p) \subseteq labels /\ c.arg.had
      /\ proc[p].at \in DOMAIN Script(p).commands
  BY <1>1, <1>2, First DEF Harmless
<1>6. world \in Worlds /\ LabelsOK(labels')
  BY <1>1 DEF Base
<1>7. ASSUME Continue(p, <<e>>), holds' = holds \cup {p}
      PROVE  Base'
  <2>1. Plain(p, <<e>>)
    BY <1>6, NoClaims, PlainCalls
  <2>2. PICK y : y = After(p, <<e>>)
    OBVIOUS
  <2>3. y = [at |-> proc[p].at, calls |-> <<e>>]
    BY <1>4, <2>2, AfterThen
  <2>4. CallsOK(p, <<e>>)
    BY <2>1 DEF Plain, CallsOK
  <2>5. Own(p) \subseteq labels /\ Own(p) # {}
    BY <1>2, <1>3, <1>6, Owners
  <2>6. \A d \in Range(<<e>>) : d.do # "confirm"
    BY <2>1 DEF Plain, OfClaim
  <2>7. \A held : HoldOK(p, <<e>>, labels, held)
    BY <2>1, <2>5, <2>6 DEF Plain, HoldOK
  <2>8. ProcOK(p, y, labels, holds')
    BY <1>5, <2>3, <2>4, <2>7 DEF ProcOK
  <2>9. proc' = [proc EXCEPT ![p] = y]
    BY <1>7, <2>2, Continues
  <2>10. ProcOK(p, y, labels', holds')
    BY <1>1, <2>8
  <2> QED
    BY <1>1, <1>6, <1>7, <2>9, <2>10, BaseStep DEF Base
<1>8. ASSUME Continue(p, <<t>>), holds' = holds, ~c.arg.had
      PROVE  Base'
  <2>1. t.do = "retract" /\ t.arg = own /\ t = Do(t.do, t.arg)
    BY DEF Do
  <2>2. CallOK(p, t)
    BY <1>3, <2>1 DEF CallOK
  <2>3. PICK y : y = After(p, <<t>>)
    OBVIOUS
  <2>4. y = [at |-> proc[p].at, calls |-> <<t>>]
    BY <1>4, <2>3, AfterThen
  <2>5. CallsOK(p, <<t>>)
    BY <2>2, Singles DEF CallsOK
  <2>6. HoldOK(p, <<t>>, labels, holds)
    BY <1>5, <1>8, <2>1, Singles DEF HoldOK
  <2>7. ProcOK(p, y, labels, holds)
    BY <1>5, <2>4, <2>5, <2>6 DEF ProcOK
  <2>8. proc' = [proc EXCEPT ![p] = y]
    BY <1>8, <2>3, Continues
  <2>9. ProcOK(p, y, labels', holds')
    BY <1>1, <1>8, <2>7
  <2> QED
    BY <1>1, <1>6, <1>8, <2>8, <2>9, BaseStep DEF Base
<1>9. CASE Fails(p) /\ holds' = holds
  BY <1>1, <1>9, FailedRead
<1> QED
  BY <1>2, <1>7, <1>8, <1>9 DEF ConfirmClaim

LEMMA BaseRelease ==
  ASSUME Base, UNCHANGED world, NEW p \in Procs, ReleaseIssue(p)
  PROVE  Base'
<1> DEFINE c == Head(proc[p].calls)
           dropped == {Claim(agent) : agent \in c.arg} \cap labels
           d == Do("drop", dropped)
           ready == Do("ensure", WorkflowState("ready"))
           back == Maybe(StatesIn(labels) = {WorkflowState("in-progress")}, ready)
           calls == Drop(dropped) \o back
<1>1. /\ Doing(p, "release") /\ Continue(p, calls) /\ holds' = holds \ {p}
      /\ UNCHANGED <<labels, faulted>>
  BY DEF ReleaseIssue, Arg
<1>2. c.do = "release" /\ CallOK(p, c) /\ ~Ended(p)
  BY <1>1, First
<1>3. dropped \subseteq Own(p) /\ c.do \notin OfClaim \cup {"add"}
  BY <1>2 DEF CallOK, OfClaim
<1>4. d.do = "drop" /\ d.arg = dropped /\ d = Do(d.do, d.arg)
  BY DEF Do
<1>5. CallOK(p, d) /\ d.do \notin OfClaim
  BY <1>3, <1>4 DEF CallOK, OfClaim, ClaimsIn, OfScope
<1>6. IsList(Drop(dropped)) /\ Range(Drop(dropped)) \subseteq {d}
  BY Singles DEF Drop, Maybe
<1>7. Plain(p, back)
  BY NoClaims, PlainCalls, PlainLists DEF Base
<1>8. IsList(calls) /\ \A e \in Range(calls) : CallOK(p, e) /\ e.do \notin OfClaim
  <2>1. IsList(back)
    BY <1>7 DEF Plain
  <2>2. IsList(calls) /\ Range(calls) = Range(Drop(dropped)) \cup Range(back)
    BY <1>6, <2>1, Joined
  <2> QED
    BY <1>5, <1>6, <1>7, <2>2 DEF Plain
<1>9. PICK y : y = After(p, calls)
  OBVIOUS
<1>10. PICK held : held = holds'
  OBVIOUS
<1>11. p \notin held
  BY <1>1, <1>10
<1>12. ProcOK(p, y, labels, held)
  BY <1>2, <1>3, <1>8, <1>9, <1>11, ContinueFits DEF Base
<1>13. ProcOK(p, y, labels', holds') /\ LabelsOK(labels')
  BY <1>1, <1>10, <1>12 DEF Base
<1>14. proc' = [proc EXCEPT ![p] = y]
  BY <1>1, <1>9, Continues
<1> QED
  BY <1>1, <1>13, <1>14, BaseStep DEF Base

LEMMA BaseFault ==
  ASSUME Base, NEW p \in Procs, Fault(p)
  PROVE  Base'
<1>1. /\ faulted' = faulted \cup {p} /\ holds' = holds \ {p} /\ UNCHANGED <<world, labels>>
      /\ Fails(p) \/ proc' = [proc EXCEPT ![p] = End(p)]
  BY DEF Fault
<1>2. PICK y \in {NextCommand(p), End(p)} : proc' = [proc EXCEPT ![p] = y]
  BY <1>1, Failed
<1>3. LabelsOK(labels') /\ faulted' \subseteq Procs
  BY <1>1 DEF Base
<1> QED
  BY <1>1, <1>2, <1>3, FailStep

\* The commands that read the issue and put plain calls in their place.
LEMMA BasePlan ==
  ASSUME Base, UNCHANGED world, NEW p \in Procs,
         \/ PickReady(p) \/ Transition(p) \/ Blocker(p) \/ CloseIssue(p)
         \/ ClearResolution(p) \/ ReleaseStaleClaims(p) \/ Reconcile(p)
  PROVE  Base'
<1>1. UNCHANGED <<labels, holds, faulted>> /\ world \in Worlds
  BY DEF PickReady, Transition, Blocker, CloseIssue, ClearResolution, ReleaseStaleClaims,
         Reconcile, Read, Base
<1>2. ASSUME NEW do \in {"pick", "transition", "blocker", "close", "clear", "reset", "reconcile"},
             Doing(p, do), NEW calls, Plain(p, calls), Continue(p, calls)
      PROVE  Base'
  <2>1. Head(proc[p].calls).do \notin OfClaim \cup {"add"} /\ ~Ended(p)
    BY <1>2, First DEF OfClaim
  <2> QED
    BY <1>1, <1>2, <2>1, ReadStep
<1>3. ASSUME Fails(p) \/ proc' = [proc EXCEPT ![p] = End(p)]
      PROVE  Base'
  BY <1>1, <1>3, FailedRead
<1>4. CASE PickReady(p)
  <2>1. CASE Continue(p, <<>>) /\ Doing(p, "pick")
    BY <1>2, <2>1, PlainLists
  <2> QED
    BY <1>3, <1>4, <2>1 DEF PickReady
<1>5. CASE Transition(p)
  <2> DEFINE calls == <<Do("ensure", WorkflowState(Arg(p).to))>>
  <2>1. CASE Continue(p, calls) /\ Doing(p, "transition")
    <3>1. Plain(p, calls)
      BY <1>1, NoClaims, PlainCalls
    <3> QED
      BY <1>2, <2>1, <3>1
  <2> QED
    BY <1>3, <1>5, <2>1 DEF Transition
<1>6. CASE Blocker(p)
  <2> DEFINE calls == <<Do("transition", [to |-> "blocked", force |-> FALSE])>>
  <2>1. CASE Continue(p, calls) /\ Doing(p, "blocker")
    <3>1. Plain(p, calls)
      BY <1>1, PlainCalls
    <3> QED
      BY <1>2, <2>1, <3>1
  <2> QED
    BY <1>3, <1>6, <2>1 DEF Blocker
<1>7. CASE CloseIssue(p)
  <2> DEFINE done == Maybe(StatesIn(labels) # {WorkflowState("done")},
                           Do("ensure", WorkflowState("done")))
             a == Do("ensure", Resolution(Arg(p).resolution))
             b == Do("set open", FALSE)
             calls == done \o <<a, b>>
  <2>1. CASE Continue(p, calls) /\ Doing(p, "close")
    <3>1. Plain(p, done) /\ Plain(p, <<a>>) /\ Plain(p, <<b>>)
      BY <1>1, NoClaims, PlainCalls, PlainLists
    <3>2. Plain(p, <<a, b>>)
      <4>1. <<a>> \o <<b>> = <<a, b>>
        BY Pairs
      <4>2. Plain(p, <<a>> \o <<b>>)
        BY <3>1, PlainLists
      <4> QED
        BY <4>1, <4>2
    <3>3. Plain(p, calls)
      BY <3>1, <3>2, PlainLists
    <3> QED
      BY <1>2, <2>1, <3>3
  <2> QED
    BY <1>3, <1>7, <2>1 DEF CloseIssue
<1>8. CASE ClearResolution(p)
  <2> DEFINE calls == Drop(OfScope(Arg(p), labels))
  <2>1. Continue(p, calls) /\ Doing(p, "clear")
    BY <1>8 DEF ClearResolution
  <2>2. Arg(p) # "claimed"
    BY <2>1, First DEF CallOK
  <2>3. Plain(p, calls)
    BY <1>1, <2>2, Scopes, PlainCalls
  <2> QED
    BY <1>2, <2>1, <2>3
<1>9. CASE ReleaseStaleClaims(p)
  <2> DEFINE c == Do("reset state", {})
             calls == Drop(ClaimsIn(labels)) \o <<c>>
  <2>1. Continue(p, calls) /\ Doing(p, "reset")
    BY <1>9 DEF ReleaseStaleClaims
  <2>2. Unclaimed
    BY <2>1, First DEF CallOK
  <2>3. ClaimsIn(labels) = {}
    BY <2>2 DEF Base, LabelsOK, Unclaimed
  <2>4. c.do = "reset state" /\ c.arg = {} /\ c = Do(c.do, c.arg)
    BY DEF Do
  <2>5. CallOK(p, c) /\ c.do \notin OfClaim /\ Harmless(p, c)
    BY <2>2, <2>4 DEF CallOK, OfClaim, Harmless
  <2>6. Plain(p, <<c>>) /\ Plain(p, Drop(ClaimsIn(labels)))
    BY <1>1, <2>3, <2>5, PlainLists, PlainCalls DEF ClaimsIn, OfScope
  <2>7. Plain(p, calls)
    BY <2>6, PlainLists
  <2> QED
    BY <1>2, <2>1, <2>7
<1>10. CASE Reconcile(p)
  <2> DEFINE triage == <<Do("add", WorkflowState("triage"))>>
             fixed == Resolution("fixed")
             drops == Drop(OfScope("done", labels) \ {fixed})
             adds == Maybe(fixed \notin labels, Do("add", fixed))
             shut == <<Do("set open", FALSE)>>
             close == drops \o adds \o shut
  <2>1. Plain(p, triage) /\ Plain(p, drops) /\ Plain(p, adds) /\ Plain(p, shut)
    BY <1>1, NoClaims, Scopes, PlainCalls, PlainLists
  <2>2. Plain(p, close)
    <3>1. Plain(p, drops \o adds)
      BY <2>1, PlainLists
    <3> QED
      BY <2>1, <3>1, PlainLists
  <2>3. Doing(p, "reconcile") /\ \E calls \in {<<>>, triage, close} : Continue(p, calls)
    BY <1>10 DEF Reconcile
  <2>4. Plain(p, <<>>)
    BY PlainLists
  <2> HIDE DEF close, triage
  <2> QED
    BY <1>2, <2>1, <2>2, <2>3, <2>4
<1> QED
  BY <1>4, <1>5, <1>6, <1>7, <1>8, <1>9, <1>10

\* Those that write whole label sets meet no claim, and write one state.
LEMMA BaseWholeSet ==
  ASSUME Base, UNCHANGED world, NEW p \in Procs, ProjectRuntimeState(p) \/ ResetWorkflow(p)
  PROVE  Base'
<1>1. UNCHANGED <<labels, holds, faulted>> /\ world \in Worlds
  BY DEF ProjectRuntimeState, ResetWorkflow, Read, Base
<1>2. ASSUME NEW set, OneState(set), ClaimsIn(set) = {}, Unclaimed
      PROVE  Plain(p, <<Do("replace", set)>>)
  <2> DEFINE c == Do("replace", set)
  <2>1. c.do = "replace" /\ c.arg = set /\ c = Do(c.do, c.arg)
    BY DEF Do
  <2>2. CallOK(p, c) /\ c.do \notin OfClaim /\ Harmless(p, c)
    BY <1>2, <2>1 DEF CallOK, OfClaim, Harmless
  <2> QED
    BY <2>2, PlainLists
<1>3. OneState(labels) /\ (Unclaimed => ClaimsIn(labels) = {})
  BY DEF Base, LabelsOK, Unclaimed
<1>4. CASE ProjectRuntimeState(p)
  <2> DEFINE set == (labels \ OfScope("orchd/state", labels)) \cup {RuntimeState(Arg(p))}
  <2>1. Doing(p, "project") /\ Continue(p, <<Do("replace", set)>>)
    BY <1>4 DEF ProjectRuntimeState
  <2>2. Unclaimed /\ ~Ended(p) /\ Head(proc[p].calls).do \notin OfClaim \cup {"add"}
    <3>1. PICK c : c = Head(proc[p].calls)
      OBVIOUS
    <3>2. c.do \in {"project", "reset state"} /\ ~Ended(p) /\ CallOK(p, c)
      BY <2>1, <3>1, First
    <3> QED
      BY <3>1, <3>2 DEF CallOK, OfClaim
  <2>3. OneState(set) /\ ClaimsIn(set) = {}
    BY <1>3, <2>2, NoClaims DEF OneState, StatesIn, ClaimsIn, OfScope
  <2>4. Plain(p, <<Do("replace", set)>>)
    BY <1>2, <2>2, <2>3
  <2> QED
    BY <1>1, <2>1, <2>2, <2>4, ReadStep
<1>5. CASE ResetWorkflow(p)
  <2> DEFINE set == (labels \ StatesIn(labels)) \cup {WorkflowState("ready")}
             calls == Maybe(StatesIn(labels) = {WorkflowState("in-progress")}, Do("replace", set))
  <2>1. Doing(p, "reset state") /\ Continue(p, calls)
    BY <1>5 DEF ResetWorkflow
  <2>2. Unclaimed /\ ~Ended(p) /\ Head(proc[p].calls).do \notin OfClaim \cup {"add"}
    <3>1. PICK c : c = Head(proc[p].calls)
      OBVIOUS
    <3>2. c.do \in {"project", "reset state"} /\ ~Ended(p) /\ CallOK(p, c)
      BY <2>1, <3>1, First
    <3> QED
      BY <3>1, <3>2 DEF CallOK, OfClaim
  <2>3. OneState(set) /\ ClaimsIn(set) = {}
    BY <1>3, <2>2, NoClaims DEF OneState, StatesIn, ClaimsIn, OfScope
  <2>4. Plain(p, <<Do("replace", set)>>)
    BY <1>2, <2>2, <2>3
  <2>5. Plain(p, calls)
    BY <2>4, PlainLists
  <2> QED
    BY <1>1, <2>1, <2>2, <2>5, ReadStep
<1> QED
  BY <1>4, <1>5

\* Those that write the open state alone.
LEMMA BaseOpenState ==
  ASSUME Base, UNCHANGED world, NEW p \in Procs, SetOpenState(p) \/ ReopenIssue(p)
  PROVE  Base'
<1>1. UNCHANGED <<labels, holds, faulted>> /\ world \in Worlds
  BY DEF SetOpenState, ReopenIssue, Base
<1>2. CASE SetOpenState(p)
  <2>1. Doing(p, "set open") /\ Continue(p, <<>>)
    BY <1>2 DEF SetOpenState
  <2>2. ~Ended(p) /\ Head(proc[p].calls).do \notin OfClaim \cup {"add"}
    <3>1. ~Ended(p) /\ Head(proc[p].calls).do = "set open"
      BY <2>1, First
    <3> QED
      BY <3>1 DEF OfClaim
  <2> QED
    BY <1>1, <2>1, <2>2, PlainLists, ReadStep
<1>3. CASE ReopenIssue(p)
  <2> DEFINE a == Do("clear", "done")
             b == Do("ensure", WorkflowState(Arg(p)))
  <2>1. Doing(p, "reopen") /\ Continue(p, <<a, b>>)
    BY <1>3 DEF ReopenIssue
  <2>2. ~Ended(p) /\ Head(proc[p].calls).do \notin OfClaim \cup {"add"}
    BY <2>1, First DEF OfClaim
  <2>3. Plain(p, <<a>>) /\ Plain(p, <<b>>)
    BY <1>1, NoClaims, PlainCalls
  <2>4. Plain(p, <<a, b>>)
    <3>1. <<a>> \o <<b>> = <<a, b>>
      BY Pairs
    <3>2. Plain(p, <<a>> \o <<b>>)
      BY <2>3, PlainLists
    <3> QED
      BY <3>1, <3>2
  <2> QED
    BY <1>1, <2>1, <2>2, <2>4, ReadStep
<1> QED
  BY <1>2, <1>3

LEMMA BaseNext ==
  ASSUME Base, [Next]_vars
  PROVE  Base'
<1>1. CASE UNCHANGED vars
  <2>1. UNCHANGED <<world, labels, open, proc, holds, faulted>>
    BY <1>1 DEF vars
  <2>2. PICK view, held, now : view = labels' /\ held = holds' /\ now = proc'
    OBVIOUS
  <2>3. LabelsOK(view) /\ \A p \in Procs : ProcOK(p, now[p], view, held)
    BY <2>1, <2>2 DEF Base
  <2>4. LabelsOK(view)' /\ \A p \in Procs' : ProcOK(p, now[p], view, held)'
    BY <2>1, <2>3, SameWorld
  <2>5. LabelsOK(labels)' /\ \A p \in Procs' : ProcOK(p, proc[p], labels, holds)'
    BY <2>2, <2>4 DEF LabelsOK, ProcOK, CallsOK, HoldOK
  <2>6. Procs' = Procs
    BY <2>1, SameWorld
  <2> QED
    BY <2>1, <2>5, <2>6 DEF Base
<1>2. ASSUME NEW p \in DOMAIN proc, Work(p)
      PROVE  Base'
  <2>1. p \in Procs /\ UNCHANGED world
    BY <1>2 DEF Base, Work
  <2> QED
    BY <1>2, <2>1, BaseAdd, BaseDrop, BaseReplace, BaseRetract, BaseEnsure, BaseClaim,
       BaseConfirm, BaseRelease, BasePlan, BaseWholeSet, BaseOpenState DEF Work
<1>3. ASSUME NEW p \in DOMAIN proc, Fault(p)
      PROVE  Base'
  <2>1. p \in Procs
    BY DEF Base
  <2> QED
    BY <1>3, <2>1, BaseFault
<1> QED
  BY <1>1, <1>2, <1>3 DEF Next

LEMMA BaseHolds == Spec => []Base
<1>1. Init => Base
  BY BaseInit
<1>2. Base /\ [Next]_vars => Base'
  BY BaseNext
<1> QED
  BY <1>1, <1>2, PTL DEF Spec

-----------------------------------------------------------------------------
(* What follows from Base alone.                                           *)

\* An issue never has two workflow states, and no write of a whole label set that is under
\* way has two (ensure_issue_state, project_issue_runtime_state and the reset of a stale
\* dispatch), for any number of programs and any commands in them.
THEOREM OneWorkflowStateHolds == Spec => []OneWorkflowState
<1>1. ASSUME NEW view, OneState(view)
      PROVE  Cardinality(StatesIn(view)) <= 1
  <2>1. CASE StatesIn(view) = {}
    BY <2>1, FS_EmptySet
  <2>2. CASE StatesIn(view) # {}
    <3>1. PICK x : StatesIn(view) = {x}
      BY <1>1, <2>2 DEF OneState
    <3>2. Cardinality({x}) = 1
      BY FS_Singleton
    <3> QED
      BY <3>1, <3>2
  <2> QED
    BY <2>1, <2>2
<1>2. Base => OneWorkflowState
  <2> SUFFICES ASSUME Base PROVE OneWorkflowState
    OBVIOUS
  <2>1. Cardinality(StatesIn(labels)) <= 1
    BY <1>1 DEF Base, LabelsOK
  <2>2. ASSUME NEW p \in DOMAIN proc, Doing(p, "replace")
        PROVE  Cardinality(StatesIn(Arg(p))) <= 1
    <3>1. p \in Procs
      BY DEF Base
    <3>2. OneState(Arg(p))
      BY <2>2, <3>1, First DEF CallOK
    <3> QED
      BY <1>1, <3>2
  <2> QED
    BY <2>1, <2>2 DEF OneWorkflowState
<1> QED
  BY <1>2, BaseHolds, PTL

\* Only the reading back of a claim makes a process a holder.
LEMMA OnlyConfirmHolds ==
  ASSUME NEW p, Work(p), ~ConfirmClaim(p)
  PROVE  holds' \subseteq holds
BY DEF Work, AddLabel, DropLabel, ReplaceLabels, SetOpenState, Retract, Ensure, PickReady,
       ClaimIssue, ReleaseIssue, Transition, Blocker, CloseIssue, ReopenIssue, ClearResolution,
       ProjectRuntimeState, ReleaseStaleClaims, ResetWorkflow, Reconcile, Read

\* Two agents never hold the issue (cmd_issue_claim), for any number of programs that claim,
\* move, close and reopen it and however many calls fail, where nobody writes back whole
\* label sets.
THEOREM ClaimExclusiveHolds == Spec => []ClaimExclusive
<1>1. Init => ClaimExclusive
  BY DEF Init, ClaimExclusive
<1>2. ClaimExclusive /\ Base /\ [Next]_vars => ClaimExclusive'
  <2> SUFFICES ASSUME ClaimExclusive, Base, [Next]_vars PROVE ClaimExclusive'
    OBVIOUS
  <2>1. CASE UNCHANGED vars
    BY <2>1 DEF vars, ClaimExclusive
  <2>2. ASSUME holds' \subseteq holds PROVE ClaimExclusive'
    BY <2>2 DEF ClaimExclusive
  <2>3. ASSUME NEW p \in Procs, ConfirmClaim(p) PROVE ClaimExclusive'
    <3> DEFINE own == Head(proc[p].calls).arg.own
    <3>1. Doing(p, "confirm") /\ Arg(p).own = own
      BY <2>3 DEF ConfirmClaim, Arg
    <3>2. own \in Own(p)
      BY <3>1, First DEF CallOK
    <3>3. CASE holds' = holds
      BY <2>2, <3>3
    <3>4. CASE ClaimsIn(labels) \subseteq {own} /\ holds' = holds \cup {p}
      <4>1. ASSUME NEW q \in holds, q # p PROVE FALSE
        <5>1. q \in Procs /\ Own(q) # {} /\ Own(q) \subseteq labels
          BY DEF Base, ProcOK, HoldOK
        <5>2. PICK label \in Own(q) : label \in ClaimsIn(labels)
          BY <5>1, Owners DEF Base, ClaimsIn, OfScope
        <5>3. label \in Own(p) \cap Own(q)
          BY <3>2, <3>4, <5>2
        <5> QED
          BY <4>1, <5>1, <5>3, Owners DEF Base
      <4> QED
        BY <3>4, <4>1 DEF ClaimExclusive
    <3> QED
      BY <2>3, <3>1, <3>3, <3>4 DEF ConfirmClaim
  <2>4. ASSUME NEW p \in DOMAIN proc, Work(p) PROVE ClaimExclusive'
    BY <2>2, <2>3, <2>4, OnlyConfirmHolds DEF Base
  <2>5. ASSUME NEW p \in DOMAIN proc, Fault(p) PROVE ClaimExclusive'
    BY <2>2, <2>5 DEF Fault
  <2> QED
    BY <2>1, <2>4, <2>5 DEF Next
<1> QED
  BY <1>1, <1>2, BaseHolds, PTL DEF Spec

-----------------------------------------------------------------------------
(* Where the steps of a worker take it.                                    *)

\* What a worker's place says of the call it is at.
WorkerCall(p, y, agent, view, held) ==
  LET own == Claim(agent)
      c == Head(y.calls)
      confirm == Do("confirm", [own |-> own, had |-> FALSE])
  IN  \/ c.do = "pick" /\ y.at = 1 /\ y.calls = <<Do("pick", {})>> /\ Free(p, view, held)
      \/ c.do = "claim" /\ y.at = 2 /\ y.calls = <<Do("claim", agent)>> /\ Free(p, view, held)
      \/ c.do = "add" /\ y.at = 2 /\ y.calls = <<Do("add", own), confirm>> /\ Free(p, view, held)
      \/ c.do = "add" /\ y.at = 2 /\ y.calls = <<Do("add", InProgress)>> /\ p \in held
      \/ c.do = "add" /\ y.at = 3 /\ y.calls = <<Do("add", Ready)>> /\ Free(p, view, held)
      \/ c.do = "confirm" /\ y.at = 2 /\ y.calls = <<confirm>> /\ p \notin held
      \/ c.do = "retract" /\ y.at = 2 /\ y.calls = <<Do("retract", own)>> /\ p \notin held
      \/ c.do = "ensure" /\ y.at = 2 /\ y.calls = <<Do("ensure", InProgress)>> /\ p \in held
      \/ c.do = "ensure" /\ y.at = 3 /\ y.calls = <<Do("ensure", Ready)>> /\ Free(p, view, held)
      \/ c.do = "release" /\ y.at = 3 /\ y.calls = <<Do("release", {agent})>> /\ p \in held
      \/ c.do = "drop" /\ \E set, state :
           /\ y.calls = <<Do("drop", set), Do("add", state)>> /\ ClaimsIn(set) = {}
           /\ \/ y.at = 2 /\ state = InProgress /\ p \in held
              \/ y.at = 3 /\ state = Ready /\ Free(p, view, held)
      \/ c.do = "drop" /\ y.at = 3 /\ p \notin held
           /\ y.calls \in {<<Do("drop", {own})>>, <<Do("drop", {own}), Do("ensure", Ready)>>}

LEMMA AtCall ==
  ASSUME NEW p, NEW y, NEW agent, NEW view, NEW held, AtWork(p, y, agent, view, held),
         y.calls # <<>>
  PROVE  WorkerCall(p, y, agent, view, held)
<1> DEFINE own == Claim(agent)
           confirm == Do("confirm", [own |-> own, had |-> FALSE])
<1>1. \A do, arg : Do(do, arg).do = do
  BY DEF Do
<1>2. \A c : Head(<<c>>) = c
  BY Singles
<1>3. \A c, d : Head(<<c, d>>) = c
  BY Pairs
<1>4. CASE y.at = 2 /\ p \in held /\ Entering(y.calls, InProgress)
  <2>1. CASE y.calls = <<Do("ensure", InProgress)>>
    BY <1>1, <1>2, <1>4, <2>1 DEF WorkerCall
  <2>2. CASE y.calls = <<Do("add", InProgress)>>
    BY <1>1, <1>2, <1>4, <2>2 DEF WorkerCall
  <2>3. CASE /\ y.calls = <<Do("drop", y.calls[1].arg), Do("add", InProgress)>>
             /\ ClaimsIn(y.calls[1].arg) = {}
    <3>1. PICK set : set = y.calls[1].arg
      OBVIOUS
    <3>2. y.calls = <<Do("drop", set), Do("add", InProgress)>> /\ ClaimsIn(set) = {}
      BY <2>3, <3>1
    <3>3. Head(y.calls).do = "drop"
      BY <1>1, <1>3, <3>2
    <3> QED
      BY <1>4, <3>2, <3>3 DEF WorkerCall
  <2> QED
    BY <1>4, <2>1, <2>2, <2>3 DEF Entering
<1>5. CASE y.at = 3 /\ Free(p, view, held) /\ Entering(y.calls, Ready)
  <2>1. CASE y.calls = <<Do("ensure", Ready)>>
    BY <1>1, <1>2, <1>5, <2>1 DEF WorkerCall
  <2>2. CASE y.calls = <<Do("add", Ready)>>
    BY <1>1, <1>2, <1>5, <2>2 DEF WorkerCall
  <2>3. CASE /\ y.calls = <<Do("drop", y.calls[1].arg), Do("add", Ready)>>
             /\ ClaimsIn(y.calls[1].arg) = {}
    <3>1. PICK set : set = y.calls[1].arg
      OBVIOUS
    <3>2. y.calls = <<Do("drop", set), Do("add", Ready)>> /\ ClaimsIn(set) = {}
      BY <2>3, <3>1
    <3>3. Head(y.calls).do = "drop"
      BY <1>1, <1>3, <3>2
    <3> QED
      BY <1>5, <3>2, <3>3 DEF WorkerCall
  <2> QED
    BY <1>5, <2>1, <2>2, <2>3 DEF Entering
<1>6. CASE y.at = 1 /\ y.calls = <<Do("pick", {})>> /\ Free(p, view, held)
  BY <1>1, <1>2, <1>6 DEF WorkerCall
<1>7. CASE y.at = 2 /\ y.calls = <<Do("claim", agent)>> /\ Free(p, view, held)
  BY <1>1, <1>2, <1>7 DEF WorkerCall
<1>8. CASE y.at = 2 /\ y.calls = <<Do("add", own), confirm>> /\ Free(p, view, held)
  BY <1>1, <1>3, <1>8 DEF WorkerCall
<1>9. CASE y.at = 2 /\ y.calls = <<confirm>> /\ p \notin held
  BY <1>1, <1>2, <1>9 DEF WorkerCall
<1>10. CASE y.at = 2 /\ y.calls = <<Do("retract", own)>> /\ p \notin held
  BY <1>1, <1>2, <1>10 DEF WorkerCall
<1>11. CASE y.at = 3 /\ p \in held /\ y.calls = <<Do("release", {agent})>>
  BY <1>1, <1>2, <1>11 DEF WorkerCall
<1>12. CASE y.at = 3 /\ p \notin held /\ y.calls \in {<<Do("drop", {own})>>, <<Do("drop", {own}), Do("ensure", Ready)>>}
  <2>1. Head(y.calls).do = "drop"
    BY <1>1, <1>2, <1>3, <1>12
  <2> QED
    BY <1>12, <2>1 DEF WorkerCall
<1> QED
  BY <1>4, <1>5, <1>6, <1>7, <1>8, <1>9, <1>10, <1>11, <1>12 DEF AtWork

LEMMA EndedIsFree ==
  ASSUME NEW p, NEW y, NEW agent, NEW view, NEW held, AtWork(p, y, agent, view, held),
         y.calls = <<>>
  PROVE  Free(p, view, held)
BY Singles, Pairs DEF AtWork, Entering

\* Where a worker that does something is.
LEMMA WorkerAt ==
  ASSUME Base, WorkersOK, NEW p \in Procs, IsWorker(p), NEW do, Doing(p, do)
  PROVE  /\ p \notin faulted /\ Head(proc[p].calls).do = do /\ proc[p].calls # <<>>
         /\ \E agent : /\ Script(p) = Worker(agent) /\ Own(p) = {Claim(agent)}
                       /\ WorkerCall(p, proc[p], agent, labels, holds)
<1>1. proc[p].calls # <<>> /\ Head(proc[p].calls).do = do
  BY DEF Doing, Ended
<1>2. WorkerOK(p, proc[p], labels, holds, faulted)
  BY DEF WorkersOK
<1>3. p \notin faulted
  BY <1>1, <1>2 DEF WorkerOK
<1>4. PICK agent : Script(p) = Worker(agent) /\ AtWork(p, proc[p], agent, labels, holds)
  BY <1>2, <1>3 DEF WorkerOK
<1>5. Own(p) = {Claim(agent)}
  BY <1>4, WorkerProgram DEF Own
<1> QED
  BY <1>1, <1>3, <1>4, <1>5, AtCall

\* The command after the one a worker is at.
LEMMA WorkerNext ==
  ASSUME NEW p, NEW agent, Script(p) = Worker(agent)
  PROVE  /\ proc[p].at = 1 => NextCommand(p) = [at |-> 2, calls |-> <<Do("claim", agent)>>]
         /\ proc[p].at = 2 => NextCommand(p) = [at |-> 3, calls |-> <<Do("release", {agent})>>]
         /\ proc[p].at = 3 => NextCommand(p) = End(p)
         /\ Fails(p) => proc' = [proc EXCEPT ![p] = End(p)]
<1> DEFINE commands == Script(p).commands
<1>1. /\ Len(commands) = 3 /\ commands[2] = Do("claim", agent)
      /\ commands[3] = Do("release", {agent})
      /\ Script(p).stops = TRUE /\ Script(p).loops = FALSE
  BY WorkerProgram
<1>2. ASSUME proc[p].at = 1
      PROVE  NextCommand(p) = [at |-> 2, calls |-> <<Do("claim", agent)>>]
  BY <1>1, <1>2 DEF NextCommand
<1>3. ASSUME proc[p].at = 2
      PROVE  NextCommand(p) = [at |-> 3, calls |-> <<Do("release", {agent})>>]
  BY <1>1, <1>3 DEF NextCommand
<1>4. ASSUME proc[p].at = 3
      PROVE  NextCommand(p) = End(p)
  BY <1>1, <1>4 DEF NextCommand
<1>5. Fails(p) => proc' = [proc EXCEPT ![p] = End(p)]
  BY <1>1 DEF Fails
<1> QED
  BY <1>2, <1>3, <1>4, <1>5

\* The step keeps the worker where workers are and the issue's state in somebody's care.
WorkerMoves(p) ==
  \E agent, y :
    /\ Script(p) = Worker(agent) /\ proc' = [proc EXCEPT ![p] = y]
    /\ AtWork(p, y, agent, labels', holds') /\ Moves(p, y, labels', holds')

LEMMA DoIs ==
  \A do, arg : Do(do, arg).do = do /\ Do(do, arg).arg = arg
BY DEF Do

LEMMA NoWill ==
  ASSUME NEW p, NEW y, NEW held, \A c \in Range(y.calls) : c.do \notin {"add", "ensure"}
  PROVE  ~WillState(y) /\ (WillReady(p, y, held) => p \in held)
BY DoIs DEF WillState, WillReady

LEMMA SameLabels ==
  ASSUME NEW p, NEW y, NEW held, ~WillState(proc[p]),
         WillReady(p, proc[p], holds) => WillReady(p, y, held)
  PROVE  Moves(p, y, labels, held)
BY DEF Moves

LEMMA WorkerPicks ==
  ASSUME Base, WorkersOK, NEW p \in Procs, IsWorker(p), PickReady(p)
  PROVE  WorkerMoves(p)
<1>1. Doing(p, "pick") /\ UNCHANGED <<labels, holds>>
  BY DEF PickReady, Read
<1>2. PICK agent : /\ Script(p) = Worker(agent)
                   /\ WorkerCall(p, proc[p], agent, labels, holds)
                   /\ Head(proc[p].calls).do = "pick"
  BY <1>1, WorkerAt
<1>3. /\ proc[p].at = 1 /\ proc[p].calls = <<Do("pick", {})>> /\ Free(p, labels, holds)
  BY <1>2 DEF WorkerCall
<1>4. \A c \in Range(proc[p].calls) : c.do = "pick"
  BY <1>3, Singles, DoIs
<1>5. ~WillState(proc[p]) /\ ~WillReady(p, proc[p], holds)
  BY <1>3, <1>4, NoWill DEF Free
<1>6. \A y : Moves(p, y, labels, holds)
  BY <1>5, SameLabels
<1>7. CASE Continue(p, <<>>)
  <2>1. After(p, <<>>) = [at |-> 2, calls |-> <<Do("claim", agent)>>]
    <3>1. After(p, <<>>) = NextCommand(p)
      BY <1>2, <1>3, AfterLast
    <3> QED
      BY <1>2, <1>3, <3>1, WorkerNext
  <2>2. PICK y : y = After(p, <<>>)
    OBVIOUS
  <2>3. proc' = [proc EXCEPT ![p] = y]
    BY <1>7, <2>2, Continues
  <2>4. AtWork(p, y, agent, labels, holds)
    BY <1>3, <2>1, <2>2 DEF AtWork
  <2> QED
    BY <1>1, <1>2, <1>6, <2>3, <2>4 DEF WorkerMoves
<1>8. CASE proc' = [proc EXCEPT ![p] = End(p)]
  <2>1. PICK y : y = End(p)
    OBVIOUS
  <2>2. AtWork(p, y, agent, labels, holds)
    BY <1>3, <2>1 DEF AtWork, End
  <2> QED
    BY <1>1, <1>2, <1>6, <1>8, <2>1, <2>2 DEF WorkerMoves
<1> QED
  BY <1>7, <1>8 DEF PickReady

LEMMA WorkerClaims ==
  ASSUME Base, WorkersOK, NEW p \in Procs, IsWorker(p), ClaimIssue(p)
  PROVE  WorkerMoves(p)
<1>1. Doing(p, "claim") /\ UNCHANGED <<labels, holds>>
  BY DEF ClaimIssue, Read
<1>2. PICK agent : /\ Script(p) = Worker(agent) /\ Own(p) = {Claim(agent)}
                   /\ WorkerCall(p, proc[p], agent, labels, holds)
                   /\ Head(proc[p].calls).do = "claim"
  BY <1>1, WorkerAt
<1>3. /\ proc[p].at = 2 /\ proc[p].calls = <<Do("claim", agent)>> /\ Free(p, labels, holds)
  BY <1>2 DEF WorkerCall
<1>4. \A c \in Range(proc[p].calls) : c.do = "claim"
  BY <1>3, Singles, DoIs
<1>5. ~WillState(proc[p]) /\ ~WillReady(p, proc[p], holds)
  BY <1>3, <1>4, NoWill DEF Free
<1>6. \A y : Moves(p, y, labels, holds)
  BY <1>5, SameLabels
<1>7. Arg(p) = agent
  BY <1>3, Singles, DoIs DEF Arg
<1> DEFINE own == Claim(agent)
           a == Do("add", own)
           c == Do("confirm", [own |-> own, had |-> FALSE])
           calls == Maybe(own \notin labels, Do("add", own))
                      \o <<Do("confirm", [own |-> own, had |-> own \in labels])>>
<1>8. own \notin labels
  BY <1>2, <1>3 DEF Free
<1>9. calls = <<a, c>>
  <2>1. (own \in labels) = FALSE
    BY <1>8
  <2>2. Maybe(own \notin labels, Do("add", own)) = <<a>>
    BY <1>8 DEF Maybe
  <2>3. <<a>> \o <<c>> = <<a, c>>
    BY Pairs
  <2> QED
    BY <2>1, <2>2, <2>3
<1>10. CASE Continue(p, calls)
  <2>1. IsList(calls) /\ calls # <<>>
    BY <1>9, Pairs
  <2>2. After(p, calls) = [at |-> 2, calls |-> <<a, c>>]
    BY <1>3, <1>9, <2>1, AfterAlone
  <2>3. PICK y : y = After(p, calls)
    OBVIOUS
  <2>4. proc' = [proc EXCEPT ![p] = y]
    BY <1>10, <2>3, Continues
  <2>5. AtWork(p, y, agent, labels, holds)
    BY <1>3, <2>2, <2>3 DEF AtWork
  <2> QED
    BY <1>1, <1>2, <1>6, <2>4, <2>5 DEF WorkerMoves
<1>11. CASE Fails(p)
  <2>1. PICK y : y = End(p)
    OBVIOUS
  <2>2. proc' = [proc EXCEPT ![p] = y]
    BY <1>2, <1>11, <2>1, WorkerNext
  <2>3. AtWork(p, y, agent, labels, holds)
    BY <1>3, <2>1 DEF AtWork, End
  <2> QED
    BY <1>1, <1>2, <1>6, <2>2, <2>3 DEF WorkerMoves
<1> QED
  BY <1>7, <1>10, <1>11 DEF ClaimIssue

LEMMA WorkerConfirms ==
  ASSUME Base, WorkersOK, NEW p \in Procs, IsWorker(p), ConfirmClaim(p)
  PROVE  WorkerMoves(p)
<1>1. Doing(p, "confirm") /\ labels' = labels
  BY DEF ConfirmClaim
<1>2. PICK agent : /\ Script(p) = Worker(agent) /\ Own(p) = {Claim(agent)}
                   /\ WorkerCall(p, proc[p], agent, labels, holds)
                   /\ Head(proc[p].calls).do = "confirm"
  BY <1>1, WorkerAt
<1> DEFINE own == Claim(agent)
           c == Do("confirm", [own |-> own, had |-> FALSE])
           e == Do("ensure", InProgress)
           t == Do("retract", own)
<1>3. proc[p].at = 2 /\ proc[p].calls = <<c>> /\ p \notin holds
  BY <1>2 DEF WorkerCall
<1>4. \A d \in Range(proc[p].calls) : d.do = "confirm"
  BY <1>3, Singles, DoIs
<1>5. ~WillState(proc[p]) /\ ~WillReady(p, proc[p], holds)
  BY <1>3, <1>4, NoWill
<1>6. \A y, held : Moves(p, y, labels, held)
  BY <1>5, SameLabels
<1>7. Arg(p) = [own |-> own, had |-> FALSE]
  BY <1>3, Singles, DoIs DEF Arg
<1>8. own \in labels
  BY <1>1, <1>7, First
<1>9. CASE Continue(p, <<e>>) /\ holds' = holds \cup {p}
  <2>1. PICK y : y = After(p, <<e>>)
    OBVIOUS
  <2>2. y = [at |-> 2, calls |-> <<e>>]
    BY <1>3, <2>1, AfterThen
  <2>3. proc' = [proc EXCEPT ![p] = y]
    BY <1>9, <2>1, Continues
  <2>4. AtWork(p, y, agent, labels, holds \cup {p})
    BY <2>2 DEF AtWork, Entering
  <2> QED
    BY <1>1, <1>2, <1>6, <1>9, <2>3, <2>4 DEF WorkerMoves
<1>10. CASE Continue(p, <<t>>) /\ holds' = holds
  <2>1. PICK y : y = After(p, <<t>>)
    OBVIOUS
  <2>2. y = [at |-> 2, calls |-> <<t>>]
    BY <1>3, <2>1, AfterThen
  <2>3. proc' = [proc EXCEPT ![p] = y]
    BY <1>10, <2>1, Continues
  <2>4. AtWork(p, y, agent, labels, holds)
    BY <1>3, <2>2 DEF AtWork
  <2> QED
    BY <1>1, <1>2, <1>6, <1>10, <2>3, <2>4 DEF WorkerMoves
<1> QED
  BY <1>7, <1>8, <1>9, <1>10 DEF ConfirmClaim, InProgress

LEMMA WorkerRetracts ==
  ASSUME Base, WorkersOK, NEW p \in Procs, IsWorker(p), Retract(p)
  PROVE  WorkerMoves(p)
<1>1. Doing(p, "retract") /\ labels' = labels \ {Arg(p)} /\ Fails(p) /\ holds' = holds
  BY DEF Retract
<1>2. PICK agent : /\ Script(p) = Worker(agent) /\ Own(p) = {Claim(agent)}
                   /\ WorkerCall(p, proc[p], agent, labels, holds)
                   /\ Head(proc[p].calls).do = "retract"
  BY <1>1, WorkerAt
<1> DEFINE own == Claim(agent)
<1>3. proc[p].calls = <<Do("retract", own)>> /\ p \notin holds
  BY <1>2 DEF WorkerCall
<1>4. Arg(p) = own
  BY <1>3, Singles, DoIs DEF Arg
<1>5. \A d \in Range(proc[p].calls) : d.do = "retract"
  BY <1>3, Singles, DoIs
<1>6. ~WillState(proc[p]) /\ ~WillReady(p, proc[p], holds)
  BY <1>3, <1>5, NoWill
<1>7. PICK y, view : y = End(p) /\ view = labels'
  OBVIOUS
<1>8. StatesIn(view) = StatesIn(labels) /\ view \subseteq labels /\ own \notin view
  BY <1>1, <1>4, <1>7 DEF StatesIn, OfScope, Claim
<1>9. Moves(p, y, view, holds)
  BY <1>6, <1>8 DEF Moves
<1>10. Free(p, view, holds)
  BY <1>2, <1>3, <1>8 DEF Free
<1>11. AtWork(p, y, agent, view, holds)
  BY <1>7, <1>10 DEF AtWork, End
<1>12. proc' = [proc EXCEPT ![p] = y]
  BY <1>1, <1>2, <1>7, WorkerNext
<1> QED
  BY <1>1, <1>2, <1>7, <1>9, <1>11, <1>12 DEF WorkerMoves

LEMMA TwoStates ==
  /\ Ready # InProgress /\ Ready[1] = "state" /\ InProgress[1] = "state"
  /\ \A agent : Claim(agent)[1] = "claimed" /\ Claim(agent) \notin {Ready, InProgress}
BY DEF Ready, InProgress, WorkflowState, Claim

LEMMA WorkerAdds ==
  ASSUME Base, WorkersOK, NEW p \in Procs, IsWorker(p), AddLabel(p)
  PROVE  WorkerMoves(p)
<1>1. /\ Doing(p, "add") /\ labels' = WithLabel(Arg(p), labels) /\ Continue(p, <<>>)
      /\ holds' = holds
  BY DEF AddLabel
<1>2. PICK agent : /\ Script(p) = Worker(agent) /\ Own(p) = {Claim(agent)}
                   /\ WorkerCall(p, proc[p], agent, labels, holds)
                   /\ Head(proc[p].calls).do = "add"
  BY <1>1, WorkerAt
<1> DEFINE own == Claim(agent)
           a == Do("add", own)
           c == Do("confirm", [own |-> own, had |-> FALSE])
<1>3. PICK y, view : y = After(p, <<>>) /\ view = WithLabel(Arg(p), labels)
  OBVIOUS
<1>4. proc' = [proc EXCEPT ![p] = y]
  BY <1>1, <1>3, Continues
<1>5. OneState(labels)
  BY DEF Base, LabelsOK
<1>6. view \subseteq labels \cup {Arg(p)}
  BY <1>3 DEF WithLabel
<1>7. SUFFICES AtWork(p, y, agent, view, holds) /\ Moves(p, y, view, holds)
  BY <1>1, <1>2, <1>3, <1>4 DEF WorkerMoves
<1>8. CASE proc[p].at = 2 /\ proc[p].calls = <<a, c>> /\ Free(p, labels, holds)
  <2>1. Arg(p) = own
    BY <1>8, Pairs, DoIs DEF Arg
  <2>2. \A d \in Range(proc[p].calls) : d \in {a, c}
    BY <1>8, Pairs
  <2>3. ~WillState(proc[p]) /\ ~WillReady(p, proc[p], holds)
    <3>1. a.arg = own /\ c.do = "confirm"
      BY DoIs
    <3>2. \A d \in {Do("add", Ready), Do("add", InProgress)} : d.arg # own /\ d.do # "confirm"
      BY DoIs, TwoStates
    <3>3. \A d \in {Do("ensure", Ready)} : d.arg # own /\ d.do # "confirm"
      BY DoIs, TwoStates
    <3> HIDE DEF own, a, c
    <3> QED
      BY <1>8, <2>2, <3>1, <3>2, <3>3 DEF WillState, WillReady, Free
  <2>4. StatesIn(view) = StatesIn(labels)
    BY <1>3, <1>5, <2>1, TwoStates, AddedLabel
  <2>5. Moves(p, y, view, holds)
    BY <1>2, <1>6, <2>1, <2>3, <2>4 DEF Moves
  <2>6. Tail(proc[p].calls) = <<c>> /\ <<>> \o <<c>> = <<c>> /\ <<c>> # <<>>
    BY <1>8, Pairs, Singles, Joined
  <2>7. y = [at |-> 2, calls |-> <<c>>]
    BY <1>3, <1>8, <2>6 DEF After
  <2>8. AtWork(p, y, agent, view, holds)
    BY <1>8, <2>7 DEF AtWork, Free
  <2> QED
    BY <2>5, <2>8
<1>9. CASE proc[p].at = 2 /\ proc[p].calls = <<Do("add", InProgress)>> /\ p \in holds
  <2>1. Arg(p) = InProgress
    BY <1>9, Singles, DoIs DEF Arg
  <2>2. StatesIn(view) = {InProgress}
    BY <1>3, <1>5, <2>1, TwoStates, AddedLabel
  <2>3. Moves(p, y, view, holds)
    BY <1>6, <1>9, <2>1, <2>2 DEF Moves, WillReady
  <2>4. y = [at |-> 3, calls |-> <<Do("release", {agent})>>]
    <3>1. After(p, <<>>) = NextCommand(p)
      BY <1>2, <1>3, <1>9, AfterLast
    <3> QED
      BY <1>2, <1>3, <1>9, <3>1, WorkerNext
  <2>5. AtWork(p, y, agent, view, holds)
    BY <1>9, <2>4 DEF AtWork
  <2> QED
    BY <2>3, <2>5
<1>10. CASE proc[p].at = 3 /\ proc[p].calls = <<Do("add", Ready)>> /\ Free(p, labels, holds)
  <2>1. Arg(p) = Ready
    BY <1>10, Singles, DoIs DEF Arg
  <2>2. StatesIn(view) = {Ready}
    BY <1>3, <1>5, <2>1, TwoStates, AddedLabel
  <2>3. Moves(p, y, view, holds)
    BY <1>6, <2>1, <2>2, TwoStates DEF Moves
  <2>4. y = End(p)
    <3>1. After(p, <<>>) = NextCommand(p)
      BY <1>2, <1>3, <1>10, AfterLast
    <3> QED
      BY <1>2, <1>3, <1>10, <3>1, WorkerNext
  <2>5. own \notin view
    BY <1>2, <1>6, <1>10, <2>1, TwoStates DEF Free
  <2>6. AtWork(p, y, agent, view, holds)
    BY <1>2, <1>10, <2>4, <2>5 DEF AtWork, End, Free
  <2> QED
    BY <2>3, <2>6
<1> QED
  BY <1>2, <1>8, <1>9, <1>10 DEF WorkerCall

\* The calls that ensure_issue_state is left with.
LEMMA EnsureCalls ==
  ASSUME NEW label, label[1] = "state", OneState(labels)
  PROVE  LET set == OfScope("state", labels) \ {label}
             calls == Drop(set) \o Maybe(label \notin labels, Do("add", label))
         IN  IF label \in labels THEN calls = <<>> /\ StatesIn(labels) = {label}
             ELSE /\ ClaimsIn(set) = {}
                  /\ calls \in {<<Do("add", label)>>, <<Do("drop", set), Do("add", label)>>}
<1> DEFINE set == OfScope("state", labels) \ {label}
           calls == Drop(set) \o Maybe(label \notin labels, Do("add", label))
<1>1. ClaimsIn(set) = {}
  BY Scopes
<1>2. CASE label \in labels
  <2>1. label \in StatesIn(labels)
    BY <1>2 DEF StatesIn, OfScope
  <2>2. StatesIn(labels) = {label}
    BY <2>1 DEF OneState
  <2>3. set = {}
    BY <2>2 DEF StatesIn
  <2>4. Drop(set) = <<>> /\ Maybe(label \notin labels, Do("add", label)) = <<>>
    BY <1>2, <2>3 DEF Drop, Maybe
  <2>5. calls = <<>>
    BY <2>4, Joined, Singles
  <2> QED
    BY <1>2, <2>2, <2>5
<1>3. CASE label \notin labels
  <2>1. Maybe(label \notin labels, Do("add", label)) = <<Do("add", label)>>
    BY <1>3 DEF Maybe
  <2>2. CASE set = {}
    <3>1. Drop(set) = <<>>
      BY <2>2 DEF Drop, Maybe
    <3>2. calls = <<Do("add", label)>>
      <4>1. IsList(<<Do("add", label)>>) /\ IsList(<<>>)
        BY Singles
      <4>2. <<>> \o <<Do("add", label)>> = <<Do("add", label)>>
        BY <4>1, Joined
      <4> QED
        BY <2>1, <3>1, <4>2
    <3> QED
      BY <1>1, <1>3, <3>2
  <2>3. CASE set # {}
    <3>1. Drop(set) = <<Do("drop", set)>>
      BY <2>3 DEF Drop, Maybe
    <3>2. calls = <<Do("drop", set), Do("add", label)>>
      <4>1. <<Do("drop", set)>> \o <<Do("add", label)>> = <<Do("drop", set), Do("add", label)>>
        BY Pairs
      <4> QED
        BY <2>1, <3>1, <4>1
    <3> QED
      BY <1>1, <1>3, <3>2
  <2> QED
    BY <2>2, <2>3
<1> QED
  BY <1>2, <1>3

LEMMA EnteringCalls ==
  ASSUME NEW calls, NEW label, NEW set, ClaimsIn(set) = {},
         calls \in {<<Do("add", label)>>, <<Do("drop", set), Do("add", label)>>}
  PROVE  /\ Entering(calls, label) /\ IsList(calls) /\ calls # <<>>
         /\ Do("add", label) \in Range(calls)
<1>1. CASE calls = <<Do("add", label)>>
  BY <1>1, Singles DEF Entering
<1>2. CASE calls = <<Do("drop", set), Do("add", label)>>
  <2>1. calls[1] = Do("drop", set)
    BY <1>2
  <2>2. calls[1].arg = set
    BY <2>1, DoIs
  <2>3. IsList(calls) /\ calls # <<>> /\ Do("add", label) \in Range(calls) /\ Len(calls) = 2
    BY <1>2, Pairs
  <2> QED
    BY <1>2, <2>2, <2>3 DEF Entering
<1> QED
  BY <1>1, <1>2

LEMMA WorkerEnsures ==
  ASSUME Base, WorkersOK, NEW p \in Procs, IsWorker(p), Ensure(p)
  PROVE  WorkerMoves(p)
<1> DEFINE label == Arg(p)
           set == OfScope(label[1], labels) \ {label}
           calls == Drop(set) \o Maybe(label \notin labels, Do("add", label))
<1>1. Doing(p, "ensure") /\ UNCHANGED <<labels, holds>> /\ Continue(p, calls)
  BY DEF Ensure, Read
<1>2. PICK agent : /\ Script(p) = Worker(agent) /\ Own(p) = {Claim(agent)}
                   /\ WorkerCall(p, proc[p], agent, labels, holds)
                   /\ Head(proc[p].calls).do = "ensure"
  BY <1>1, WorkerAt
<1>3. PICK y : y = After(p, calls)
  OBVIOUS
<1>4. proc' = [proc EXCEPT ![p] = y]
  BY <1>1, <1>3, Continues
<1>5. SUFFICES AtWork(p, y, agent, labels, holds) /\ Moves(p, y, labels, holds)
  BY <1>1, <1>2, <1>4 DEF WorkerMoves
<1>6. PICK state \in {InProgress, Ready} :
        /\ proc[p].calls = <<Do("ensure", state)>>
        /\ state = InProgress => proc[p].at = 2 /\ p \in holds
        /\ state = Ready => proc[p].at = 3 /\ Free(p, labels, holds)
  BY <1>2, TwoStates DEF WorkerCall
<1>7. label = state /\ label[1] = "state"
  BY <1>6, Singles, DoIs, TwoStates DEF Arg
<1>8. OneState(labels)
  BY DEF Base, LabelsOK
<1>9. ~WillState(proc[p])
  <2>1. \A c \in Range(proc[p].calls) : c.do = "ensure"
    BY <1>6, Singles, DoIs
  <2> QED
    BY <2>1, DoIs DEF WillState
<1>10. CASE label \in labels
  <2>1. calls = <<>> /\ StatesIn(labels) = {label}
    BY <1>7, <1>8, <1>10, EnsureCalls
  <2>2. y = NextCommand(p)
    BY <1>3, <1>6, <2>1, AfterLast
  <2>3. CASE state = InProgress
    <3>1. y = [at |-> 3, calls |-> <<Do("release", {agent})>>]
      BY <1>2, <1>6, <2>2, <2>3, WorkerNext
    <3>2. AtWork(p, y, agent, labels, holds)
      BY <1>6, <2>3, <3>1 DEF AtWork
    <3>3. WillReady(p, y, holds)
      BY <1>6, <2>3 DEF WillReady
    <3> QED
      BY <1>9, <3>2, <3>3, SameLabels
  <2>4. CASE state = Ready
    <3>1. y = End(p)
      BY <1>2, <1>6, <2>2, <2>4, WorkerNext
    <3>2. AtWork(p, y, agent, labels, holds)
      BY <1>6, <2>4, <3>1 DEF AtWork, End
    <3>3. StatesIn(labels) = {Ready} /\ StatesIn(labels) # {} /\ StatesIn(labels) # {InProgress}
      BY <1>7, <2>1, <2>4, TwoStates
    <3>4. Moves(p, y, labels, holds)
      BY <3>3 DEF Moves
    <3> QED
      BY <3>2, <3>4
  <2> QED
    BY <2>3, <2>4
<1>11. CASE label \notin labels
  <2>1. /\ ClaimsIn(set) = {}
        /\ calls \in {<<Do("add", label)>>, <<Do("drop", set), Do("add", label)>>}
    BY <1>7, <1>8, <1>11, EnsureCalls
  <2>2. PICK list : list = calls
    OBVIOUS
  <2>3. /\ Entering(list, state) /\ IsList(list) /\ list # <<>>
        /\ Do("add", state) \in Range(list)
    BY <1>7, <2>1, <2>2, EnteringCalls
  <2>4. y = [at |-> proc[p].at, calls |-> list]
    BY <1>3, <1>6, <2>2, <2>3, AfterAlone
  <2>5. AtWork(p, y, agent, labels, holds)
    BY <1>6, <2>3, <2>4 DEF AtWork
  <2>6. WillReady(p, y, holds)
    BY <1>6, <2>3, <2>4 DEF WillReady
  <2> QED
    BY <1>9, <2>5, <2>6, SameLabels
<1> QED
  BY <1>10, <1>11

LEMMA WorkerReleases ==
  ASSUME Base, WorkersOK, NEW p \in Procs, IsWorker(p), ReleaseIssue(p)
  PROVE  WorkerMoves(p)
<1> DEFINE dropped == {Claim(a) : a \in Arg(p)} \cap labels
           back == Maybe(StatesIn(labels) = {InProgress}, Do("ensure", Ready))
           calls == Drop(dropped) \o back
<1>1. /\ Doing(p, "release") /\ Continue(p, calls) /\ holds' = holds \ {p} /\ labels' = labels
  BY DEF ReleaseIssue, InProgress, Ready
<1>2. PICK agent : /\ Script(p) = Worker(agent) /\ Own(p) = {Claim(agent)}
                   /\ WorkerCall(p, proc[p], agent, labels, holds)
                   /\ Head(proc[p].calls).do = "release"
  BY <1>1, WorkerAt
<1> DEFINE own == Claim(agent)
           drop == Do("drop", {own})
           ensure == Do("ensure", Ready)
<1>3. proc[p].at = 3 /\ proc[p].calls = <<Do("release", {agent})>> /\ p \in holds
  BY <1>2 DEF WorkerCall
<1>4. own \in labels
  BY <1>2, <1>3 DEF Base, ProcOK, HoldOK
<1>5. Arg(p) = {agent}
  BY <1>3, Singles, DoIs DEF Arg
<1>6. dropped = {own}
  BY <1>4, <1>5
<1>7. Drop(dropped) = <<drop>>
  BY <1>6 DEF Drop, Maybe
<1>8. ~WillState(proc[p])
  <2>1. \A c \in Range(proc[p].calls) : c.do = "release"
    BY <1>3, Singles, DoIs
  <2> QED
    BY <2>1, DoIs DEF WillState
<1>9. PICK y, held : y = After(p, calls) /\ held = holds'
  OBVIOUS
<1>10. proc' = [proc EXCEPT ![p] = y]
  BY <1>1, <1>9, Continues
<1>11. p \notin held
  BY <1>1, <1>9
<1>12. SUFFICES AtWork(p, y, agent, labels, held) /\ Moves(p, y, labels, held)
  BY <1>1, <1>2, <1>9, <1>10 DEF WorkerMoves
<1>13. CASE StatesIn(labels) = {InProgress}
  <2>1. back = <<ensure>>
    BY <1>13 DEF Maybe
  <2>2. <<drop>> \o <<ensure>> = <<drop, ensure>>
    BY Pairs
  <2>3. calls = <<drop, ensure>>
    BY <1>7, <2>1, <2>2
  <2> HIDE DEF calls, drop, ensure
  <2>4. IsList(calls) /\ calls # <<>> /\ ensure \in Range(calls)
    BY <2>3, Pairs
  <2>5. y = [at |-> 3, calls |-> calls]
    BY <1>3, <1>9, <2>4, AfterAlone
  <2>6. y.calls = <<drop, ensure>> /\ y.at = 3
    BY <2>3, <2>5
  <2>7. AtWork(p, y, agent, labels, held)
    BY <1>11, <2>6 DEF AtWork, drop, ensure
  <2>8. WillReady(p, y, held)
    BY <2>4, <2>5 DEF WillReady, ensure
  <2> QED
    BY <1>8, <2>7, <2>8, SameLabels
<1>14. CASE StatesIn(labels) # {InProgress}
  <2>1. back = <<>>
    BY <1>14 DEF Maybe
  <2>2. IsList(<<drop>>) /\ IsList(<<>>) /\ <<drop>> # <<>>
    BY Singles
  <2>3. <<drop>> \o <<>> = <<drop>>
    BY <2>2, Joined
  <2>4. calls = <<drop>>
    BY <1>7, <2>1, <2>3
  <2> HIDE DEF calls, drop
  <2>5. y = [at |-> 3, calls |-> <<drop>>]
    BY <1>3, <1>9, <2>2, <2>4, AfterAlone
  <2>6. AtWork(p, y, agent, labels, held)
    BY <1>11, <2>5 DEF AtWork, drop
  <2>7. Moves(p, y, labels, held)
    BY <1>8, <1>14 DEF Moves
  <2> QED
    BY <2>6, <2>7
<1> QED
  BY <1>13, <1>14

LEMMA WorkerDrops ==
  ASSUME Base, WorkersOK, NEW p \in Procs, IsWorker(p), DropLabel(p)
  PROVE  WorkerMoves(p)
<1>1. Doing(p, "drop") /\ holds' = holds
  BY DEF DropLabel
<1>2. PICK agent : /\ Script(p) = Worker(agent) /\ Own(p) = {Claim(agent)}
                   /\ WorkerCall(p, proc[p], agent, labels, holds)
                   /\ Head(proc[p].calls).do = "drop"
  BY <1>1, WorkerAt
<1>3. PICK label \in Arg(p) : labels' = labels \ {label} /\ Continue(p, Drop(Arg(p) \ {label}))
  BY DEF DropLabel
<1> DEFINE own == Claim(agent)
           left == Arg(p) \ {label}
<1>4. PICK y, view : y = After(p, Drop(left)) /\ view = labels \ {label}
  OBVIOUS
<1>5. proc' = [proc EXCEPT ![p] = y]
  BY <1>3, <1>4, Continues
<1>6. SUFFICES AtWork(p, y, agent, view, holds) /\ Moves(p, y, view, holds)
  BY <1>1, <1>2, <1>3, <1>4, <1>5 DEF WorkerMoves
<1>7. ASSUME NEW set, NEW state,
             proc[p].calls = <<Do("drop", set), Do("add", state)>>, ClaimsIn(set) = {},
             \/ proc[p].at = 2 /\ state = InProgress /\ p \in holds
             \/ proc[p].at = 3 /\ state = Ready /\ Free(p, labels, holds)
      PROVE  AtWork(p, y, agent, view, holds) /\ Moves(p, y, view, holds)
  <2>1. Arg(p) = set /\ Tail(proc[p].calls) = <<Do("add", state)>>
    BY <1>7, Pairs, DoIs DEF Arg
  <2>2. ClaimsIn(left) = {}
    BY <1>7, <2>1 DEF ClaimsIn, OfScope
  <2> DEFINE add == Do("add", state)
             calls == Drop(left) \o <<add>>
  <2>3. calls \in {<<add>>, <<Do("drop", left), add>>}
    <3>1. CASE left = {}
      <4>1. Drop(left) = <<>>
        BY <3>1 DEF Drop, Maybe
      <4>2. IsList(<<add>>) /\ IsList(<<>>)
        BY Singles
      <4>3. <<>> \o <<add>> = <<add>>
        BY <4>2, Joined
      <4> QED
        BY <4>1, <4>3
    <3>2. CASE left # {}
      <4>1. Drop(left) = <<Do("drop", left)>>
        BY <3>2 DEF Drop, Maybe
      <4>2. <<Do("drop", left)>> \o <<add>> = <<Do("drop", left), add>>
        BY Pairs
      <4> QED
        BY <4>1, <4>2
    <3> QED
      BY <3>1, <3>2
  <2>4. PICK list : list = calls
    OBVIOUS
  <2>5. Entering(list, state) /\ list # <<>> /\ add \in Range(list)
    BY <2>2, <2>3, <2>4, EnteringCalls
  <2>6. y = [at |-> proc[p].at, calls |-> list]
    BY <1>4, <2>1, <2>4, <2>5 DEF After
  <2>7. AtWork(p, y, agent, view, holds)
    <3>1. Free(p, labels, holds) => Free(p, view, holds)
      BY <1>4 DEF Free
    <3> QED
      BY <1>7, <2>5, <2>6, <3>1 DEF AtWork
  <2>8. WillState(y) /\ WillReady(p, y, holds)
    BY <1>7, <2>5, <2>6 DEF WillState, WillReady
  <2>9. view \subseteq labels
    BY <1>4
  <2> QED
    BY <2>7, <2>8, <2>9 DEF Moves
<1>8. ASSUME proc[p].at = 3, p \notin holds,
             proc[p].calls \in {<<Do("drop", {own})>>, <<Do("drop", {own}), Do("ensure", Ready)>>}
      PROVE  AtWork(p, y, agent, view, holds) /\ Moves(p, y, view, holds)
  <2>1. Head(proc[p].calls) = Do("drop", {own})
    BY <1>8, Singles, Pairs
  <2>2. Arg(p) = {own}
    BY <2>1, DoIs DEF Arg
  <2>3. label = own /\ left = {}
    BY <2>2
  <2>4. Drop(left) = <<>>
    BY <2>3 DEF Drop, Maybe
  <2>5. Free(p, view, holds)
    BY <1>2, <1>4, <1>8, <2>3 DEF Free
  <2>6. StatesIn(view) = StatesIn(labels) /\ view \subseteq labels
    BY <1>4, <2>3, TwoStates DEF StatesIn, OfScope
  <2>7. CASE proc[p].calls = <<Do("drop", {own})>>
    <3>1. ~WillState(proc[p]) /\ ~WillReady(p, proc[p], holds)
      <4>1. \A c \in Range(proc[p].calls) : c.do = "drop"
        BY <2>7, Singles, DoIs
      <4> QED
        BY <1>8, <4>1, NoWill
    <3>2. y = End(p)
      <4>1. After(p, <<>>) = NextCommand(p)
        BY <1>2, <1>4, <1>8, <2>4, <2>7, AfterLast
      <4> QED
        BY <1>2, <1>4, <1>8, <2>4, <2>7, <4>1, WorkerNext
    <3>3. AtWork(p, y, agent, view, holds)
      BY <2>5, <3>2 DEF AtWork, End
    <3> QED
      BY <2>6, <3>1, <3>3 DEF Moves
  <2>8. CASE proc[p].calls = <<Do("drop", {own}), Do("ensure", Ready)>>
    <3> DEFINE ensure == Do("ensure", Ready)
    <3>1. ~WillState(proc[p])
      <4>1. \A c \in Range(proc[p].calls) : c \in {Do("drop", {own}), ensure}
        BY <2>8, Pairs
      <4>2. \A c \in Range(proc[p].calls) : c.do # "add"
        BY <4>1, DoIs
      <4> QED
        BY <4>2, DoIs DEF WillState
    <3>2. Tail(proc[p].calls) = <<ensure>> /\ IsList(<<ensure>>) /\ IsList(<<>>)
          /\ <<ensure>> # <<>>
      BY <2>8, Pairs, Singles
    <3>3. <<>> \o <<ensure>> = <<ensure>>
      BY <3>2, Joined
    <3>4. y = [at |-> 3, calls |-> <<ensure>>]
      BY <1>4, <1>8, <2>4, <3>2, <3>3 DEF After
    <3>5. AtWork(p, y, agent, view, holds)
      BY <2>5, <3>4 DEF AtWork, Entering
    <3>6. WillReady(p, y, holds)
      BY <3>4, Singles DEF WillReady
    <3> QED
      BY <2>6, <3>1, <3>5, <3>6 DEF Moves
  <2> QED
    BY <1>8, <2>7, <2>8
<1> QED
  BY <1>2, <1>7, <1>8 DEF WorkerCall

\* A worker takes part only in the steps above.
LEMMA WorkerWorks ==
  ASSUME Base, WorkersOK, NEW p \in Procs, IsWorker(p), Work(p)
  PROVE  WorkerMoves(p)
<1>1. ASSUME NEW do \in {"replace", "set open", "transition", "blocker", "close", "reopen",
                         "clear", "project", "reset", "reset state", "reconcile"},
             Doing(p, do)
      PROVE  FALSE
  <2>1. PICK agent : /\ WorkerCall(p, proc[p], agent, labels, holds)
                     /\ Head(proc[p].calls).do = do
    BY <1>1, WorkerAt
  <2> QED
    BY <1>1, <2>1 DEF WorkerCall
<1>2. /\ ~ReplaceLabels(p) /\ ~SetOpenState(p) /\ ~Transition(p) /\ ~Blocker(p)
      /\ ~CloseIssue(p) /\ ~ReopenIssue(p) /\ ~ClearResolution(p) /\ ~ProjectRuntimeState(p)
      /\ ~ReleaseStaleClaims(p) /\ ~ResetWorkflow(p) /\ ~Reconcile(p)
  BY <1>1 DEF ReplaceLabels, SetOpenState, Transition, Blocker, CloseIssue, ReopenIssue,
       ClearResolution, ProjectRuntimeState, ReleaseStaleClaims, ResetWorkflow, Reconcile
<1> QED
  BY <1>2, WorkerAdds, WorkerDrops, WorkerRetracts, WorkerEnsures, WorkerPicks, WorkerClaims,
     WorkerConfirms, WorkerReleases DEF Work

\* What a step of one process leaves alone.
LEMMA OneMoves ==
  ASSUME Base, NEW p \in Procs, Work(p)
  PROVE  /\ \E y : proc' = [proc EXCEPT ![p] = y]
         /\ holds' \ {p} = holds \ {p} /\ faulted' = faulted /\ UNCHANGED world
         /\ \A q \in Procs \ {p} : Own(q) \cap labels' \subseteq labels
<1>1. ASSUME NEW calls, Continue(p, calls) PROVE \E y : proc' = [proc EXCEPT ![p] = y]
  BY <1>1, Continues
<1>2. ASSUME Fails(p) PROVE \E y : proc' = [proc EXCEPT ![p] = y]
  BY <1>2 DEF Fails
<1>3. UNCHANGED world
  BY DEF Work
<1>4. \E y : proc' = [proc EXCEPT ![p] = y]
  BY <1>1, <1>2 DEF Work, AddLabel, DropLabel, ReplaceLabels, SetOpenState, Retract, Ensure,
       PickReady, ClaimIssue, ConfirmClaim, ReleaseIssue, Transition, Blocker, CloseIssue,
       ReopenIssue, ClearResolution, ProjectRuntimeState, ReleaseStaleClaims, ResetWorkflow,
       Reconcile
<1>5. faulted' = faulted /\ holds' \ {p} = holds \ {p}
  BY DEF Work, AddLabel, DropLabel, ReplaceLabels, SetOpenState, Retract, Ensure, PickReady,
       ClaimIssue, ConfirmClaim, ReleaseIssue, Transition, Blocker, CloseIssue, ReopenIssue,
       ClearResolution, ProjectRuntimeState, ReleaseStaleClaims, ResetWorkflow, Reconcile, Read
<1>6. ASSUME NEW q \in Procs \ {p} PROVE Own(q) \cap labels' \subseteq labels
  <2>1. world \in Worlds /\ LabelsOK(labels)
    BY DEF Base
  <2>2. CASE AddLabel(p)
    <3>1. Doing(p, "add") /\ labels' = WithLabel(Arg(p), labels)
      BY <2>2 DEF AddLabel
    <3>2. Arg(p)[1] # "claimed" \/ Arg(p) \in Own(p)
      BY <3>1, First DEF CallOK
    <3>3. Arg(p) \notin Own(q)
      BY <2>1, <3>2, Owners
    <3> QED
      BY <3>1, <3>3 DEF WithLabel
  <2>3. CASE ReplaceLabels(p)
    <3>1. Doing(p, "replace") /\ labels' = Arg(p)
      BY <2>3 DEF ReplaceLabels
    <3>2. Unclaimed
      BY <3>1, First DEF CallOK
    <3> QED
      BY <3>2 DEF Unclaimed
  <2>4. CASE ~AddLabel(p) /\ ~ReplaceLabels(p)
    <3>1. labels' \subseteq labels
      BY <2>4 DEF Work, DropLabel, SetOpenState, Retract, Ensure, PickReady, ClaimIssue,
           ConfirmClaim, ReleaseIssue, Transition, Blocker, CloseIssue, ReopenIssue,
           ClearResolution, ProjectRuntimeState, ReleaseStaleClaims, ResetWorkflow, Reconcile,
           Read
    <3> QED
      BY <3>1
  <2> QED
    BY <2>2, <2>3, <2>4
<1> QED
  BY <1>3, <1>4, <1>5, <1>6

LEMMA SameWorkers ==
  ASSUME UNCHANGED world
  PROVE  /\ \A p : IsWorker(p)' <=> IsWorker(p)
         /\ \A p, y, view, held, failed :
              WorkerOK(p, y, view, held, failed)' <=> WorkerOK(p, y, view, held, failed)
<1>1. ASSUME NEW p PROVE Script(p)' = Script(p) /\ Own(p)' = Own(p)
  BY SameWorld
<1>2. ASSUME NEW p PROVE IsWorker(p)' <=> IsWorker(p)
  BY <1>1 DEF IsWorker
<1>3. ASSUME NEW p, NEW view, NEW held PROVE Free(p, view, held)' <=> Free(p, view, held)
  BY <1>1 DEF Free
<1>4. ASSUME NEW p, NEW y, NEW agent, NEW view, NEW held
      PROVE  AtWork(p, y, agent, view, held)' <=> AtWork(p, y, agent, view, held)
  BY <1>3 DEF AtWork
<1>5. ASSUME NEW p, NEW y, NEW view, NEW held, NEW failed
      PROVE  WorkerOK(p, y, view, held, failed)' <=> WorkerOK(p, y, view, held, failed)
  BY <1>1, <1>2, <1>4 DEF WorkerOK
<1> QED
  BY <1>2, <1>5

LEMMA WorkersRigid ==
  ASSUME NEW view, NEW held, NEW failed, NEW now,
         view = labels' /\ held = holds' /\ failed = faulted' /\ now = proc',
         \A q \in Procs' : WorkerOK(q, now[q], view, held, failed)'
  PROVE  WorkersOK'
<1>1. ASSUME NEW q PROVE Free(q, view, held)' <=> Free(q, labels, holds)'
  BY DEF Free
<1>2. ASSUME NEW q, NEW agent
      PROVE  AtWork(q, now[q], agent, view, held)' => AtWork(q, proc[q], agent, labels, holds)'
  BY <1>1 DEF AtWork
<1>3. ASSUME NEW q, WorkerOK(q, now[q], view, held, failed)'
      PROVE  WorkerOK(q, proc[q], labels, holds, faulted)'
  BY <1>2, <1>3 DEF WorkerOK
<1> QED
  BY <1>3 DEF WorkersOK

LEMMA WorkersStep ==
  ASSUME Base, WorkersOK, UNCHANGED world, NEW p \in Procs, NEW y,
         proc' = [proc EXCEPT ![p] = y], WorkerOK(p, y, labels', holds', faulted'),
         holds' \ {p} = holds \ {p}, faulted' \ {p} = faulted \ {p},
         \A q \in Procs \ {p} : Own(q) \cap labels' \subseteq labels
  PROVE  WorkersOK'
<1>1. PICK view, held, failed, now :
        view = labels' /\ held = holds' /\ failed = faulted' /\ now = proc'
  OBVIOUS
<1>2. ASSUME NEW q \in Procs PROVE WorkerOK(q, now[q], view, held, failed)
  <2>1. CASE q = p
    BY <1>1, <2>1 DEF Base
  <2>2. CASE q # p
    <3>1. now[q] = proc[q]
      BY <1>1, <2>2 DEF Base
    <3>2. (q \in held <=> q \in holds) /\ (q \in failed <=> q \in faulted)
      BY <1>1, <2>2
    <3>3. Own(q) \cap view \subseteq labels
      BY <1>1, <2>2
    <3>4. Free(q, labels, holds) => Free(q, view, held)
      BY <3>2, <3>3 DEF Free
    <3>5. \A agent : AtWork(q, proc[q], agent, labels, holds)
                       => AtWork(q, proc[q], agent, view, held)
      BY <3>2, <3>4 DEF AtWork
    <3>6. WorkerOK(q, proc[q], labels, holds, faulted)
      BY DEF WorkersOK
    <3> QED
      BY <3>1, <3>2, <3>5, <3>6 DEF WorkerOK
  <2> QED
    BY <2>1, <2>2
<1>3. \A q \in Procs' : WorkerOK(q, now[q], view, held, failed)'
  BY <1>2, SameWorkers, SameWorld
<1> QED
  BY ONLY <1>1, <1>3, WorkersRigid

LEMMA WorkersNext ==
  ASSUME Base, WorkersOK, [Next]_vars
  PROVE  WorkersOK'
<1>1. CASE UNCHANGED vars
  <2>1. UNCHANGED <<world, labels, open, proc, holds, faulted>>
    BY <1>1 DEF vars
  <2>2. PICK view, held, failed, now :
          view = labels' /\ held = holds' /\ failed = faulted' /\ now = proc'
    OBVIOUS
  <2>3. \A q \in Procs : WorkerOK(q, now[q], view, held, failed)
    BY <2>1, <2>2 DEF WorkersOK
  <2>4. \A q \in Procs' : WorkerOK(q, now[q], view, held, failed)'
    BY <2>1, <2>3, SameWorkers, SameWorld
  <2> QED
    BY <2>2, <2>4, WorkersRigid
<1>2. ASSUME NEW p \in DOMAIN proc, Work(p)
      PROVE  WorkersOK'
  <2>1. p \in Procs
    BY DEF Base
  <2>2. PICK y : proc' = [proc EXCEPT ![p] = y]
    BY <1>2, <2>1, OneMoves
  <2>3. PICK view, held, failed : view = labels' /\ held = holds' /\ failed = faulted'
    OBVIOUS
  <2>4. CASE ~IsWorker(p)
    <3>1. WorkerOK(p, y, labels', holds', faulted')
      BY <2>4 DEF WorkerOK
    <3> QED
      BY <1>2, <2>1, <2>2, <3>1, OneMoves, WorkersStep
  <2>5. CASE IsWorker(p)
    <3>1. WorkerMoves(p)
      BY <1>2, <2>1, <2>5, WorkerWorks
    <3>2. PICK agent, z : /\ Script(p) = Worker(agent) /\ proc' = [proc EXCEPT ![p] = z]
                          /\ AtWork(p, z, agent, labels', holds')
      BY <3>1 DEF WorkerMoves
    <3>3. p \notin faulted'
      <4>1. \E do : Doing(p, do)
        BY <1>2 DEF Work, AddLabel, DropLabel, ReplaceLabels, SetOpenState, Retract, Ensure,
             PickReady, ClaimIssue, ConfirmClaim, ReleaseIssue, Transition, Blocker, CloseIssue,
             ReopenIssue, ClearResolution, ProjectRuntimeState, ReleaseStaleClaims,
             ResetWorkflow, Reconcile
      <4>2. p \notin faulted
        BY <2>1, <2>5, <4>1, WorkerAt
      <4> QED
        BY <1>2, <2>1, <4>2, OneMoves
    <3>4. PICK c \in Range(Script(p).commands) : c = Do("claim", agent)
      BY <3>2, WorkerProgram
    <3>5. c.do = "claim" /\ c.arg = agent
      BY <3>4, DoIs
    <3>6. WorkerOK(p, z, view, held, failed)
      BY <2>3, <3>2, <3>3, <3>5 DEF WorkerOK
    <3>7. WorkerOK(p, z, labels', holds', faulted')
      BY <2>3, <3>6
    <3> QED
      BY <1>2, <2>1, <3>2, <3>7, OneMoves, WorkersStep
  <2> QED
    BY <2>4, <2>5
<1>3. ASSUME NEW p \in DOMAIN proc, Fault(p)
      PROVE  WorkersOK'
  <2>1. /\ p \in Procs /\ UNCHANGED <<world, labels>>
        /\ holds' = holds \ {p} /\ faulted' = faulted \cup {p}
        /\ Fails(p) \/ proc' = [proc EXCEPT ![p] = End(p)]
    BY <1>3 DEF Base, Fault
  <2>2. PICK held, failed : held = holds' /\ failed = faulted'
    OBVIOUS
  <2>3. PICK y \in {NextCommand(p), End(p)} : /\ proc' = [proc EXCEPT ![p] = y]
                                              /\ IsWorker(p) => y = End(p)
    <3>1. CASE ~IsWorker(p)
      BY <2>1, <3>1, Failed
    <3>2. CASE IsWorker(p)
      <4>1. PICK agent : Script(p) = Worker(agent)
        BY <3>2 DEF IsWorker
      <4>2. proc' = [proc EXCEPT ![p] = End(p)]
        BY <2>1, <4>1, WorkerNext
      <4> QED
        BY <4>2
    <3> QED
      BY <3>1, <3>2
  <2>4. WorkerOK(p, y, labels, held, failed)
    BY <2>1, <2>2, <2>3 DEF WorkerOK, End
  <2>5. WorkerOK(p, y, labels', holds', faulted')
    BY <2>1, <2>2, <2>4
  <2> QED
    BY <2>1, <2>3, <2>5, WorkersStep
<1> QED
  BY <1>1, <1>2, <1>3 DEF Next

LEMMA WorkersInit == Init => WorkersOK
<1> SUFFICES ASSUME Init, NEW p \in Procs PROVE WorkerOK(p, proc[p], labels, holds, faulted)
  BY DEF WorkersOK
<1>1. world \in Worlds /\ holds = {} /\ faulted = {} /\ ClaimsIn(labels) = {}
  BY LabelWorlds DEF Init
<1>2. proc[p] = [at |-> 1, calls |-> <<Script(p).commands[1]>>]
  BY DEF Init, Procs
<1>3. ASSUME IsWorker(p)
      PROVE  \E c \in Range(Script(p).commands) :
               /\ c.do = "claim" /\ Script(p) = Worker(c.arg)
               /\ AtWork(p, proc[p], c.arg, labels, holds)
  <2>1. PICK c \in Range(Script(p).commands) : c.do = "claim" /\ Script(p) = Worker(c.arg)
    BY <1>3 DEF IsWorker
  <2>2. Script(p).commands[1] = Do("pick", {})
    <3>1. PICK agent : agent = c.arg
      OBVIOUS
    <3>2. Worker(agent).commands[1] = Do("pick", {})
      BY WorkerProgram
    <3> QED
      BY <2>1, <3>1, <3>2
  <2>3. proc[p].at = 1 /\ proc[p].calls = <<Do("pick", {})>>
    BY <1>2, <2>2
  <2>4. Own(p) \cap labels = {}
    BY <1>1, Owners DEF ClaimsIn, OfScope
  <2>5. AtWork(p, proc[p], c.arg, labels, holds)
    BY <1>1, <2>3, <2>4 DEF AtWork, Free
  <2> QED
    BY <2>1, <2>5
<1> QED
  BY <1>1, <1>3 DEF WorkerOK

LEMMA StateInit == Init => StateOK
<1> SUFFICES ASSUME Init, world.labels = {Ready}
             PROVE  labels = {Ready} /\ StatesIn(labels) = {Ready} /\ Ready # InProgress
  BY DEF StateOK
<1>1. labels = {Ready}
  BY DEF Init
<1> QED
  BY <1>1, TwoStates DEF StatesIn, OfScope

LEMMA StateNext ==
  ASSUME Base, WorkersOK, StateOK, [Next]_vars
  PROVE  StateOK'
<1>1. UNCHANGED world
  BY DEF Next, Work, Fault, vars
<1>2. /\ Procs' = Procs /\ \A p : Own(p)' = Own(p)
      /\ \A p : IsWorker(p)' <=> IsWorker(p)
  BY <1>1, SameWorld, SameWorkers
<1>3. PICK view, held, now : view = labels' /\ held = holds' /\ now = proc'
  OBVIOUS
<1>4. SUFFICES ASSUME world.labels = {Ready}, \A p \in Procs : IsWorker(p), faulted' = {}
               PROVE  /\ view \subseteq {Ready, InProgress} \cup UNION {Own(p) : p \in Procs}
                      /\ StatesIn(view) = {} => \E p \in Procs : WillState(now[p])
                      /\ StatesIn(view) = {InProgress} =>
                           \E p \in Procs : WillReady(p, now[p], held)
  BY <1>1, <1>2, <1>3 DEF StateOK, WillState, WillReady
<1>5. CASE UNCHANGED vars
  <2>1. view = labels /\ held = holds /\ now = proc /\ faulted = {}
    BY <1>3, <1>4, <1>5 DEF vars
  <2> QED
    BY <1>4, <2>1 DEF StateOK
<1>6. ASSUME NEW p \in DOMAIN proc, Fault(p) PROVE FALSE
  BY <1>4, <1>6 DEF Fault
<1>7. ASSUME NEW p \in DOMAIN proc, Work(p)
      PROVE  /\ view \subseteq {Ready, InProgress} \cup UNION {Own(q) : q \in Procs}
             /\ StatesIn(view) = {} => \E q \in Procs : WillState(now[q])
             /\ StatesIn(view) = {InProgress} => \E q \in Procs : WillReady(q, now[q], held)
  <2>1. p \in Procs
    BY DEF Base
  <2>2. faulted = {} /\ holds' \ {p} = holds \ {p}
    BY <1>4, <1>7, <2>1, OneMoves
  <2>3. PICK y : proc' = [proc EXCEPT ![p] = y] /\ Moves(p, y, labels', holds')
    BY <1>4, <1>7, <2>1, WorkerWorks DEF WorkerMoves
  <2>4. now[p] = y /\ \A q \in Procs \ {p} : now[q] = proc[q]
    BY <1>3, <2>1, <2>3 DEF Base
  <2>5. Moves(p, y, view, held)
    BY <1>3, <2>3
  <2>6. /\ labels \subseteq {Ready, InProgress} \cup UNION {Own(q) : q \in Procs}
        /\ StatesIn(labels) = {} => \E q \in Procs : WillState(proc[q])
        /\ StatesIn(labels) = {InProgress} => \E q \in Procs : WillReady(q, proc[q], holds)
    BY <1>4, <2>2 DEF StateOK
  <2>7. view \subseteq {Ready, InProgress} \cup UNION {Own(q) : q \in Procs}
    BY <2>1, <2>5, <2>6 DEF Moves
  <2>8. ASSUME StatesIn(view) = {} PROVE \E q \in Procs : WillState(now[q])
    <3>1. CASE WillState(y)
      BY <2>1, <2>4, <3>1
    <3>2. CASE StatesIn(labels) = {} /\ ~WillState(proc[p])
      <4>1. PICK q \in Procs : WillState(proc[q])
        BY <2>6, <3>2
      <4>2. q # p
        BY <3>2, <4>1
      <4>3. now[q] = proc[q]
        BY <2>4, <4>2
      <4> QED
        BY <4>1, <4>3
    <3> QED
      BY <2>5, <2>8, <3>1, <3>2 DEF Moves
  <2>9. ASSUME StatesIn(view) = {InProgress} PROVE \E q \in Procs : WillReady(q, now[q], held)
    <3>1. CASE WillReady(p, y, held)
      BY <2>1, <2>4, <3>1
    <3>2. CASE StatesIn(labels) = {InProgress} /\ ~WillReady(p, proc[p], holds)
      <4>1. PICK q \in Procs : WillReady(q, proc[q], holds)
        BY <2>6, <3>2
      <4>2. q # p
        BY <3>2, <4>1
      <4>3. now[q] = proc[q] /\ (q \in holds <=> q \in held)
        BY <1>3, <2>2, <2>4, <4>2
      <4>4. WillReady(q, now[q], held)
        BY <4>1, <4>3 DEF WillReady
      <4> QED
        BY <4>4
    <3> QED
      BY <2>5, <2>9, <3>1, <3>2 DEF Moves
  <2> QED
    BY <2>7, <2>8, <2>9
<1> QED
  BY <1>5, <1>6, <1>7 DEF Next

\* Every worker is where its program puts it, and an issue that only workers touch is in
\* somebody's care until it is ready again.
THEOREM LabelsHold == Spec => [](Base /\ WorkersOK /\ StateOK)
<1> DEFINE All == Base /\ WorkersOK /\ StateOK
<1>1. Init => All
  BY BaseInit, WorkersInit, StateInit
<1>2. All /\ [Next]_vars => All'
  BY BaseNext, WorkersNext, StateNext
<1> QED
  BY <1>1, <1>2, PTL DEF Spec

\* Where orchd writes no whole label sets beside claims (LabelWorlds: projection.rs writes
\* back the claims it read), a worker that has come to its end without a failed call has
\* taken its claim off the issue, whatever other workers and commands do meanwhile
\* (cmd_worker_run, cmd_issue_release).
THEOREM OrphansExplainedHolds == Spec => []OrphansExplained
<1>1. Base /\ WorkersOK => OrphansExplained
  <2> SUFFICES ASSUME Base, WorkersOK, NEW p \in DOMAIN proc, Ended(p), IsWorker(p),
                      p \notin faulted
               PROVE  Own(p) \cap labels = {}
    BY DEF OrphansExplained, Own
  <2>1. p \in Procs
    BY DEF Base
  <2>2. PICK agent : AtWork(p, proc[p], agent, labels, holds)
    BY <2>1 DEF WorkersOK, WorkerOK
  <2>3. Free(p, labels, holds)
    BY <2>2, EndedIsFree DEF Ended
  <2> QED
    BY <2>3 DEF Free
<1> QED
  BY <1>1, LabelsHold, PTL

\* When workers alone have met and all have come to their ends without a failed call, the
\* issue is ready and unclaimed again: whichever released it last gave the state back, and
\* no claim that lost a race stays.
THEOREM QuietIsReadyHolds == Spec => []QuietIsReady
<1>1. Base /\ WorkersOK /\ StateOK => QuietIsReady
  <2> SUFFICES ASSUME Base, WorkersOK, StateOK, faulted = {}, world.labels = {Ready},
                      \A p \in DOMAIN proc : Ended(p) /\ IsWorker(p)
               PROVE  labels = {Ready}
    BY DEF QuietIsReady, Ready
  <2>1. DOMAIN proc = Procs
    BY DEF Base
  <2>2. ASSUME NEW p \in Procs
        PROVE  Free(p, labels, holds) /\ ~WillState(proc[p]) /\ ~WillReady(p, proc[p], holds)
    <3>1. proc[p].calls = <<>> /\ IsWorker(p)
      BY <2>1 DEF Ended
    <3>2. PICK agent : AtWork(p, proc[p], agent, labels, holds)
      BY <3>1 DEF WorkersOK, WorkerOK
    <3>3. Free(p, labels, holds)
      BY <3>1, <3>2, EndedIsFree
    <3>4. Range(proc[p].calls) = {}
      BY <3>1, Singles
    <3> QED
      BY <3>3, <3>4 DEF WillState, WillReady, Free
  <2>3. /\ labels \subseteq {Ready, InProgress} \cup UNION {Own(p) : p \in Procs}
        /\ StatesIn(labels) # {} /\ StatesIn(labels) # {InProgress}
    BY <2>1, <2>2 DEF StateOK
  <2>4. labels \subseteq {Ready, InProgress}
    BY <2>2, <2>3 DEF Free
  <2>5. StatesIn(labels) = labels
    BY <2>4, TwoStates DEF StatesIn, OfScope
  <2>6. OneState(labels)
    BY DEF Base, LabelsOK
  <2> QED
    BY <2>3, <2>4, <2>5, <2>6 DEF OneState
<1> QED
  BY <1>1, LabelsHold, PTL
================================================================================
