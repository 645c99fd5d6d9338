---------------------------- MODULE LandingProofs ----------------------------
(***************************************************************************)
(* Theorems about Landing for every set of dispatches and repositories,    *)
(* any sidecars, commits and dirty worktrees, and any number of pushes,    *)
(* faults, sweeps, slow starts and heals: a completion has landed          *)
(* (CompletedIsLanded), and a failure has not, unless it is excused        *)
(* (FailureIsTold).                                                        *)
(*                                                                         *)
(* Histories are compared by the changes in them.  Forge says how pull     *)
(* requests and branches agree with the base branches; RunnerOK, what a    *)
(* runner has established where it is; TellOK, that a repetition of a      *)
(* landing that has landed can only end in success.                        *)
(***************************************************************************)
EXTENDS Landing, SequenceTheorems, TLAPS

Entries == Dispatches \cup {None}
History == Seq(Entries)

\* Where a runner lands, and all the places it may be.
Landings ==
  {"inspect", "list", "push", "pr", "merge", "rebase", "force push", "merge again",
   "supersede", "close"}
Places == Landings \cup {"idle", "record", "gone"}

Runner ==
  [pc: Places, repo: Repos \cup {None}, head: [Repos -> History], lease: History,
   ran: BOOLEAN, dirty: SUBSET Repos, attempt: Nat, tries: Nat,
   closing: SUBSET Dispatches, outcome: {"success", "blocked", "failure"}]

Typed ==
  /\ base \in [Repos -> History] /\ tracking \in [Repos -> History]
  /\ branch \in [Dispatches -> [Repos -> History \cup {None}]]
  /\ pr \in [Dispatches -> [Repos -> {"none", "open", "merged", "closed"}]]
  /\ row \in [Dispatches ->
                {"absent", "waiting", "starting", "running", "completed", "blocked", "failed"}]
  /\ work \in [Dispatches -> Runner]
  /\ sweep # None => sweep.dispatch \in Dispatches /\ sweep.repo \in Repos

Where(d) == {Primary(d), SidecarOf[d]} \ {None}

\* What the dispatch changes in the repository, if anything, has landed.
Done(d, r) == r \in Changed[d] => Landed(d, r)

\* A history the dispatch may push where the base is b: b's changes and its own.
Fits(b, d, r, history) ==
  /\ history \in History
  /\ ToSet(history) \subseteq ToSet(b) \cup {d}
  /\ r \in Changed[d] => d \in ToSet(history)

Forge ==
  /\ \A r \in Repos : ToSet(tracking[r]) \subseteq ToSet(base[r])
  /\ \A d \in Dispatches, r \in Repos :
       /\ Landed(d, r) => pr[d][r] = "merged"
       /\ pr[d][r] = "merged" => Done(d, r)
       /\ pr[d][r] = "open" => Fits(base[r], d, r, branch[d][r])

\* A heal disturbs the dispatch whose row it takes.
RowHeld(d) == row[d] \in InFlight \/ d \in disturbed

RunnerOK(d) ==
  /\ row[d] \in {"absent", "waiting"} => At(d, "idle")
  /\ At(d, "idle") => /\ row[d] \in {"absent", "waiting"} \/ RowHeld(d)
                      /\ \A r \in Repos : pr[d][r] = "none"
  /\ work[d].pc \in Landings \cup {"record"} =>
       RowHeld(d) /\ \A r \in Repos : Fits(base[r], d, r, work[d].head[r])
  /\ At(d, "gone") /\ row[d] \in InFlight => d \in disturbed
  /\ work[d].pc \in Landings =>
       /\ work[d].ran /\ Here(d) \in Where(d)
       /\ \A r \in Where(d) \ {Here(d)} :
            Here(d) = Primary(d) => Done(d, r) /\ r \notin work[d].dirty
  /\ work[d].pc \in Landings \ {"inspect"} => Here(d) \notin work[d].dirty
  /\ At(d, "pr") /\ pr[d][Here(d)] = "none" =>
       Fits(base[Here(d)], d, Here(d), branch[d][Here(d)])
  /\ work[d].pc \in {"supersede", "close"} => Done(d, Here(d))
  /\ At(d, "record") /\ work[d].outcome = "success" => \A r \in Where(d) : Done(d, r)
  /\ row[d] = "completed" => \A r \in Where(d) : Done(d, r)

Excused(d) == d \in disturbed \/ QuietSidecar(d)

TellOK(d) ==
  Landed(d, Primary(d)) /\ ~Excused(d) =>
    /\ row[d] \notin {"failed", "blocked"}
    /\ row[d] \in InFlight =>
         /\ work[d].pc \in {"inspect", "list", "supersede", "close", "record"}
         /\ At(d, "record") => work[d].outcome = "success"
         /\ work[d].ran /\ \A r \in Where(d) : Done(d, r) /\ r \notin work[d].dirty

-----------------------------------------------------------------------------
(* Histories and repositories.                                             *)

LEMMA HistorySet ==
  ASSUME NEW S, NEW s \in Seq(S), NEW e \in S
  PROVE  /\ DOMAIN s = 1..Len(s) /\ ToSet(s) \subseteq S
         /\ Append(s, e) \in Seq(S) /\ ToSet(Append(s, e)) = ToSet(s) \cup {e}
<1>1. DOMAIN s = 1..Len(s) /\ Len(s) \in Nat /\ ToSet(s) \subseteq S
  BY DEF ToSet
<1>2. /\ Append(s, e) \in Seq(S) /\ Len(Append(s, e)) = Len(s) + 1
      /\ \A n \in 1..Len(s) : Append(s, e)[n] = s[n]
      /\ Append(s, e)[Len(s) + 1] = e
  BY AppendProperties
<1> DEFINE a == Append(s, e)
<1> HIDE DEF a
<1>3. DOMAIN a = 1..(Len(s) + 1) /\ (\A n \in 1..Len(s) : a[n] = s[n]) /\ a[Len(s) + 1] = e
  <2>1. a \in Seq(S) /\ Len(a) = Len(s) + 1
    BY <1>2 DEF a
  <2> QED
    BY <1>2, <2>1 DEF a
<1>4. ToSet(a) = ToSet(s) \cup {e}
  BY <1>1, <1>3 DEF ToSet
<1> QED
  BY <1>1, <1>2, <1>4 DEF a

LEMMA PrefixSet ==
  ASSUME NEW S, NEW s \in Seq(S), NEW t \in Seq(S), IsPrefix(s, t)
  PROVE  ToSet(s) \subseteq ToSet(t)
<1>1. Len(s) \in Nat /\ Len(t) \in Nat /\ Len(s) <= Len(t)
      /\ DOMAIN s = 1..Len(s) /\ DOMAIN t = 1..Len(t)
  BY DEF IsPrefix
<1>2. SubSeq(s, 1, Len(s)) = SubSeq(t, 1, Len(s))
  BY DEF IsPrefix
<1>3. ASSUME NEW n \in 1..Len(s) PROVE s[n] = t[n] /\ n \in 1..Len(t)
  <2>1. SubSeq(s, 1, Len(s))[n] = s[n] /\ SubSeq(t, 1, Len(s))[n] = t[n]
    BY <1>1
  <2> QED
    BY <1>1, <1>2, <2>1
<1> QED
  BY <1>1, <1>3 DEF ToSet

LEMMA LandedIsIn == \A d, r : Landed(d, r) <=> d \in ToSet(base[r])
BY DEF Landed, ToSet

LEMMA WhereFacts ==
  ASSUME NEW d \in Dispatches
  PROVE  /\ Last(Targets(d)) = Primary(d) /\ Targets(d)[1] \in Where(d)
         /\ Where(d) \subseteq Repos /\ Primary(d) \in Where(d) /\ None \notin Repos
         /\ \A r, x \in Where(d) : r # Primary(d) /\ x # Primary(d) => r = x
         /\ Targets(d)[1] = Primary(d) => Where(d) = {Primary(d)}
         /\ {Targets(d)[n] : n \in DOMAIN Targets(d)} = Where(d)
         /\ SidecarOf[d] # None => SidecarOf[d] \in Where(d) /\ SidecarOf[d] # Primary(d)
         /\ \A r \in Where(d) : r = Primary(d) \/ r = SidecarOf[d]
<1>1. /\ Primary(d) \in Repos /\ SidecarOf[d] \in Repos \cup {None}
      /\ SidecarOf[d] # Primary(d) /\ None \notin Repos
  BY LandingConstants DEF LandingConstants, Primary
<1>2. CASE SidecarOf[d] = None
  <2>1. Targets(d) = <<Primary(d)>>
    BY <1>2 DEF Targets
  <2>2. Where(d) = {Primary(d)}
    BY <1>1, <1>2 DEF Where
  <2> QED
    BY <1>1, <1>2, <2>1, <2>2 DEF Last
<1>3. CASE SidecarOf[d] # None
  <2>1. Targets(d) = <<SidecarOf[d], Primary(d)>>
    BY <1>3 DEF Targets
  <2>2. Where(d) = {Primary(d), SidecarOf[d]}
    BY <1>1, <1>3 DEF Where
  <2> QED
    BY <1>1, <1>3, <2>1, <2>2 DEF Last
<1> QED
  BY <1>2, <1>3

-----------------------------------------------------------------------------
(* What a step does to a runner, and what it leaves of the others.          *)

\* Base branches only gain changes.
Grows == \A r \in Repos : ToSet(base[r]) \subseteq ToSet(base'[r])

LEMMA GotoStep ==
  ASSUME Typed, NEW d \in Dispatches, NEW p \in Places, Goto(d, p)
  PROVE  /\ work' \in [Dispatches -> Runner]
         /\ \A u \in Dispatches \ {d} : work'[u] = work[u]
         /\ work'[d].pc = p /\ work'[d].repo = work[d].repo /\ work'[d].head = work[d].head
         /\ work'[d].ran = work[d].ran /\ work'[d].dirty = work[d].dirty
         /\ work'[d].outcome = work[d].outcome
<1> DEFINE x == work[d]
<1>1. x \in Runner /\ work \in [Dispatches -> Runner]
  BY DEF Typed
<1>2. work' = [work EXCEPT ![d] = [x EXCEPT !.pc = p]]
  BY DEF Goto
<1> HIDE DEF x
<1>3. [x EXCEPT !.pc = p] \in Runner
  BY <1>1 DEF Runner
<1>4. work'[d] = [x EXCEPT !.pc = p] /\ \A u \in Dispatches \ {d} : work'[u] = work[u]
  BY <1>1, <1>2
<1>5. work' \in [Dispatches -> Runner]
  BY <1>1, <1>2, <1>3
<1>6. /\ work'[d].pc = p /\ work'[d].repo = x.repo /\ work'[d].head = x.head
      /\ work'[d].ran = x.ran /\ work'[d].dirty = x.dirty /\ work'[d].outcome = x.outcome
  BY <1>1, <1>4 DEF Runner
<1> QED
  BY <1>4, <1>5, <1>6 DEF x

\* A target that succeeded is followed by the primary, or by the record.
LEMMA ConcludeStep ==
  ASSUME Typed, NEW d \in Dispatches, NEW o \in {"success", "blocked", "failure"},
         Conclude(d, o), Here(d) \in Repos
  PROVE  /\ work' \in [Dispatches -> Runner]
         /\ \A u \in Dispatches \ {d} : work'[u] = work[u]
         /\ work'[d].head = work[d].head /\ work'[d].ran = work[d].ran
         /\ work'[d].dirty = work[d].dirty /\ work'[d].outcome = o
         /\ o = "success" => work'[d].repo = Primary(d)
         /\ o = "success" /\ Here(d) # Primary(d) => work'[d].pc = "inspect"
         /\ o # "success" \/ Here(d) = Primary(d) => work'[d].pc = "record"
<1> DEFINE x == work[d]
<1> DEFINE p == IF o = "success" /\ Here(d) # Last(Targets(d)) THEN "inspect" ELSE "record"
           q == IF o = "success" THEN Last(Targets(d)) ELSE x.repo
<1> DEFINE y == [x EXCEPT
       !.pc = IF o = "success" /\ Here(d) # Last(Targets(d)) THEN "inspect" ELSE "record",
       !.repo = IF o = "success" THEN Last(Targets(d)) ELSE Here(d),
       !.tries = 1, !.closing = {}, !.outcome = o]
<1>1. x \in Runner /\ work \in [Dispatches -> Runner]
  BY DEF Typed
<1>2. work' = [work EXCEPT ![d] = y]
  BY DEF Conclude
<1>3. Last(Targets(d)) = Primary(d) /\ Primary(d) \in Repos
  BY WhereFacts
<1>4. p \in Places /\ q \in Repos
  BY <1>3 DEF Places, Landings, Here
<1>5. /\ o = "success" => q = Primary(d)
      /\ o = "success" /\ Here(d) # Primary(d) => p = "inspect"
      /\ o # "success" \/ Here(d) = Primary(d) => p = "record"
  BY <1>3
<1>y. y = [x EXCEPT !.pc = p, !.repo = q, !.tries = 1, !.closing = {}, !.outcome = o]
  BY DEF Here
<1> HIDE DEF x, p, q, y
<1>6. /\ y \in Runner /\ y.head = x.head /\ y.ran = x.ran /\ y.dirty = x.dirty
      /\ y.outcome = o /\ y.pc = p /\ y.repo = q
  BY <1>1, <1>4, <1>y DEF Runner
<1>7. work'[d] = y /\ \A u \in Dispatches \ {d} : work'[u] = work[u]
  BY <1>1, <1>2
<1>8. work' \in [Dispatches -> Runner]
  BY <1>1, <1>2, <1>6
<1> QED
  BY <1>5, <1>6, <1>7, <1>8 DEF x

\* What another runner's step, or the sweep's, leaves of a dispatch.
Beside(u) ==
  /\ work'[u] = work[u] /\ row'[u] = row[u] /\ disturbed \subseteq disturbed'
  /\ \A r \in Repos :
       /\ pr'[u][r] = "none" <=> pr[u][r] = "none"
       /\ pr[u][r] = "none" => branch'[u][r] = branch[u][r]
  /\ Landed(u, Primary(u))' => Landed(u, Primary(u)) \/ u \in disturbed'

LEMMA GrowsKeeps ==
  ASSUME Grows, NEW d, NEW r \in Repos
  PROVE  /\ \A h : Fits(base[r], d, r, h) => Fits(base'[r], d, r, h)
         /\ Landed(d, r) => Landed(d, r)'
         /\ Done(d, r) => Done(d, r)'
<1>1. ToSet(base[r]) \subseteq ToSet(base'[r])
  BY DEF Grows
<1>2. \A h : Fits(base[r], d, r, h) => Fits(base'[r], d, r, h)
  BY <1>1 DEF Fits
<1>3. Landed(d, r) => Landed(d, r)'
  BY <1>1 DEF Landed, ToSet
<1> QED
  BY <1>2, <1>3 DEF Done

LEMMA BesideKeeps ==
  ASSUME Grows, NEW u \in Dispatches, NEW x, work[u] = x, Beside(u), RunnerOK(u), TellOK(u)
  PROVE  RunnerOK(u)' /\ TellOK(u)'
<1>1. work'[u] = x /\ row'[u] = row[u] /\ disturbed \subseteq disturbed'
  BY DEF Beside
<1>2. Where(u) \subseteq Repos /\ Primary(u) \in Repos
  BY WhereFacts
<1>3. \A r \in Repos : /\ \A h : Fits(base[r], u, r, h) => Fits(base'[r], u, r, h)
                       /\ Done(u, r) => Done(u, r)'
  BY GrowsKeeps
<1>4. \A r \in Repos : /\ pr'[u][r] = "none" <=> pr[u][r] = "none"
                       /\ pr[u][r] = "none" => branch'[u][r] = branch[u][r]
  BY DEF Beside
<1>5. RunnerOK(u)'
  <2>1. /\ row[u] \in {"absent", "waiting"} => x.pc = "idle"
        /\ x.pc = "idle" =>
             /\ row[u] \in {"absent", "waiting"} \/ row[u] \in InFlight \/ u \in disturbed
             /\ \A r \in Repos : pr[u][r] = "none"
        /\ x.pc \in Landings \cup {"record"} =>
             /\ row[u] \in InFlight \/ u \in disturbed
             /\ \A r \in Repos : Fits(base[r], u, r, x.head[r])
        /\ x.pc = "gone" /\ row[u] \in InFlight => u \in disturbed
        /\ x.pc \in Landings =>
             /\ x.ran /\ x.repo \in Where(u)
             /\ \A r \in Where(u) \ {x.repo} :
                  x.repo = Primary(u) => Done(u, r) /\ r \notin x.dirty
        /\ x.pc \in Landings \ {"inspect"} => x.repo \notin x.dirty
        /\ x.pc = "pr" /\ pr[u][x.repo] = "none" =>
             Fits(base[x.repo], u, x.repo, branch[u][x.repo])
        /\ x.pc \in {"supersede", "close"} => Done(u, x.repo)
        /\ x.pc = "record" /\ x.outcome = "success" => \A r \in Where(u) : Done(u, r)
        /\ row[u] = "completed" => \A r \in Where(u) : Done(u, r)
    BY DEF RunnerOK, At, Here, RowHeld
  <2>2. "pr" \in Landings /\ "supersede" \in Landings /\ "close" \in Landings
    BY DEF Landings
  <2>3. /\ row'[u] \in {"absent", "waiting"} => x.pc = "idle"
        /\ x.pc = "idle" =>
             /\ row'[u] \in {"absent", "waiting"} \/ row'[u] \in InFlight \/ u \in disturbed'
             /\ \A r \in Repos : pr'[u][r] = "none"
        /\ x.pc \in Landings \cup {"record"} =>
             /\ row'[u] \in InFlight \/ u \in disturbed'
             /\ \A r \in Repos : Fits(base'[r], u, r, x.head[r])
        /\ x.pc = "gone" /\ row'[u] \in InFlight => u \in disturbed'
    BY <1>1, <1>3, <1>4, <2>1
  <2>4. x.pc \in Landings =>
             /\ x.ran /\ x.repo \in Where(u)
             /\ \A r \in Where(u) \ {x.repo} :
                  x.repo = Primary(u) => Done(u, r)' /\ r \notin x.dirty
    BY <1>2, <1>3, <2>1
  <2>5. x.pc = "pr" /\ pr'[u][x.repo] = "none" =>
             Fits(base'[x.repo], u, x.repo, branch'[u][x.repo])
    BY <1>2, <1>3, <1>4, <2>1, <2>2
  <2>6. /\ x.pc \in {"supersede", "close"} => Done(u, x.repo)'
        /\ x.pc = "record" /\ x.outcome = "success" => \A r \in Where(u) : Done(u, r)'
        /\ row'[u] = "completed" => \A r \in Where(u) : Done(u, r)'
    BY <1>1, <1>2, <1>3, <2>1, <2>2
  <2>7. x.pc \in Landings \ {"inspect"} => x.repo \notin x.dirty
    BY <2>1
  <2>8. Where(u)' = Where(u) /\ Primary(u)' = Primary(u)
    BY DEF Where, Primary
  <2> QED
    BY <1>1, <2>3, <2>4, <2>5, <2>6, <2>7, <2>8 DEF RunnerOK, At, Here, Done, RowHeld
<1>6. TellOK(u)'
  <2>1. SUFFICES ASSUME Landed(u, Primary(u))', ~Excused(u)'
                 PROVE  /\ row[u] \notin {"failed", "blocked"}
                        /\ row[u] \in InFlight =>
                             /\ x.pc \in {"inspect", "list", "supersede", "close", "record"}
                             /\ x.pc = "record" => x.outcome = "success"
                             /\ x.ran /\ \A r \in Where(u) : Done(u, r)' /\ r \notin x.dirty
    BY <1>1 DEF TellOK, At, Where
  <2>2. u \notin disturbed' /\ ~QuietSidecar(u)
    BY <2>1 DEF Excused, QuietSidecar
  <2>3. Landed(u, Primary(u)) /\ ~Excused(u)
    BY <1>1, <1>2, <2>1, <2>2 DEF Excused, Beside
  <2>4. /\ row[u] \notin {"failed", "blocked"}
        /\ row[u] \in InFlight =>
             /\ x.pc \in {"inspect", "list", "supersede", "close", "record"}
             /\ x.pc = "record" => x.outcome = "success"
             /\ x.ran /\ \A r \in Where(u) : Done(u, r) /\ r \notin x.dirty
    BY <2>3 DEF TellOK, At
  <2> QED
    BY <1>2, <1>3, <2>4
<1> QED
  BY <1>5, <1>6

\* TellOK binds: the dispatch has landed and nothing excuses a failure.
Told(d) == Landed(d, Primary(d)) /\ ~Excused(d)

\* What a completion says is not undone.
LEMMA CompletedKeeps ==
  ASSUME Grows, NEW d \in Dispatches, RunnerOK(d), row'[d] = row[d]
  PROVE  row'[d] = "completed" => \A r \in Where(d) : Done(d, r)'
<1>1. row[d] = "completed" => \A r \in Where(d) : Done(d, r)
  BY DEF RunnerOK
<1> QED
  BY <1>1, WhereFacts, GrowsKeeps

\* A runner goes on within the landing of one repository.
LEMMA StayKeeps ==
  ASSUME Grows, NEW d \in Dispatches, NEW w, NEW x, work[d] = w, work'[d] = x,
         RunnerOK(d), TellOK(d), row'[d] = row[d], disturbed \subseteq disturbed',
         w.pc \in Landings, x.pc \in Landings \ {"inspect"},
         x.repo = w.repo, x.ran = w.ran, x.dirty = w.dirty, w.repo \notin w.dirty,
         \A r \in Repos : Fits(base'[r], d, r, x.head[r]),
         x.pc = "pr" => Fits(base'[w.repo], d, w.repo, branch'[d][w.repo]),
         x.pc \in {"supersede", "close"} => Done(d, w.repo)',
         Told(d)' => /\ x.pc \in {"list", "supersede", "close"}
                     /\ Told(d) \/ (w.repo = Primary(d) /\ Done(d, w.repo)')
  PROVE  RunnerOK(d)' /\ TellOK(d)'
<1>1. Where(d) \subseteq Repos /\ Primary(d) \in Where(d)
  BY WhereFacts
<1>2. \A r \in Repos : Done(d, r) => Done(d, r)'
  BY GrowsKeeps
<1>3. /\ RowHeld(d) /\ row[d] \notin {"absent", "waiting"} /\ w.ran /\ w.repo \in Where(d)
      /\ \A r \in Where(d) \ {w.repo} : w.repo = Primary(d) => Done(d, r) /\ r \notin w.dirty
  BY DEF RunnerOK, At, Here, Landings
<1>4. x.pc \notin {"idle", "record", "gone"}
  BY DEF Landings
<1>5. RunnerOK(d)'
  <2>1. \A r \in Where(d) \ {x.repo} : x.repo = Primary(d) => Done(d, r)' /\ r \notin x.dirty
    BY <1>1, <1>2, <1>3
  <2>2. Where(d)' = Where(d) /\ Primary(d)' = Primary(d)
    BY DEF Where, Primary
  <2> QED
    BY <1>3, <1>4, <2>1, <2>2, CompletedKeeps DEF RunnerOK, At, Here, Done, RowHeld
<1>6. TellOK(d)'
  <2>1. SUFFICES ASSUME Told(d)'
                 PROVE  /\ x.pc \in {"list", "supersede", "close"}
                        /\ \A r \in Where(d) : Done(d, r)' /\ r \notin x.dirty
    BY <1>3, <1>4 DEF TellOK, At, Where, Told, Excused, RowHeld, InFlight
  <2>2. CASE Told(d)
    <3>1. \A r \in Where(d) : Done(d, r) /\ r \notin w.dirty
      BY <1>3, <2>2 DEF TellOK, Told, At, RowHeld, Excused
    <3> QED
      BY <1>1, <1>2, <2>1, <3>1
  <2>3. CASE w.repo = Primary(d) /\ Done(d, w.repo)'
    BY <1>1, <1>2, <1>3, <2>1, <2>3
  <2> QED
    BY <2>1, <2>2, <2>3
<1> QED
  BY <1>5, <1>6

\* A landing ends in something else than a success.
LEMMA FailKeeps ==
  ASSUME Grows, NEW d \in Dispatches, NEW w, NEW x, work[d] = w, work'[d] = x,
         RunnerOK(d), row'[d] = row[d], disturbed \subseteq disturbed',
         w.pc \in Landings, x.pc = "record", x.outcome # "success",
         x.head = w.head, ~Told(d)'
  PROVE  RunnerOK(d)' /\ TellOK(d)'
<1>1. \A r \in Repos : \A h : Fits(base[r], d, r, h) => Fits(base'[r], d, r, h)
  BY GrowsKeeps
<1>2. /\ RowHeld(d) /\ row[d] \notin {"absent", "waiting"}
      /\ \A r \in Repos : Fits(base[r], d, r, w.head[r])
  BY DEF RunnerOK, At, Landings
<1>3. RunnerOK(d)'
  <2>1. Where(d)' = Where(d)
    BY DEF Where, Primary
  <2> QED
    BY <1>1, <1>2, <2>1, CompletedKeeps DEF RunnerOK, At, Landings, RowHeld, Done
<1>4. TellOK(d)'
  BY DEF TellOK, Told
<1> QED
  BY <1>3, <1>4

\* A target succeeds: on to the primary, or to the record.
LEMMA SuccessKeeps ==
  ASSUME Grows, NEW d \in Dispatches, NEW w, NEW x, work[d] = w, work'[d] = x,
         RunnerOK(d), TellOK(d), row'[d] = row[d], disturbed \subseteq disturbed',
         w.pc \in Landings, x.head = w.head, x.ran = w.ran, x.dirty = w.dirty,
         x.repo = Primary(d), x.outcome = "success",
         x.pc = IF w.repo = Primary(d) THEN "record" ELSE "inspect",
         w.repo \notin w.dirty, Done(d, w.repo)',
         Told(d)' => Told(d) \/ w.repo = Primary(d)
  PROVE  RunnerOK(d)' /\ TellOK(d)'
<1>1. /\ Where(d) \subseteq Repos /\ Primary(d) \in Where(d)
      /\ \A r, u \in Where(d) : r # Primary(d) /\ u # Primary(d) => r = u
  BY WhereFacts
<1>2. \A r \in Repos : /\ \A h : Fits(base[r], d, r, h) => Fits(base'[r], d, r, h)
                       /\ Done(d, r) => Done(d, r)'
  BY GrowsKeeps
<1>3. /\ RowHeld(d) /\ row[d] \notin {"absent", "waiting"} /\ w.ran /\ w.repo \in Where(d)
      /\ \A r \in Where(d) \ {w.repo} : w.repo = Primary(d) => Done(d, r) /\ r \notin w.dirty
      /\ \A r \in Repos : Fits(base[r], d, r, w.head[r])
  BY DEF RunnerOK, At, Here, Landings
<1>4. \A r \in Where(d) : r # Primary(d) \/ w.repo = Primary(d) =>
        Done(d, r)' /\ r \notin w.dirty
  BY <1>1, <1>2, <1>3
<1>5. Where(d)' = Where(d) /\ Primary(d)' = Primary(d)
  BY DEF Where, Primary
<1>6. \A r \in Repos : Fits(base'[r], d, r, x.head[r])
  BY <1>2, <1>3
<1>7. RunnerOK(d)'
  <2>1. CASE w.repo = Primary(d)
    <3>1. x.pc = "record" /\ \A r \in Where(d) : Done(d, r)'
      BY <1>4, <2>1
    <3> QED
      BY <1>3, <1>5, <1>6, <3>1, CompletedKeeps
         DEF RunnerOK, At, Here, Landings, Done, RowHeld
  <2>2. CASE w.repo # Primary(d)
    <3>1. /\ x.pc = "inspect" /\ x.ran /\ x.repo \in Where(d)
          /\ \A r \in Where(d) \ {x.repo} : Done(d, r)' /\ r \notin x.dirty
      BY <1>1, <1>3, <1>4, <2>2
    <3> QED
      BY <1>3, <1>5, <1>6, <3>1, CompletedKeeps
         DEF RunnerOK, At, Here, Landings, Done, RowHeld
  <2> QED
    BY <2>1, <2>2
<1>8. TellOK(d)'
  <2>1. SUFFICES ASSUME Told(d)'
                 PROVE  \A r \in Where(d) : Done(d, r)' /\ r \notin x.dirty
    BY <1>3 DEF TellOK, At, Where, Told, Excused, RowHeld, InFlight
  <2>2. CASE Told(d)
    <3>1. \A r \in Where(d) : Done(d, r) /\ r \notin w.dirty
      BY <1>3, <2>2 DEF TellOK, Told, At, RowHeld, Excused
    <3> QED
      BY <1>1, <1>2, <3>1
  <2>3. CASE w.repo = Primary(d)
    BY <1>4, <2>3
  <2> QED
    BY <2>1, <2>2, <2>3
<1> QED
  BY <1>7, <1>8

-----------------------------------------------------------------------------
(* The moves of a runner, as the actions make them.                        *)

Inv ==
  /\ Typed
  /\ Forge
  /\ \A d \in Dispatches : RunnerOK(d) /\ TellOK(d)

LEMMA RunnerFacts ==
  ASSUME Inv, NEW d \in Dispatches
  PROVE  /\ RunnerOK(d) /\ TellOK(d)
         /\ work[d].pc \in Landings => /\ Here(d) \in Repos /\ Here(d) \in Where(d)
                                       /\ RowHeld(d)
         /\ work[d].pc \in Landings \ {"inspect"} => Here(d) \notin work[d].dirty
         /\ work[d].pc \in Landings \cup {"record"} =>
              \A r \in Repos : Fits(base[r], d, r, work[d].head[r])
         /\ work[d].pc \in Landings \ {"inspect", "list", "supersede", "close"} => ~Told(d)
<1>1. RunnerOK(d) /\ TellOK(d)
  BY DEF Inv
<1>2. Where(d) \subseteq Repos
  BY WhereFacts
<1>3. work[d].pc \in Landings => Here(d) \in Where(d) /\ RowHeld(d)
  BY <1>1 DEF RunnerOK
<1>4. /\ work[d].pc \in Landings \ {"inspect"} => Here(d) \notin work[d].dirty
      /\ work[d].pc \in Landings \cup {"record"} =>
           \A r \in Repos : Fits(base[r], d, r, work[d].head[r])
  BY <1>1 DEF RunnerOK
<1>5. work[d].pc \in Landings \ {"inspect", "list", "supersede", "close"} => ~Told(d)
  BY <1>1, <1>3 DEF TellOK, Told, Landings, RowHeld, Excused
<1> QED
  BY <1>1, <1>2, <1>3, <1>4, <1>5

LEMMA ToldSame ==
  ASSUME UNCHANGED <<base, disturbed>>, NEW d
  PROVE  Told(d)' <=> Told(d)
<1>1. Landed(d, Primary(d))' <=> Landed(d, Primary(d))
  BY DEF Landed, Primary
<1>2. Excused(d)' <=> Excused(d)
  BY DEF Excused, QuietSidecar
<1> QED
  BY <1>1, <1>2 DEF Told

LEMMA ToldExcused ==
  ASSUME NEW d, d \in disturbed'
  PROVE  ~Told(d)'
BY DEF Told, Excused

LEMMA GrowsSame ==
  ASSUME UNCHANGED base
  PROVE  Grows /\ \A d, r : Landed(d, r)' <=> Landed(d, r)
BY DEF Grows, Landed

LEMMA ConcludeFails ==
  ASSUME Inv, NEW d \in Dispatches, NEW o \in {"blocked", "failure"}, Conclude(d, o),
         work[d].pc \in Landings, Grows, row'[d] = row[d], ~Told(d)',
         disturbed \subseteq disturbed'
  PROVE  /\ RunnerOK(d)' /\ TellOK(d)' /\ work' \in [Dispatches -> Runner]
         /\ \A u \in Dispatches \ {d} : work'[u] = work[u]
<1>1. RunnerOK(d) /\ Here(d) \in Repos /\ Typed
  BY RunnerFacts DEF Inv
<1>2. /\ work' \in [Dispatches -> Runner] /\ \A u \in Dispatches \ {d} : work'[u] = work[u]
      /\ work'[d].head = work[d].head /\ work'[d].outcome = o /\ work'[d].pc = "record"
  BY <1>1, ConcludeStep
<1> DEFINE w == work[d]  x == work'[d]
<1>3. w.pc \in Landings /\ x.pc = "record" /\ x.outcome # "success" /\ x.head = w.head
  BY <1>2
<1>4. work[d] = w /\ work'[d] = x
  OBVIOUS
<1> HIDE DEF w, x
<1>5. RunnerOK(d)' /\ TellOK(d)'
  BY <1>1, <1>3, <1>4, FailKeeps
<1> QED
  BY <1>2, <1>5

LEMMA ConcludeSucceeds ==
  ASSUME Inv, NEW d \in Dispatches, NEW h, Here(d) = h, Conclude(d, "success"),
         work[d].pc \in Landings, Grows, row'[d] = row[d], disturbed \subseteq disturbed',
         h \notin work[d].dirty, Done(d, h) \/ Done(d, h)',
         Told(d)' => Told(d) \/ h = Primary(d)
  PROVE  /\ RunnerOK(d)' /\ TellOK(d)' /\ work' \in [Dispatches -> Runner]
         /\ \A u \in Dispatches \ {d} : work'[u] = work[u]
<1>1. RunnerOK(d) /\ TellOK(d) /\ Here(d) \in Repos /\ Typed
  BY RunnerFacts DEF Inv
<1>2. /\ work' \in [Dispatches -> Runner] /\ \A u \in Dispatches \ {d} : work'[u] = work[u]
      /\ work'[d].head = work[d].head /\ work'[d].ran = work[d].ran
      /\ work'[d].dirty = work[d].dirty /\ work'[d].outcome = "success"
      /\ work'[d].repo = Primary(d)
      /\ work'[d].pc = IF Here(d) = Primary(d) THEN "record" ELSE "inspect"
  BY <1>1, ConcludeStep
<1> PICK w, x : work[d] = w /\ work'[d] = x
  OBVIOUS
<1> w.repo = h
  BY DEF Here
<1>3. Done(d, w.repo)'
  BY <1>1, GrowsKeeps
<1>4. /\ w.pc \in Landings /\ x.head = w.head /\ x.ran = w.ran /\ x.dirty = w.dirty
      /\ x.repo = Primary(d) /\ x.outcome = "success"
      /\ x.pc = (IF w.repo = Primary(d) THEN "record" ELSE "inspect")
      /\ w.repo \notin w.dirty /\ (Told(d)' => Told(d) \/ w.repo = Primary(d))
  BY <1>2 DEF Here
<1>6. RunnerOK(d)' /\ TellOK(d)'
  BY <1>1, <1>3, <1>4, SuccessKeeps
<1> QED
  BY <1>2, <1>6

LEMMA GoesOn ==
  ASSUME Inv, NEW d \in Dispatches, NEW h, Here(d) = h,
         NEW p \in Landings \ {"inspect"}, Goto(d, p),
         work[d].pc \in Landings, Grows, row'[d] = row[d], disturbed \subseteq disturbed',
         h \notin work[d].dirty,
         p = "pr" => Fits(base'[h], d, h, branch'[d][h]),
         p \in {"supersede", "close"} => Done(d, h) \/ Done(d, h)',
         Told(d)' => /\ p \in {"list", "supersede", "close"}
                     /\ Told(d) \/ (h = Primary(d) /\ p # "list")
  PROVE  /\ RunnerOK(d)' /\ TellOK(d)' /\ work' \in [Dispatches -> Runner]
         /\ \A u \in Dispatches \ {d} : work'[u] = work[u]
<1>1. /\ RunnerOK(d) /\ TellOK(d) /\ Here(d) \in Repos /\ Typed /\ p \in Places
      /\ \A r \in Repos : Fits(base[r], d, r, work[d].head[r])
  BY RunnerFacts DEF Inv, Places, At, Landings
<1>2. /\ work' \in [Dispatches -> Runner] /\ \A u \in Dispatches \ {d} : work'[u] = work[u]
      /\ work'[d].pc = p /\ work'[d].repo = work[d].repo /\ work'[d].head = work[d].head
      /\ work'[d].ran = work[d].ran /\ work'[d].dirty = work[d].dirty
  BY <1>1, GotoStep
<1> PICK w, x : work[d] = w /\ work'[d] = x
  OBVIOUS
<1> w.repo = h
  BY DEF Here
<1>3. p \in {"supersede", "close"} => Done(d, w.repo)'
  BY <1>1, GrowsKeeps
<1>4. /\ w.pc \in Landings /\ x.pc \in Landings \ {"inspect"} /\ x.repo = w.repo
      /\ x.ran = w.ran /\ x.dirty = w.dirty /\ w.repo \notin w.dirty
      /\ x.pc = "pr" => Fits(base'[w.repo], d, w.repo, branch'[d][w.repo])
  BY <1>2 DEF Here
<1>5. \A r \in Repos : Fits(base'[r], d, r, x.head[r])
  BY <1>1, <1>2, GrowsKeeps
<1>6. x.pc \in {"supersede", "close"} => Done(d, w.repo)'
  BY <1>2, <1>3
<1>7. Told(d)' => /\ x.pc \in {"list", "supersede", "close"}
                  /\ Told(d) \/ (w.repo = Primary(d) /\ Done(d, w.repo)')
  BY <1>2, <1>3 DEF Here
<1>9. RunnerOK(d)' /\ TellOK(d)'
  BY <1>1, <1>4, <1>5, <1>6, <1>7, StayKeeps
<1> QED
  BY <1>2, <1>9

-----------------------------------------------------------------------------
(* From the dispatch that steps to all of them, by what the step changes.  *)

RowStates == {"absent", "waiting", "starting", "running", "completed", "blocked", "failed"}

\* Only a runner, its row and what its checkout fetched change.
LEMMA LocalKeeps ==
  ASSUME Inv, NEW d \in Dispatches, UNCHANGED <<base, branch, pr>>,
         sweep' = sweep \/ sweep' = None, disturbed \subseteq disturbed',
         tracking' \in [Repos -> History],
         \A r \in Repos : ToSet(tracking'[r]) \subseteq ToSet(base[r]),
         row' \in [Dispatches -> RowStates], work' \in [Dispatches -> Runner],
         \A u \in Dispatches \ {d} : work'[u] = work[u] /\ row'[u] = row[u],
         RunnerOK(d)', TellOK(d)'
  PROVE  Inv'
<1>1. Grows /\ \A u, r : Landed(u, r)' <=> Landed(u, r)
  BY GrowsSame
<1>2. Typed'
  BY DEF Inv, Typed, RowStates
<1>3. Forge'
  BY <1>1 DEF Inv, Forge, Done
<1>4. ASSUME NEW u \in Dispatches \ {d} PROVE RunnerOK(u)' /\ TellOK(u)'
  <2>1. RunnerOK(u) /\ TellOK(u)
    BY DEF Inv
  <2>2. Beside(u)
    BY <1>1 DEF Beside, Primary
  <2> QED
    BY <1>1, <2>1, <2>2, BesideKeeps
<1> QED
  BY <1>2, <1>3, <1>4 DEF Inv

\* A runner pushes its branch.
LEMMA PushKeeps ==
  ASSUME Inv, NEW d \in Dispatches, NEW r \in Repos, NEW h,
         UNCHANGED <<base, tracking, pr, row, sweep, disturbed>>,
         branch' = [branch EXCEPT ![d][r] = h], Fits(base[r], d, r, h),
         work' \in [Dispatches -> Runner],
         \A u \in Dispatches \ {d} : work'[u] = work[u],
         RunnerOK(d)', TellOK(d)'
  PROVE  Inv'
<1>1. Grows /\ \A u, q : Landed(u, q)' <=> Landed(u, q)
  BY GrowsSame
<1>2. /\ branch' \in [Dispatches -> [Repos -> History \cup {None}]]
      /\ branch'[d][r] = h
      /\ \A u \in Dispatches, q \in Repos :
           u # d \/ q # r => branch'[u][q] = branch[u][q]
  BY DEF Inv, Typed, Fits
<1>3. Typed'
  BY <1>2 DEF Inv, Typed
<1>4. Forge'
  <2>1. \A q \in Repos : ToSet(tracking'[q]) \subseteq ToSet(base'[q])
    BY DEF Inv, Forge
  <2>2. ASSUME NEW u \in Dispatches, NEW q \in Repos
        PROVE  /\ Landed(u, q)' => pr'[u][q] = "merged"
               /\ pr'[u][q] = "merged" => Done(u, q)'
               /\ pr'[u][q] = "open" => Fits(base'[q], u, q, branch'[u][q])
    <3>1. /\ Landed(u, q) => pr[u][q] = "merged"
          /\ pr[u][q] = "merged" => Done(u, q)
          /\ pr[u][q] = "open" => Fits(base[q], u, q, branch[u][q])
      BY DEF Inv, Forge
    <3>2. /\ Landed(u, q)' <=> Landed(u, q)
          /\ Done(u, q)' <=> Done(u, q)
      BY <1>1 DEF Done
    <3> QED
      BY <1>2, <3>1, <3>2
  <2> QED
    BY <2>1, <2>2 DEF Forge
<1>5. ASSUME NEW u \in Dispatches \ {d} PROVE RunnerOK(u)' /\ TellOK(u)'
  <2>1. RunnerOK(u) /\ TellOK(u)
    BY DEF Inv
  <2>2. Beside(u)
    BY <1>1, <1>2 DEF Beside, Primary
  <2> QED
    BY <1>1, <2>1, <2>2, BesideKeeps
<1> QED
  BY <1>3, <1>4, <1>5 DEF Inv

\* A pull request is opened for a branch that may be merged, or closed.
LEMMA PrKeeps ==
  ASSUME Inv, NEW d \in Dispatches, NEW x \in Dispatches, NEW r \in Repos,
         NEW v \in {"none", "open", "merged", "closed"},
         UNCHANGED <<base, tracking, branch, row, sweep, disturbed>>,
         pr' = [pr EXCEPT ![x][r] = v],
         x # d => (v = "none" <=> pr[x][r] = "none"),
         v = "merged" <=> pr[x][r] = "merged",
         v = "open" /\ pr[x][r] # "open" => Fits(base[r], x, r, branch[x][r]),
         work' \in [Dispatches -> Runner],
         \A u \in Dispatches \ {d} : work'[u] = work[u],
         RunnerOK(d)', TellOK(d)'
  PROVE  Inv'
<1>1. Grows /\ \A u, q : Landed(u, q)' <=> Landed(u, q)
  BY GrowsSame
<1>2. /\ pr' \in [Dispatches -> [Repos -> {"none", "open", "merged", "closed"}]]
      /\ pr'[x][r] = v
      /\ \A u \in Dispatches, q \in Repos : u # x \/ q # r => pr'[u][q] = pr[u][q]
  BY DEF Inv, Typed
<1>3. Typed'
  BY <1>2 DEF Inv, Typed
<1>4. Forge'
  <2>1. \A q \in Repos : ToSet(tracking'[q]) \subseteq ToSet(base'[q])
    BY DEF Inv, Forge
  <2>2. ASSUME NEW u \in Dispatches, NEW q \in Repos
        PROVE  /\ Landed(u, q)' => pr'[u][q] = "merged"
               /\ pr'[u][q] = "merged" => Done(u, q)'
               /\ pr'[u][q] = "open" => Fits(base'[q], u, q, branch'[u][q])
    <3>1. /\ Landed(u, q) => pr[u][q] = "merged"
          /\ pr[u][q] = "merged" => Done(u, q)
          /\ pr[u][q] = "open" => Fits(base[q], u, q, branch[u][q])
      BY DEF Inv, Forge
    <3>2. /\ Landed(u, q)' <=> Landed(u, q)
          /\ Done(u, q)' <=> Done(u, q)
      BY <1>1 DEF Done
    <3> QED
      BY <1>2, <3>1, <3>2
  <2> QED
    BY <2>1, <2>2 DEF Forge
<1>5. ASSUME NEW u \in Dispatches \ {d} PROVE RunnerOK(u)' /\ TellOK(u)'
  <2>1. RunnerOK(u) /\ TellOK(u)
    BY DEF Inv
  <2>2. Beside(u)
    BY <1>1, <1>2 DEF Beside, Primary
  <2> QED
    BY <1>1, <2>1, <2>2, BesideKeeps
<1> QED
  BY <1>3, <1>4, <1>5 DEF Inv

\* What a merge lands is the pull request's own change, and nothing else.
LEMMA MergeFacts ==
  ASSUME Inv, NEW d \in Dispatches, NEW r \in Repos, NEW sha,
         Mergeable(d, r, sha), ServerMerges(d, r), tracking' = tracking
  PROVE  /\ Grows /\ Forge' /\ Done(d, r)'
         /\ base' \in [Repos -> History]
         /\ branch' \in [Dispatches -> [Repos -> History \cup {None}]]
         /\ pr' \in [Dispatches -> [Repos -> {"none", "open", "merged", "closed"}]]
         /\ \A u \in Dispatches, q \in Repos : u # d \/ q # r =>
              /\ Landed(u, q)' <=> Landed(u, q)
              /\ pr'[u][q] = pr[u][q] /\ branch'[u][q] = branch[u][q]
         /\ pr[d][r] = "open" /\ pr'[d][r] = "merged"
<1> PICK h : h = branch[d][r]
  OBVIOUS
<1>1. /\ Fits(base[r], d, r, h) /\ IsPrefix(base[r], h) /\ pr[d][r] = "open"
      /\ Typed /\ Forge /\ h \in History /\ base[r] \in History
  BY DEF Mergeable, Inv, Forge, Fits, Typed
<1>2. ToSet(base[r]) \subseteq ToSet(h) /\ ToSet(h) \subseteq ToSet(base[r]) \cup {d}
  BY <1>1, PrefixSet DEF Fits, History
<1>3. /\ base' \in [Repos -> History] /\ base'[r] = h
      /\ \A q \in Repos \ {r} : base'[q] = base[q]
  BY <1>1 DEF ServerMerges, Typed
<1>4. /\ branch' \in [Dispatches -> [Repos -> History \cup {None}]]
      /\ \A u \in Dispatches, q \in Repos : u # d \/ q # r => branch'[u][q] = branch[u][q]
  BY <1>1 DEF ServerMerges, Typed
<1>5. /\ pr' \in [Dispatches -> [Repos -> {"none", "open", "merged", "closed"}]]
      /\ pr'[d][r] = "merged"
      /\ \A u \in Dispatches, q \in Repos : u # d \/ q # r => pr'[u][q] = pr[u][q]
  BY <1>1 DEF ServerMerges, Typed
<1>6. Grows
  BY <1>2, <1>3 DEF Grows
<1>7. \A u \in Dispatches, q \in Repos : u # d \/ q # r => (Landed(u, q)' <=> Landed(u, q))
  <2> TAKE u \in Dispatches, q \in Repos
  <2>1. Landed(u, q)' <=> u \in ToSet(base'[q])
    BY DEF Landed, ToSet
  <2>2. u # d \/ q # r => (u \in ToSet(base'[q]) <=> u \in ToSet(base[q]))
    BY <1>2, <1>3
  <2> QED
    BY <2>1, <2>2, LandedIsIn
<1>8. Done(d, r)'
  <2>1. r \in Changed[d] => d \in ToSet(base'[r])
    BY <1>1, <1>3 DEF Fits
  <2> QED
    BY <2>1 DEF Done, Landed, ToSet
<1>9. Forge'
  <2>1. \A q \in Repos : ToSet(tracking'[q]) \subseteq ToSet(base'[q])
    BY <1>1, <1>6 DEF Forge, Grows
  <2>2. ASSUME NEW u \in Dispatches, NEW q \in Repos
        PROVE  /\ Landed(u, q)' => pr'[u][q] = "merged"
               /\ pr'[u][q] = "merged" => Done(u, q)'
               /\ pr'[u][q] = "open" => Fits(base'[q], u, q, branch'[u][q])
    <3>1. CASE u = d /\ q = r
      BY <1>5, <1>8, <3>1
    <3>2. CASE u # d \/ q # r
      <4>1. /\ Landed(u, q) => pr[u][q] = "merged"
            /\ pr[u][q] = "merged" => Done(u, q)
            /\ pr[u][q] = "open" => Fits(base[q], u, q, branch[u][q])
        BY <1>1 DEF Forge
      <4>2. /\ Landed(u, q)' <=> Landed(u, q)
            /\ pr'[u][q] = pr[u][q] /\ branch'[u][q] = branch[u][q]
        BY <1>4, <1>5, <1>7, <3>2
      <4>3. /\ Done(u, q) => Done(u, q)'
            /\ \A g : Fits(base[q], u, q, g) => Fits(base'[q], u, q, g)
        BY <1>6, GrowsKeeps
      <4> QED
        BY <4>1, <4>2, <4>3
    <3> QED
      BY <3>1, <3>2
  <2> QED
    BY <2>1, <2>2 DEF Forge
<1> QED
  BY <1>1, <1>3, <1>4, <1>5, <1>6, <1>7, <1>8, <1>9

LEMMA MergeKeeps ==
  ASSUME Inv, NEW d \in Dispatches, NEW r \in Repos, NEW sha,
         Mergeable(d, r, sha), ServerMerges(d, r), UNCHANGED <<tracking, row>>,
         sweep' = sweep \/ sweep' = None, disturbed \subseteq disturbed',
         work' \in [Dispatches -> Runner],
         \A u \in Dispatches \ {d} : work'[u] = work[u],
         (work'[d] = work[d] /\ d \in disturbed') \/ (RunnerOK(d)' /\ TellOK(d)')
  PROVE  Inv'
<1>1. /\ Grows /\ Forge'
      /\ base' \in [Repos -> History]
      /\ branch' \in [Dispatches -> [Repos -> History \cup {None}]]
      /\ pr' \in [Dispatches -> [Repos -> {"none", "open", "merged", "closed"}]]
      /\ \A u \in Dispatches, q \in Repos : u # d \/ q # r =>
           /\ Landed(u, q)' <=> Landed(u, q)
           /\ pr'[u][q] = pr[u][q] /\ branch'[u][q] = branch[u][q]
      /\ pr[d][r] = "open" /\ pr'[d][r] = "merged"
  BY MergeFacts
<1>2. Typed'
  BY <1>1 DEF Inv, Typed
<1>3. ASSUME NEW u \in Dispatches, work'[u] = work[u], u # d \/ d \in disturbed'
      PROVE  RunnerOK(u)' /\ TellOK(u)'
  <2>1. RunnerOK(u) /\ TellOK(u) /\ Primary(u) \in Repos /\ Primary(u)' = Primary(u)
    BY WhereFacts DEF Inv, Primary
  <2>2. \A q \in Repos : /\ pr'[u][q] = "none" <=> pr[u][q] = "none"
                         /\ pr[u][q] = "none" => branch'[u][q] = branch[u][q]
    BY <1>1
  <2>3. Landed(u, Primary(u))' => Landed(u, Primary(u)) \/ u \in disturbed'
    <3>1. CASE u # d
      <4>1. \A q \in Repos : Landed(u, q)' <=> Landed(u, q)
        BY <1>1, <3>1
      <4> QED
        BY <2>1, <4>1 DEF Landed
    <3>2. CASE u = d
      BY <1>3, <3>2
    <3> QED
      BY <3>1, <3>2
  <2>4. Beside(u)
    BY <1>3, <2>2, <2>3 DEF Beside
  <2> QED
    BY <1>1, <2>1, <2>4, BesideKeeps
<1>4. \A u \in Dispatches : RunnerOK(u)' /\ TellOK(u)'
  BY <1>3
<1> QED
  BY <1>1, <1>2, <1>4 DEF Inv

-----------------------------------------------------------------------------
(* One lemma per action.                                                   *)

LEMMA SameFacts ==
  ASSUME Inv
  PROVE  /\ tracking' = tracking => /\ tracking' \in [Repos -> History]
                                    /\ \A r \in Repos : ToSet(tracking'[r]) \subseteq ToSet(base[r])
         /\ row' = row => row' \in [Dispatches -> RowStates]
BY DEF Inv, Typed, Forge, RowStates

\* A step of a runner that touches nothing but its own state.
LEMMA OwnLocal ==
  ASSUME Inv, NEW d \in Dispatches, UNCHANGED <<base, tracking, branch, pr, row, sweep>>,
         disturbed \subseteq disturbed',
         /\ RunnerOK(d)' /\ TellOK(d)' /\ work' \in [Dispatches -> Runner]
         /\ \A u \in Dispatches \ {d} : work'[u] = work[u]
  PROVE  Inv'
BY LocalKeeps, SameFacts

LEMMA InspectKeeps ==
  ASSUME Inv, NEW d \in Dispatches, Inspect(d)
  PROVE  Inv'
<1> PICK h : h = Here(d)
  OBVIOUS
<1>1. /\ RunnerOK(d) /\ TellOK(d) /\ Typed /\ Forge /\ work[d].pc = "inspect"
      /\ "inspect" \in Landings /\ "list" \in Landings \ {"inspect"}
      /\ work[d].pc \in Landings /\ h \in Repos /\ h \in Where(d) /\ RowHeld(d)
      /\ \A r \in Repos : Fits(base[r], d, r, work[d].head[r])
  BY RunnerFacts DEF Inspect, At, Inv, Landings
<1>2. /\ UNCHANGED <<base, tracking, branch, pr, row, sweep, disturbed>>
      /\ Grows /\ (Told(d)' <=> Told(d)) /\ row'[d] = row[d]
  BY GrowsSame, ToldSame DEF Inspect, Local
<1>3. Told(d) => h \notin work[d].dirty
  BY <1>1 DEF TellOK, Told, RowHeld, Excused
<1>4. /\ RunnerOK(d)' /\ TellOK(d)' /\ work' \in [Dispatches -> Runner]
      /\ \A u \in Dispatches \ {d} : work'[u] = work[u]
  <2>1. CASE h \in work[d].dirty
    <3>1. Conclude(d, "blocked") /\ ~Told(d)'
      BY <1>2, <1>3, <2>1 DEF Inspect
    <3> QED
      BY <1>1, <1>2, <3>1, ConcludeFails
  <2>2. CASE h \notin work[d].dirty /\ work[d].head[h] = tracking[h]
    <3>1. Conclude(d, "success")
      BY <2>2 DEF Inspect, HeadOf
    <3>2. Done(d, h)
      BY <1>1, <2>2, LandedIsIn DEF Forge, Fits, Done
    <3> QED
      BY <1>1, <1>2, <2>2, <3>1, <3>2, ConcludeSucceeds
  <2>3. CASE h \notin work[d].dirty /\ work[d].head[h] # tracking[h]
    <3>1. Goto(d, "list")
      BY <2>3 DEF Inspect, HeadOf
    <3> QED
      BY <1>1, <1>2, <2>3, <3>1, GoesOn
  <2> QED
    BY <2>1, <2>2, <2>3
<1> QED
  BY <1>2, <1>4, OwnLocal

LEMMA ListPrsKeeps ==
  ASSUME Inv, NEW d \in Dispatches, ListPrs(d)
  PROVE  Inv'
<1> PICK h : h = Here(d)
  OBVIOUS
<1>1. /\ RunnerOK(d) /\ TellOK(d) /\ Typed /\ Forge /\ work[d].pc = "list"
      /\ work[d].pc \in Landings /\ h \in Repos /\ h \in Where(d) /\ RowHeld(d)
      /\ h \notin work[d].dirty
      /\ "supersede" \in Landings \ {"inspect"} /\ "push" \in Landings \ {"inspect"}
  BY RunnerFacts DEF ListPrs, At, Inv, Landings
<1>2. /\ UNCHANGED <<base, tracking, branch, pr, row, sweep, disturbed>>
      /\ Grows /\ (Told(d)' <=> Told(d)) /\ row'[d] = row[d]
  BY GrowsSame, ToldSame DEF ListPrs, Local
<1>3. Told(d) => pr[d][h] = "merged"
  <2>1. SUFFICES ASSUME Told(d) PROVE Landed(d, h)
    BY <1>1 DEF Forge
  <2>2. Done(d, h)
    BY <1>1, <2>1 DEF TellOK, Told, RowHeld, Excused
  <2>3. CASE h = Primary(d)
    BY <2>1, <2>3 DEF Told
  <2>4. CASE h # Primary(d)
    <3>1. h = SidecarOf[d]
      BY <1>1, <2>4, WhereFacts
    <3>2. h \in Changed[d]
      BY <1>1, <2>1, <3>1, WhereFacts DEF Told, Excused, QuietSidecar
    <3> QED
      BY <2>2, <3>2 DEF Done
  <2> QED
    BY <2>3, <2>4
<1>4. /\ RunnerOK(d)' /\ TellOK(d)' /\ work' \in [Dispatches -> Runner]
      /\ \A u \in Dispatches \ {d} : work'[u] = work[u]
  <2>1. CASE pr[d][h] = "merged"
    <3>1. Goto(d, "supersede") /\ Done(d, h)
      BY <1>1, <2>1 DEF ListPrs, Forge
    <3> QED
      BY <1>1, <1>2, <3>1, GoesOn
  <2>2. CASE pr[d][h] # "merged"
    <3>1. Goto(d, "push") /\ ~Told(d)'
      BY <1>2, <1>3, <2>2 DEF ListPrs
    <3> QED
      BY <1>1, <1>2, <3>1, GoesOn
  <2> QED
    BY <2>1, <2>2
<1> QED
  BY <1>2, <1>4, OwnLocal

LEMMA PushActionKeeps ==
  ASSUME Inv, NEW d \in Dispatches, Push(d)
  PROVE  Inv'
<1> PICK h : h = Here(d)
  OBVIOUS
<1>1. /\ work[d].pc = "push" /\ work[d].pc \in Landings /\ h \in Repos /\ row'[d] = row[d]
      /\ h \notin work[d].dirty /\ ~Told(d) /\ "pr" \in Landings \ {"inspect"}
      /\ Fits(base[h], d, h, work[d].head[h])
  BY RunnerFacts DEF Push, At, Landings
<1>2. /\ UNCHANGED <<base, tracking, pr, row, sweep, disturbed>>
      /\ Grows /\ ~Told(d)'
  BY <1>1, GrowsSame, ToldSame DEF Push
<1>3. CASE branch[d][h] = None \/ IsPrefix(branch[d][h], HeadOf(d))
  <2>1. branch' = [branch EXCEPT ![d][h] = HeadOf(d)] /\ Goto(d, "pr")
    BY <1>3 DEF Push
  <2>2. Fits(base[h], d, h, HeadOf(d)) /\ HeadOf(d) = work[d].head[h]
    BY <1>1 DEF HeadOf
  <2>3. branch'[d][h] = HeadOf(d)
    BY <1>1, <2>1 DEF Inv, Typed
  <2>4. Fits(base'[h], d, h, branch'[d][h])
    BY <1>2, <2>2, <2>3
  <2>5. /\ RunnerOK(d)' /\ TellOK(d)' /\ work' \in [Dispatches -> Runner]
        /\ \A u \in Dispatches \ {d} : work'[u] = work[u]
    BY <1>1, <1>2, <2>1, <2>4, GoesOn
  <2> QED
    BY <1>1, <1>2, <2>1, <2>2, <2>5, PushKeeps
<1>4. CASE ~(branch[d][h] = None \/ IsPrefix(branch[d][h], HeadOf(d)))
  <2>1. Conclude(d, "failure") /\ UNCHANGED branch
    BY <1>4 DEF Push
  <2>2. /\ RunnerOK(d)' /\ TellOK(d)' /\ work' \in [Dispatches -> Runner]
        /\ \A u \in Dispatches \ {d} : work'[u] = work[u]
    BY <1>1, <1>2, <2>1, ConcludeFails
  <2> QED
    BY <1>2, <2>1, <2>2, OwnLocal
<1> QED
  BY <1>3, <1>4

LEMMA FindOrCreatePrKeeps ==
  ASSUME Inv, NEW d \in Dispatches, FindOrCreatePr(d)
  PROVE  Inv'
<1> PICK h : h = Here(d)
  OBVIOUS
<1>1. /\ work[d].pc = "pr" /\ work[d].pc \in Landings /\ h \in Repos /\ row'[d] = row[d]
      /\ h \notin work[d].dirty /\ ~Told(d) /\ "merge" \in Landings \ {"inspect"}
      /\ RunnerOK(d)
  BY RunnerFacts DEF FindOrCreatePr, At, Landings
<1>2. /\ UNCHANGED <<base, tracking, branch, row, sweep, disturbed>>
      /\ Grows /\ ~Told(d)'
  BY <1>1, GrowsSame, ToldSame DEF FindOrCreatePr
<1>3. CASE pr' = [pr EXCEPT ![d][h] = IF @ = "none" THEN "open" ELSE @] /\ Goto(d, "merge")
  <2> PICK v : v = IF pr[d][h] = "none" THEN "open" ELSE pr[d][h]
    OBVIOUS
  <2>1. pr' = [pr EXCEPT ![d][h] = v]
    BY <1>3
  <2>2. /\ v \in {"none", "open", "merged", "closed"}
        /\ v = "merged" <=> pr[d][h] = "merged"
    BY <1>1 DEF Inv, Typed
  <2>3. v = "open" /\ pr[d][h] # "open" => Fits(base[h], d, h, branch[d][h])
    BY <1>1 DEF RunnerOK, At
  <2>4. /\ RunnerOK(d)' /\ TellOK(d)' /\ work' \in [Dispatches -> Runner]
        /\ \A u \in Dispatches \ {d} : work'[u] = work[u]
    BY <1>1, <1>2, <1>3, GoesOn
  <2> QED
    BY <1>1, <1>2, <2>1, <2>2, <2>3, <2>4, PrKeeps
<1>4. CASE Conclude(d, "failure") /\ UNCHANGED pr
  <2>1. /\ RunnerOK(d)' /\ TellOK(d)' /\ work' \in [Dispatches -> Runner]
        /\ \A u \in Dispatches \ {d} : work'[u] = work[u]
    BY <1>1, <1>2, <1>4, ConcludeFails
  <2>2. UNCHANGED tracking /\ disturbed \subseteq disturbed'
    BY <1>2
  <2> QED
    BY <1>2, <1>4, <2>1, <2>2, OwnLocal
<1> QED
  BY <1>3, <1>4 DEF FindOrCreatePr

\* The runner merges and goes on to what it supersedes.
LEMMA MergedKeeps ==
  ASSUME Inv, NEW d \in Dispatches, Mergeable(d, Here(d), HeadOf(d)),
         work[d].pc \in {"merge", "merge again"},
         ServerMerges(d, Here(d)), Goto(d, "supersede"),
         UNCHANGED <<tracking, row, sweep, disturbed>>
  PROVE  Inv'
<1> PICK h, sha : h = Here(d) /\ sha = HeadOf(d)
  OBVIOUS
<1>1. /\ work[d].pc \in Landings /\ h \in Repos /\ row'[d] = row[d]
      /\ h \notin work[d].dirty /\ ~Told(d) /\ "supersede" \in Landings \ {"inspect"}
  BY RunnerFacts DEF Landings
<1>2. Mergeable(d, h, sha) /\ ServerMerges(d, h)
  OBVIOUS
<1>3. /\ Grows /\ Done(d, h)'
      /\ \A q \in Repos : q # h => (Landed(d, q)' <=> Landed(d, q))
  BY <1>1, <1>2, MergeFacts
<1>4. Told(d)' => h = Primary(d)
  <2>1. SUFFICES ASSUME Told(d)', h # Primary(d) PROVE FALSE
    OBVIOUS
  <2>2. Primary(d) \in Repos /\ Primary(d)' = Primary(d)
    BY WhereFacts DEF Primary
  <2>3. Landed(d, Primary(d))' /\ ~Excused(d)
    BY <2>1 DEF Told, Excused, QuietSidecar
  <2>4. Landed(d, Primary(d))
    BY <1>3, <2>1, <2>2, <2>3 DEF Landed
  <2> QED
    BY <1>1, <2>3, <2>4 DEF Told
<1>5. /\ RunnerOK(d)' /\ TellOK(d)' /\ work' \in [Dispatches -> Runner]
      /\ \A u \in Dispatches \ {d} : work'[u] = work[u]
  BY <1>1, <1>3, <1>4, GoesOn
<1> QED
  BY <1>1, <1>2, <1>5, MergeKeeps

LEMMA UpdateStep ==
  ASSUME Typed, NEW d \in Dispatches, NEW y \in Runner, work' = [work EXCEPT ![d] = y]
  PROVE  /\ work' \in [Dispatches -> Runner] /\ work'[d] = y
         /\ \A u \in Dispatches \ {d} : work'[u] = work[u]
BY DEF Typed

\* Another try, or another list of what is superseded, or another pull request off it:
\* nothing changes that RunnerOK or TellOK speak of.
LEMMA StillThere ==
  ASSUME Inv, NEW d \in Dispatches, NEW w, NEW y \in Runner, work[d] = w,
         work' = [work EXCEPT ![d] = y],
         w.pc \in Landings \ {"inspect", "pr"}, Grows,
         row'[d] = row[d], disturbed \subseteq disturbed',
         \/ y.pc = w.pc
         \/ y.pc = "close" /\ w.pc = "supersede",
         y.repo = w.repo, y.head = w.head, y.ran = w.ran, y.dirty = w.dirty,
         Told(d)' => w.pc \in {"supersede", "close"} /\ Told(d)
  PROVE  /\ RunnerOK(d)' /\ TellOK(d)' /\ work' \in [Dispatches -> Runner]
         /\ \A u \in Dispatches \ {d} : work'[u] = work[u]
<1>1. /\ RunnerOK(d) /\ TellOK(d) /\ Here(d) \in Repos /\ Typed /\ w.repo \notin w.dirty
      /\ \A r \in Repos : Fits(base[r], d, r, w.head[r])
  BY RunnerFacts DEF Inv, At, Here, Landings
<1>2. /\ work' \in [Dispatches -> Runner] /\ work'[d] = y
      /\ \A u \in Dispatches \ {d} : work'[u] = work[u]
  BY <1>1, UpdateStep
<1>3. y.pc \in Landings \ {"inspect", "pr"}
  BY DEF Landings
<1>4. y.pc \in {"supersede", "close"} => Done(d, w.repo)'
  <2>1. y.pc \in {"supersede", "close"} => Done(d, w.repo)
    BY <1>1 DEF RunnerOK, Here
  <2> QED
    BY <1>1, <2>1, GrowsKeeps DEF Here
<1>5. \A r \in Repos : Fits(base'[r], d, r, y.head[r])
  BY <1>1, GrowsKeeps
<1>6. RunnerOK(d)' /\ TellOK(d)'
  BY <1>1, <1>2, <1>3, <1>4, <1>5, StayKeeps
<1> QED
  BY <1>2, <1>6

LEMMA TriesStep ==
  ASSUME Typed, NEW d \in Dispatches, NEW w, work[d] = w,
         work' = [work EXCEPT ![d].tries = @ + 1]
  PROVE  \E y \in Runner : /\ work' = [work EXCEPT ![d] = y] /\ y.pc = w.pc
                           /\ y.repo = w.repo /\ y.head = w.head /\ y.ran = w.ran
                           /\ y.dirty = w.dirty
<1>1. w \in Runner
  BY DEF Typed
<1> DEFINE y == [w EXCEPT !.tries = w.tries + 1]
<1>2. work' = [work EXCEPT ![d] = y]
  OBVIOUS
<1>3. w.tries + 1 \in Nat
  BY <1>1 DEF Runner
<1>4. /\ y \in Runner /\ y.pc = w.pc /\ y.repo = w.repo /\ y.head = w.head
      /\ y.ran = w.ran /\ y.dirty = w.dirty
  BY <1>1, <1>3 DEF Runner
<1> QED
  BY <1>2, <1>4

LEMMA MergeKeepsInv ==
  ASSUME Inv, NEW d \in Dispatches,
         Merge(d) \/ MergeTryLater(d) \/ MergeConflicts(d) \/ MergeRefused(d)
  PROVE  Inv'
<1> PICK h, w : h = Here(d) /\ work[d] = w
  OBVIOUS
<1>1. /\ w.pc = "merge" /\ w.pc \in Landings \ {"inspect", "pr"} /\ work[d].pc \in Landings
      /\ h \in Repos /\ h \notin work[d].dirty /\ ~Told(d) /\ "rebase" \in Landings \ {"inspect"}
  BY RunnerFacts DEF Merge, MergeTryLater, MergeConflicts, MergeRefused, At, Landings
<1>2. CASE Merge(d)
  BY <1>1, <1>2, MergedKeeps DEF Merge
<1>3. CASE MergeTryLater(d) \/ MergeConflicts(d) \/ MergeRefused(d)
  <2>1. /\ UNCHANGED <<base, tracking, branch, pr, row, sweep, disturbed>>
        /\ Grows /\ ~Told(d)' /\ row'[d] = row[d]
    BY <1>1, <1>3, GrowsSame, ToldSame
       DEF MergeTryLater, MergeConflicts, MergeRefused, Local
  <2>2. /\ RunnerOK(d)' /\ TellOK(d)' /\ work' \in [Dispatches -> Runner]
        /\ \A u \in Dispatches \ {d} : work'[u] = work[u]
    <3>1. CASE Goto(d, "rebase")
      BY <1>1, <2>1, <3>1, GoesOn
    <3>2. CASE Conclude(d, "failure")
      BY <1>1, <2>1, <3>2, ConcludeFails
    <3>3. CASE work' = [work EXCEPT ![d].tries = @ + 1]
      <4>1. PICK y \in Runner : /\ work' = [work EXCEPT ![d] = y] /\ y.pc = w.pc
                                /\ y.repo = w.repo /\ y.head = w.head /\ y.ran = w.ran
                                /\ y.dirty = w.dirty
        <5>1. Typed /\ work[d] = w
          BY DEF Inv
        <5> QED
          BY <3>3, <5>1, TriesStep
      <4> QED
        BY <1>1, <2>1, <4>1, StillThere
    <3> QED
      BY <1>3, <3>1, <3>2, <3>3 DEF MergeTryLater, MergeConflicts, MergeRefused
  <2> QED
    BY <2>1, <2>2, OwnLocal
<1> QED
  BY <1>2, <1>3

LEMMA RebaseKeeps ==
  ASSUME Inv, NEW d \in Dispatches, Rebase(d)
  PROVE  Inv'
<1> PICK h, w : h = Here(d) /\ work[d] = w
  OBVIOUS
<1>1. /\ work[d].pc = "rebase" /\ work[d].pc \in Landings /\ h \in Repos
      /\ h \notin work[d].dirty /\ ~Told(d) /\ RunnerOK(d) /\ TellOK(d)
      /\ Typed /\ w.repo = h /\ w \in Runner /\ base[h] \in History /\ d \in Entries
      /\ \A r \in Repos : Fits(base[r], d, r, w.head[r])
  BY RunnerFacts DEF Rebase, At, Landings, Inv, Typed, Here, Entries
<1>2. /\ UNCHANGED <<base, tracking, branch, pr, row, sweep, disturbed>>
      /\ Grows /\ ~Told(d)' /\ row'[d] = row[d]
  BY <1>1, GrowsSame, ToldSame DEF Rebase, Local
<1>3. /\ RunnerOK(d)' /\ TellOK(d)' /\ work' \in [Dispatches -> Runner]
      /\ \A u \in Dispatches \ {d} : work'[u] = work[u]
  <2>1. CASE Conclude(d, "blocked")
    BY <1>1, <1>2, <2>1, ConcludeFails
  <2>2. CASE ~Conclude(d, "blocked")
    <3> DEFINE new == IF Landed(d, h) \/ h \notin Changed[d]
                      THEN base[h] ELSE Append(base[h], d)
    <3>1. Fits(base[h], d, h, new)
      <4>1. CASE Landed(d, h) \/ h \notin Changed[d]
        BY <1>1, <4>1, LandedIsIn DEF Fits
      <4>2. CASE ~(Landed(d, h) \/ h \notin Changed[d])
        <5>1. Append(base[h], d) \in History /\ ToSet(Append(base[h], d)) = ToSet(base[h]) \cup {d}
          BY <1>1, HistorySet DEF History
        <5> QED
          BY <4>2, <5>1 DEF Fits
      <4> QED
        BY <4>1, <4>2
    <3> PICK n : n = new
      OBVIOUS
    <3>2. n \in History /\ w.head \in [Repos -> History] /\ w.head[h] \in History
      BY <1>1, <3>1 DEF Fits, Runner
    <3> DEFINE heads == [w.head EXCEPT ![h] = n]
               y == [w EXCEPT !.pc = "force push", !.lease = w.head[h], !.head = heads]
    <3>3. work' = [work EXCEPT ![d] = y]
      BY <2>2 DEF Rebase, HeadOf
    <3>4. heads \in [Repos -> History] /\ \A r \in Repos : Fits(base[r], d, r, heads[r])
      BY <1>1, <3>1, <3>2
    <3> HIDE DEF heads, new
    <3>5. /\ y \in Runner /\ y.pc = "force push" /\ y.repo = h /\ y.head = heads
          /\ y.ran = w.ran /\ y.dirty = w.dirty
      BY <1>1, <3>2, <3>4 DEF Runner, Places, Landings
    <3> PICK z : z = y
      OBVIOUS
    <3> HIDE DEF y
    <3>6. /\ work' \in [Dispatches -> Runner] /\ work'[d] = z
          /\ \A u \in Dispatches \ {d} : work'[u] = work[u]
      BY <1>1, <3>3, <3>5, UpdateStep
    <3>7. /\ z.pc \in Landings \ {"inspect"} /\ z.pc \notin {"pr", "supersede", "close"}
          /\ w.pc \in Landings /\ w.repo \notin w.dirty
      BY <1>1, <3>5 DEF Landings
    <3>8. \A r \in Repos : Fits(base'[r], d, r, z.head[r])
      BY <1>2, <3>4, <3>5
    <3>9. RunnerOK(d)' /\ TellOK(d)'
      BY <1>1, <1>2, <3>5, <3>6, <3>7, <3>8, StayKeeps
    <3> QED
      BY <3>6, <3>9
  <2> QED
    BY <2>1, <2>2
<1> QED
  BY <1>2, <1>3, OwnLocal

LEMMA ForcePushKeeps ==
  ASSUME Inv, NEW d \in Dispatches, ForcePush(d)
  PROVE  Inv'
<1> PICK h : h = Here(d)
  OBVIOUS
<1>1. /\ work[d].pc = "force push" /\ work[d].pc \in Landings /\ h \in Repos
      /\ row'[d] = row[d] /\ h \notin work[d].dirty /\ ~Told(d)
      /\ "merge again" \in Landings \ {"inspect"} /\ Fits(base[h], d, h, HeadOf(d))
  BY RunnerFacts DEF ForcePush, At, Landings, HeadOf
<1>2. /\ UNCHANGED <<base, tracking, pr, row, sweep, disturbed>>
      /\ Grows /\ ~Told(d)'
  BY <1>1, GrowsSame, ToldSame DEF ForcePush
<1>3. CASE branch[d][h] = work[d].lease
  <2>1. branch' = [branch EXCEPT ![d][h] = HeadOf(d)] /\ Goto(d, "merge again")
    BY <1>3 DEF ForcePush
  <2>2. /\ RunnerOK(d)' /\ TellOK(d)' /\ work' \in [Dispatches -> Runner]
        /\ \A u \in Dispatches \ {d} : work'[u] = work[u]
    BY <1>1, <1>2, <2>1, GoesOn
  <2> QED
    BY <1>1, <1>2, <2>1, <2>2, PushKeeps
<1>4. CASE branch[d][h] # work[d].lease
  <2>1. Conclude(d, "failure") /\ UNCHANGED branch
    BY <1>4 DEF ForcePush
  <2>2. /\ RunnerOK(d)' /\ TellOK(d)' /\ work' \in [Dispatches -> Runner]
        /\ \A u \in Dispatches \ {d} : work'[u] = work[u]
    BY <1>1, <1>2, <2>1, ConcludeFails
  <2> QED
    BY <1>2, <2>1, <2>2, OwnLocal
<1> QED
  BY <1>3, <1>4

LEMMA MergeAgainKeeps ==
  ASSUME Inv, NEW d \in Dispatches, MergeAgain(d)
  PROVE  Inv'
<1> PICK h : h = Here(d)
  OBVIOUS
<1>1. /\ work[d].pc = "merge again" /\ work[d].pc \in Landings /\ ~Told(d)
  BY RunnerFacts DEF MergeAgain, At, Landings
<1>2. CASE /\ Mergeable(d, Here(d), HeadOf(d)) /\ ServerMerges(d, Here(d))
           /\ Goto(d, "supersede")
  BY <1>1, <1>2, MergedKeeps DEF MergeAgain
<1>3. CASE Conclude(d, "blocked") /\ UNCHANGED <<base, tracking, branch, pr>>
  <2>1. /\ UNCHANGED <<base, tracking, branch, pr, row, sweep, disturbed>>
        /\ Grows /\ ~Told(d)' /\ row'[d] = row[d]
    BY <1>1, <1>3, GrowsSame, ToldSame DEF MergeAgain
  <2>2. /\ RunnerOK(d)' /\ TellOK(d)' /\ work' \in [Dispatches -> Runner]
        /\ \A u \in Dispatches \ {d} : work'[u] = work[u]
    BY <1>1, <1>3, <2>1, ConcludeFails
  <2> QED
    BY <2>1, <2>2, OwnLocal
<1> QED
  BY <1>2, <1>3 DEF MergeAgain

LEMMA SupersedeKeeps ==
  ASSUME Inv, NEW d \in Dispatches, ListSuperseded(d)
  PROVE  Inv'
<1> PICK w : work[d] = w
  OBVIOUS
<1> DEFINE them == {other \in Dispatches \ {d} :
                      pr[other][Here(d)] = "open" /\ issue_identity_matches_pr(d, other)}
           y == [w EXCEPT !.pc = "close", !.closing = them]
<1>1. /\ w.pc = "supersede" /\ work[d].pc \in Landings /\ w.pc \in Landings \ {"inspect", "pr"}
      /\ w \in Runner /\ them \in SUBSET Dispatches /\ work' = [work EXCEPT ![d] = y]
  BY DEF ListSuperseded, At, Landings, Inv, Typed
<1>2. /\ UNCHANGED <<base, tracking, branch, pr, row, sweep, disturbed>>
      /\ Grows /\ (Told(d)' <=> Told(d)) /\ row'[d] = row[d]
  BY GrowsSame, ToldSame DEF ListSuperseded, Local
<1> HIDE DEF them
<1>3. /\ y \in Runner /\ y.pc = "close" /\ y.repo = w.repo /\ y.head = w.head
      /\ y.ran = w.ran /\ y.dirty = w.dirty
  BY <1>1 DEF Runner, Places, Landings
<1> HIDE DEF y
<1>4. /\ RunnerOK(d)' /\ TellOK(d)' /\ work' \in [Dispatches -> Runner]
      /\ \A u \in Dispatches \ {d} : work'[u] = work[u]
  BY <1>1, <1>2, <1>3, StillThere
<1> QED
  BY <1>2, <1>4, OwnLocal

LEMMA CloseSupersededKeeps ==
  ASSUME Inv, NEW d \in Dispatches, CloseSuperseded(d)
  PROVE  Inv'
<1> PICK h, w : h = Here(d) /\ work[d] = w
  OBVIOUS
<1>1. /\ w.pc = "close" /\ work[d].pc \in Landings /\ w.pc \in Landings \ {"inspect", "pr"}
      /\ h \in Repos /\ h \notin work[d].dirty /\ w \in Runner /\ RunnerOK(d)
      /\ Done(d, h)
  BY RunnerFacts DEF CloseSuperseded, At, Landings, Inv, Typed, RunnerOK
<1>2. /\ UNCHANGED <<base, tracking, branch, row, sweep, disturbed>>
      /\ Grows /\ (Told(d)' <=> Told(d)) /\ row'[d] = row[d]
  BY GrowsSame, ToldSame DEF CloseSuperseded
<1>3. CASE w.closing = {}
  <2>1. Conclude(d, "success") /\ UNCHANGED pr
    BY <1>3 DEF CloseSuperseded
  <2>2. /\ RunnerOK(d)' /\ TellOK(d)' /\ work' \in [Dispatches -> Runner]
        /\ \A u \in Dispatches \ {d} : work'[u] = work[u]
    BY <1>1, <1>2, <2>1, ConcludeSucceeds
  <2> QED
    BY <1>2, <2>1, <2>2, OwnLocal
<1>4. CASE w.closing # {}
  <2>1. PICK other \in w.closing :
          /\ work' = [work EXCEPT ![d].closing = @ \ {other}]
          /\ pr' = [pr EXCEPT ![other][h] = IF @ = "open" THEN "closed" ELSE @]
    BY <1>4 DEF CloseSuperseded
  <2> DEFINE y == [w EXCEPT !.closing = w.closing \ {other}]
  <2>2. work' = [work EXCEPT ![d] = y] /\ w.closing \in SUBSET Dispatches
    BY <1>1, <2>1 DEF Runner
  <2>3. /\ y \in Runner /\ y.pc = w.pc /\ y.repo = w.repo /\ y.head = w.head
        /\ y.ran = w.ran /\ y.dirty = w.dirty
    BY <1>1, <2>2 DEF Runner
  <2> HIDE DEF y
  <2>4. /\ RunnerOK(d)' /\ TellOK(d)' /\ work' \in [Dispatches -> Runner]
        /\ \A u \in Dispatches \ {d} : work'[u] = work[u]
    BY <1>1, <1>2, <2>2, <2>3, StillThere
  <2> PICK v : v = IF pr[other][h] = "open" THEN "closed" ELSE pr[other][h]
    OBVIOUS
  <2>5. pr' = [pr EXCEPT ![other][h] = v] /\ other \in Dispatches
    BY <2>1, <2>2
  <2>6. /\ v \in {"none", "open", "merged", "closed"}
        /\ v = "merged" <=> pr[other][h] = "merged"
        /\ v = "none" <=> pr[other][h] = "none"
        /\ v # "open"
    BY <1>1, <2>5 DEF Inv, Typed
  <2> QED
    BY <1>1, <1>2, <2>4, <2>5, <2>6, PrKeeps
<1> QED
  BY <1>3, <1>4

LEMMA RecordKeeps ==
  ASSUME Inv, NEW d \in Dispatches, Record(d)
  PROVE  Inv'
<1> PICK w, x, s : work[d] = w /\ work'[d] = x /\ s = row'[d]
  OBVIOUS
<1>1. /\ w.pc = "record" /\ RunnerOK(d) /\ TellOK(d) /\ Typed /\ RowHeld(d)
      /\ row[d] \notin {"absent", "waiting"}
      /\ "gone" \in Places /\ Where(d) \subseteq Repos /\ Goto(d, "gone")
      /\ w.outcome \in {"success", "blocked", "failure"}
  BY WhereFacts DEF Record, At, Inv, RunnerOK, Typed, Runner, Places
<1>2. /\ work' \in [Dispatches -> Runner] /\ \A u \in Dispatches \ {d} : work'[u] = work[u]
      /\ x.pc = "gone"
  BY <1>1, GotoStep
<1>3. /\ UNCHANGED <<base, tracking, branch, pr, sweep, disturbed>>
      /\ Grows /\ (Told(d)' <=> Told(d)) /\ \A u, r : Landed(u, r)' <=> Landed(u, r)
  BY GrowsSame, ToldSame DEF Record
<1> DEFINE told == CASE w.outcome = "success" -> "completed"
                     [] w.outcome = "blocked" -> "blocked"
                     [] w.outcome = "failure" -> "failed"
<1>4. row' = [row EXCEPT ![d] = IF row[d] \notin InFlight THEN row[d] ELSE told]
  BY DEF Record
<1>5. /\ told \in {"completed", "blocked", "failed"}
      /\ told = "completed" => w.outcome = "success"
      /\ w.outcome = "success" => told = "completed"
  BY <1>1
<1> HIDE DEF told
<1>6. /\ row' \in [Dispatches -> RowStates] /\ \A u \in Dispatches \ {d} : row'[u] = row[u]
      /\ s = IF row[d] \notin InFlight THEN row[d] ELSE told
  BY <1>1, <1>4, <1>5 DEF Typed, RowStates
<1>7. s \notin InFlight \cup {"absent", "waiting"}
  BY <1>1, <1>5, <1>6 DEF InFlight
<1>8. s = "completed" => \A r \in Where(d) : Done(d, r)'
  BY <1>1, <1>3, <1>5, <1>6 DEF RunnerOK, At, Done
<1>9. RunnerOK(d)'
  BY <1>2, <1>7, <1>8 DEF RunnerOK, At, Landings, Where, Primary, Done
<1>10. TellOK(d)'
  <2>1. Told(d)' => row[d] \in InFlight
    BY <1>1, <1>3 DEF RowHeld, Told, Excused
  <2>2. Told(d)' => s = "completed"
    BY <1>1, <1>3, <1>5, <1>6, <2>1 DEF TellOK, Told, At
  <2> QED
    BY <1>7, <2>2 DEF TellOK, Told
<1> QED
  BY <1>2, <1>3, <1>6, <1>9, <1>10, LocalKeeps, SameFacts

\* A runner is launched for a row that is held.
LEMMA LaunchedKeeps ==
  ASSUME Inv, NEW d \in Dispatches, At(d, "idle"), Launched(d),
         UNCHANGED <<base, branch, pr, sweep, disturbed>>,
         row' \in [Dispatches -> RowStates], \A u \in Dispatches \ {d} : row'[u] = row[u],
         RowHeld(d)', row'[d] \notin {"absent", "waiting"},
         row'[d] = "completed" => row[d] = "completed"
  PROVE  Inv'
<1>1. /\ Typed /\ Forge /\ Grows
      /\ (Told(d)' <=> Told(d)) /\ \A u, r : Landed(u, r)' <=> Landed(u, r)
  BY GrowsSame, ToldSame DEF Inv
<1>2. \A r \in Repos : pr[d][r] = "none" /\ ~Landed(d, r)
  BY <1>1 DEF Inv, RunnerOK, Forge
<1>3. /\ Targets(d)[1] \in Where(d) /\ Where(d) \subseteq Repos /\ Primary(d) \in Repos
      /\ Targets(d)[1] = Primary(d) => Where(d) = {Primary(d)}
  BY WhereFacts
<1>4. PICK ran \in BOOLEAN, dirty \in SUBSET MayDirty[d] :
        work' = [work EXCEPT ![d] = [Idle EXCEPT
         !.pc = IF ran THEN "inspect" ELSE "record",
         !.repo = Targets(d)[1], !.ran = ran, !.dirty = dirty,
         !.head = [r \in Repos |-> IF r \in Changed[d] THEN Append(base[r], d) ELSE base[r]]]]
  BY DEF Launched
<1> DEFINE p == IF ran THEN "inspect" ELSE "record"
           first == Targets(d)[1]
           heads == [r \in Repos |-> IF r \in Changed[d] THEN Append(base[r], d) ELSE base[r]]
           y == [Idle EXCEPT !.pc = p, !.repo = first, !.ran = ran, !.dirty = dirty,
                             !.head = heads]
<1>5. heads \in [Repos -> History] /\ \A r \in Repos : Fits(base[r], d, r, heads[r])
  <2> SUFFICES ASSUME NEW r \in Repos
               PROVE  heads[r] \in History /\ Fits(base[r], d, r, heads[r])
    OBVIOUS
  <2>1. base[r] \in Seq(Entries) /\ d \in Entries
    BY <1>1 DEF Typed, History, Entries
  <2>2. /\ Append(base[r], d) \in Seq(Entries)
        /\ ToSet(Append(base[r], d)) = ToSet(base[r]) \cup {d}
    BY <2>1, HistorySet
  <2> QED
    BY <2>1, <2>2 DEF Fits, History
<1>6. dirty \subseteq Repos /\ p \in Places /\ p \in {"inspect", "record"} /\ (p = "inspect" => ran)
  BY LandingConstants DEF LandingConstants, Places, Landings
<1>7. work' = [work EXCEPT ![d] = y]
  BY <1>4
<1> HIDE DEF p, heads, first
<1>8. /\ y \in Runner /\ y.pc = p /\ y.repo = first /\ y.ran = ran /\ y.dirty = dirty
      /\ y.head = heads /\ y.outcome = "failure"
  <2>1. <<>> \in History /\ first \in Repos
    BY <1>3 DEF History, first
  <2> QED
    BY <1>5, <1>6, <2>1 DEF Idle, Runner
<1> PICK z : z = y
  OBVIOUS
<1> HIDE DEF y
<1>9. /\ work' \in [Dispatches -> Runner] /\ work'[d] = z
      /\ \A u \in Dispatches \ {d} : work'[u] = work[u]
  BY <1>1, <1>7, <1>8, UpdateStep
<1>10. RunnerOK(d)'
  <2>1. /\ \A r \in Repos : Fits(base'[r], d, r, z.head[r])
        /\ z.pc \in {"inspect", "record"} /\ z.outcome = "failure"
        /\ z.pc = "inspect" => z.ran
        /\ z.repo \in Where(d) /\ (z.repo = Primary(d) => Where(d) = {Primary(d)})
    BY <1>1, <1>3, <1>5, <1>6, <1>8 DEF first
  <2>2. Where(d)' = Where(d) /\ Primary(d)' = Primary(d)
    BY DEF Where, Primary
  <2>3. row'[d] = "completed" => \A r \in Where(d) : Done(d, r)'
    BY <1>1 DEF Inv, RunnerOK, Done
  <2> QED
    BY <1>9, <2>1, <2>2, <2>3 DEF RunnerOK, At, Here, Landings, Done
<1>11. TellOK(d)'
  <2>1. ~Told(d)'
    BY <1>1, <1>2, <1>3 DEF Told
  <2> QED
    BY <2>1 DEF TellOK, Told
<1>12. /\ tracking' \in [Repos -> History]
       /\ \A r \in Repos : ToSet(tracking'[r]) \subseteq ToSet(base[r])
  BY <1>1 DEF Launched, Typed, Forge
<1> QED
  BY <1>1, <1>9, <1>10, <1>11, <1>12, LocalKeeps

\* A row is reserved, marked as running or taken by a heal.
LEMMA RowKeeps ==
  ASSUME Inv, NEW d \in Dispatches, UNCHANGED <<base, tracking, branch, pr, work, sweep>>,
         disturbed \subseteq disturbed',
         row' \in [Dispatches -> RowStates], \A u \in Dispatches \ {d} : row'[u] = row[u],
         RowHeld(d)', row'[d] \notin {"absent", "waiting", "completed"},
         row'[d] \in InFlight => At(d, "idle") \/ row[d] \in InFlight,
         Told(d)' => Told(d) /\ row[d] \in InFlight /\ row'[d] \in InFlight
  PROVE  Inv'
<1> PICK x : work[d] = x /\ work'[d] = x
  OBVIOUS
<1>1. Typed /\ RunnerOK(d) /\ TellOK(d) /\ Where(d)' = Where(d) /\ Primary(d)' = Primary(d)
  BY DEF Inv, Where, Primary
<1>2. \A u, r : Landed(u, r)' <=> Landed(u, r)
  BY GrowsSame
<1>3. RunnerOK(d)'
  <2>1. x.pc \in Landings \cup {"record"} => \A r \in Repos : Fits(base'[r], d, r, x.head[r])
    BY <1>1 DEF RunnerOK
  <2>2. /\ x.pc \in Landings =>
             /\ x.ran /\ x.repo \in Where(d)
             /\ \A r \in Where(d) \ {x.repo} :
                  x.repo = Primary(d) => Done(d, r)' /\ r \notin x.dirty
        /\ x.pc \in Landings \ {"inspect"} => x.repo \notin x.dirty
        /\ x.pc \in {"supersede", "close"} => Done(d, x.repo)'
        /\ x.pc = "record" /\ x.outcome = "success" => \A r \in Where(d) : Done(d, r)'
    BY <1>1, <1>2 DEF RunnerOK, At, Here, Done
  <2>3. x.pc = "pr" /\ pr'[d][x.repo] = "none" =>
          Fits(base'[x.repo], d, x.repo, branch'[d][x.repo])
    BY <1>1 DEF RunnerOK, At, Here
  <2>4. /\ x.pc = "idle" => \A r \in Repos : pr'[d][r] = "none"
        /\ x.pc = "gone" /\ row'[d] \in InFlight => d \in disturbed'
    BY <1>1 DEF RunnerOK, At
  <2> QED
    BY <1>1, <2>1, <2>2, <2>3, <2>4 DEF RunnerOK, At, Here, Done
<1>4. TellOK(d)'
  <2>1. SUFFICES ASSUME Told(d)'
                 PROVE  /\ row'[d] \notin {"failed", "blocked"}
                        /\ x.pc \in {"inspect", "list", "supersede", "close", "record"}
                        /\ x.pc = "record" => x.outcome = "success"
                        /\ x.ran /\ \A r \in Where(d) : Done(d, r)' /\ r \notin x.dirty
    BY <1>1 DEF TellOK, Told, At, Done
  <2>2. row'[d] \notin {"failed", "blocked"}
    BY <2>1 DEF InFlight
  <2> QED
    BY <1>1, <1>2, <2>1, <2>2 DEF TellOK, Told, At, Done
<1>5. work' \in [Dispatches -> Runner]
  BY <1>1 DEF Typed
<1> QED
  BY <1>3, <1>4, <1>5, LocalKeeps, SameFacts

\* A prompt start; or one that reserves the row first, launches and marks it.
LEMMA StartKeeps ==
  ASSUME Inv, NEW d \in Dispatches,
         Start(d) \/ Reserve(d) \/ Launch(d) \/ MarkRunning(d)
  PROVE  Inv'
<1>1. Typed /\ RunnerOK(d) /\ TellOK(d) /\ Forge /\ Primary(d) \in Repos
  BY WhereFacts DEF Inv
<1>2. At(d, "idle") => ~Landed(d, Primary(d))
  BY <1>1 DEF RunnerOK, Forge
<1>3. CASE Start(d)
  <2>1. /\ row[d] = "waiting" /\ row' = [row EXCEPT ![d] = "running"] /\ Launched(d)
        /\ UNCHANGED <<base, branch, pr, sweep, disturbed>>
    BY <1>3 DEF Start, MayStart
  <2>2. /\ row' \in [Dispatches -> RowStates] /\ row'[d] = "running"
        /\ \A u \in Dispatches \ {d} : row'[u] = row[u]
    BY <1>1, <2>1 DEF Typed, RowStates
  <2> QED
    BY <1>1, <2>1, <2>2, LaunchedKeeps DEF RunnerOK, RowHeld, InFlight
<1>4. CASE Reserve(d)
  <2>1. /\ row[d] = "waiting" /\ row' = [row EXCEPT ![d] = "starting"]
        /\ UNCHANGED <<base, tracking, branch, pr, work, sweep, disturbed>>
    BY <1>4 DEF Reserve, MayStart
  <2>2. /\ row' \in [Dispatches -> RowStates] /\ row'[d] = "starting"
        /\ \A u \in Dispatches \ {d} : row'[u] = row[u]
    BY <1>1, <2>1 DEF Typed, RowStates
  <2>3. At(d, "idle") /\ RowHeld(d)' /\ ~Told(d)'
    BY <1>1, <1>2, <2>1, <2>2, ToldSame DEF RunnerOK, RowHeld, InFlight, Told
  <2> QED
    BY <2>1, <2>2, <2>3, RowKeeps
<1>5. CASE Launch(d)
  <2>1. /\ At(d, "idle") /\ row[d] \notin {"absent", "waiting"} /\ Launched(d)
        /\ UNCHANGED <<base, branch, pr, row, sweep, disturbed>>
    BY <1>5 DEF Launch
  <2>2. row' \in [Dispatches -> RowStates] /\ row'[d] = row[d] /\ RowHeld(d)'
    BY <1>1, <2>1 DEF Typed, RowStates, RunnerOK, RowHeld
  <2> QED
    BY <2>1, <2>2, LaunchedKeeps
<1>6. CASE MarkRunning(d)
  <2>1. /\ row[d] = "starting" /\ row' = [row EXCEPT ![d] = "running"]
        /\ UNCHANGED <<base, tracking, branch, pr, work, sweep, disturbed>>
    BY <1>6 DEF MarkRunning
  <2>2. /\ row' \in [Dispatches -> RowStates] /\ row'[d] = "running"
        /\ \A u \in Dispatches \ {d} : row'[u] = row[u]
    BY <1>1, <2>1 DEF Typed, RowStates
  <2>3. RowHeld(d)' /\ row[d] \in InFlight /\ row'[d] \in InFlight /\ (Told(d)' => Told(d))
    BY <2>1, <2>2, ToldSame DEF RowHeld, InFlight
  <2> QED
    BY <2>1, <2>2, <2>3, RowKeeps
<1> QED
  BY <1>3, <1>4, <1>5, <1>6

LEMMA CallFailsKeeps ==
  ASSUME Inv, NEW d \in Dispatches, CallFails(d)
  PROVE  Inv'
<1> PICK h : h = Here(d)
  OBVIOUS
<1>1. /\ UNCHANGED <<base, tracking, branch, pr, row, sweep>> /\ Grows /\ row'[d] = row[d]
      /\ disturbed \subseteq disturbed' /\ ~Told(d)' /\ work[d].pc \in Landings
  BY GrowsSame, ToldExcused DEF CallFails, Disturb, Landings
<1>2. CASE At(d, "supersede")
  <2>1. Conclude(d, "success") /\ h \notin work[d].dirty /\ Done(d, h)
    BY <1>2, RunnerFacts DEF CallFails, At, Landings, RunnerOK
  <2>2. /\ RunnerOK(d)' /\ TellOK(d)' /\ work' \in [Dispatches -> Runner]
        /\ \A u \in Dispatches \ {d} : work'[u] = work[u]
    BY <1>1, <2>1, ConcludeSucceeds
  <2> QED
    BY <1>1, <2>2, OwnLocal
<1>3. CASE ~At(d, "supersede")
  <2>1. Conclude(d, "failure")
    BY <1>3 DEF CallFails
  <2>2. /\ RunnerOK(d)' /\ TellOK(d)' /\ work' \in [Dispatches -> Runner]
        /\ \A u \in Dispatches \ {d} : work'[u] = work[u]
    BY <1>1, <2>1, ConcludeFails
  <2> QED
    BY <1>1, <2>2, OwnLocal
<1> QED
  BY <1>2, <1>3

\* The runner is gone, or never came, and its dispatch is excused.
LEMMA GoneKeeps ==
  ASSUME Inv, NEW d \in Dispatches, UNCHANGED <<base, tracking, branch, pr, sweep>>,
         disturbed \subseteq disturbed', d \in disturbed',
         row' \in [Dispatches -> RowStates], \A u \in Dispatches \ {d} : row'[u] = row[u],
         row'[d] \in {row[d], "failed"}, row[d] \notin {"absent", "waiting"},
         NEW y \in Runner, work' = [work EXCEPT ![d] = y], y.pc = "gone"
  PROVE  Inv'
<1>1. Typed /\ RunnerOK(d)
  BY DEF Inv
<1>2. /\ work' \in [Dispatches -> Runner] /\ work'[d] = y
      /\ \A u \in Dispatches \ {d} : work'[u] = work[u]
  BY <1>1, UpdateStep
<1>3. ~Told(d)' /\ \A u, r : Landed(u, r)' <=> Landed(u, r)
  BY GrowsSame, ToldExcused
<1>4. RunnerOK(d)'
  <2>1. row'[d] = "completed" => \A r \in Where(d) : Done(d, r)'
    BY <1>1, <1>3 DEF RunnerOK, Done
  <2> QED
    BY <1>2, <2>1 DEF RunnerOK, At, Landings, Where, Primary, Done
<1>5. TellOK(d)'
  BY <1>3 DEF TellOK, Told
<1> QED
  BY <1>2, <1>4, <1>5, LocalKeeps, SameFacts

\* A runner dies, or a slow start fails.
LEMMA CrashKeeps ==
  ASSUME Inv, NEW d \in Dispatches, Crash(d) \/ StartFails(d)
  PROVE  Inv'
<1> PICK w : work[d] = w
  OBVIOUS
<1> DEFINE y == [w EXCEPT !.pc = "gone"]
<1>1. w \in Runner /\ Typed /\ RunnerOK(d)
  BY DEF Inv, Typed
<1>2. /\ work' = [work EXCEPT ![d] = y] /\ d \in disturbed'
      /\ disturbed \subseteq disturbed' /\ UNCHANGED <<base, tracking, branch, pr, sweep>>
  BY DEF Crash, StartFails, Goto, Disturb
<1>3. y \in Runner /\ y.pc = "gone"
  BY <1>1 DEF Runner, Places
<1>4. row[d] \notin {"absent", "waiting"}
  BY <1>1 DEF Crash, StartFails, RunnerOK, At
<1>5. /\ row' \in [Dispatches -> RowStates] /\ row'[d] \in {row[d], "failed"}
      /\ \A u \in Dispatches \ {d} : row'[u] = row[u]
  <2>1. row' = row \/ row' = [row EXCEPT ![d] = IF row[d] = "starting" THEN "failed" ELSE row[d]]
    BY DEF Crash, StartFails
  <2> QED
    BY <1>1, <2>1 DEF Typed, RowStates
<1> HIDE DEF y
<1> QED
  BY <1>2, <1>3, <1>4, <1>5, GoneKeeps

\* The store refuses the record, or its state machine does.
LEMMA RepeatKeeps ==
  ASSUME Inv, NEW d \in Dispatches, RecordFails(d) \/ RecordRejected(d)
  PROVE  Inv'
<1> PICK w : work[d] = w
  OBVIOUS
<1>1. /\ w \in Runner /\ w.pc = "record" /\ Typed /\ RunnerOK(d) /\ TellOK(d)
      /\ UNCHANGED <<base, tracking, branch, pr, row, sweep>> /\ disturbed \subseteq disturbed'
      /\ Grows /\ (\A u, r : Landed(u, r)' <=> Landed(u, r))
      /\ row[d] \notin {"absent", "waiting"} /\ RowHeld(d) /\ Repeat(d)
      /\ \A r \in Repos : Fits(base[r], d, r, w.head[r])
  BY GrowsSame DEF Inv, Typed, RecordFails, RecordRejected, Repeat, At, RunnerOK
<1>2. CASE w.attempt >= MaxAttempts
  <2> DEFINE y == [w EXCEPT !.pc = "gone"]
  <2>1. work' = [work EXCEPT ![d] = y]
    BY <1>1, <1>2 DEF Repeat
  <2>2. d \in disturbed'
    <3>1. ~(w.attempt < MaxAttempts)
      BY <1>1, <1>2, LandingConstants DEF LandingConstants, Runner
    <3> QED
      BY <1>1, <3>1 DEF Repeat
  <2>3. y \in Runner /\ y.pc = "gone"
    BY <1>1 DEF Runner, Places
  <2>4. row' \in [Dispatches -> RowStates] /\ row'[d] = row[d]
    BY <1>1, SameFacts
  <2> HIDE DEF y
  <2> QED
    BY <1>1, <2>1, <2>2, <2>3, <2>4, GoneKeeps
<1>3. CASE ~(w.attempt >= MaxAttempts)
  <2> DEFINE p == IF w.ran THEN "inspect" ELSE "record"
             q == IF w.ran THEN Targets(d)[1] ELSE w.repo
             y == [w EXCEPT !.pc = p, !.repo = q, !.attempt = w.attempt + 1]
  <2>1. work' = [work EXCEPT ![d] = y]
    BY <1>1, <1>3 DEF Repeat, Here
  <2>2. UNCHANGED disturbed
    <3>1. w.attempt < MaxAttempts
      BY <1>1, <1>3, LandingConstants DEF LandingConstants, Runner
    <3> QED
      BY <1>1, <3>1 DEF Repeat
  <2>3. /\ Targets(d)[1] \in Where(d) /\ Where(d) \subseteq Repos
        /\ Targets(d)[1] = Primary(d) => Where(d) = {Primary(d)}
    BY WhereFacts
  <2>4. /\ p \in Places /\ q \in Repos \cup {None} /\ w.attempt + 1 \in Nat
        /\ p \in {"inspect", "record"}
        /\ p = "inspect" => /\ w.ran /\ q \in Where(d)
                            /\ q = Primary(d) => Where(d) = {Primary(d)}
    <3>1. w.repo \in Repos \cup {None} /\ w.attempt + 1 \in Nat
      BY <1>1 DEF Runner
    <3>2. CASE w.ran
      BY <2>3, <3>1, <3>2 DEF Places, Landings
    <3>3. CASE ~w.ran
      BY <3>1, <3>3 DEF Places
    <3> QED
      BY <3>2, <3>3
  <2> HIDE DEF p, q
  <2>5. /\ y \in Runner /\ y.pc = p /\ y.repo = q /\ y.head = w.head /\ y.ran = w.ran
        /\ y.dirty = w.dirty /\ y.outcome = w.outcome
    BY <1>1, <2>4 DEF Runner
  <2> PICK z : z = y
    OBVIOUS
  <2> HIDE DEF y
  <2>6. /\ work' \in [Dispatches -> Runner] /\ work'[d] = z
        /\ \A u \in Dispatches \ {d} : work'[u] = work[u]
    BY <1>1, <2>1, <2>5, UpdateStep
  <2>7. /\ z.pc \in {"inspect", "record"} /\ z.outcome = w.outcome
        /\ z.ran = w.ran /\ z.dirty = w.dirty /\ z.head = w.head
        /\ z.pc = "inspect" => /\ z.ran /\ z.repo \in Where(d)
                               /\ z.repo = Primary(d) => Where(d) = {Primary(d)}
    BY <2>4, <2>5
  <2>8. Where(d)' = Where(d) /\ Primary(d)' = Primary(d)
    BY DEF Where, Primary
  <2>9. RunnerOK(d)'
    <3>1. \A r \in Repos : Fits(base'[r], d, r, z.head[r])
      BY <1>1, <2>7
    <3>2. w.outcome = "success" => \A r \in Where(d) : Done(d, r)'
      BY <1>1, <2>3 DEF RunnerOK, At, Done
    <3> QED
      BY <1>1, <2>6, <2>7, <2>8, <3>1, <3>2 DEF RunnerOK, At, Here, Landings, Done, RowHeld
  <2>10. TellOK(d)'
    <3>1. Told(d)' <=> Told(d)
      BY <1>1, <2>2, ToldSame
    <3>2. Told(d) => /\ w.outcome = "success" /\ w.ran
                     /\ row[d] \in InFlight
                     /\ \A r \in Where(d) : Done(d, r)' /\ r \notin w.dirty
      BY <1>1, <2>3 DEF TellOK, Told, At, Done, RowHeld, Excused
    <3>3. Told(d)' => /\ row'[d] \in InFlight /\ z.ran /\ (z.pc = "record" => z.outcome = "success")
                      /\ \A r \in Where(d) : Done(d, r)' /\ r \notin z.dirty
      BY <1>1, <2>7, <3>1, <3>2
    <3> QED
      BY <1>1, <2>6, <2>7, <2>8, <3>3 DEF TellOK, Told, At, Done, InFlight
  <2> QED
    BY <1>1, <2>6, <2>9, <2>10, OwnLocal
<1> QED
  BY <1>2, <1>3

LEMMA AnswerLostKeeps ==
  ASSUME Inv, NEW d \in Dispatches, MergeAnswerLost(d)
  PROVE  Inv'
<1> PICK h, w, sha : h = Here(d) /\ work[d] = w /\ sha = HeadOf(d)
  OBVIOUS
<1>1. /\ w.pc = "merge" /\ w.pc \in Landings \ {"inspect", "pr"} /\ work[d].pc \in Landings
      /\ h \in Repos
  BY RunnerFacts DEF MergeAnswerLost, At, Landings
<1>2. /\ Mergeable(d, h, sha) /\ ServerMerges(d, h)
      /\ UNCHANGED <<tracking, row, sweep>> /\ row'[d] = row[d]
      /\ disturbed \subseteq disturbed' /\ d \in disturbed' /\ ~Told(d)'
  BY ToldExcused DEF MergeAnswerLost, Disturb
<1>3. Grows
  BY <1>1, <1>2, MergeFacts
<1>4. /\ RunnerOK(d)' /\ TellOK(d)' /\ work' \in [Dispatches -> Runner]
      /\ \A u \in Dispatches \ {d} : work'[u] = work[u]
  <2>1. CASE Conclude(d, "failure")
    BY <1>1, <1>2, <1>3, <2>1, ConcludeFails
  <2>2. CASE work' = [work EXCEPT ![d].tries = @ + 1]
    <3>1. PICK y \in Runner : /\ work' = [work EXCEPT ![d] = y] /\ y.pc = w.pc
                              /\ y.repo = w.repo /\ y.head = w.head /\ y.ran = w.ran
                              /\ y.dirty = w.dirty
      <4>1. Typed /\ work[d] = w
        BY DEF Inv
      <4> QED
        BY <2>2, <4>1, TriesStep
    <3> QED
      BY <1>1, <1>2, <1>3, <3>1, StillThere
  <2> QED
    BY <2>1, <2>2 DEF MergeAnswerLost
<1> QED
  BY <1>1, <1>2, <1>4, MergeKeeps

\* A heal takes the row, whether a runner is there or not.
LEMMA HealKeeps ==
  ASSUME Inv, NEW d \in Dispatches, HealBeforeLaunch(d) \/ HealAtStartup(d)
  PROVE  Inv'
<1>1. /\ row' = [row EXCEPT ![d] = "failed"] /\ disturbed' = disturbed \cup {d} /\ Typed
      /\ UNCHANGED <<base, tracking, branch, pr, work, sweep>>
  BY DEF HealBeforeLaunch, HealAtStartup, Heal, Inv
<1>2. /\ row' \in [Dispatches -> RowStates] /\ row'[d] = "failed"
      /\ \A u \in Dispatches \ {d} : row'[u] = row[u]
  BY <1>1 DEF Typed, RowStates
<1>3. RowHeld(d)' /\ ~Told(d)' /\ row'[d] \notin InFlight
  BY <1>1, <1>2, ToldExcused DEF RowHeld, InFlight
<1> QED
  BY <1>1, <1>2, <1>3, RowKeeps

\* The automerge sweep, which stands beside every runner.
LEMMA SweepKeeps ==
  ASSUME Inv, SweepLists \/ SweepMerges
  PROVE  Inv'
<1>1. CASE SweepLists \/ (SweepMerges /\ UNCHANGED <<base, tracking, branch, pr, disturbed>>)
  <2>1. UNCHANGED <<base, tracking, branch, pr, row, work, disturbed>> /\ Typed /\ Forge
    BY <1>1 DEF SweepLists, SweepMerges, Inv
  <2>2. sweep' # None => sweep'.dispatch \in Dispatches /\ sweep'.repo \in Repos
    BY <1>1 DEF SweepLists, SweepMerges
  <2>3. Typed'
    BY <2>1, <2>2 DEF Typed
  <2>4. Grows /\ \A u, r : Landed(u, r)' <=> Landed(u, r)
    BY <2>1, GrowsSame
  <2>5. Forge'
    BY <2>1, <2>4 DEF Forge, Done
  <2>6. ASSUME NEW u \in Dispatches PROVE RunnerOK(u)' /\ TellOK(u)'
    <3>1. RunnerOK(u) /\ TellOK(u)
      BY DEF Inv
    <3>2. Beside(u)
      BY <2>1, <2>4 DEF Beside, Primary
    <3> QED
      BY <2>4, <3>1, <3>2, BesideKeeps
  <2> QED
    BY <2>3, <2>5, <2>6 DEF Inv
<1>2. CASE SweepMerges /\ ~UNCHANGED <<base, tracking, branch, pr, disturbed>>
  <2> PICK d, r, sha : d = sweep.dispatch /\ r = sweep.repo /\ sha = sweep.sha
    OBVIOUS
  <2>1. d \in Dispatches /\ r \in Repos /\ Typed
    BY <1>2 DEF SweepMerges, Inv, Typed
  <2>2. /\ Mergeable(d, r, sha) /\ ServerMerges(d, r) /\ disturbed' = disturbed \cup {d}
        /\ UNCHANGED <<tracking, row, work>> /\ sweep' = None
    BY <1>2 DEF SweepMerges
  <2>3. work' \in [Dispatches -> Runner]
    BY <2>1, <2>2 DEF Typed
  <2> QED
    BY <2>1, <2>2, <2>3, MergeKeeps
<1> QED
  BY <1>1, <1>2

LEMMA OthersPushKeeps ==
  ASSUME Inv, NEW r \in Repos, OthersPush(r)
  PROVE  Inv'
<1>1. /\ base' = [base EXCEPT ![r] = Append(base[r], None)] /\ Typed /\ Forge
      /\ UNCHANGED <<tracking, branch, pr, row, work, sweep, disturbed>>
  BY DEF OthersPush, Inv
<1>2. base[r] \in Seq(Entries) /\ None \in Entries /\ None \notin Dispatches
  BY <1>1, LandingConstants DEF Typed, History, Entries, LandingConstants
<1>3. Append(base[r], None) \in History /\ ToSet(Append(base[r], None)) = ToSet(base[r]) \cup {None}
  BY <1>2, HistorySet DEF History
<1>4. /\ base' \in [Repos -> History] /\ base'[r] = Append(base[r], None)
      /\ \A q \in Repos \ {r} : base'[q] = base[q]
  BY <1>1, <1>3 DEF Typed
<1>5. Grows
  BY <1>3, <1>4 DEF Grows
<1>6. \A u \in Dispatches, q \in Repos : Landed(u, q)' <=> Landed(u, q)
  <2> TAKE u \in Dispatches, q \in Repos
  <2>1. Landed(u, q)' <=> u \in ToSet(base'[q])
    BY DEF Landed, ToSet
  <2>2. u \in ToSet(base'[q]) <=> u \in ToSet(base[q])
    BY <1>2, <1>3, <1>4
  <2> QED
    BY <2>1, <2>2, LandedIsIn
<1>7. Typed'
  BY <1>1, <1>4 DEF Typed
<1>8. Forge'
  <2>1. \A q \in Repos : ToSet(tracking'[q]) \subseteq ToSet(base'[q])
    BY <1>1, <1>5 DEF Forge, Grows
  <2>2. ASSUME NEW u \in Dispatches, NEW q \in Repos
        PROVE  /\ Landed(u, q)' => pr'[u][q] = "merged"
               /\ pr'[u][q] = "merged" => Done(u, q)'
               /\ pr'[u][q] = "open" => Fits(base'[q], u, q, branch'[u][q])
    <3>1. /\ Landed(u, q) => pr[u][q] = "merged"
          /\ pr[u][q] = "merged" => Done(u, q)
          /\ pr[u][q] = "open" => Fits(base[q], u, q, branch[u][q])
      BY <1>1 DEF Forge
    <3>2. /\ Done(u, q) => Done(u, q)'
          /\ \A g : Fits(base[q], u, q, g) => Fits(base'[q], u, q, g)
      BY <1>5, GrowsKeeps
    <3> QED
      BY <1>1, <1>6, <3>1, <3>2
  <2> QED
    BY <2>1, <2>2 DEF Forge
<1>9. ASSUME NEW u \in Dispatches PROVE RunnerOK(u)' /\ TellOK(u)'
  <2>1. RunnerOK(u) /\ TellOK(u) /\ Primary(u) \in Repos
    BY WhereFacts DEF Inv
  <2>2. Landed(u, Primary(u))' => Landed(u, Primary(u))
    BY <1>6, <2>1 DEF Landed, Primary
  <2>3. Beside(u)
    BY <1>1, <2>2 DEF Beside
  <2> QED
    BY <1>5, <2>1, <2>3, BesideKeeps
<1> QED
  BY <1>7, <1>8, <1>9 DEF Inv

-----------------------------------------------------------------------------
(* The invariant, and what it says.                                        *)

LEMMA InitInv == Init => Inv
<1> SUFFICES ASSUME Init PROVE Inv
  OBVIOUS
<1>1. <<>> \in History /\ ToSet(<<>>) = {} /\ DOMAIN <<>> = {}
  BY DEF History, ToSet
<1>2. base = [r \in Repos |-> <<>>] /\ tracking = base
  BY DEF Init
<1>3. Idle \in Runner
  BY <1>1, <1>2 DEF Idle, Runner, Places
<1>4. Typed
  BY <1>1, <1>2, <1>3 DEF Init, Typed
<1>5. \A d, r : r \in Repos => ~Landed(d, r)
  BY <1>1, <1>2 DEF Landed
<1>6. Forge
  BY <1>2, <1>5 DEF Forge, Init
<1>7. ASSUME NEW d \in Dispatches PROVE RunnerOK(d) /\ TellOK(d)
  <2>1. /\ work[d].pc = "idle" /\ row[d] \in {"absent", "waiting"}
        /\ \A r \in Repos : pr[d][r] = "none"
    BY DEF Init, Idle
  <2>2. ~Landed(d, Primary(d))
    BY <1>5, WhereFacts
  <2> QED
    BY <2>1, <2>2 DEF RunnerOK, TellOK, At, Landings
<1> QED
  BY <1>4, <1>6, <1>7 DEF Inv

LEMMA NextInv == Inv /\ [Next]_vars => Inv'
<1> SUFFICES ASSUME Inv, [Next]_vars PROVE Inv'
  OBVIOUS
<1>1. CASE UNCHANGED vars
  <2>1. /\ UNCHANGED <<base, tracking, branch, pr, row, work, sweep, disturbed>>
        /\ Grows /\ \A u, r : Landed(u, r)' <=> Landed(u, r)
    BY <1>1, GrowsSame DEF vars
  <2>2. Typed' /\ Forge'
    BY <2>1 DEF Inv, Typed, Forge, Done
  <2>3. ASSUME NEW u \in Dispatches PROVE RunnerOK(u)' /\ TellOK(u)'
    <3>1. RunnerOK(u) /\ TellOK(u)
      BY DEF Inv
    <3>2. Beside(u)
      BY <2>1 DEF Beside, Primary
    <3> QED
      BY <2>1, <3>1, <3>2, BesideKeeps
  <2> QED
    BY <2>2, <2>3 DEF Inv
<1>2. ASSUME NEW d \in Dispatches,
             Start(d) \/ Reserve(d) \/ Launch(d) \/ MarkRunning(d) \/ Land(d)
      PROVE  Inv'
  <2>1. CASE Start(d) \/ Reserve(d) \/ Launch(d) \/ MarkRunning(d)
    BY <2>1, StartKeeps
  <2>2. CASE Land(d)
    BY <2>2, InspectKeeps, ListPrsKeeps, PushActionKeeps, FindOrCreatePrKeeps, MergeKeepsInv,
       RebaseKeeps, ForcePushKeeps, MergeAgainKeeps, SupersedeKeeps, CloseSupersededKeeps,
       RecordKeeps, RepeatKeeps DEF Land
  <2> QED
    BY <1>2, <2>1, <2>2
<1>3. ASSUME NEW d \in Dispatches,
             \/ CallFails(d) \/ RecordFails(d) \/ MergeAnswerLost(d) \/ Crash(d)
             \/ StartFails(d) \/ HealBeforeLaunch(d) \/ HealAtStartup(d)
      PROVE  Inv'
  BY <1>3, CallFailsKeeps, RepeatKeeps, AnswerLostKeeps, CrashKeeps, HealKeeps
<1>4. CASE SweepLists \/ SweepMerges
  BY <1>4, SweepKeeps
<1>5. ASSUME NEW r \in Repos, OthersPush(r) PROVE Inv'
  BY <1>5, OthersPushKeeps
<1> QED
  BY <1>1, <1>2, <1>3, <1>4, <1>5 DEF Next

\* A landing keeps histories, runners, branches and pull requests agreeing, whatever
\* calls fail, answers are lost, runners die or other people push (finalize.rs).
THEOREM LandingHolds == Spec => []Inv
BY InitInv, NextInv, PTL DEF Spec

\* A completed dispatch has landed everything it committed, in its sidecar and in its
\* own repository (finalize_run, land_target).
THEOREM CompletionHasLanded == Spec => []CompletedIsLanded
<1>1. Inv => CompletedIsLanded
  <2> SUFFICES ASSUME Inv, NEW d \in Dispatches, row[d] = "completed",
                      NEW n \in DOMAIN Targets(d), Targets(d)[n] \in Changed[d]
               PROVE  Landed(d, Targets(d)[n])
    BY DEF CompletedIsLanded
  <2>1. \A r \in Where(d) : Done(d, r)
    BY DEF Inv, RunnerOK
  <2>2. Targets(d)[n] \in Where(d)
    BY WhereFacts
  <2> QED
    BY <2>1, <2>2 DEF Done
<1> QED
  BY <1>1, LandingHolds, PTL

\* A failed or blocked dispatch has not landed in its own repository, unless a call
\* failed, its runner died, a heal took its row (of a runner that still lands, if the
\* start was slow), the sweep merged it or its sidecar is quiet: a refused record is
\* repeated until it says what happened (finalize_with_retries).
THEOREM FailureHasNotLanded == Spec => []FailureIsTold
<1>1. Inv => FailureIsTold
  BY DEF Inv, FailureIsTold, TellOK, Excused
<1> QED
  BY <1>1, LandingHolds, PTL
===============================================================================
