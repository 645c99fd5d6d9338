-------------------------------- MODULE Landing --------------------------------
(***************************************************************************)
(* The landing of finished impl dispatches (finalize.rs): a runner pushes  *)
(* its branch, opens a pull request, merges it fast-forward only, rebases  *)
(* once when that is refused, closes the pull requests it supersedes and   *)
(* only then records the dispatch's terminal state; run_dispatch.rs runs   *)
(* all of it again when the store refuses the record.  Next to it work the *)
(* runners of other dispatches, orchd's automerge sweep (server.rs), the   *)
(* heals of stale rows (dispatch.rs) and people who push.  git and Forgejo *)
(* are modelled from how this code uses them: a history is a sequence of   *)
(* changes.                                                                *)
(***************************************************************************)
EXTENDS Naturals, FiniteSets, SequencesExt

CONSTANTS
  Dispatches, Repos, None,
  IssueOf,      \* dispatch -> [repo, number]
  SidecarOf,    \* dispatch -> its sidecar repository, or None
  Changed,      \* dispatch -> the repositories it commits a change to
  MayDirty,     \* dispatch -> where it may leave uncommitted changes
  Meetings,     \* what may meet: [dispatches, pushes, faults, sweeps, slow], the last
                \* four bounds: changes other people push to a base branch; lost answers,
                \* failed calls and crashes; pull requests the automerge sweep takes up;
                \* starts that take 120 s, or whose runner ends before it is marked
  MaxAttempts,  \* finalize_with_retries: max_attempts
  MaxTries      \* merge_ff_only_with_retry: MAX_ATTEMPTS

ASSUME LandingConstants ==
  /\ None \notin Repos \cup Dispatches
  /\ \A d \in Dispatches :
       /\ IssueOf[d].repo \in Repos /\ SidecarOf[d] \in Repos \cup {None}
       /\ SidecarOf[d] # IssueOf[d].repo
       /\ Changed[d] \subseteq Repos /\ MayDirty[d] \subseteq Repos
  /\ \A m \in Meetings :
       m.dispatches \subseteq Dispatches /\ {m.pushes, m.faults, m.sweeps, m.slow} \subseteq Nat
  /\ MaxAttempts \in Nat \ {0} /\ MaxTries \in Nat \ {0}

VARIABLES
  base,       \* repository -> its base branch
  tracking,   \* repository -> the base as the role's checkout last fetched it
  branch,     \* dispatch, repository -> the branch pushed, or None
  pr,         \* dispatch, repository -> none, open, merged or closed
  row,        \* dispatch -> its state in the store
  work,       \* dispatch -> its runner
  sweep,      \* the pull request the automerge sweep has listed, or None
  disturbed,  \* dispatches with a failed call or a dead runner, healed, or merged by
              \* the sweep
  budget      \* what is left of the bounds

vars == <<base, tracking, branch, pr, row, work, sweep, disturbed, budget>>

Primary(d) == IssueOf[d].repo
Here(d) == work[d].repo
HeadOf(d) == work[d].head[Here(d)]

\* The repositories a dispatch lands in, in order: the sidecar comes first.
Targets(d) ==
  IF SidecarOf[d] = None THEN <<Primary(d)>> ELSE <<SidecarOf[d], Primary(d)>>

Landed(d, repo) == \E n \in DOMAIN base[repo] : base[repo][n] = d

\* A runner: where it is, the repository it lands in, its worktrees' heads, the head
\* its lease names, whether its agent's run completed, what it left uncommitted.
Idle == [pc |-> "idle", repo |-> None, head |-> base, lease |-> <<>>, ran |-> FALSE, dirty |-> {},
         attempt |-> 1, tries |-> 1, closing |-> {}, outcome |-> "failure"]

Init ==
  /\ base = [r \in Repos |-> <<>>] /\ tracking = base
  /\ branch = [d \in Dispatches |-> [r \in Repos |-> None]]
  /\ pr = [d \in Dispatches |-> [r \in Repos |-> "none"]]
  /\ \E m \in Meetings :
       /\ row = [d \in Dispatches |-> IF d \in m.dispatches THEN "waiting" ELSE "absent"]
       /\ budget = [pushes |-> m.pushes, faults |-> m.faults, sweeps |-> m.sweeps,
                    slow |-> m.slow]
  /\ work = [d \in Dispatches |-> Idle]
  /\ sweep = None /\ disturbed = {}

At(d, pc) == work[d].pc = pc
Goto(d, pc) == work' = [work EXCEPT ![d].pc = pc]
Local == UNCHANGED <<base, tracking, branch, pr, row, sweep, disturbed, budget>>

\* A landing target is evaluated: a sidecar that is not a success decides.
Conclude(d, outcome) ==
  work' = [work EXCEPT ![d] = [@ EXCEPT
    !.pc = IF outcome = "success" /\ Here(d) # Last(Targets(d)) THEN "inspect" ELSE "record",
    !.repo = IF outcome = "success" THEN Last(Targets(d)) ELSE Here(d),
    !.tries = 1, !.closing = {},
    !.outcome = outcome]]

-----------------------------------------------------------------------------
InFlight == {"starting", "running"}

\* A dispatch of an issue is reserved when none of the issue's is in flight.
MayStart(d) ==
  /\ row[d] = "waiting"
  /\ \A other \in Dispatches : IssueOf[other] = IssueOf[d] => row[other] \notin InFlight

\* The agent works on fresh worktrees of the role's checkout, which is fetched for it.
\* Only a run that completed is landed.
Launched(d) ==
  /\ tracking' = [r \in Repos |-> IF \E n \in DOMAIN Targets(d) : Targets(d)[n] = r
                                 THEN base[r] ELSE tracking[r]]
  /\ \E ran \in BOOLEAN, dirty \in SUBSET MayDirty[d] :
       work' = [work EXCEPT ![d] = [Idle EXCEPT
         !.pc = IF ran THEN "inspect" ELSE "record",
         !.repo = Targets(d)[1], !.ran = ran, !.dirty = dirty,
         !.head = [r \in Repos |-> IF r \in Changed[d] THEN Append(base[r], d) ELSE base[r]]]]

\* A start within the 120 s of grace: no heal can come before the row is running.
Start(d) ==
  /\ MayStart(d)
  /\ row' = [row EXCEPT ![d] = "running"]
  /\ Launched(d)
  /\ UNCHANGED <<base, branch, pr, sweep, disturbed, budget>>

\* A slow start: the row is reserved, ...
Reserve(d) ==
  /\ MayStart(d) /\ budget.slow > 0
  /\ budget' = [budget EXCEPT !.slow = @ - 1]
  /\ row' = [row EXCEPT ![d] = "starting"]
  /\ UNCHANGED <<base, tracking, branch, pr, work, sweep, disturbed>>

\* ... the runner is launched, whatever has become of the row meanwhile, ...
Launch(d) ==
  /\ At(d, "idle") /\ row[d] \notin {"absent", "waiting"}
  /\ Launched(d)
  /\ UNCHANGED <<base, branch, pr, row, sweep, disturbed, budget>>

\* ... and marked as running, if that is not too late.
MarkRunning(d) ==
  /\ row[d] = "starting" /\ ~At(d, "idle")
  /\ row' = [row EXCEPT ![d] = "running"]
  /\ UNCHANGED <<base, tracking, branch, pr, work, sweep, disturbed, budget>>

\* Uncommitted changes block; a head that is the base last fetched is a skip.
Inspect(d) ==
  /\ At(d, "inspect")
  /\ IF Here(d) \in work[d].dirty THEN Conclude(d, "blocked")
     ELSE IF HeadOf(d) = tracking[Here(d)] THEN Conclude(d, "success")
     ELSE Goto(d, "list")
  /\ Local

\* Mutant: a merged pull request of the branch is not looked for.
MutListForgets(d) ==
  /\ At(d, "list")
  /\ Goto(d, "push")
  /\ Local

\* An earlier attempt's, or the sweep's, merge of this branch is recognised.
ListPrs(d) ==
  /\ At(d, "list")
  /\ Goto(d, IF pr[d][Here(d)] = "merged" THEN "supersede" ELSE "push")
  /\ Local

\* The push is not forced.
Push(d) ==
  /\ At(d, "push")
  /\ IF branch[d][Here(d)] = None \/ IsPrefix(branch[d][Here(d)], HeadOf(d))
     THEN /\ branch' = [branch EXCEPT ![d][Here(d)] = HeadOf(d)]
          /\ Goto(d, "pr")
     ELSE Conclude(d, "failure") /\ UNCHANGED branch
  /\ UNCHANGED <<base, tracking, pr, row, sweep, disturbed, budget>>

\* The branch's pull request, in whatever state it is, or a new one: Forgejo may
\* refuse to make one of a branch that has nothing new.
FindOrCreatePr(d) ==
  /\ At(d, "pr")
  /\ \/ /\ pr' = [pr EXCEPT ![d][Here(d)] = IF @ = "none" THEN "open" ELSE @]
        /\ Goto(d, "merge")
     \/ /\ pr[d][Here(d)] = "none" /\ IsPrefix(HeadOf(d), base[Here(d)])
        /\ Conclude(d, "failure") /\ UNCHANGED pr
  /\ UNCHANGED <<base, tracking, branch, row, sweep, disturbed, budget>>

-----------------------------------------------------------------------------
\* Forgejo: a pull request is merged if it is open, its head is the one named and
\* the base can be moved forward to it; the branch is deleted.
Mergeable(d, repo, sha) ==
  /\ pr[d][repo] = "open" /\ branch[d][repo] = sha
  /\ IsPrefix(base[repo], sha)

ServerMerges(d, repo) ==
  /\ base' = [base EXCEPT ![repo] = branch[d][repo]]
  /\ pr' = [pr EXCEPT ![d][repo] = "merged"]
  /\ branch' = [branch EXCEPT ![d][repo] = None]

Merge(d) ==
  /\ At(d, "merge") /\ Mergeable(d, Here(d), HeadOf(d))
  /\ ServerMerges(d, Here(d))
  /\ Goto(d, "supersede")
  /\ UNCHANGED <<tracking, row, sweep, disturbed, budget>>

\* 5xx, or 405 "try again later": again, and at the last try on to a rebase.
MergeTryLater(d) ==
  /\ At(d, "merge") /\ pr[d][Here(d)] = "open"
  /\ IF work[d].tries < MaxTries
     THEN work' = [work EXCEPT ![d].tries = @ + 1]
     ELSE Goto(d, "rebase")
  /\ Local

\* 409 or 423: the base has moved or the head is another.
MergeConflicts(d) ==
  /\ At(d, "merge") /\ pr[d][Here(d)] = "open"
  /\ ~Mergeable(d, Here(d), HeadOf(d))
  /\ Goto(d, "rebase")
  /\ Local

\* Any other answer: the pull request is merged or closed already.
MergeRefused(d) ==
  /\ At(d, "merge") /\ pr[d][Here(d)] # "open"
  /\ Conclude(d, "failure")
  /\ Local

\* fetch and rebase: a change the base already has is dropped.
Rebase(d) ==
  /\ At(d, "rebase")
  /\ \/ work' = [work EXCEPT ![d] = [@ EXCEPT
          !.pc = "force push",
          !.lease = HeadOf(d),
          !.head = [work[d].head EXCEPT ![Here(d)] = IF Landed(d, Here(d)) \/ Here(d) \notin Changed[d]
                                                THEN base[Here(d)] ELSE Append(base[Here(d)], d)]]]
     \/ ~IsPrefix(base[Here(d)], HeadOf(d)) /\ Conclude(d, "blocked")
  /\ Local

\* --force-with-lease pinned to the head before the rebase.
ForcePush(d) ==
  /\ At(d, "force push")
  /\ IF branch[d][Here(d)] = work[d].lease
     THEN /\ branch' = [branch EXCEPT ![d][Here(d)] = HeadOf(d)]
          /\ Goto(d, "merge again")
     ELSE Conclude(d, "failure") /\ UNCHANGED branch
  /\ UNCHANGED <<base, tracking, pr, row, sweep, disturbed, budget>>

MergeAgain(d) ==
  /\ At(d, "merge again")
  /\ \/ /\ Mergeable(d, Here(d), HeadOf(d))
        /\ ServerMerges(d, Here(d)) /\ Goto(d, "supersede")
     \/ Conclude(d, "blocked") /\ UNCHANGED <<base, tracking, branch, pr>>
  /\ UNCHANGED <<tracking, row, sweep, disturbed, budget>>

-----------------------------------------------------------------------------
\* The title begins with the issue, or the branch has the token of its number.
issue_identity_matches_pr(d, other) ==
  IssueOf[other] = IssueOf[d] \/ IssueOf[other].number = IssueOf[d].number

ListSuperseded(d) ==
  /\ At(d, "supersede")
  /\ work' = [work EXCEPT ![d] = [@ EXCEPT !.pc = "close", !.closing =
       {other \in Dispatches \ {d} :
          pr[other][Here(d)] = "open" /\ issue_identity_matches_pr(d, other)}]]
  /\ Local

\* The listed pull requests are closed one by one; errors are only noted.
CloseSuperseded(d) ==
  /\ At(d, "close")
  /\ IF work[d].closing = {} THEN Conclude(d, "success") /\ UNCHANGED pr
     ELSE \E other \in work[d].closing :
            /\ work' = [work EXCEPT ![d].closing = @ \ {other}]
            /\ pr' = [pr EXCEPT ![other][Here(d)] = IF @ = "open" THEN "closed" ELSE @]
  /\ UNCHANGED <<base, tracking, branch, row, sweep, disturbed, budget>>

\* Mutant: a landing that did not succeed is recorded as a completion.
MutRecordCompletes(d) ==
  /\ At(d, "record")
  /\ row' = [row EXCEPT ![d] = IF @ \in InFlight THEN "completed" ELSE @]
  /\ Goto(d, "gone")
  /\ UNCHANGED <<base, tracking, branch, pr, sweep, disturbed, budget>>

\* The terminal state: nothing to do if the row was healed meanwhile.  A row that is
\* still starting takes a failure only.
Record(d) ==
  /\ At(d, "record") /\ (row[d] = "starting" => work[d].outcome = "failure")
  /\ row' = [row EXCEPT ![d] = IF @ \notin InFlight THEN @
       ELSE CASE work[d].outcome = "success" -> "completed"
              [] work[d].outcome = "blocked" -> "blocked"
              [] work[d].outcome = "failure" -> "failed"]
  /\ Goto(d, "gone")
  /\ UNCHANGED <<base, tracking, branch, pr, sweep, disturbed, budget>>

\* Everything is done again from the first target, at most MaxAttempts times.
Repeat(d) ==
  /\ disturbed' = IF work[d].attempt < MaxAttempts THEN disturbed ELSE disturbed \cup {d}
  /\ work' = [work EXCEPT ![d] =
       IF @.attempt >= MaxAttempts THEN [@ EXCEPT !.pc = "gone"]
       ELSE [@ EXCEPT !.pc = IF work[d].ran THEN "inspect" ELSE "record",
                      !.repo = IF work[d].ran THEN Targets(d)[1] ELSE Here(d),
                      !.attempt = work[d].attempt + 1]]

\* A completion, or a block, of a row that is still starting is an error.
RecordRejected(d) ==
  /\ At(d, "record") /\ row[d] = "starting" /\ work[d].outcome # "failure"
  /\ Repeat(d)
  /\ UNCHANGED <<base, tracking, branch, pr, row, sweep, budget>>

-----------------------------------------------------------------------------
\* Faults: what was done stays done.
Spend ==
  /\ budget.faults > 0
  /\ budget' = [budget EXCEPT !.faults = @ - 1]

Disturb(d) == Spend /\ disturbed' = disturbed \cup {d}

\* A call before the merge fails: the landing has failed; closing what is superseded
\* is only noted.
CallFails(d) ==
  /\ work[d].pc \in {"list", "push", "pr", "rebase", "force push", "supersede"}
  /\ Disturb(d)
  /\ Conclude(d, IF At(d, "supersede") THEN "success" ELSE "failure")
  /\ UNCHANGED <<base, tracking, branch, pr, row, sweep>>

\* The store refuses the record.
RecordFails(d) ==
  /\ At(d, "record") /\ Spend
  /\ Repeat(d)
  /\ UNCHANGED <<base, tracking, branch, pr, row, sweep>>

\* A slow start fails, or orchd crashes in the middle of it, or the request that makes
\* it is dropped: no runner is launched.
StartFails(d) ==
  /\ At(d, "idle") /\ row[d] \notin {"absent", "waiting"}
  /\ Disturb(d) /\ Goto(d, "gone")
  /\ \/ row' = [row EXCEPT ![d] = IF @ = "starting" THEN "failed" ELSE @]
     \/ UNCHANGED row
  /\ UNCHANGED <<base, tracking, branch, pr, sweep>>

\* The merge is done and its answer does not arrive: a server error is tried again,
\* a broken connection is a failure.
MergeAnswerLost(d) ==
  /\ At(d, "merge") /\ Mergeable(d, Here(d), HeadOf(d)) /\ Disturb(d)
  /\ ServerMerges(d, Here(d))
  /\ \/ work[d].tries < MaxTries /\ work' = [work EXCEPT ![d].tries = @ + 1]
     \/ Conclude(d, "failure")
  /\ UNCHANGED <<tracking, row, sweep>>

\* The runner dies anywhere; its row stays for the heal to find.
Crash(d) ==
  /\ work[d].pc \notin {"idle", "gone"} /\ Disturb(d)
  /\ Goto(d, "gone")
  /\ UNCHANGED <<base, tracking, branch, pr, row, sweep>>

\* Mutant: a dispatch whose change has landed is not taken for stale.
MutStaleUnlanded(d) ==
  (row[d] = "starting" \/ (row[d] = "running" /\ At(d, "gone"))) /\ ~Landed(d, Primary(d))

\* A heal takes a row that is running for stale when its runner is gone, and a row that
\* starts when it is 120 s old: it has no backend yet to ask whether the runner lives.
Stale(d) == row[d] = "starting" \/ (row[d] = "running" /\ At(d, "gone"))

Heal(d) ==
  /\ Stale(d)
  /\ row' = [row EXCEPT ![d] = "failed"]
  /\ disturbed' = disturbed \cup {d}
  /\ UNCHANGED <<base, tracking, branch, pr, work, sweep, budget>>

\* A later dispatch of the same issue waits: orchd looks at the issue at each attempt.
LookedAt(d) ==
  \E other \in Dispatches : IssueOf[other] = IssueOf[d] /\ row[other] = "waiting"

HealBeforeLaunch(d) == LookedAt(d) /\ Heal(d)

\* orchd starts anew.
HealAtStartup(d) == Heal(d)

\* The automerge sweep lists the open pull requests with their heads, ...
SweepLists ==
  /\ sweep = None /\ budget.sweeps > 0
  /\ \E d \in Dispatches, r \in Repos :
       /\ pr[d][r] = "open"
       /\ sweep' = [dispatch |-> d, repo |-> r, sha |-> branch[d][r]]
  /\ budget' = [budget EXCEPT !.sweeps = @ - 1]
  /\ UNCHANGED <<base, tracking, branch, pr, row, work, disturbed>>

\* ... and merges each if that is still possible.
SweepMerges ==
  /\ sweep # None /\ sweep' = None
  /\ IF Mergeable(sweep.dispatch, sweep.repo, sweep.sha)
     THEN /\ ServerMerges(sweep.dispatch, sweep.repo)
          /\ disturbed' = disturbed \cup {sweep.dispatch}
     ELSE UNCHANGED <<base, tracking, branch, pr, disturbed>>
  /\ UNCHANGED <<tracking, row, work, budget>>

OthersPush(r) ==
  /\ budget.pushes > 0
  /\ budget' = [budget EXCEPT !.pushes = @ - 1]
  /\ base' = [base EXCEPT ![r] = Append(@, None)]
  /\ UNCHANGED <<tracking, branch, pr, row, work, sweep, disturbed>>

-----------------------------------------------------------------------------
Land(d) ==
  /\ ~At(d, "idle") /\ ~At(d, "gone")
  /\ \/ Inspect(d) \/ ListPrs(d) \/ Push(d) \/ FindOrCreatePr(d)
     \/ Merge(d) \/ MergeTryLater(d) \/ MergeConflicts(d) \/ MergeRefused(d)
     \/ Rebase(d) \/ ForcePush(d) \/ MergeAgain(d)
     \/ ListSuperseded(d) \/ CloseSuperseded(d) \/ Record(d) \/ RecordRejected(d)

Next ==
  \/ \E d \in Dispatches :
       \/ Start(d) \/ Reserve(d) \/ Launch(d) \/ MarkRunning(d) \/ Land(d)
       \/ CallFails(d) \/ RecordFails(d) \/ MergeAnswerLost(d) \/ Crash(d) \/ StartFails(d)
       \/ HealBeforeLaunch(d) \/ HealAtStartup(d)
  \/ SweepLists \/ SweepMerges
  \/ \E r \in Repos : OthersPush(r)

Spec == Init /\ [][Next]_vars

\* A start goes on and a runner runs on until it dies, and the queue loop tries what
\* waits again and again.  No restart of orchd is assumed, and none of the marks: a
\* crash of orchd after a launch leaves the row starting.
FairSpec ==
  Spec /\ \A d \in Dispatches :
            WF_vars(Launch(d) \/ Land(d)) /\ WF_vars(HealBeforeLaunch(d))

-----------------------------------------------------------------------------
\* A dispatch recorded as completed has landed everything it committed, also when
\* the sweep merged it, or an earlier attempt of which only the record failed.
CompletedIsLanded ==
  \A d \in Dispatches : row[d] = "completed" =>
    \A n \in DOMAIN Targets(d) : Targets(d)[n] \in Changed[d] => Landed(d, Targets(d)[n])

\* A sidecar a dispatch has nothing for is a skip only as long as no other dispatch
\* fetches its base: the repetition of a landing may fail there.
QuietSidecar(d) == SidecarOf[d] \notin Changed[d] \cup {None}

\* A dispatch recorded as failed or blocked has not landed in its own repository,
\* unless a call failed, its runner died, a heal took its slow start for stale, the
\* sweep merged what it left open, or its sidecar has nothing to land.  A record the
\* store refused is no excuse: the repetition sees that it has landed.
FailureIsTold ==
  \A d \in Dispatches :
    row[d] \in {"failed", "blocked"} /\ Landed(d, Primary(d))
      => d \in disturbed \/ QuietSidecar(d)

\* Every dispatch that was started gets its terminal state, from its runner or, when
\* that is gone without a record, from the heal before the next dispatch of its issue.
\* Only where nothing more waits for the issue may its row stay in flight.
EndsRecorded ==
  \A d \in Dispatches :
    (row[d] \in InFlight) ~> (row[d] \notin InFlight \/ (At(d, "gone") /\ ~LookedAt(d)))

\* "Superseded by #{} ({}) after successful re-dispatch; closing.": what a landing
\* closes are pull requests of its own issue.
SupersedesItsOwn ==
  [][\A d \in Dispatches, other \in Dispatches, r \in Repos :
       (CloseSuperseded(d) /\ pr[other][r] = "open" /\ pr'[other][r] = "closed")
         => IssueOf[other] = IssueOf[d]]_vars

=============================================================================
