------------------------------ MODULE IssueLabels ------------------------------
(***************************************************************************)
(* The labels and the open state of one issue, and everything that writes  *)
(* them: forgejoctl's issue commands and worker (main.rs, policy.rs), the  *)
(* projection of the runtime state (projection.rs), the reset of a stale   *)
(* dispatch (dispatch.rs) and the reconcile loop (server.rs).  Each HTTP   *)
(* call is a step: a command reads the issue, decides, and then issues     *)
(* writes made from what it read.  Forgejo's exclusive scopes are modelled *)
(* from how the labels are created.                                        *)
(***************************************************************************)
EXTENDS Naturals, Sequences, FiniteSets, Functions

CONSTANTS
  Processes,  \* programs that may work on the issue
  Worlds      \* what may meet: [script, labels, faults], the first what each process
              \* that takes part runs as [commands, stops, loops], the second the
              \* issue's labels, the third a bound: processes a failure hits

ASSUME LabelConstants ==
  \A w \in Worlds :
    /\ DOMAIN w.script \subseteq Processes
    /\ \A p \in DOMAIN w.script :
         /\ Len(w.script[p].commands) \in Nat \ {0}
         /\ w.script[p].stops \in BOOLEAN /\ w.script[p].loops \in BOOLEAN
    /\ w.faults \in Nat

VARIABLES
  world,    \* what meets in this behaviour: it does not change
  labels,   \* the issue's labels on the server
  open,     \* whether the issue is open
  proc,     \* each process: the command it is at and the calls left of it
  holds,    \* processes whose claim succeeded and that have not released it since
  faulted   \* processes one of whose calls failed, or that crashed

vars == <<world, labels, open, proc, holds, faulted>>

-----------------------------------------------------------------------------
\* A label is a scope and a name within it.
WorkflowState(name) == <<"state", name>>
RuntimeState(name) == <<"orchd/state", name>>
Claim(agent) == <<"claimed", agent>>
Resolution(name) == <<"done", name>>
Hold == <<"orchd/control", "hold">>

OfScope(scope, view) == {label \in view : label[1] = scope}
StatesIn(view) == OfScope("state", view)
ClaimsIn(view) == OfScope("claimed", view)

Exclusive == {"state", "orchd/state"}

\* Forgejo's answer to the addition of a label: one of an exclusive scope replaces
\* the others of its scope.
WithLabel(label, view) ==
  {other \in view : label[1] \in Exclusive => other[1] # label[1]} \cup {label}

can_transition(from, to) ==
  IF from = {} THEN to \in {"triage", "spec", "ready"}
  ELSE \E state \in {label[2] : label \in from} :
         to \in CASE state \in {"triage", "spec"} -> {"triage", "spec", "ready", "done", "blocked"} \ {state}
                  [] state = "ready" -> {"in-progress", "triage", "done", "blocked"}
                  [] state = "in-progress" -> {"review", "ready", "done", "blocked"}
                  [] state = "review" -> {"in-progress", "ready", "done", "blocked"}
                  [] state = "done" -> {"triage", "spec", "ready", "in-progress", "blocked"}
                  [] state = "blocked" -> {"triage", "spec", "ready", "done"}

assert_claimable == open /\ StatesIn(labels) = {WorkflowState("ready")}

assert_transition(to, force) ==
  /\ open
  /\ \/ force \/ StatesIn(labels) = {WorkflowState(to)}
     \/ can_transition(StatesIn(labels), to)

assert_closable(force) ==
  /\ open
  /\ force \/ StatesIn(labels) \in {{WorkflowState("done")}, {WorkflowState("review")}}

-----------------------------------------------------------------------------
\* What a process has to do: a command it still has to begin, or a call.
Do(do, arg) == [do |-> do, arg |-> arg]

Maybe(condition, call) == IF condition THEN <<call>> ELSE <<>>

Drop(set) == Maybe(set # {}, Do("drop", set))

\* worker run --once: its program unless it closes what it has done.
Worker(agent) ==
  [commands |-> <<Do("pick", {}), Do("claim", agent), Do("release", {agent})>>,
   stops |-> TRUE, loops |-> FALSE]

Uses(program, dos) == \E c \in Range(program.commands) : c.do \in dos
ClaimsOf(program) ==
  {Claim(c.arg) : c \in {c \in Range(program.commands) : c.do = "claim"}}

\* Nobody adds or drops a claim by hand.
IsCommand(c) ==
  /\ c = Do(c.do, c.arg)
  /\ c.do \in {"add", "drop", "pick", "claim", "release", "transition", "blocker", "close",
               "reopen", "project", "reset", "reconcile"}
  /\ c.do = "add" => c.arg[1] # "claimed"
  /\ c.do = "drop" => ClaimsIn(c.arg) = {}

\* Each program claims for an agent of its own, if at all, and releases no claim but its
\* own; where one claims, orchd does not write back whole label sets.
ASSUME LabelWorlds ==
  \A w \in Worlds :
    /\ ClaimsIn(w.labels) = {} /\ \A x, y \in StatesIn(w.labels) : x = y
    /\ \A p \in DOMAIN w.script :
         LET program == w.script[p] IN
         /\ program.commands = [n \in 1..Len(program.commands) |-> program.commands[n]]
         /\ \A c \in Range(program.commands) :
              /\ IsCommand(c)
              /\ c.do = "release" => {Claim(agent) : agent \in c.arg} \subseteq ClaimsOf(program)
         /\ \A x, y \in ClaimsOf(program) : x = y
         /\ ClaimsOf(program) # {} =>
              \A q \in DOMAIN w.script :
                /\ ~Uses(w.script[q], {"project", "reset"})
                /\ q # p => ClaimsOf(w.script[q]) \cap ClaimsOf(program) = {}

Ended(p) == proc[p].calls = <<>>
Doing(p, do) == ~Ended(p) /\ Head(proc[p].calls).do = do
Arg(p) == Head(proc[p].calls).arg

End(p) == [at |-> proc[p].at, calls |-> <<>>]

Script(p) == world.script[p]

\* The next command of the script, from its start again if it loops.
NextCommand(p) ==
  LET commands == Script(p).commands
      at == IF proc[p].at < Len(commands) THEN proc[p].at + 1 ELSE 1
  IN  IF at = 1 /\ ~Script(p).loops THEN End(p)
      ELSE [at |-> at, calls |-> <<commands[at]>>]

\* The head of the calls is done and the given ones come in its place.
Continue(p, calls) ==
  LET left == calls \o Tail(proc[p].calls)
  IN  proc' = [proc EXCEPT ![p] = IF left = <<>> THEN NextCommand(p)
                                  ELSE [@ EXCEPT !.calls = left]]

\* The command returns an error: some programs go on with the next one.
Fails(p) ==
  proc' = [proc EXCEPT ![p] = IF Script(p).stops THEN End(p) ELSE NextCommand(p)]

Init ==
  /\ world \in Worlds
  /\ labels = world.labels /\ open = TRUE
  /\ proc = [p \in DOMAIN world.script |->
       [at |-> 1, calls |-> <<Script(p).commands[1]>>]]
  /\ holds = {} /\ faulted = {}

-----------------------------------------------------------------------------
\* The writes.
AddLabel(p) ==
  /\ Doing(p, "add")
  /\ labels' = WithLabel(Arg(p), labels)
  /\ Continue(p, <<>>)
  /\ UNCHANGED <<open, holds, faulted>>

\* Labels are removed one call each.
DropLabel(p) ==
  /\ Doing(p, "drop")
  /\ \E label \in Arg(p) :
       /\ labels' = labels \ {label}
       /\ Continue(p, Drop(Arg(p) \ {label}))
  /\ UNCHANGED <<open, holds, faulted>>

ReplaceLabels(p) ==
  /\ Doing(p, "replace")
  /\ labels' = Arg(p)
  /\ Continue(p, <<>>)
  /\ UNCHANGED <<open, holds, faulted>>

SetOpenState(p) ==
  /\ Doing(p, "set open")
  /\ open' = Arg(p)
  /\ Continue(p, <<>>)
  /\ UNCHANGED <<labels, holds, faulted>>

\* The removal of one's own claim after a conflict: its outcome is ignored and the
\* command has failed.
Retract(p) ==
  /\ Doing(p, "retract")
  /\ labels' = labels \ {Arg(p)}
  /\ Fails(p)
  /\ UNCHANGED <<open, holds, faulted>>

-----------------------------------------------------------------------------
\* The commands: each reads the issue once and puts its calls in its place.
Read(p) == UNCHANGED <<labels, open, holds, faulted>>

\* ensure_issue_state and ensure_issue_close_resolution.
Ensure(p) ==
  /\ Doing(p, "ensure")
  /\ Continue(p, Drop(OfScope(Arg(p)[1], labels) \ {Arg(p)})
                   \o Maybe(Arg(p) \notin labels, Do("add", Arg(p))))
  /\ Read(p)

\* worker: an issue that is open, ready and not claimed, or the queue is empty.
PickReady(p) ==
  /\ Doing(p, "pick")
  /\ IF open /\ WorkflowState("ready") \in labels /\ ClaimsIn(labels) = {}
     THEN Continue(p, <<>>)
     ELSE proc' = [proc EXCEPT ![p] = End(p)]
  /\ Read(p)

ClaimIssue(p) ==
  /\ Doing(p, "claim")
  /\ LET own == Claim(Arg(p))
     IN  IF assert_claimable /\ ClaimsIn(labels) \subseteq {own}
         THEN Continue(p, Maybe(own \notin labels, Do("add", own))
                            \o <<Do("confirm", [own |-> own, had |-> own \in labels])>>)
         ELSE Fails(p)
  /\ Read(p)

\* Mutant: the claim is not read back.
MutConfirmBlind(p) ==
  /\ Doing(p, "confirm")
  /\ holds' = holds \cup {p}
  /\ Continue(p, <<Do("ensure", WorkflowState("in-progress"))>>)
  /\ UNCHANGED <<labels, open, faulted>>

\* Mutant: a claim that meets another is left on the issue.
MutConfirmLeaves(p) ==
  /\ Doing(p, "confirm")
  /\ IF ClaimsIn(labels) \subseteq {Arg(p).own}
     THEN /\ holds' = holds \cup {p}
          /\ Continue(p, <<Do("ensure", WorkflowState("in-progress"))>>)
     ELSE Fails(p) /\ UNCHANGED holds
  /\ UNCHANGED <<labels, open, faulted>>

\* The claim is read back: another's next to it and both withdraw.
ConfirmClaim(p) ==
  /\ Doing(p, "confirm")
  /\ IF ClaimsIn(labels) \subseteq {Arg(p).own}
     THEN /\ holds' = holds \cup {p}
          /\ Continue(p, <<Do("ensure", WorkflowState("in-progress"))>>)
     ELSE /\ IF ~Arg(p).had /\ Arg(p).own \in labels
             THEN Continue(p, <<Do("retract", Arg(p).own)>>)
             ELSE Fails(p)
          /\ UNCHANGED holds
  /\ UNCHANGED <<labels, open, faulted>>

\* Mutant: the workflow state is left as it is.
MutReleaseKeeps(p) ==
  /\ Doing(p, "release")
  /\ Continue(p, Drop({Claim(agent) : agent \in Arg(p)} \cap labels))
  /\ holds' = holds \ {p}
  /\ UNCHANGED <<labels, open, faulted>>

ReleaseIssue(p) ==
  /\ Doing(p, "release")
  /\ Continue(p, Drop({Claim(agent) : agent \in Arg(p)} \cap labels)
                   \o Maybe(StatesIn(labels) = {WorkflowState("in-progress")},
                            Do("ensure", WorkflowState("ready"))))
  /\ holds' = holds \ {p}
  /\ UNCHANGED <<labels, open, faulted>>

Transition(p) ==
  /\ Doing(p, "transition")
  /\ IF assert_transition(Arg(p).to, Arg(p).force)
     THEN Continue(p, <<Do("ensure", WorkflowState(Arg(p).to))>>)
     ELSE Fails(p)
  /\ Read(p)

\* blocker: the parent is read, the new issue made, and the parent read again.
Blocker(p) ==
  /\ Doing(p, "blocker")
  /\ IF open THEN Continue(p, <<Do("transition", [to |-> "blocked", force |-> FALSE])>>)
     ELSE Fails(p)
  /\ Read(p)

CloseIssue(p) ==
  /\ Doing(p, "close")
  /\ IF assert_closable(Arg(p).force)
     THEN Continue(p, Maybe(StatesIn(labels) # {WorkflowState("done")},
                            Do("ensure", WorkflowState("done")))
                        \o <<Do("ensure", Resolution(Arg(p).resolution)),
                             Do("set open", FALSE)>>)
     ELSE Fails(p)
  /\ Read(p)

ReopenIssue(p) ==
  /\ Doing(p, "reopen")
  /\ open' = TRUE
  /\ Continue(p, <<Do("clear", "done"), Do("ensure", WorkflowState(Arg(p)))>>)
  /\ UNCHANGED <<labels, holds, faulted>>

ClearResolution(p) ==
  /\ Doing(p, "clear")
  /\ Continue(p, Drop(OfScope(Arg(p), labels)))
  /\ Read(p)

\* project_issue_runtime_state and forgejoctl issue orchd-state: the whole label
\* set is read and written back with another runtime state.
ProjectRuntimeState(p) ==
  /\ Doing(p, "project")
  /\ Continue(p, <<Do("replace", (labels \ OfScope("orchd/state", labels))
                                   \cup {RuntimeState(Arg(p))})>>)
  /\ Read(p)

\* The reset of a stale dispatch: every claim is removed, the issue read again.
ReleaseStaleClaims(p) ==
  /\ Doing(p, "reset")
  /\ Continue(p, Drop(ClaimsIn(labels)) \o <<Do("reset state", {})>>)
  /\ Read(p)

\* Mutant: the old workflow state stays in the replacement.
MutResetAdds(p) ==
  /\ Doing(p, "reset state")
  /\ Continue(p, Maybe(StatesIn(labels) = {WorkflowState("in-progress")},
                       Do("replace", labels \cup {WorkflowState("ready")})))
  /\ Read(p)

ResetWorkflow(p) ==
  /\ Doing(p, "reset state")
  /\ Continue(p, Maybe(StatesIn(labels) = {WorkflowState("in-progress")},
                       Do("replace", (labels \ StatesIn(labels))
                                       \cup {WorkflowState("ready")})))
  /\ Read(p)

is_reconcile_autoclose_candidate ==
  /\ StatesIn(labels) = {WorkflowState("done")}
  /\ RuntimeState("completed") \in labels
  /\ Hold \notin labels

\* Mutant: an issue without a state is passed over.
MutReconcileOnlyCloses(p) ==
  /\ Doing(p, "reconcile")
  /\ Continue(p,
       IF open /\ is_reconcile_autoclose_candidate
       THEN Drop(OfScope("done", labels) \ {Resolution("fixed")})
              \o Maybe(Resolution("fixed") \notin labels, Do("add", Resolution("fixed")))
              \o <<Do("set open", FALSE)>>
       ELSE <<>>)
  /\ Read(p)

\* Mutant: the resolution is recorded and the issue never closed.
MutReconcileOnlyResolves(p) ==
  /\ Doing(p, "reconcile")
  /\ Continue(p,
       IF ~open THEN <<>>
       ELSE IF StatesIn(labels) = {} THEN <<Do("add", WorkflowState("triage"))>>
       ELSE IF is_reconcile_autoclose_candidate
       THEN Drop(OfScope("done", labels) \ {Resolution("fixed")})
              \o Maybe(Resolution("fixed") \notin labels, Do("add", Resolution("fixed")))
       ELSE <<>>)
  /\ Read(p)

\* reconcile_once lists the open issues and acts on what the list said.
Reconcile(p) ==
  /\ Doing(p, "reconcile")
  /\ Continue(p,
       IF ~open THEN <<>>
       ELSE IF StatesIn(labels) = {} THEN <<Do("add", WorkflowState("triage"))>>
       ELSE IF is_reconcile_autoclose_candidate
       THEN Drop(OfScope("done", labels) \ {Resolution("fixed")})
              \o Maybe(Resolution("fixed") \notin labels, Do("add", Resolution("fixed")))
              \o <<Do("set open", FALSE)>>
       ELSE <<>>)
  /\ Read(p)

\* A call fails and with it the command, or the process goes down.
Fault(p) ==
  /\ ~Ended(p) /\ p \notin faulted /\ Cardinality(faulted) < world.faults
  /\ faulted' = faulted \cup {p} /\ holds' = holds \ {p}
  /\ Fails(p) \/ (~Script(p).loops /\ proc' = [proc EXCEPT ![p] = End(p)])
  /\ UNCHANGED <<world, labels, open>>

-----------------------------------------------------------------------------
Work(p) ==
  /\ p \in DOMAIN proc
  /\ \/ AddLabel(p) \/ DropLabel(p) \/ ReplaceLabels(p) \/ SetOpenState(p) \/ Retract(p)
     \/ Ensure(p) \/ PickReady(p) \/ ClaimIssue(p) \/ ConfirmClaim(p) \/ ReleaseIssue(p)
     \/ Transition(p) \/ Blocker(p) \/ CloseIssue(p) \/ ReopenIssue(p)
     \/ ClearResolution(p) \/ ProjectRuntimeState(p)
     \/ ReleaseStaleClaims(p) \/ ResetWorkflow(p) \/ Reconcile(p)
  /\ UNCHANGED world

Next == \E p \in DOMAIN proc : Work(p) \/ Fault(p)

Spec == Init /\ [][Next]_vars

\* The reconcile loop of a running server comes round for ever; a command that was
\* started runs to its end.
FairSpec == Spec /\ \A p \in Processes : WF_vars(Work(p))

-----------------------------------------------------------------------------
\* An issue never has two workflow states: commands that ask for its state would
\* fail and the reconcile loop would pass it over.
OneWorkflowState ==
  /\ Cardinality(StatesIn(labels)) <= 1
  /\ \A p \in DOMAIN proc : Doing(p, "replace") => Cardinality(StatesIn(Arg(p))) <= 1

\* Two agents never hold the issue, also when it is closed and reopened under them: the
\* claim is added first and read back after.
ClaimExclusive == \A p, q \in holds : p = q

\* A worker that has come to its end leaves its claim only if a call failed.
IsWorker(p) ==
  \E c \in Range(Script(p).commands) : c.do = "claim" /\ Script(p) = Worker(c.arg)

OrphansExplained ==
  \A p \in DOMAIN proc :
    Ended(p) /\ IsWorker(p) /\ ClaimsOf(Script(p)) \cap labels # {} => p \in faulted

\* When workers alone have met on an issue that was ready, all have come to their ends and
\* no call failed, it is ready and unclaimed, as the next worker needs it.
QuietIsReady ==
  (/\ world.labels = {WorkflowState("ready")}
   /\ \A p \in DOMAIN proc : Ended(p) /\ IsWorker(p)
   /\ faulted = {})
  => labels = {WorkflowState("ready")}

\* With the reconcile loop running, an open issue without a workflow state gets one,
\* or is closed.
Reconciled == \E p \in DOMAIN proc : Script(p).loops

EventuallyStated ==
  (Reconciled /\ open /\ StatesIn(labels) = {}) ~> (StatesIn(labels) # {} \/ ~open)

\* A finished issue is closed unless somebody moves or holds it meanwhile.
FinishedIsClosed ==
  (Reconciled /\ open /\ is_reconcile_autoclose_candidate)
    ~> (~open \/ ~is_reconcile_autoclose_candidate)

=============================================================================
