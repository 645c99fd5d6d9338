---------------------------- MODULE MCIssueLabels ----------------------------
(* The worlds of IssueLabels that TLC explores: programs that meet on one    *)
(* issue, and which of them fail.                                            *)
EXTENDS IssueLabels

Program(commands) == [commands |-> commands, stops |-> TRUE, loops |-> FALSE]

\* orchd logs an error and goes on with what comes next.
Orchd(commands) == [Program(commands) EXCEPT !.stops = FALSE]

\* worker run --once --close-on-success.
Closing(agent) ==
  Program(<<Do("pick", {}), Do("claim", agent),
            Do("close", [resolution |-> "fixed", force |-> TRUE])>>)

Reopener == Program(<<Do("reopen", "ready")>>)

\* A human takes the state off the issue and gives it another.
Triager == Program(<<Do("drop", {WorkflowState("ready")}),
                     Do("transition", [to |-> "spec", force |-> FALSE]),
                     Do("transition", [to |-> "ready", force |-> FALSE])>>)
Holder == Program(<<Do("add", Hold), Do("blocker", {}), Do("drop", {Hold})>>)

Reconciler == [Orchd(<<Do("reconcile", {})>>) EXCEPT !.loops = TRUE]

\* The webhook task of an impl once it has launched it, the runner that completes it,
\* and the heal of its row.
WebhookTask == Orchd(<<Do("project", "running")>>)
Runner == Orchd(<<Do("transition", [to |-> "done", force |-> TRUE]), Do("project", "completed")>>)
Healer == Orchd(<<Do("reset", {}), Do("project", "failed")>>)

World(script, labelled, faults) ==
  [script |-> script, labels |-> labelled, faults |-> faults]

Ready == {WorkflowState("ready")}
Queued == {WorkflowState("in-progress"), RuntimeState("queued")}

MCWorlds ==
  { World(<<Worker("w1"), Worker("w2"), Worker("w3")>>, Ready, 1),
    World(<<Worker("w1"), Closing("w2"), Reopener>>, Ready, 1),
    World(<<Triager, Worker("w1"), Reconciler>>, Ready, 1),
    World(<<WebhookTask, Runner, Healer, Holder, Reconciler>>, Queued, 0) }

=============================================================================
