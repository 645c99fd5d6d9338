--------------------------- MODULE MCDispatchSafe ---------------------------
(* Two worlds as one instance.  In the first, two issues of one repository *)
(* and two lanes compete for the reservation while starts fail and runners *)
(* die; in the second, one issue and one lane meet every fault and a       *)
(* restart of orchd.  A world takes arrivals, faults and the crash away,   *)
(* never a step of orchd or a runner.                                      *)
EXTENDS MCDispatch

CONSTANTS impl

VARIABLE world

svars == <<vars, world>>

SafeInit == Init /\ world \in {"race", "crash"}

\* The issue of the second world is the one of its first decision.
Arrives ==
  \E d \in DecisionId, i \in Issues, l \in Lanes :
    /\ world = "crash" => l = impl /\ \A e \in DecisionId : decision[e].issue \in {i, NoIssue}
    /\ WebhookDecision(d, i, l) \/ TimerDecision(d, i, l)

TaskSteps(a) ==
  \/ TaskStep(a)
  \/ StartFails(a)
  \/ world = "crash" /\ TaskFault(a)

Ends(r) ==
  \E event \in (IF world = "race" THEN Outcomes ELSE {"Complete"}) :
    FinalizeRow(r, event) \/ FinalizeEnded(r, event) \/ FinalizeRejected(r, event)

SafeNext ==
  /\ \/ Arrives
     \/ \E a \in Actor : TaskSteps(a)
     \/ QueueStep
     \/ \E r \in DispatchId : Ends(r) \/ RunnerDies(r) \/ Age(r)
     \/ world = "crash" /\ (Crash \/ Boot \/ SweepStep)
  /\ UNCHANGED world

SafeSpec == SafeInit /\ [][SafeNext]_svars
=============================================================================
