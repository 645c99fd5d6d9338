--------------------------- MODULE MCDispatchLive ---------------------------
(* Two worlds in which every decision must settle, as one instance: webhook  *)
(* tasks that compete with the queue loop, and scheduled decisions of two    *)
(* lanes under more faults with a restart of orchd.  The first world takes   *)
(* arrivals, faults and the crash away, never a step of orchd or a runner.   *)
EXTENDS MCDispatch

CONSTANTS impl

VARIABLE world

lvars == <<vars, world>>

LiveInit == Init /\ world \in {"webhooks", "restart"}

Arrives ==
  \E d \in DecisionId, i \in Issues, l \in Lanes :
    \/ world = "webhooks" /\ l = impl /\ WebhookDecision(d, i, l)
    \/ world = "restart" /\ TimerDecision(d, i, l)

LiveNext ==
  /\ \/ Arrives
     \/ \E a \in Actor : TaskStep(a) \/ (world = "restart" /\ TaskFault(a))
     \/ QueueStep
     \/ \E r \in DispatchId :
          RunnerStep(r) \/ Age(r) \/ ((world = "restart" \/ r = 1) /\ RunnerDies(r))
     \/ world = "restart" /\ Crash
     \/ Boot
     \/ SweepStep
  /\ UNCHANGED world

\* The fairness of Dispatch.
LiveSpec == LiveInit /\ [][LiveNext]_lvars /\ Fairness

=============================================================================
