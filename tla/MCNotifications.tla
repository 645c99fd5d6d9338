--------------------------- MODULE MCNotifications ---------------------------
(* Two worlds as one instance: the loop, with dispatches that the queue    *)
(* starts, replies and restarts; and what runners and webhook tasks report *)
(* when notifications are disabled.                                        *)
EXTENDS Notifications

VARIABLE world

nvars == <<vars, world>>

Enabled == loop.pc # "disabled"

MCInit == Init /\ world = IF Enabled THEN "loop" ELSE "reports"

Arrives ==
  \/ \E i \in Issues :
       \/ world = "loop" /\ Reply(i)
       \/ \E t \in Tasks \cup {NoTask} : (world = "loop" => t = NoTask) /\ Reserve(i, t)
  \/ world = "reports" /\ \E i \in Issues, t \in Tasks : RequestFails(t, i)

Reports ==
  /\ world = "reports"
  /\ \/ \E t \in Tasks : LookUp(t)
     \/ \E r \in Reporter : ReportStep(r)

Loops == LoopStep /\ UNCHANGED world

Restarts == Boot /\ (Enabled' <=> world = "loop") /\ UNCHANGED world

MCNext ==
  \/ (Arrives \/ Reports \/ Stop \/ \E n \in DOMAIN dispatches : DispatchStep(n)) /\ UNCHANGED world
  \/ Loops \/ Restarts

MCSpec == MCInit /\ [][MCNext]_nvars /\ WF_nvars(Loops) /\ WF_nvars(Restarts)
=============================================================================
