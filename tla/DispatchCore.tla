---------------------------- MODULE DispatchCore ----------------------------
(***************************************************************************)
(* The dispatch state machine that orchd stores in dispatches.status, as   *)
(* the pure reducer of orchd_dispatch_core.rs defines it.  Every database  *)
(* function that changes a status asks the reducer first and gives up when *)
(* the reducer rejects the event.                                          *)
(***************************************************************************)

DispatchState == {"queued", "launching", "starting", "running", "completed",
                  "failed_start", "failed_runtime", "blocked", "timed_out", "canceled"}

DispatchEventKind == {"Reserve", "BeginLaunch", "MarkStarting", "MarkRunning", "Complete",
                      "FailStart", "FailRuntime", "Block", "Timeout", "Cancel", "HealStale"}

\* DispatchState::is_terminal
Terminal == {"completed", "failed_start", "failed_runtime", "blocked", "timed_out", "canceled"}

\* The two statuses the queries of db.rs call in flight.
InFlight == {"starting", "running"}

\* Not a state: the answer TransitionError.
Rejected == "rejected"

(***************************************************************************)
(* reduce_dispatch_state: the state after the event, or Rejected.          *)
(***************************************************************************)
Reduce(state, event) ==
  CASE state = "queued" /\ event = "Reserve" -> "queued"
    [] state = "queued" /\ event = "BeginLaunch" -> "launching"
    [] state = "launching" /\ event = "MarkStarting" -> "starting"
    [] state = "launching" /\ event = "FailStart" -> "failed_start"
    [] state = "starting" /\ event = "FailStart" -> "failed_start"
    [] state = "starting" /\ event = "MarkRunning" -> "running"
    [] state \in InFlight /\ event \in {"FailRuntime", "HealStale"} -> "failed_runtime"
    [] state \in InFlight \cup {"launching"} /\ event = "Timeout" -> "timed_out"
    [] state \in InFlight \cup {"launching"} /\ event = "Cancel" -> "canceled"
    [] state = "running" /\ event = "Complete" -> "completed"
    [] state = "running" /\ event = "Block" -> "blocked"
    [] OTHER -> Rejected

Accepts(state, event) == Reduce(state, event) # Rejected
=============================================================================
