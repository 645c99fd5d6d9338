------------------------------ MODULE MCLanding ------------------------------
(* Small instances of Landing: two dispatches that meet in a repository.     *)
EXTENDS Landing, TLC

CONSTANTS first, again, both, quiet, a, b

Issue(repo, number) == [repo |-> repo, number |-> number]

\* An issue of b and its re-dispatch, and two issues of a, one with the same number,
\* whose agents have b for their sidecar; the last one has nothing to land there.
Issues == (first :> Issue(b, 7)) @@ (again :> Issue(b, 7)) @@ (both :> Issue(a, 7))
            @@ (quiet :> Issue(a, 8))
Sidecars == (first :> None) @@ (again :> None) @@ (both :> b) @@ (quiet :> b)
MCChanged == [[d \in Dispatches |-> Repos] EXCEPT ![quiet] = {a}]
NoneDirty == [d \in Dispatches |-> {}]
SidecarDirty == [NoneDirty EXCEPT ![both] = {b}]

Meeting(dispatches, pushes, faults, sweeps, slow) ==
  [dispatches |-> dispatches, pushes |-> pushes, faults |-> faults, sweeps |-> sweeps,
   slow |-> slow]

\* Pushes, faults and sweeps meet in pairs, a slow start meets a fault: this bounds
\* the state space.
MCMeetings ==
  {Meeting({first, again}, 1, 1, 0, 0), Meeting({first, again}, 0, 1, 1, 0),
   Meeting({first, again}, 1, 0, 1, 0), Meeting({first, again}, 0, 1, 0, 1),
   Meeting({first, both}, 0, 1, 0, 0), Meeting({first, both}, 0, 0, 1, 0),
   Meeting({both}, 0, 1, 1, 0), Meeting({first, quiet}, 0, 1, 0, 0)}
TwoInOneRepo == {Meeting({first, both}, 0, 0, 0, 0)}

=============================================================================
