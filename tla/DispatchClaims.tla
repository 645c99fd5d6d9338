---------------------------- MODULE DispatchClaims ----------------------------
(***************************************************************************)
(* What the dispatches table promises, without orchd: each row is a claim  *)
(* on its issue, and, in an impl lane, on its repository.  A claim is made *)
(* once, while nobody holds what it claims, is given up once, and is never *)
(* reopened.                                                               *)
(***************************************************************************)
CONSTANTS
  Rows, Issues, Repos, RepoOf, Lanes, ImplLanes, NoIssue, NoLane

VARIABLE claim  \* [Rows -> [phase, issue, lane]]

Unclaimed == [phase |-> "free", issue |-> NoIssue, lane |-> NoLane]

Init == claim = [r \in Rows |-> Unclaimed]

\* A held claim of an impl lane holds the repository of its issue.
HoldsRepo(r, p) ==
  claim[r].phase = "held" /\ claim[r].lane \in ImplLanes /\ RepoOf[claim[r].issue] = p

Acquire(r, i, l) ==
  /\ claim[r] = Unclaimed
  /\ \A q \in Rows : ~(claim[q].phase = "held" /\ claim[q].issue = i)
  /\ l \in ImplLanes => \A q \in Rows : ~HoldsRepo(q, RepoOf[i])
  /\ claim' = [claim EXCEPT ![r] = [phase |-> "held", issue |-> i, lane |-> l]]

Release(r) ==
  /\ claim[r].phase = "held"
  /\ claim' = [claim EXCEPT ![r] =
                  [phase |-> "ended", issue |-> claim[r].issue, lane |-> claim[r].lane]]

Next == \E r \in Rows : Release(r) \/ \E i \in Issues, l \in Lanes : Acquire(r, i, l)

Spec == Init /\ [][Next]_claim
=============================================================================
