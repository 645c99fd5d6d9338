----------------------------- MODULE MCDispatch -----------------------------
(***************************************************************************)
(* Small instances of Dispatch for TLC: all issues in one repository, one  *)
(* role per lane.                                                          *)
(***************************************************************************)
EXTENDS Dispatch, TLC

MCRepoOf == [i \in Issues |-> CHOOSE p \in Repos : TRUE]

MCRoleOf == [l \in Lanes |-> l]

IssueSymmetry == Permutations(Issues)
=============================================================================
