\* Two decisions of one lane, both from the schedule.
SPECIFICATION Spec
CONSTANTS
  Issues = {i1}
  Repos = {p1}
  RepoOf <- MCRepoOf
  Lanes = {impl}
  ImplLanes = {impl}
  Roles = {impl}
  RoleOf <- MCRoleOf
  Backend = "systemd"
  Sources = {"timer"}
  Faults = {}
  Outcomes = {"Complete"}
  MaxDecisions = 2
  MaxDispatches = 2
  MaxCrashes = 0
  MaxFinalizeTries = 1
  HeadLimit = 10
  NoIssue = NoIssue
  NoLane = NoLane
INVARIANTS
  LatestOfLaneIsLast
CHECK_DEADLOCK FALSE
