\* A launch slower than the staleness limit is healed and its issue dispatched again.
SPECIFICATION Spec
CONSTANTS
  Issues = {i1}
  Repos = {p1}
  RepoOf <- MCRepoOf
  Lanes = {impl}
  ImplLanes = {impl}
  Roles = {impl}
  RoleOf <- MCRoleOf
  Backend = "systemd"
  Sources = {"webhook", "timer"}
  Faults = {}
  Outcomes = {"Complete"}
  MaxDecisions = 2
  MaxDispatches = 2
  MaxCrashes = 0
  MaxFinalizeTries = 1
  HeadLimit = 10
  NoIssue = NoIssue
  NoLane = NoLane
INVARIANTS
  OneRunnerPerIssue
CHECK_DEADLOCK FALSE
