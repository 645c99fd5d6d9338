\* Webhook tasks against the queue loop, and scheduled decisions through a restart.
SPECIFICATION LiveSpec
CONSTANTS
  impl = impl
  Issues = {i1}
  Repos = {p1}
  RepoOf <- MCRepoOf
  Lanes = {impl, reply}
  ImplLanes = {impl}
  Roles = {impl, reply}
  RoleOf <- MCRoleOf
  Backend = "systemd"
  Sources = {"timer", "webhook"}
  Faults = {"policy", "fetch", "start", "runner", "probe"}
  Outcomes = {"Complete"}
  MaxDecisions = 2
  MaxDispatches = 3
  MaxCrashes = 1
  MaxFinalizeTries = 1
  HeadLimit = 10
  NoIssue = NoIssue
  NoLane = NoLane
PROPERTIES
  DecisionsSettle
CHECK_DEADLOCK FALSE
