\* Who gets the reservation, and what a crash leaves behind.
SPECIFICATION SafeSpec
CONSTANTS
  impl = impl
  Issues = {i1, i2}
  Repos = {p1}
  RepoOf <- MCRepoOf
  Lanes = {impl, reply}
  ImplLanes = {impl}
  Roles = {impl, reply}
  RoleOf <- MCRoleOf
  Backend = "systemd"
  Sources = {"webhook", "timer"}
  Faults = {"policy", "probe", "fetch", "start", "runner", "disconnect"}
  Outcomes = {"Complete", "Timeout"}
  MaxDecisions = 2
  MaxDispatches = 2
  MaxCrashes = 1
  MaxFinalizeTries = 2
  HeadLimit = 10
  NoIssue = NoIssue
  NoLane = NoLane
SYMMETRY IssueSymmetry
INVARIANTS
  TypeOK
  ExclusiveInFlight
  OrphanOnlyByHeal
  CursorOnlyAfterLaunch
PROPERTIES
  EndedRowsAreFinal
  ImplementsClaims
CHECK_DEADLOCK FALSE
