SPECIFICATION MCSpec
CONSTANTS
  Issues = {i1, a1}
  AuditIssues = {a1}
  Tasks = {t1}
  Phases = {"completed", "failed", "blocked"}
  PassLimit = 1
  Faults = {"send", "store", "baseline", "forgejoctl", "killed", "restart", "heal"}
  MaxDispatches = 2
  MaxReplies = 1
  MaxMishaps = 2
  NoIssue = NoIssue
  NoTask = NoTask
INVARIANTS
  ToldTwiceOnlyIfUnrecorded
  FailureIsAudited
PROPERTIES
  EndIsTold
CHECK_DEADLOCK FALSE
