\* Two commits, the first with the newer schema; late or lost webhooks, forced pushes, and
\* three mishaps among crashes, scripts that fail and a store that fails.
SPECIFICATION FairSpec
CONSTANTS
  Shas = {1, 2}
  SchemaOf <- MCSchemaOf
  Bad = {}
  Faults = {"lost", "late", "revert", "remote", "checkout", "log", "script", "issue", "store"}
  MaxMishaps = 3
INVARIANTS
  TypeOK
  RunningJobIsWorked
  LatestDeployedNotReplaced
  StartsUnlessOvertaken
  FailedIsReported
PROPERTIES
  EndedJobsStayEnded
  HeadJobEnds
  HeadRunsUnlessOvertaken
