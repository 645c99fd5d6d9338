\* Two dispatches, every fault, the automerge sweep and people who push.
SPECIFICATION FairSpec
CONSTANTS
  None = None
  first = first
  again = again
  both = both
  quiet = quiet
  a = a
  b = b
  Dispatches = {first, again, both, quiet}
  Repos = {a, b}
  IssueOf <- Issues
  SidecarOf <- Sidecars
  Changed <- MCChanged
  MayDirty <- SidecarDirty
  Meetings <- MCMeetings
  MaxAttempts = 2
  MaxTries = 2
INVARIANTS
  CompletedIsLanded
  FailureIsTold
PROPERTIES
  EndsRecorded
CHECK_DEADLOCK FALSE
