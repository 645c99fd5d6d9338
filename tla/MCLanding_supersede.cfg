\* Two issues with one number.
SPECIFICATION FairSpec
CONSTANTS
  None = None
  first = first
  again = again
  both = both
  quiet = quiet
  a = a
  b = b
  Dispatches = {first, again, both, quiet}
  Repos = {a, b}
  IssueOf <- Issues
  SidecarOf <- Sidecars
  Changed <- MCChanged
  MayDirty <- NoneDirty
  Meetings <- TwoInOneRepo
  MaxAttempts = 1
  MaxTries = 1
PROPERTIES
  SupersedesItsOwn
CHECK_DEADLOCK FALSE
