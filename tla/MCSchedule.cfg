\* Timers under ticks that race, fail and die, a context that two timers share, a timer
\* that cannot run, edits of the configuration, and comments that triggers answer.
SPECIFICATION FairSpec
CONSTANTS
  Roles = {Orch, Dev}
  Orch = Orch
  Dev = Dev
  None = None
  Blank = Blank
  Owner = Owner
  Orchd = Orchd
  Human = Human
  Unit = Unit
  Hand = Hand
  Repo = Repo
  Docs = Docs
  tok1 = tok1
  tok2 = tok2
  tok3 = tok3
  scrub = scrub
  audit = audit
  lane = lane
  Worlds <- MCWorlds
INVARIANTS
  OneRunPerSlot
  SessionStaysWithRole
  RefusedOnlyAfterEdit
PROPERTIES
  OverrunOnlyByOverlap
  DueTimersRun
  ConfigCatchesUp
CHECK_DEADLOCK FALSE
