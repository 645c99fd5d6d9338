\* Four worlds: workers, one that closes, orchd's own writers, an issue without a state.
SPECIFICATION FairSpec
CONSTANTS
  Processes = {1, 2, 3, 4, 5}
  Worlds <- MCWorlds
INVARIANTS
  ClaimExclusive
  OrphansExplained
  QuietIsReady
  OneWorkflowState
PROPERTIES
  FinishedIsClosed
  EventuallyStated
CHECK_DEADLOCK FALSE
