\* Repeated deliveries, a race through the guardrails, and every event of a small world.
SPECIFICATION FairSpec
CONSTANTS
  Orch = Orch
  Dev = Dev
  Human = Human
  Issue = Issue
  None = None
  t1 = t1
  t2 = t2
  Roles = {Orch, Dev}
  Tasks = {t1, t2}
  Worlds <- MCWorlds
  MaxRecent = 1
  Window = 1
  Cooldown = 3
INVARIANTS
  DecidedAtMostOnce
  TriggerFiresOnce
  DepthNearlyHolds
  CooldownKeepsApart
  BestTriggerWins
  ReplyFollowsConversation
PROPERTIES
  EventsAreDecided
CHECK_DEADLOCK FALSE
