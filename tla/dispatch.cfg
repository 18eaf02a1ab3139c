SPECIFICATION FairSpec
CONSTANTS
  k1 = k1
  k2 = k2
  Passes = {k1}
  NTasks = 4
  DependsOn <- Chain
  Role <- OneRole
  Depth <- LastTooDeep
  MaxConcurrency = 1
  RoleLimits <- OneCap
  SpawnMaxDepth = 2
  Exclusive <- SecondTask
  MaxAttempts = 2
  MaxEvents = 1
INVARIANTS
  WithinLimits
PROPERTIES
  WokenByCompletion
  EventuallyStarted
CHECK_DEADLOCK FALSE
