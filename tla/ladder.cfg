SPECIFICATION FairSpec
CONSTANTS
  MaxAttempts = 3
  MaxTries = 3
  MaxFaults = 1
  Classes <- EmittedClasses
  Execs = {}
  Ticks = {}
  Directs = {d1}
  Cancels = {}
  MaxPauses = 1
  MaxStale = 1
INVARIANTS
  BoundedExecutions
  FollowUpIsTerminal
PROPERTIES
  RunCloses
CHECK_DEADLOCK FALSE
