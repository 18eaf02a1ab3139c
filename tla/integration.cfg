SPECIFICATION FairSpec
CONSTANTS
  b1 = b1
  b2 = b2
  a1 = a1
  k1 = k1
  k2 = k2
  NoBranch = NoBranch
  NoCaller = NoCaller
  Branches = {b1, b2}
  KeyOf <- OneKeyEach
  Clashes <- Worktrees
  Attempts = {a1}
  Callers = {c1}
  Processors = {p1}
  MaxFaults = 1
INVARIANTS
  MergedWasLanded
  WorkKept
PROPERTIES
  FirstComeFirstServed
  QueueDrains
CHECK_DEADLOCK FALSE
