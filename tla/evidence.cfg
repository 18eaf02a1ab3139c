SPECIFICATION Spec
CONSTANTS
  MaxAttempts = 3
  MaxTries = 3
  MaxFaults = 1
  Classes <- EmittedClasses
  Execs = {}
  Ticks = {}
  Directs = {d1, d2}
  Cancels = {c1}
  MaxPauses = 1
  MaxStale = 0
INVARIANTS
  EvidencedFailure
CHECK_DEADLOCK FALSE
