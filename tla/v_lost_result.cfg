SPECIFICATION Spec
CONSTANTS
  MaxAttempts = 2
  MaxTries = 2
  MaxFaults = 1
  Classes <- OneClass
  Execs = {}
  Ticks = {}
  Directs = {d1}
  Cancels = {}
  MaxPauses = 0
  MaxStale = 0
INVARIANTS
  SuccessSettles
CHECK_DEADLOCK FALSE
