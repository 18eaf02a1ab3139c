SPECIFICATION Spec
CONSTANTS
  MaxAttempts = 2
  MaxTries = 3
  MaxFaults = 2
  Classes <- OneClass
  Execs = {e1}
  Ticks = {t1}
  Directs = {}
  Cancels = {c1}
  MaxPauses = 0
  MaxStale = 0
INVARIANTS
  CompletedHasSuccess
  NoOrphanedTask
PROPERTIES
  LedgerKept
CHECK_DEADLOCK FALSE
