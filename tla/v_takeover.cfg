SPECIFICATION Spec
CONSTANTS
  b1 = b1
  b2 = b2
  a1 = a1
  a2 = a2
  NKeys = 1
  Requests = {b1, a1, a2}
  Batches = {b1}
  Wants <- SlotWants
  Anonymous = {}
  Sweeper = sweeper
  Nobody = nobody
  Ttl = 1
  MaxTime = 1
INVARIANTS
  MutualExclusion
CHECK_DEADLOCK FALSE
