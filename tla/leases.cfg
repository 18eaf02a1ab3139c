SPECIFICATION FairSpec
CONSTANTS
  b1 = b1
  b2 = b2
  a1 = a1
  a2 = a2
  NKeys = 2
  Requests = {b1, b2}
  Batches = {b1, b2}
  Wants <- BatchWants
  Anonymous = {b2}
  Sweeper = sweeper
  Nobody = nobody
  Ttl = 1
  MaxTime = 2
INVARIANTS
  AllOrNothing
PROPERTIES
  RequestsAnswered
CHECK_DEADLOCK FALSE
