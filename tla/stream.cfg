SPECIFICATION FairSpec
CONSTANTS
  api = api
  worker = worker
  Procs = {api, worker}
  Gateway = api
  Entities <- TwoEntities
  Owner <- Alternating
  Requests <- TheList
  Poison <- FirstIsPoison
  MaxSeq = 2
  MaxFaults = 2
  MaxReads = 1
  BusSize = 1
  QueueSize = 1
  MaxDrops = 1
  MaxDeliver = 2
  Page = 2
  ListLimit = 1
INVARIANTS
  NoSilentLoss
PROPERTIES
  FollowsTheLog
  SentIsShown
CHECK_DEADLOCK FALSE
