SPECIFICATION Spec
CONSTANTS
  Systems = {"ports", "messages", "review", "artifacts", "oversight", "runner", "terminals", "browsers", "execution",
             "mcp", "suites", "audits", "workspace", "planning", "context", "limiter", "agents", "downloads",
             "gates"}
  c1 = c1  c2 = c2  k1 = k1  w1 = w1  r1 = r1  r2 = r2  ka = ka  kb = kb
  PortCalls = {c1, c2}
  NPorts = 2
  PortKeyOf <- PortKeys
  Preferred <- Preferences
  NoPortKey = NoPortKey
  MaxRows = 2
  NMessages = 2
  Unpublishable = {1}
  FanOuts = {f1, f2}
  Limit = 2
  MaxLosses = 2
  Reviews = {v1}
  ReviewerRoles <- Roles
  Contents = {x}
  Writers = {w1, w2, w3}
  MaxDeaths = 1
  Requirements = {r1, r2}
  Must = {r1}
  Criteria = {ka, kb}
  CriterionOf <- CriteriaOf
  Mandatory = {ka, kb}
  Reporters = {p1}
  Processes = {d1, d2}
  MaxKills = 1
  Terminals = {t1, t2}
  MAX_SESSIONS = 1
  Openers = {o1, o2, o3}
  MaxPages = 1
  Executions = {1, 2}
  Payloads <- CommandLists
  CallBudget = 1
  MaxTries = 2
  HasFallback = TRUE
  NSlots = 1
  MaxUpsets = 1
  NServers = 2
  EvalCases <- OneCase
  Repeats = 2
  CallsPerCase = 2
  CallsPerRun = 3
  AuditKeys = {"k1", "k2"}
  Durations = {2, 3, 4}
  Paths <- TwoPaths
  Tree <- FirstTree
  Texts = {"big"}
  Editors = {e1, e2}
  Passes = {1, 2}
  MaxIndexed = 1
  MaxEdits = 2
  ProjectCalls = {o1, o2}
  NameOf <- SameName
  PlanSpecs <- Plans
  MaxRowId = 4
  Offers <- OfferedTexts
  TierBudgets = {5, 12, 60}
  Callers = {u1, u2}
  Allowed = 2
  Window = 2
  BucketCap = 1
  MaxTime = 3
  Beaters = {b1, b2}
  Starters = {q1}
  Enders = {q2}
  STALE = 1
  MaxClock = 2
  Lengths = {0, 3}
  CHUNK = 2
  Headers <- RangeHeaders
  NoBlob = NoBlob
  MaxSwaps = 2
  GatedTasks = {g1}
  NoTask = NoTask
  NFiles = 2
  Unscannable = {2}
  MAX_FILES = 1
  Scans = {z1, z2}
  Asks = {a1}
  MaxPlants = 1
INVARIANTS
  AcceptedWithRecord
  EvidenceReadable
  CompletionRests
  WorkBounded
  SuiteWithinBudget
  NothingCreeps
  IndexSettles
  PlansWhole
  ContextBounded
  LimitIsFair
  LostWasSilent
  SliceServed
PROPERTIES
  AllocateAnswers
  MessagesGetThrough
  RunsEnd
  PlacesComeBack
  ToolCallsEnd
CHECK_DEADLOCK FALSE
