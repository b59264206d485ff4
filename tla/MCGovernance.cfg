SPECIFICATION MCSpec
CONSTANTS
  a1 = a1
  a2 = a2
  tp1 = tp1
  tp2 = tp2
  ap1 = ap1
  ap2 = ap2
  t1 = t1
  t2 = t2
  pv1 = pv1
  pv2 = pv2
  RawActors = {a1, a2, blank}
  Blank = blank
  Anonymous = anonymous
  JobIds = {}
  NoJob = NoJob
  maxConcurrent = 2
  maxQueueSize = 1
  queueTimeout = 1
  cooldown = 0
  dedupeWindow = 0
  maxSeenJobs = 1
  maxTrackedActors = 1
  MaxCalls = 3
  MaxClock = 1
  Conversations = {g1}
  Topics = {tp1, tp2, bad}
  UnsafeTopics = {bad}
  sessionTtl = 1
  maxSessions = 1
  maxMessages = 3
  maxFaqs = 1
  MaxHits = 1
  own = own
  worker = worker
  newcomer = newcomer
  Positions <- MCPositions
  Owner = own
  Root = Root
  Digests = {1, 2}
  Budgets <- MCBudgets
  Bootstrap <- MCBootstrap
  Appliers = {ap1, ap2}
  Tasks = {t1, t2}
  Children = {c1, c2}
  MaxEdits = 1
  MaxAttempt = 2
  BudgetLimitMax = 2
  None = None
  caller1 = caller1
  caller2 = caller2
  NoValue = NoValue
  Callers = {caller1, caller2}
  Pinned <- MCPinned
  WriteRequests <- MCWrites
  RecallModes = {"optional", "required"}
  Revisions <- MCRevisions
  Limit = 1
  MaxMemories = 2
  MaxChanges = 1
  MaxTries = 2
  Bundles <- MCBundles
  MaxItems = 1
  MaxBytes = 1
  MaxAge = 2
  MaxSkew = 1
  ArtifactScope = 1
  Clock = 5
  undeclared = undeclared
  Previews = {pv1, pv2}
  Writes = {w1, w2, undeclared}
  Undeclared = {undeclared}
  MaxAttempts = 2
  MaxThrows = 1
  MaxWriteNow = 1
  early = early
  late = late
  IntakeTasks = {early, late}
  leaseExpiresAt <- MCLeases
  timeout = 2
  MaxIntakeNow = 4
SYMMETRY Symmetry
CONSTRAINT Bounds
INVARIANTS AnswersSound PermissionsSound DelegationSound MemorySound
PROPERTIES WritesSound IntakeSound
CHECK_DEADLOCK FALSE
