SPECIFICATION MCSpec
CONSTANTS
  Envelopes <- MCEnvelopes
  Heartbeats = {h1, h2}
  taskExpiresAt = 6
  margin = 1
  maxTimerDelay = 2
  MaxClock = 7
  MaxStepsBack = 2
  maxSize = 2
  maxRetries = 2
  batchLimit = 1
  pollInterval = 1
  baseBackoff = 1
  maxFailures = 1
  Stoppers = {s1, s2}
  MaxAppends = 3
  MaxLoopClock = 8
  Requests = {r1, r2, r3, r4}
  maxConcurrentRequests = 1
  maxQueuedRequests = 2
  Contracts <- MCContracts
  KitOrder <- MCOrder
  SuiteKits <- MCKits
  Events <- MCEvents
  MaxHostEvents = 2
  MaxTainted = 1
  AllowedTools <- MCAllowed
  Releases = 2
  NoSnapshot = NoSnapshot
INVARIANTS TimerCoversDeadline OutboxSound ServerSound
PROPERTIES LeaseGoesForward DeadlineAborts OutboxProgress EveryRequestEnds
  SuiteSound SuiteProgress
CHECK_DEADLOCK FALSE
