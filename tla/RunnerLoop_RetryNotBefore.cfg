SPECIFICATION MCSpec
CONSTANTS
  Envelopes <- MCEnvelopes
  Heartbeats = {h1, h2}
  taskExpiresAt = 6
  margin = 1
  maxTimerDelay = 2
  MaxClock = 7
  MaxStepsBack = 2
  maxSize = 1
  maxRetries = 16
  batchLimit = 32
  pollInterval = 4
  baseBackoff = 1
  maxFailures = 10
  Stoppers = {s1, s2}
  MaxAppends = 1
  MaxLoopClock = 64
  Requests = {r1, r2, r3, r4}
  maxConcurrentRequests = 1
  maxQueuedRequests = 2
  Contracts <- MCContracts
  KitOrder <- MCOrder
  SuiteKits <- MCKits
  Events <- MCEvents
  MaxHostEvents = 2
  MaxTainted = 1
  AllowedTools <- MCAllowed
  Releases = 2
  NoSnapshot = NoSnapshot
INVARIANT RetryNotBefore
CHECK_DEADLOCK FALSE
