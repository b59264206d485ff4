SPECIFICATION MCSpec
CONSTANTS
  RawActors = {a1, a2, blank}
  Blank = blank
  Anonymous = anonymous
  JobIds = {j1, j2}
  NoJob = NoJob
  maxConcurrent = 1
  maxQueueSize = 1
  queueTimeout = 1
  cooldown = 2
  dedupeWindow = 2
  maxSeenJobs = 1
  maxTrackedActors = 1
  MaxCalls = 3
  MaxClock = 3
  Messages <- MCMessages
  MaxDeliveries = 2
  Ttl = 1
  MaxEntries = 1
  StaleAfter = 0
  WakeDrift = 1
  ReconnectAttempts = 2
  MaxLength = 3
  Newline = "n"
  Deploys = {d1, d2}
  Options <- MCOptions
  Profiles = {pa, pb}
  MaxFaults = 1
  Nobody = Nobody
INVARIANTS ActorExclusive SlotsConserved MapsWithinCapacity StopDisconnects DeploySound
PROPERTIES QueuedLeaves RepliedOnce StreamRecovers DeployEnds
CHECK_DEADLOCK FALSE
