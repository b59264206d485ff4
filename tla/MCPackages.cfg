SPECIFICATION MCSpec
CONSTANTS
  Envelopes <- MCEnvelopes
  SignedTasks <- MCTasks
  Guards <- MCGuards
  Heartbeats = {h1}
  Executions = {e1, e2}
  Followed = {e1}
  taskExpiresAt = 3
  margin = 1
  maxTimerDelay = 3
  MaxClock = 3
  MaxStepsBack = 1
  skew = 0
  maxEvents = 2
  EventTypes = {"read"}
  Tools = {"read"}
  maxActions = 1
  Genesis = Genesis
  Manifest = "manifest"
  Declared <- MCDeclared
  MaxWrites = 3
  NoIdentity = NoIdentity
  Creators = {k1, k2}
  PackageFiles <- MCFiles
  MaxIntrusions = 2
  MaxFaults = 1
  Nothing = Nothing
  ManifestOf <- MCManifestOf
  FileLists <- MCFileLists
  Garbled = "?"
  EscapingPaths = {"../up"}
  SecretPaths = {".env"}
  LongPaths = {"long"}
  MaxArchives = 3
  NoValue = NoValue
CONSTRAINT OnlyFollowedLeased
INVARIANTS ClaimsSound BundlesGenuine InspectedAtOneMoment InitSound ArchiveSound
CHECK_DEADLOCK FALSE
