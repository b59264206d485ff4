SPECIFICATION MCSpec
CONSTANTS
  r1 = r1
  r2 = r2
  r3 = r3
  r4 = r4
  r5 = r5
  c1 = c1
  c2 = c2
  HostRuns = {r1, r2, r3, r4, r5}
  HostOf <- MCHostOf
  RunIdOf <- MCRunIdOf
  CallIds = {t1, t2}
  Environments <- MCEnvironments
  RunRequests <- MCRunRequests
  MaxEvents = 5
  NoRun = NoRun
  Calls = {c1, c2}
  KindOf <- MCKindOf
  SchemaOf <- MCSchemaOf
  Flags <- MCFlags
  McpSettings <- MCMcp
  MaxKids = 2
  NoCall = NoCall
  Completions = {1, 2}
  Settings <- MCSettings
  PortLines <- MCPortLines
  MaxPortLines = 3
  ScriptLength = 1
  AdapterRuns <- MCAdapterRuns
  NoAnswer = NoAnswer
CONSTRAINT OneRunAtATime
INVARIANTS HostRunSound StdioSound PortsSound
PROPERTIES EveryHostRunEnds StdioCallsEnd PortCallsEnd
CHECK_DEADLOCK FALSE
