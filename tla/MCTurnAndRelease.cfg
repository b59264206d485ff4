SPECIFICATION MCSpec
CONSTANTS
  r1 = r1
  r2 = r2
  k1 = k1
  None = None
  Runs = {r1, r2}
  Turns = {"turn"}
  LedgerKeys = {k1}
  TurnOf <- MCTurnOf
  Requests <- MCRequests
  Limit = 1
  Texts = {"good", "bad", "worse"}
  Repetition = 2
  Oscillation = 1
  Window = 4
  SinkFaults = TRUE
  MaxTime = 1
  MaxCrashes = 1
  Versions = {1, 2}
  Tarballs = {"x", "y"}
  Inputs <- MCInputs
  MaxJobs = 2
  Tries = 2
  Reads = 2
  Lag = 1
  MaxOwner = 1
  Absent = Absent
  NoTag = NoTag
  Unstable = Unstable
INVARIANTS TurnGoverned
PROPERTIES ImplementsContract EveryTurnEnds PublishSound EveryJobReports
CHECK_DEADLOCK FALSE
