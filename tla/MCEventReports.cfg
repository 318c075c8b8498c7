SPECIFICATION FairSpec
CONSTANTS
  MIN_HISTORY_POINTS = 2
  HISTORY_FETCH_LIMIT = 100
  REVISION_ABS_TOLERANCE = 1
  Product = "price"
  SameCurrency = TRUE
  Zones = {"DK1"}
  Times = {1, 2, 3}
  Values = {0, 1, 4}
  InitialFigures <- SpikePublished
  Ingestors = {"ingestor"}
  Backfills = {}
  PollWindow = 3
  MaxFigures = 2
  MaxBatches = 2
  Cycles = {"scheduler"}
  Faults = {"engine", "synthesis", "report_save", "slack", "crash"}
  NoReport = NoReport
  MaxCycles = 2
INVARIANTS
  TypeOK
  RevisionsAreCorrections
  CorrectionsFormAChain
  CycleAccounts
PROPERTIES
  CycleEnds
