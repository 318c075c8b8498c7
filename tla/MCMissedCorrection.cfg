SPECIFICATION Spec
CONSTANTS
  MIN_HISTORY_POINTS = 2
  HISTORY_FETCH_LIMIT = 100
  REVISION_ABS_TOLERANCE = 1
  Product = "price"
  SameCurrency = TRUE
  Zones = {"DK1"}
  Times = {1, 2, 3}
  Values = {0, 1, 4}
  InitialFigures <- SpikePublished
  Ingestors = {"ingestor"}
  Backfills = {}
  PollWindow = 3
  MaxFigures = 2
  MaxBatches = 3
  Cycles = {"scheduler"}
  Faults = {}
  NoReport = NoReport
  MaxCycles = 2
INVARIANTS
  RevisedReportsAreCorrected
