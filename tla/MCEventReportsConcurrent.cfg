SPECIFICATION Spec
CONSTANTS
  MIN_HISTORY_POINTS = 2
  HISTORY_FETCH_LIMIT = 100
  REVISION_ABS_TOLERANCE = 1
  Product = "price"
  SameCurrency = TRUE
  Zones = {"DK1", "DK2"}
  Times = {1, 2, 3}
  Values = {0, 1, 4, 5}
  InitialFigures <- DivergencePublished
  Ingestors = {"ingestor"}
  Backfills = {}
  PollWindow = 3
  MaxFigures = 2
  MaxBatches = 2
  Cycles = {scheduler, api_job}
  Faults = {"report_save"}
  NoReport = NoReport
  MaxCycles = 2
  scheduler = scheduler
  api_job = api_job
SYMMETRY RunnerSymmetry
INVARIANTS
  AlertsFollowTheLedger
  TriggersAreFresh
PROPERTIES
  ImplementsLedger
