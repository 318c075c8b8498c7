SPECIFICATION OrderSpec
CONSTANTS
  MIN_HISTORY_POINTS = 2
  HISTORY_FETCH_LIMIT = 5
  REVISION_ABS_TOLERANCE = 1
  Product = "price"
  SameCurrency = TRUE
  Zones = {"DK1","DK2"}
  Times = {1, 2, 3}
  Values = {0, 1, 4}
  InitialFigures <- MCInitialFigures
  Ingestors = {"ingestor"}
  Backfills = {"backfill"}
  PollWindow = 1
  MaxFigures = 2
  MaxBatches = 2
INVARIANTS
  MarketTypeOK
  ViewKeepsUp
  TriggersCiteTheView
PROPERTIES
  RepollIsNeutral
