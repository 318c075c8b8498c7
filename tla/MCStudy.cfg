SPECIFICATION Spec
CHECK_DEADLOCK FALSE
CONSTANTS
  None = None
  Hour = 2
  Day = 4
  MIN_LEAD <- MCLead
  RowLimit = 100
  Forward = 4
  Trailing = 4
  Cap = 6
  Scale = 20
  QUANTILES = {2, 5, 10, 15, 18}
  MIN_TRAINING_ROWS = 2
  MIN_VALIDATION_ROWS = 1
  ValidationShare <- MCShare
  Zone = "DK2"
  Horizon = 1
  Horizons = {1, 5}
  Buffer = 4
  Start = 0
  End = 16
  Config <- MCConfig
  Lookback = 8
  Legs <- MCLegs
  Baselines <- MCBaselines
  InitialData <- MCInitialData
  NewPoints <- MCNewPoints
  NewEvents <- MCNewEvents
  MaxWrites = 2
INVARIANTS
  RowsIgnoreTheFuture
  WiderBufferOnlyFillsGaps
  ForecastsUseThePast
  TicksAreScoredOnce
  BaselinesUseThePast
  TargetsCoverEveryDay
