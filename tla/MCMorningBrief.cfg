SPECIFICATION Spec
CONSTANTS
  Runners = {scheduler, request}
  Horizons <- MCHorizons
  RefreshInterval <- MCRefreshInterval
  Backtests = 2
  MaxRuns = 2
  MaxFailures = 2
  MaxDay = 2
  InitialCache <- MCInitialCache
  scheduler = scheduler
  request = request
SYMMETRY RunnerSymmetry
INVARIANTS
  FlagsAreTruthful
  BriefsResolve
  RegeneratedOnlyWhenExpired
  ForecastsMoveForward
  DeliveryAttempted
