CONSTANTS
  None = None
  Day = 4
  Hour = 1
  MinHistory = 2
  BaselineMultiplier = 2
  Peg = 7
  MarketOf <- MCMarketOf
  DirectionOf <- MCDirectionOf
  CurrencyOf <- MCCurrencyOf
  Windows <- MCWindows
  Evaluations <- MCEvaluations
  Predictions <- MCPredictions
SPECIFICATION SameSpec
CHECK_DEADLOCK FALSE
INVARIANT DataStopsPayStops
