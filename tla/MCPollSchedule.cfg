SPECIFICATION Spec
CONSTANTS
  Registry <- MCRegistry
  Cadence <- MCCadence
  CyclePeriod = 6
  POLLS_PER_UPDATE_FREQUENCY = 4
  RATE_LIMIT = 1
  MaxAttempts = 2
  RetryWaits = {1, 4}
  RequestTime = 1
  TokenCost = 1
  Capacity = 2
  Horizon = 130
  MaxExcused = 20
INVARIANTS
  StalenessBounded
PROPERTIES
  NeverEarly
