CONSTANTS
  Dotted = {"nested"}
  NoMetric = NoMetric
  NoId = NoId
  NoUnit = NoUnit
  Snapshots <- MCSnapshots
  Measurements <- MCMeasurements
  Responses <- MCResponses
  Windows <- MCWindows
  ForceDiscretionary = FALSE
SPECIFICATION Spec
INVARIANTS BreachNeverHidden ClearIsEarned FreshnessWins TierOnlyRestricts SilentKeyNeverClear EvaluatorInv
CHECK_DEADLOCK FALSE
