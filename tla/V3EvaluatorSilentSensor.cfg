CONSTANTS
  Dotted = {"nested"}
  NoMetric = NoMetric
  NoId = NoId
  NoUnit = NoUnit
  Snapshots <- MCSnapshots
  Measurements <- MCMeasurements
  Responses <- MCResponses
  Windows <- MCWindows
  ForceDiscretionary = FALSE
SPECIFICATION Spec
INVARIANT SilentSensorNeverClear
CHECK_DEADLOCK FALSE
