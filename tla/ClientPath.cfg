SPECIFICATION FairSpec
CONSTANTS
  Calls = {a, b}
  Clients = {"sdk", "sidecar"}
  Statuses = {"AGREED", "UNVERIFIABLE"}
  Backend = "vllm"
  SkewMode = "discretionary"
  Strict = TRUE
  Reconnects = 1
  MaxRetries = 1
  Limit = 1
  WindowSize = 1
  Percent = 95
  MaxEpoch = 2
INVARIANTS
  ClientInv
  OutcomeTellsLedger
  TripStopsEvaluation
  MonitorMatchesLedger
  PagesAreAPrefix
PROPERTIES
  EverybodyAnswered
CHECK_DEADLOCK FALSE
