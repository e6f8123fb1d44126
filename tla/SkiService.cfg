SPECIFICATION FairServiceSpec
CONSTANTS
  NoBody = NoBody
  Genesis = Genesis
  Hash <- MCHash
  Root <- MCRoot
  kg1 = kg1
  kg2 = kg2
  KGs <- MCKGs
  NoKG = NoKG
  FileKG = kg1
  Measurements <- MCMeasurements
  Rejects <- MCRejects
  Skewed = {"skewed"}
  Body <- VerdictLines
  Writers = {r1, r2}
  TSA = TRUE
  MaxTime = 1
  CheckpointEvery = 1
  SkewMode = "discretionary"
  HotLoad = TRUE
  MaxLoads = 1
  Strict = TRUE
INVARIANTS
  AuditPasses
  LedgerInv
  OneRowPerVerdict
  ProvenanceMatchesRow
  Replayable
  ServiceInv
PROPERTIES
  ImplementsLog
  ReceiptStable
  ShutdownCoversTail
  ServiceUsesLedger
  RequestsAnswered
  TaskTerminates
