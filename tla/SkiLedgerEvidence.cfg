SPECIFICATION LedgerSpec
CONSTANTS
  NoBody = NoBody
  Genesis = Genesis
  Hash <- MCHash
  Root <- MCRoot
  Writers = {w1, w2, w3}
  Body = {b1, b2}
  CheckpointEvery = 1
  TSA = TRUE
  MaxTime = 0
SYMMETRY Symmetry
INVARIANTS
  ReceiptFromLatest
