SPECIFICATION Spec
CONSTANTS
  NoBody = NoBody
  Genesis = Genesis
  Hash <- MCHash
  Root <- MCRoot
  Body = {b1, b2}
  Keys = {k1, k2}
  Foreign = kx
  Pins = {k1, k2}
  MaxRows = 2
  MaxTime = 1
SYMMETRY Symmetry
CONSTRAINT OneSession
INVARIANTS
  ValidIsGenuine
  SealedEntriesSurvive
  AlarmsExplained
CHECK_DEADLOCK FALSE
