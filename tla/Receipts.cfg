SPECIFICATION Spec
CONSTANTS
  Keys = {k1, k2}
  MaxLen = 4
  MaxIssued = 2
  MaxRewrites = 1
SYMMETRY Symmetry
INVARIANTS
  AnswersVerify
  AcceptedIsOriginal
