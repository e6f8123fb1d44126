SPECIFICATION Spec
CONSTANTS
  k1 = k1
  k2 = k2
  k3 = k3
  Keys <- MCKeys
  Generated <- MCGenerated
  NoKey = NoKey
  Torn = Torn
  NoEnv = NoEnv
  Envs <- MCEnvs
SYMMETRY Symmetry
INVARIANTS
  StrictIsSovereign
  SignaturesVerify
  StartupInv
PROPERTIES
  NoSilentIdentity
