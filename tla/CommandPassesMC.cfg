CONSTANTS
  MaskBits = 16
  WordMod = 1048576
  IncrMod = 8192
  Layers <- MCLayers
SPECIFICATION Spec
INVARIANTS
  ComputesLayer
  PhasesRaceFree
  BlocksExact
  AssertionsHold
PROPERTIES
  EffectsKept
\* the last pass is the end
CHECK_DEADLOCK FALSE
