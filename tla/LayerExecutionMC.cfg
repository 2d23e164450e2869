CONSTANTS
  MaskBits = 16
  WordMod = 1048576
  IncrMod = 8192
  Programs <- MCPrograms
SPECIFICATION FairSpec
INVARIANTS
  NothingOutlivesSync
  NoBufferConflict
PROPERTIES
  ImplementsLayer
  Completes
\* a layer that has been executed is the end
CHECK_DEADLOCK FALSE
