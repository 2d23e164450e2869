CONSTANTS
  Clusters = {0, 1}
  MaskBits = 3
  WordMod = 16
  IncrMod = 8
  IoCycles = 3
  MaxRegister = 0
  Programs <- MCSyncPrograms
  RegisterCommands <- MCRegisterCommands
SPECIFICATION Spec

PROPERTIES SyncBlocksUntilDone
