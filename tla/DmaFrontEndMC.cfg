CONSTANTS
  Clusters = {0, 1}
  MaskBits = 3
  WordMod = 16
  IncrMod = 8
  IoCycles = 3
  MaxRegister = 1
  Programs <- MCPrograms
  RegisterCommands <- MCRegisterCommands
SPECIFICATION FairSpec
INVARIANTS TypeOK InputFree LoopOwesCommands BlockNotRetriggered NothingLost IInv
PROPERTIES SyncDrains SSpec CallsReturn
