CONSTANTS
  Units <- MCUnits
  ExtWords <- MCExt
  LocWords <- MCLoc
  Values <- MCValues
  Commands <- MCCommands
  PadConfigs <- MCPads
  PortWords = 2
  WordMod = 16
  Memories <- MCMemories
  MaxCommands = 3
SPECIFICATION FairSpec
INVARIANTS RequestsAgree EngineInv
PROPERTIES CopySpec CommandsComplete
