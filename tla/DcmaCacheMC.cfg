CONSTANTS
  NClusters = 2
  NTags = 3
  NSets = 1
  Assoc = 2
  LineWords = 1
  NBrams = 1
  PortWords = 1
  Values = {0, 1}
  Requests <- MCRequests
  Images <- MCImages
  Latency = 1
  Burst = 1
  BusLatency = 0
  InitialBurst <- MCZero
  MaxCalls = 1
SPECIFICATION FairSpec
INVARIANTS CacheInv BramPortLimit
PROPERTIES FlushCleans MemorySpec FlushEnds RequestsServed
