CONSTANTS
  NClusters = 2
  NTags = 3
  NSets = 1
  Assoc = 2
  LineWords = 1
  NBrams = 1
  PortWords = 1
  Values = {0, 1}
  Requests <- MCWayRequests
  Images <- MCImages
  Latency = 0
  Burst = 1
  BusLatency = 0
  InitialBurst <- MCGarbage
  MaxCalls = 1
SPECIFICATION Spec
PROPERTIES DownloadFinished
