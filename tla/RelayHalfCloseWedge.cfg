\* A half-close injected toward the client.
CONSTANTS
  Capacity = 2
  Low = 0
  High = 2
  PreferredRelease = 1
  Latency = 0
  Jitter = 0
  FaultSources = {"Client", "Upstream"}
  Rate = 0
  Burst = 1
  NanosPerSecond = 1
  WordSize = 4
  ResetAfter = 0
  HalfCloseAfter = 1
  SocketBuffer = 1
  ClientBytes = 0
  UpstreamBytes = 3
  ResetSources = {}
  Interruptions = {}
  MaxTime = 0
SPECIFICATION FairSpec
PROPERTY InjectedHalfCloseDrains
CHECK_DEADLOCK FALSE
