\* Client bytes held by latency while both peers half-close.
CONSTANTS
  Capacity = 2
  Low = 0
  High = 2
  PreferredRelease = 1
  Latency = 2
  Jitter = 0
  FaultSources = {"Client", "Upstream"}
  Rate = 0
  Burst = 1
  NanosPerSecond = 1
  WordSize = 4
  ResetAfter = 0
  HalfCloseAfter = 0
  SocketBuffer = 1
  ClientBytes = 1
  UpstreamBytes = 0
  ResetSources = {}
  Interruptions = {}
  MaxTime = 2
SPECIFICATION Spec
INVARIANT NeverSpins
CHECK_DEADLOCK FALSE
