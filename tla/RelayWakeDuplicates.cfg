\* Two directions blocked on time.
CONSTANTS
  Capacity = 2
  Low = 0
  High = 2
  PreferredRelease = 1
  Latency = 2
  Jitter = 2
  FaultSources = {"Client", "Upstream"}
  Rate = 0
  Burst = 1
  NanosPerSecond = 1
  WordSize = 4
  ResetAfter = 0
  HalfCloseAfter = 0
  SocketBuffer = 1
  ClientBytes = 2
  UpstreamBytes = 1
  ResetSources = {}
  Interruptions = {}
  MaxTime = 4
SPECIFICATION Spec
INVARIANT WakesAreDeduplicated
CHECK_DEADLOCK FALSE
