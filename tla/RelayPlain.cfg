\* No faults: forwarding, backpressure, half-closes, a slow connect(), resets,
\* timeouts and a shutdown.
CONSTANTS
  Capacity = 3
  Low = 1
  High = 3
  PreferredRelease = 1
  Latency = 0
  Jitter = 0
  FaultSources = {}
  Rate = 0
  Burst = 1
  NanosPerSecond = 1
  WordSize = 4
  ResetAfter = 0
  HalfCloseAfter = 0
  SocketBuffer = 1
  ClientBytes = 5
  UpstreamBytes = 2
  ResetSources = {"Client", "Upstream"}
  Interruptions = {"connect_timeout", "idle_timeout", "proxy_shutdown"}
  MaxTime = 0
SPECIFICATION Spec
INVARIANTS TypeOK Watermarks Accounting EofIsFaithful
PROPERTY LifecycleAdvances
CHECK_DEADLOCK FALSE
