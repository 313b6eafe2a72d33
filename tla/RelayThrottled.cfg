\* Both directions delayed, jittered and rate-limited: the wakes of one meet
\* those of the other.
CONSTANTS
  Capacity = 2
  Low = 0
  High = 2
  PreferredRelease = 2
  Latency = 1
  Jitter = 1
  FaultSources = {"Client", "Upstream"}
  Rate = 2
  Burst = 2
  NanosPerSecond = 3
  WordSize = 32
  ResetAfter = 0
  HalfCloseAfter = 0
  SocketBuffer = 1
  ClientBytes = 3
  UpstreamBytes = 1
  ResetSources = {}
  Interruptions = {}
  MaxTime = 2
SPECIFICATION Spec
INVARIANTS NoLostWakeup RequestedReadinessActs DelayLineInStep RateRespected
PROPERTY WakesAreAhead
CHECK_DEADLOCK FALSE
