\* Injected half-close and reset budgets, and what ends nevertheless.
CONSTANTS
  Capacity = 2
  Low = 0
  High = 2
  PreferredRelease = 1
  Latency = 0
  Jitter = 0
  FaultSources = {"Client", "Upstream"}
  Rate = 0
  Burst = 1
  NanosPerSecond = 1
  WordSize = 4
  ResetAfter = 5
  HalfCloseAfter = 2
  SocketBuffer = 1
  ClientBytes = 3
  UpstreamBytes = 4
  ResetSources = {}
  Interruptions = {}
  MaxTime = 0
SPECIFICATION FairSpec
INVARIANTS OrderlyCloseIsComplete BudgetsTrigger
PROPERTY DrainsToClose
CHECK_DEADLOCK FALSE
