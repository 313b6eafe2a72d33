\* Two connections: closes, stale events and reused descriptors inside a batch,
\* connect, idle and pump timers.
CONSTANTS
  MaxConnections = 2
  ConnectTimeout = 1
  IdleTimeout = 2
  WakeDelays = {1}
  FdLimits = {4}
  Clients = 2
  Signals = {}
  MaxTime = 3
SPECIFICATION Spec
INVARIANTS TypeOK EventsReachTheirSocket TablesAgree TimerfdCoversHeap NobodyOverstays
PROPERTY TimeoutsAreEarned
CHECK_DEADLOCK FALSE
