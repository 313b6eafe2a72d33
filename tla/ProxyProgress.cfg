\* Metrics requests and termination at any time, admission at the limit, and
\* liveness: with two descriptors one connection takes them all, and a waiting
\* client keeps the listener ready; with four the limit is reached first.
CONSTANTS
  MaxConnections = 1
  ConnectTimeout = 1
  IdleTimeout = 0
  WakeDelays = {}
  FdLimits = {2, 4}
  Clients = 2
  Signals = {"SIGUSR1", "SIGTERM"}
  MaxTime = 1
SPECIFICATION FairSpec
INVARIANT AdmissionAccounted
PROPERTIES ConnectingEnds ClientsAnswered StopsOnSignal
CHECK_DEADLOCK FALSE
