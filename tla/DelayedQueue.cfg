\* Every content of a ring of three cells, every pattern of delays up to three, two
\* pauses.
CONSTANTS
  Capacity = 3
  Bytes = {0, 1}
  Low = 1
  High = 3
  MaxTime = 3
  MaxPauses = 2
SPECIFICATION Spec
INVARIANTS SpansMakeProgress WakeReleases CountersAgree
PROPERTIES ImplementsDelayedFifo PausedTimeIsExact
CHECK_DEADLOCK FALSE
