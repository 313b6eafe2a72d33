\* A rate that does not divide the second, so that refills leave remainders.
CONSTANTS
  Rate = 3
  Burst = 4
  NanosPerSecond = 5
  WordSize = 64
  MaxTime = 8
SPECIFICATION Spec
INVARIANTS TypeOK WindowBound WakeIsOnTime
PROPERTY ImplementsFluid
