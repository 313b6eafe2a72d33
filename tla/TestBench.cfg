\* Every combination of modes, a path of two bytes each way, sizes on both sides of
\* what fits.
CONSTANTS
  Path = 2
  Chunk = 2
  Sizes = {1, 5, 7}
  Requests = 2
  SendBytes = 4
SPECIFICATION Spec
INVARIANTS BulkNeverStalls RequestsLimitedByPath EchoIsWhole
PROPERTIES ClientEnds ServerStops WorkersReaped
CHECK_DEADLOCK FALSE
