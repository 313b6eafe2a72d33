\* Two readers; a document may start over a temporary file left by the last one.
CONSTANTS
  Readers = {r1, r2}
  Nobody = Nobody
  Inodes = {1, 2, 3, 4}
  MaxDocs = 3
  MaxSize = 2
SPECIFICATION Spec
INVARIANT WholeDocuments
PROPERTY ImplementsAtomicFile
CHECK_DEADLOCK FALSE
