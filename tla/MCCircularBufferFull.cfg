SPECIFICATION FullSpec
CONSTANTS
  w = w
  r = r
  Free = Free
  Threads <- MCThreads
  Writers <- MCWriters
  Readers <- MCReaders
  BulkReaders <- MCReaders
  Size = 4
  Word = 32
  WriteLens <- MCWriteLens
  ReadLens <- MCReadLens
  MaxBytes = 6
  VectorSizes <- MCVectorSizes
  RingSizes <- MCRingSizes
INVARIANTS BulkReadFailsOnlyIfRaced
PROPERTIES FaultOnlyIfUnsound
CHECK_DEADLOCK FALSE
