SPECIFICATION Spec
CONSTANTS
  w = w
  r1 = r1
  r2 = r2
  Free = Free
  Threads <- MCThreads
  Writers <- MCWriters
  Readers <- MCReaders
  Size = 4
  Word = 16
  WriteLens <- MCWriteLens
  ReadLens <- MCReadLens
  MaxBytes = 7
INVARIANTS TypeOK WindowIntact NoLostWakeup NoFault
PROPERTIES ImplementsStream
CHECK_DEADLOCK FALSE
