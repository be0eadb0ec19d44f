SPECIFICATION FairSpec
CONSTANTS
  w = w
  r1 = r1
  r2 = r2
  Free = Free
  Threads <- MCThreads
  Writers <- MCWriters
  Readers <- MCReaders
  Size = 3
  Word = 16
  WriteLens <- MCShortWrites
  ReadLens <- MCShortReads
  MaxBytes = 4
PROPERTIES MutexReleased TimedReadReturns
CHECK_DEADLOCK FALSE
