SPECIFICATION FairSpec
CONSTANTS
  MaxConnects = 2
  MaxBytes = 4
  MaxBuffers = 2
  DataSize = 4
  ReceiveSizes <- FewOrMany
  Capacity = 3
INVARIANTS TypeOK SingleReceive StreamIntact NotifiedOnce
PROPERTIES OnlyALossCloses LossNoticed DestructorReturns
CHECK_DEADLOCK FALSE
