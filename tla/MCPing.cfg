SPECIFICATION FairSpec
CONSTANTS
  Counter = 2
  Identifier = 18131
  Shapes <- SomeShapes
  MaxReplies = 5
  MaxCopies = 2
INVARIANTS TypeOK SingleChain CountsTheSilence RequestVerifies
PROPERTIES SpacedWithoutDuplicates Returns
CHECK_DEADLOCK FALSE
