SPECIFICATION FairSpec
CONSTANTS
  Counter = 2
  Identifier = 18131
  Shapes <- SomeShapes
  MaxReplies = 2
  MaxCopies = 2
PROPERTIES RequestsSpaced
CHECK_DEADLOCK FALSE
