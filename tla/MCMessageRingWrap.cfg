SPECIFICATION Spec
CONSTANTS
  Size = 3
  MaxWrites = 8
  MaxReads = 8
INVARIANTS InOrderUnlessOverrun
CHECK_DEADLOCK FALSE
