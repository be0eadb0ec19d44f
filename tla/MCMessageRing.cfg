SPECIFICATION FairSpec
CONSTANTS
  Size = 3
  MaxWrites = 8
  MaxReads = 8
INVARIANTS TypeOK InBounds NeverNull InOrderUnlessDisturbed
PROPERTIES EachIsTaken
CHECK_DEADLOCK FALSE
