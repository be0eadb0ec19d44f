SPECIFICATION Spec
CONSTANTS
  Base = 16
  Packets <- SomePackets
  Fields <- SomeFields
  MaxExtractors = 2
INVARIANTS TypeOK SectionsRegistered LengthIsValue
CHECK_DEADLOCK FALSE
