SPECIFICATION Spec
CONSTANTS
  DataAccess = DataAccess
  OtherModules = {GUI}
  GUI = GUI
  Messages <- SomeMessages
  Newline = 0
  MaxSends = 3
INVARIANTS TypeOK SafeWithCare ReadsWhole
CHECK_DEADLOCK FALSE
