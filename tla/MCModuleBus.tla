----------------------------- MODULE MCModuleBus -----------------------------
(* ModuleBus with one module beside DataAccess; what is written is short   *)
(* and ends in the middle of a line, or is longer.                         *)
EXTENDS ModuleBus

CONSTANT GUI

Message(to, type) == [to |-> to, type |-> type, content |-> << >>]

SomeMessages ==
  { ReadFileMessage, WriteFileMessage(<<1>>), WriteFileMessage(<<2, 2, 0>>),
    Message(DataAccess, "FileManager"), Message(DataAccess, "DataBase"),
    Message(GUI, "DataBase") }
=============================================================================
