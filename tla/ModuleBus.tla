------------------------------ MODULE ModuleBus ------------------------------
(***************************************************************************)
(* perfect::communication::ModulesCommunicationManager and the module it   *)
(* most often reaches, perfect::dataaccess::DataAccessModule with its      *)
(* FSManager and FileManager.  The application's thread connects and       *)
(* removes modules, sends messages in its own thread or in one made for    *)
(* the message, and destroys the manager.  A module other than DataAccess  *)
(* has a function that just takes the message.                             *)
(* The map of modules is a std::map that the lookups read, and insert in,  *)
(* under no lock: overlapping accesses, one of them a change, are          *)
(* undefined behaviour, and the model ends there.                          *)
(* All files are one file here, a sequence of bytes, which may at any time *)
(* not be opened; what is open is read and written without errors.  A read *)
(* that ends leaves what it has read in its message.                       *)
(* A definition named X_Y is X with the slip Y, kept beside it to see that *)
(* a property notices; no specification uses it.                           *)
(***************************************************************************)
EXTENDS Integers, Sequences, SequencesExt

CONSTANTS
  DataAccess, OtherModules,   (* the modules                              *)
  Messages,                   (* what may be sent: to whom, of which      *)
                              (* type, and the content of a write         *)
  Newline,                    (* a byte of contents                       *)
  MaxSends                    (* bound: messages sent                     *)

Modules == {DataAccess} \cup OtherModules
MessageType == {"FileManager", "READ_FILE", "WRITE_FILE", "DataBase", "LogManagment"}
AnyMessage == [to : Modules, type : MessageType, content : Seq(Nat)]

ASSUME BusAssumption ==
  /\ DataAccess \notin OtherModules /\ MaxSends \in Nat /\ Newline \in Nat
  /\ Messages \subseteq AnyMessage

VARIABLES
  module_maps,   (* of each module: "absent", an "empty" function, or "set" *)
  app,           (* where the application's thread is                     *)
  sent,          (* how many messages were sent                           *)
  msg,           (* of each: destination, type, and content               *)
  pc,            (* where the thread that delivers each message is        *)
  file,          (* what the file holds                                   *)
  handled,       (* how often each message reached its handler            *)
  raced,         (* whether accesses to module_maps_ overlapped           *)
  terminated,    (* whether an exception has left a message's thread      *)
  careless,      (* whether a module came or went beside running threads, *)
                 (* or a message had nobody who could take it             *)
  written,       (* what the last write that had opened the file wrote    *)
  atStart,       (* what written was when each read began                 *)
  disturbed,     (* the reads and writes a write overlapped               *)
  unopened       (* the reads and writes that could not open the file     *)

memory == <<module_maps, msg, file>>
threads == <<app, sent, pc>>
outcome == <<raced, terminated, careless>>
filing == <<written, atStart, disturbed, unopened>>
vars == <<memory, threads, handled, outcome, filing>>

Sends == 1 .. MaxSends
NoMessage == [to |-> DataAccess, type |-> "FileManager", content |-> << >>]

(* The messages there are for files *)
ReadFileMessage == [to |-> DataAccess, type |-> "READ_FILE", content |-> << >>]
WriteFileMessage(content) == [to |-> DataAccess, type |-> "WRITE_FILE", content |-> content]
set_content(s, content) == msg' = [msg EXCEPT ![s].content = content]

Init ==
  /\ module_maps = [d \in Modules |-> "absent"]
  /\ app = "idle" /\ sent = 0
  /\ msg = [s \in Sends |-> NoMessage] /\ pc = [s \in Sends |-> "unsent"]
  /\ file = << >>
  /\ handled = [s \in Sends |-> 0]
  /\ raced = FALSE /\ terminated = FALSE /\ careless = FALSE
  /\ written = << >> /\ atStart = [s \in Sends |-> << >>]
  /\ disturbed = {} /\ unopened = {}

Running == {s \in Sends : pc[s] \notin {"unsent", "done", "threw"}}

(* Who is inside module_maps_, and who is changing it *)
Reading == \E s \in Sends : pc[s] = "copying"
Changing == app \in {"adding", "removing"} \/ \E s \in Sends : pc[s] = "inserting"

Go(s, at) == pc' = [pc EXCEPT ![s] = at]
-----------------------------------------------------------------------------
(* add_connection and remove_connection: their lock is shared, and the     *)
(* lookups do not take it.                                                 *)
Change(d, how) ==
  /\ app = "idle"
  /\ how = "removing" => module_maps[d] # "absent"
  /\ raced' = (Reading \/ Changing)
  /\ careless' = (careless \/ Running # {})
  /\ module_maps' = [module_maps EXCEPT ![d] = IF how = "adding" THEN "set" ELSE "absent"]
  /\ app' = how
  /\ UNCHANGED <<msg, file, sent, pc, handled, terminated, filing>>

(* DataAccessModule::initialize is the one add_connection of the module.   *)
add_connection(d) == Change(d, "adding")
initialize == add_connection(DataAccess)
remove_connection(d) == Change(d, "removing")

ChangeReturns ==
  /\ app \in {"adding", "removing"}
  /\ app' = "idle"
  /\ UNCHANGED <<memory, sent, pc, handled, outcome, filing>>

(* FSManager is given what is for files, and has functions for two types.  *)
IsForFiles(type) == type \in {"FileManager", "READ_FILE", "WRITE_FILE"}
FileFunctions_ForAll == {"FileManager", "READ_FILE", "WRITE_FILE"}
FileFunctions == {"READ_FILE", "WRITE_FILE"}

CanTake(m) ==
  /\ module_maps[m.to] = "set"
  /\ m.to = DataAccess /\ IsForFiles(m.type) => m.type \in FileFunctions

Send(how, m) ==
  /\ app = "idle" /\ sent < MaxSends
  /\ sent' = sent + 1
  /\ msg' = [msg EXCEPT ![sent + 1] = m]
  /\ Go(sent + 1, "sent")
  /\ app' = how
  /\ careless' = (careless \/ ~CanTake(m))
  /\ UNCHANGED <<module_maps, file, handled, raced, terminated, filing>>

send_message(m) == Send("waiting", m)
send_message_async(m) == Send("idle", m)

SendReturns ==
  /\ app = "waiting" /\ pc[sent] \in {"done", "threw"}
  /\ app' = "idle"
  /\ UNCHANGED <<memory, sent, pc, handled, outcome, filing>>

(* The destructor joins the threads of the messages. *)
Destroy ==
  /\ app = "idle" /\ sent > 0
  /\ app' = "joining"
  /\ UNCHANGED <<memory, sent, pc, handled, outcome, filing>>

DestroyReturns ==
  /\ app = "joining" /\ Running = {}
  /\ app' = "destroyed"
  /\ UNCHANGED <<memory, sent, pc, handled, outcome, filing>>
-----------------------------------------------------------------------------
(* send_message: operator[] finds the function or inserts an empty one;    *)
(* the function is copied and called.                                      *)
Inserts_Always(s) == TRUE
Inserts(s) == module_maps[msg[s].to] = "absent"

Lookup(s) ==
  /\ pc[s] = "sent"
  /\ IF Inserts(s)
       THEN /\ raced' = (Reading \/ Changing)
            /\ module_maps' = [module_maps EXCEPT ![msg[s].to] = IF @ = "absent" THEN "empty" ELSE @]
            /\ Go(s, "inserting")
       ELSE /\ raced' = Changing
            /\ UNCHANGED module_maps
            /\ Go(s, "copying")
  /\ UNCHANGED <<msg, file, app, sent, handled, terminated, careless, filing>>

(* An empty function throws, and an exception ends a thread of its own,    *)
(* and the program with it.                                                *)
Throw(s) ==
  /\ Go(s, "threw")
  /\ terminated' = ~(app = "waiting" /\ s = sent)

CopyAndCall(s) ==
  /\ pc[s] \in {"inserting", "copying"}
  /\ IF module_maps[msg[s].to] = "empty"
       THEN Throw(s)
       ELSE /\ Go(s, IF msg[s].to = DataAccess THEN "dispatched" ELSE "received")
            /\ UNCHANGED terminated
  /\ UNCHANGED <<memory, app, sent, handled, raced, careless, filing>>

OtherHandles(s) ==
  /\ pc[s] = "received"
  /\ handled' = [handled EXCEPT ![s] = @ + 1]
  /\ Go(s, "done")
  /\ UNCHANGED <<memory, app, sent, outcome, filing>>

(* DataAccessModule::message_received, and FSManager::message_handler      *)
(* (which leaves an empty function in its map for a type it does not know, *)
(* and throws again when that comes next).                                 *)
message_received(s) ==
  /\ pc[s] = "dispatched"
  /\ CASE msg[s].type \in FileFunctions ->
            /\ handled' = [handled EXCEPT ![s] = @ + 1]
            /\ Go(s, msg[s].type)
            /\ UNCHANGED terminated
       [] IsForFiles(msg[s].type) /\ msg[s].type \notin FileFunctions ->
            Throw(s) /\ UNCHANGED handled
       [] OTHER ->
            Go(s, "done") /\ UNCHANGED <<handled, terminated>>
  /\ UNCHANGED <<memory, app, sent, raced, careless, filing>>
-----------------------------------------------------------------------------
(* FileManager::write.  The file is emptied when it is opened; what the    *)
(* stream holds goes to its beginning when it is closed.                   *)
Busy(t) == pc[t] \in {"writing", "reading"}
Opened_Kept == file
Opened == << >>

OpenToWrite(s) ==
  /\ pc[s] = "WRITE_FILE"
  /\ file' = Opened
  /\ disturbed' = disturbed \cup {t \in Sends : Busy(t)}
                            \cup (IF \E t \in Sends : pc[t] = "writing" THEN {s} ELSE {})
  /\ Go(s, "writing")
  /\ UNCHANGED <<module_maps, msg, app, sent, handled, outcome, written, atStart, unopened>>

(* If the file cannot be opened, nothing is written, and nobody told. *)
FailToWrite(s) ==
  /\ pc[s] = "WRITE_FILE"
  /\ unopened' = unopened \cup {s}
  /\ Go(s, "done")
  /\ UNCHANGED <<memory, app, sent, handled, outcome, written, atStart, disturbed>>

Over(c, f) == c \o SubSeq(f, Len(c) + 1, Len(f))

FlushAndClose(s) ==
  /\ pc[s] = "writing"
  /\ file' = Over(msg[s].content, file)
  /\ written' = msg[s].content
  /\ Go(s, "done")
  /\ UNCHANGED <<module_maps, msg, app, sent, handled, outcome, atStart, disturbed, unopened>>

(* FileManager::read takes what there is, and more, until there is no more *)
(* and puts the end of a line after every line.                            *)
Lines(c) == IF c = << >> \/ Last(c) = Newline THEN c ELSE Append(c, Newline)

OpenToRead(s) ==
  /\ pc[s] = "READ_FILE"
  /\ set_content(s, << >>)
  /\ atStart' = [atStart EXCEPT ![s] = written]
  /\ disturbed' = IF \E t \in Sends : pc[t] = "writing" THEN disturbed \cup {s} ELSE disturbed
  /\ Go(s, "reading")
  /\ UNCHANGED <<module_maps, file, app, sent, handled, outcome, written, unopened>>

(* What cannot be opened reads like an empty file. *)
FailToRead(s) ==
  /\ pc[s] = "READ_FILE"
  /\ set_content(s, << >>)
  /\ unopened' = unopened \cup {s}
  /\ Go(s, "done")
  /\ UNCHANGED <<module_maps, file, app, sent, handled, outcome, written, atStart, disturbed>>

ReadSome(s) ==
  LET got == msg[s].content IN
  /\ pc[s] = "reading"
  /\ IF Len(file) > Len(got)
       THEN /\ set_content(s, got \o SubSeq(file, Len(got) + 1, Len(file)))
            /\ UNCHANGED pc
       ELSE /\ set_content(s, Lines(got))
            /\ Go(s, "done")
  /\ UNCHANGED <<module_maps, file, app, sent, handled, outcome, filing>>

Deliver(s) ==
  \/ Lookup(s) \/ CopyAndCall(s) \/ OtherHandles(s) \/ message_received(s)
  \/ OpenToWrite(s) \/ FailToWrite(s) \/ FlushAndClose(s)
  \/ OpenToRead(s) \/ FailToRead(s) \/ ReadSome(s)
-----------------------------------------------------------------------------
AppCalls ==
  \/ initialize \/ \E d \in OtherModules : add_connection(d)
  \/ \E d \in Modules : remove_connection(d)
  \/ \E m \in Messages : send_message(m) \/ send_message_async(m)
  \/ Destroy

AppReturns == ChangeReturns \/ SendReturns \/ DestroyReturns

Defined == ~raced /\ ~terminated

Next == Defined /\ (AppCalls \/ AppReturns \/ \E s \in Sends : Deliver(s))

Spec == Init /\ [][Next]_vars
-----------------------------------------------------------------------------
TypeOK ==
  /\ module_maps \in [Modules -> {"absent", "empty", "set"}]
  /\ app \in {"idle", "adding", "removing", "waiting", "joining", "destroyed"}
  /\ sent \in 0 .. MaxSends
  /\ msg \in [Sends -> AnyMessage]
  /\ file \in Seq(Nat) /\ written \in Seq(Nat) /\ atStart \in [Sends -> Seq(Nat)]
  /\ pc \in [Sends -> {"unsent", "sent", "inserting", "copying", "received", "dispatched",
                       "READ_FILE", "WRITE_FILE", "reading", "writing", "done", "threw"}]
  /\ handled \in [Sends -> 0 .. 1]
  /\ raced \in BOOLEAN /\ terminated \in BOOLEAN /\ careless \in BOOLEAN
  /\ disturbed \subseteq Sends /\ unopened \subseteq Sends

(* If modules come and go only while no message is under way, and messages *)
(* go to connected modules only, with types these have a function for,     *)
(* then the map is never changed beside another access, no exception ends  *)
(* a thread, and every message for another module or the file system has   *)
(* been handled once when its thread is done.                              *)
SafeWithCare ==
  careless \/
    /\ Defined
    /\ \A s \in Sends : pc[s] = "done" =>
         handled[s] = IF msg[s].to # DataAccess \/ IsForFiles(msg[s].type) THEN 1 ELSE 0

(* As long as no two writes have overlapped, a read that no write has      *)
(* overlapped gives all of what the last write wrote that could open the   *)
(* file, with the end of its last line, or nothing if the read itself      *)
(* could not open it.                                                      *)
ReadsWhole ==
  \A s \in Sends :
    /\ pc[s] = "done" /\ msg[s].to = DataAccess /\ msg[s].type = "READ_FILE"
    /\ s \notin disturbed
    /\ \A t \in disturbed : msg[t].type # "WRITE_FILE"
    => msg[s].content = IF s \in unopened THEN << >> ELSE Lines(atStart[s])
=============================================================================
