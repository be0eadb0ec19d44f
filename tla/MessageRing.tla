----------------------------- MODULE MessageRing -----------------------------
(***************************************************************************)
(* hp::peripheral::Buffer<Type> (common/.../buffer/buffer_template.h): the *)
(* ring of message pointers between the thread that extracts messages and  *)
(* the thread that calls get_next_packet.  There is no lock: the indices   *)
(* are atomic, the slots are not, and each access is a step of its own.    *)
(* The k-th message written is represented by the number k.                *)
(* A definition named X_Y is X with the slip Y, kept beside it to see that *)
(* a property notices; no specification uses it.                           *)
(***************************************************************************)
EXTENDS Integers, Sequences

CONSTANTS
  Size,         (* the constructor's size, 200 by default                 *)
  MaxWrites,    (* bound: how many messages are written in a behaviour    *)
  MaxReads      (* bound: how many messages are taken                     *)

ASSUME RingAssumption ==
  /\ Size \in Nat \ {0}
  /\ MaxWrites \in Nat /\ MaxReads \in Nat

VARIABLES
  buffer,                    (* buffer_                                   *)
  write_index, read_index,   (* write_index_ and read_index_              *)
  writer, reader,            (* where the two threads are                 *)
  msg,                       (* the reader's local of that name           *)
  written,                   (* how many writes have advanced write_index *)
  out,                       (* what get_next_packet returned, in order   *)
  overrun,                   (* whether a write ever filled the last slot *)
  misled                     (* whether the reader ever left its loop     *)
                             (* with no message unread                    *)

vars == <<buffer, write_index, read_index, writer, reader, msg, written, out,
          overrun, misled>>

Null == 0      (* the pointer that resize() leaves in a slot              *)
Torn == -1     (* a pointer copied while its slot is being assigned       *)

Init ==
  /\ buffer = [i \in 0 .. Size - 1 |-> Null]
  /\ write_index = 0 /\ read_index = 0
  /\ writer = "idle" /\ reader = "idle"
  /\ msg = Null
  /\ written = 0
  /\ out = << >>
  /\ overrun = FALSE /\ misled = FALSE

(* An index that has reached the end starts over. *)
Wrapped_Never(i) == i
Wrapped_Late(i) == IF i > Size THEN 0 ELSE i
Wrapped_Early(i) == IF i >= Size - 1 THEN 0 ELSE i
Wrapped(i) == IF i = Size THEN 0 ELSE i

(* How many messages the reader has copied out of the ring. *)
Copied == IF reader \in {"copied", "moved"} THEN Len(out) + 1 ELSE Len(out)
Unread == written - Copied
-----------------------------------------------------------------------------
(* write *)

StoreBegin ==
  /\ writer = "idle" /\ written < MaxWrites
  /\ writer' = "storing"
  /\ UNCHANGED <<buffer, write_index, read_index, reader, msg, written, out, overrun, misled>>

StoreEnd ==
  /\ writer = "storing"
  /\ buffer' = [buffer EXCEPT ![write_index] = written + 1]
  /\ writer' = "stored"
  /\ UNCHANGED <<write_index, read_index, reader, msg, written, out, overrun, misled>>

(* write_index_++ makes the message visible, and may leave the index equal *)
(* to size_ until the next step.                                           *)
Publish ==
  /\ writer = "stored"
  /\ write_index' = write_index + 1
  /\ written' = written + 1
  /\ overrun' = (overrun \/ Unread + 1 >= Size)
  /\ writer' = "published"
  /\ UNCHANGED <<buffer, read_index, reader, msg, out, misled>>

WrapWrite ==
  /\ writer = "published"
  /\ write_index' = Wrapped(write_index)
  /\ writer' = "idle"
  /\ UNCHANGED <<buffer, read_index, reader, msg, written, out, overrun, misled>>
-----------------------------------------------------------------------------
(* get_next_packet *)

GetCall ==
  /\ reader = "idle" /\ Len(out) < MaxReads
  /\ reader' = "polling"
  /\ UNCHANGED <<buffer, write_index, read_index, writer, msg, written, out, overrun, misled>>

HasNext_Always == TRUE
HasNext_Below == read_index < write_index
HasNext == read_index # write_index

(* The loop ends as soon as the indices differ; until then it sleeps.      *)
Poll ==
  /\ reader = "polling" /\ HasNext
  /\ reader' = "copying"
  /\ misled' = (misled \/ Unread = 0)
  /\ UNCHANGED <<buffer, write_index, read_index, writer, msg, written, out, overrun>>

(* Copying a pointer that is being assigned at the same time is a data     *)
(* race: the copy is the old one, the new one or neither.                  *)
Copy ==
  /\ reader = "copying"
  /\ msg' \in IF writer = "storing" /\ write_index = read_index
                THEN {buffer[read_index], written + 1, Torn}
                ELSE {buffer[read_index]}
  /\ reader' = "copied"
  /\ UNCHANGED <<buffer, write_index, read_index, writer, written, out, overrun, misled>>

Advance ==
  /\ reader = "copied"
  /\ read_index' = read_index + 1
  /\ reader' = "moved"
  /\ UNCHANGED <<buffer, write_index, writer, msg, written, out, overrun, misled>>

WrapRead ==
  /\ reader = "moved"
  /\ read_index' = Wrapped(read_index)
  /\ reader' = "idle"
  /\ out' = Append(out, msg)
  /\ msg' = Null
  /\ UNCHANGED <<buffer, write_index, writer, written, overrun, misled>>
-----------------------------------------------------------------------------
WriterStep == StoreEnd \/ Publish \/ WrapWrite
ReaderStep == GetCall \/ Poll \/ Copy \/ Advance \/ WrapRead

Next == StoreBegin \/ WriterStep \/ ReaderStep

Spec == Init /\ [][Next]_vars

(* Both threads keep running; only a new write is the application's choice. *)
FairSpec == Spec /\ WF_vars(WriterStep) /\ WF_vars(ReaderStep)
-----------------------------------------------------------------------------
TypeOK ==
  /\ buffer \in [0 .. Size - 1 -> Nat]
  /\ write_index \in 0 .. Size /\ read_index \in 0 .. Size
  /\ writer \in {"idle", "storing", "stored", "published"}
  /\ reader \in {"idle", "polling", "copying", "copied", "moved"}
  /\ msg \in Int
  /\ written \in Nat
  /\ out \in Seq(Int)
  /\ overrun \in BOOLEAN /\ misled \in BOOLEAN

(* An index that has run to size_ is reset before it is used: no slot      *)
(* outside the vector is stored to or copied from.                         *)
InBounds ==
  /\ writer \in {"storing", "stored"} => write_index < Size
  /\ reader \in {"copying", "copied"} => read_index < Size

(* The reader never hands out the null pointer of a slot that was never    *)
(* written, however the two threads interleave and however far the writer  *)
(* runs ahead.                                                             *)
NeverNull == \A k \in 1 .. Len(out) : out[k] # Null

(* As long as no write found the ring full and the reader was never misled *)
(* by an index that is about to wrap, every message is taken exactly once  *)
(* and in order.                                                           *)
InOrder == \A k \in 1 .. Len(out) : out[k] = k
InOrderUnlessDisturbed == overrun \/ misled \/ InOrder

(* The promise without the second condition: a ring that is never full     *)
(* loses, repeats and reorders nothing.                                    *)
InOrderUnlessOverrun == overrun \/ InOrder

(* Under the same conditions every message written is taken in the end.    *)
EachIsTaken ==
  \A k \in 1 .. MaxReads : written >= k ~> (Len(out) >= k \/ overrun \/ misled)
=============================================================================
