-------------------------- MODULE MessageRingProofs --------------------------
(* The safety of MessageRing for every size and every number of messages.  *)
EXTENDS MessageRing, TLAPS

(* An index that has just reached the end counts as the first.             *)
write_place == Wrapped(write_index)
read_place == Wrapped(read_index)

(* The indices are in range whenever they are used.                        *)
IndicesInRange ==
  /\ writer # "published" => write_index < Size
  /\ reader # "moved" => read_index < Size

(* During the first lap the written slots are those below write_index, and *)
(* the reader stays among them; later all slots have been written.         *)
FirstLap ==
  /\ \A i \in 0 .. Size - 1 : i < written => buffer[i] # Null
  /\ writer = "stored" => buffer[write_index] # Null
  /\ written < Size => write_index = written /\ read_index <= written
  /\ reader \in {"copying", "copied"} /\ written < Size => read_index < written
  /\ reader \in {"copied", "moved"} => msg # Null

(* How many messages read_index has passed, and how far write_index is     *)
(* ahead of it.                                                            *)
Passed == IF reader = "moved" THEN Len(out) + 1 ELSE Len(out)
Ahead == written - Passed
Slot(j) == IF read_place + j < Size THEN read_place + j ELSE read_place + j - Size

(* The messages between the two indices are in their slots, in order.      *)
InPlace ==
  /\ Unread \in 0 .. Size - 1
  /\ reader = "copying" => Unread > 0
  /\ write_place = read_place + Ahead \/ write_place = read_place + Ahead - Size
  /\ \A j \in 0 .. Ahead - 1 :
       (reader = "copied" => j > 0) => buffer[Slot(j)] = Passed + 1 + j
  /\ writer = "stored" => buffer[write_index] = written + 1
  /\ reader \in {"copied", "moved"} => msg = Len(out) + 1

IInv ==
  /\ TypeOK /\ IndicesInRange /\ FirstLap /\ NeverNull
  /\ overrun \/ misled \/ (InPlace /\ InOrder)
-----------------------------------------------------------------------------
(* Every variable keeps its type, and every index that is used is one of a *)
(* slot.                                                                   *)
LEMMA TypeInductive ==
  ASSUME TypeOK, IndicesInRange, [Next]_vars
  PROVE  TypeOK' /\ IndicesInRange'
<1> USE RingAssumption DEF TypeOK, IndicesInRange
<1>1. CASE StoreBegin
  BY <1>1 DEF StoreBegin
<1>2. CASE StoreEnd
  BY <1>2 DEF StoreEnd
<1>3. CASE Publish
  BY <1>3 DEF Publish, Unread
<1>4. CASE WrapWrite
  BY <1>4 DEF WrapWrite, Wrapped
<1>5. CASE GetCall
  BY <1>5 DEF GetCall
<1>6. CASE Poll
  BY <1>6 DEF Poll
<1>7. CASE Copy
  <2>1. read_index \in 0 .. Size - 1 /\ buffer[read_index] \in Int
    BY <1>7 DEF Copy
  <2>2. msg' \in Int
    BY <1>7, <2>1 DEF Copy, Torn
  <2> QED BY <1>7, <2>2 DEF Copy
<1>8. CASE Advance
  BY <1>8 DEF Advance
<1>9. CASE WrapRead
  <2>1. out' \in Seq(Int) /\ msg' \in Int
    BY <1>9 DEF WrapRead, Null
  <2> QED BY <1>9, <2>1 DEF WrapRead, Wrapped
<1>10. CASE UNCHANGED vars
  BY <1>10 DEF vars
<1> QED
  BY <1>1, <1>2, <1>3, <1>4, <1>5, <1>6, <1>7, <1>8, <1>9, <1>10 DEF Next, WriterStep, ReaderStep

(* What the reader hands out has been written.                             *)
LEMMA FirstLapInductive ==
  ASSUME TypeOK, IndicesInRange, FirstLap, NeverNull, [Next]_vars
  PROVE  FirstLap' /\ NeverNull'
<1> USE RingAssumption DEF TypeOK, IndicesInRange, FirstLap
<1>1. CASE StoreBegin
  BY <1>1 DEF StoreBegin, NeverNull
<1>2. CASE StoreEnd
  <2>1. buffer' = [buffer EXCEPT ![write_index] = written + 1] /\ write_index \in 0 .. Size - 1
    BY <1>2 DEF StoreEnd
  <2>2. buffer'[write_index] # Null /\ \A i \in 0 .. Size - 1 : i < written => buffer'[i] # Null
    BY <2>1 DEF Null
  <2>3. UNCHANGED <<write_index, read_index, reader, msg, written, out>>
    BY <1>2 DEF StoreEnd
  <2> QED BY <2>2, <2>3 DEF NeverNull
<1>3. CASE Publish
  <2>1. /\ writer = "stored" /\ writer' = "published" /\ written' = written + 1
        /\ write_index' = write_index + 1
        /\ UNCHANGED <<buffer, read_index, reader, msg, out>>
    BY <1>3 DEF Publish
  <2>2. \A i \in 0 .. Size - 1 : i < written' => buffer'[i] # Null
    <3> SUFFICES ASSUME NEW i \in 0 .. Size - 1, i < written', i >= written
                 PROVE  buffer[i] # Null
      BY <2>1
    <3>1. i = written /\ write_index = written
      BY <2>1
    <3> QED BY <2>1, <3>1
  <2>3. written' < Size => write_index' = written' /\ read_index' <= written'
    BY <2>1
  <2>4. reader' \in {"copying", "copied"} /\ written' < Size => read_index' < written'
    BY <2>1
  <2> QED BY <2>1, <2>2, <2>3, <2>4 DEF NeverNull
<1>4. CASE WrapWrite
  <2>1. writer' = "idle" /\ (written < Size => write_index' = write_index)
    BY <1>4 DEF WrapWrite, Wrapped
  <2> QED BY <1>4, <2>1 DEF WrapWrite, NeverNull
<1>5. CASE GetCall
  BY <1>5 DEF GetCall, NeverNull
<1>6. CASE Poll
  BY <1>6 DEF Poll, HasNext, NeverNull
<1>7. CASE Copy
  <2>1. read_index \in 0 .. Size - 1 /\ read_index < written
    BY <1>7 DEF Copy
  <2>2. buffer[read_index] # Null
    BY <2>1
  <2>3. msg' # Null
    BY <1>7, <2>2 DEF Copy, Torn, Null
  <2> QED BY <1>7, <2>1, <2>3 DEF Copy, NeverNull
<1>8. CASE Advance
  BY <1>8 DEF Advance, NeverNull
<1>9. CASE WrapRead
  <2>1. msg # Null /\ out' = Append(out, msg) /\ reader' = "idle"
    BY <1>9 DEF WrapRead
  <2>2. \A k \in 1 .. Len(out') : out'[k] # Null
    BY <2>1 DEF NeverNull
  <2>3. written < Size => read_index' = read_index
    BY <1>9 DEF WrapRead, Wrapped
  <2> QED BY <1>9, <2>1, <2>2, <2>3 DEF WrapRead, NeverNull
<1>10. CASE UNCHANGED vars
  BY <1>10 DEF vars, NeverNull
<1> QED
  BY <1>1, <1>2, <1>3, <1>4, <1>5, <1>6, <1>7, <1>8, <1>9, <1>10 DEF Next, WriterStep, ReaderStep

(* The numbers behind InPlace.                                             *)
LEMMA Places ==
  ASSUME TypeOK, IndicesInRange, InPlace
  PROVE  /\ read_place \in 0 .. Size - 1 /\ write_place \in 0 .. Size - 1
         /\ Len(out) \in Nat /\ Passed \in Nat /\ Unread \in Nat
         /\ Ahead = Unread + (IF reader = "copied" THEN 1 ELSE 0)
         /\ \A j \in 0 .. Size - 1 : Slot(j) \in 0 .. Size - 1
         /\ \A j, k \in 0 .. Size - 1 : Slot(j) = Slot(k) => j = k
         /\ writer \in {"storing", "stored"} => write_index = write_place
         /\ reader \in {"copying", "copied"} => read_index = read_place
         /\ Ahead < Size => write_place = Slot(Ahead)
<1>1. read_place \in 0 .. Size - 1 /\ write_place \in 0 .. Size - 1
  BY RingAssumption DEF TypeOK, IndicesInRange, read_place, write_place, Wrapped
<1>2. Len(out) \in Nat /\ Passed \in Nat /\ Unread \in Nat /\ written \in Nat
  BY DEF TypeOK, InPlace, Passed
<1>3. Ahead = Unread + (IF reader = "copied" THEN 1 ELSE 0)
  <2>1. CASE reader = "copied"
    BY <2>1, <1>2 DEF Ahead, Passed, Unread, Copied
  <2>2. CASE reader # "copied"
    <3>1. Ahead = Unread
      BY <2>2, <1>2 DEF Ahead, Passed, Unread, Copied
    <3> QED BY <2>2, <3>1, <1>2
  <2> QED BY <2>1, <2>2
<1>4. /\ \A j \in 0 .. Size - 1 : Slot(j) \in 0 .. Size - 1
      /\ \A j, k \in 0 .. Size - 1 : Slot(j) = Slot(k) => j = k
  BY <1>1, RingAssumption DEF Slot
<1>5. /\ writer \in {"storing", "stored"} => write_index = write_place
      /\ reader \in {"copying", "copied"} => read_index = read_place
  BY DEF TypeOK, IndicesInRange, read_place, write_place, Wrapped
<1>6. Ahead < Size => write_place = Slot(Ahead)
  <2> SUFFICES ASSUME Ahead < Size PROVE write_place = Slot(Ahead)
    OBVIOUS
  <2>1. Ahead \in 0 .. Size - 1
    BY <1>2, <1>3, RingAssumption
  <2>2. write_place = read_place + Ahead \/ write_place = read_place + Ahead - Size
    BY DEF InPlace
  <2> QED BY <2>1, <2>2, <1>1, RingAssumption DEF Slot
<1> QED BY <1>1, <1>2, <1>3, <1>4, <1>5, <1>6

(* While nothing has disturbed the ring, the unread messages stay in their *)
(* slots and each is taken in its turn.                                    *)
LEMMA OrderInductive ==
  ASSUME TypeOK, IndicesInRange, IndicesInRange', InPlace, InOrder,
         ~overrun', ~misled', [Next]_vars
  PROVE  InPlace' /\ InOrder'
<1> USE RingAssumption
<1>p. /\ read_place \in 0 .. Size - 1 /\ write_place \in 0 .. Size - 1
      /\ Len(out) \in Nat /\ Passed \in Nat /\ Unread \in Nat /\ written \in Nat
      /\ Ahead = Unread + (IF reader = "copied" THEN 1 ELSE 0)
      /\ \A j \in 0 .. Size - 1 : Slot(j) \in 0 .. Size - 1
      /\ \A j, k \in 0 .. Size - 1 : Slot(j) = Slot(k) => j = k
      /\ writer \in {"storing", "stored"} => write_index = write_place
      /\ reader \in {"copying", "copied"} => read_index = read_place
      /\ Ahead < Size => write_place = Slot(Ahead)
  BY Places DEF TypeOK
<1>n. /\ Size \in Nat /\ Unread \in Nat /\ Passed \in Nat /\ Ahead \in Nat /\ Len(out) \in Nat
      /\ read_place \in Nat /\ read_place < Size /\ write_place \in Nat /\ write_place < Size
  BY <1>p
<1>1. CASE StoreBegin
  BY <1>1 DEF StoreBegin, InPlace, InOrder, Unread, Copied, Passed, Ahead, Slot, read_place, write_place
<1>2. CASE StoreEnd
  <2>1. /\ writer = "storing" /\ writer' = "stored"
        /\ buffer' = [buffer EXCEPT ![write_index] = written + 1]
        /\ UNCHANGED <<write_index, read_index, reader, msg, written, out>>
    BY <1>2 DEF StoreEnd
  <2>2. /\ Unread' = Unread /\ Passed' = Passed /\ Ahead' = Ahead
        /\ read_place' = read_place /\ write_place' = write_place
        /\ \A j : Slot(j)' = Slot(j)
    BY <2>1 DEF Unread, Copied, Passed, Ahead, Slot, read_place, write_place
  <2>3. buffer'[write_index] = written + 1
    BY <2>1, <1>p DEF TypeOK
  <2>4. ASSUME NEW j \in 0 .. Ahead - 1, reader = "copied" => j > 0
        PROVE  buffer'[Slot(j)] = Passed + 1 + j
    <3>1. Unread < Size
      BY DEF InPlace
    <3>2. j \in 0 .. Size - 1
      BY <3>1, <1>p
    <3>3. Slot(j) # write_place
      BY <3>1, <3>2, <2>4, <1>p DEF InPlace, Slot
    <3>4. buffer'[Slot(j)] = buffer[Slot(j)]
      BY <2>1, <3>2, <3>3, <1>p DEF TypeOK
    <3> QED BY <3>4, <2>4 DEF InPlace
  <2> QED BY <2>1, <2>2, <2>3, <2>4 DEF InPlace, InOrder
<1>3. CASE Publish
  <2>1. /\ writer = "stored" /\ writer' = "published"
        /\ written' = written + 1 /\ write_index' = write_index + 1
        /\ UNCHANGED <<buffer, read_index, reader, msg, out>>
    BY <1>3 DEF Publish
  <2>u. Unread + 1 < Size
    <3>1. ~(Unread + 1 >= Size)
      BY <1>3, Zenon DEF Publish
    <3> QED BY <3>1, <1>n
  <2>2. /\ Unread' = Unread + 1 /\ Passed' = Passed /\ Ahead' = Ahead + 1
        /\ read_place' = read_place /\ \A j : Slot(j)' = Slot(j)
    BY <2>1, <1>p DEF Unread, Copied, Passed, Ahead, Slot, read_place
  <2>3. Ahead < Size /\ Ahead \in Nat
    BY <2>1, <2>u, <1>p
  <2>4. write_place' = read_place' + Ahead' \/ write_place' = read_place' + Ahead' - Size
    <3>1. write_place' = IF write_place + 1 = Size THEN 0 ELSE write_place + 1
      BY <2>1, <1>p DEF write_place, Wrapped
    <3>2. write_place = read_place + Ahead \/ write_place = read_place + Ahead - Size
      BY DEF InPlace
    <3>3. read_place' = read_place /\ Ahead' = Ahead + 1
      BY <2>2
    <3> QED BY <3>1, <3>2, <3>3, <2>3, <1>n
  <2>5. ASSUME NEW j \in 0 .. Ahead', (reader = "copied" => j > 0), j < Ahead'
        PROVE  buffer[Slot(j)] = Passed + 1 + j
    <3>1. CASE j < Ahead
      <4>1. j \in 0 .. Ahead - 1
        BY <3>1, <2>3
      <4> QED BY <4>1, <2>5 DEF InPlace
    <3>2. CASE j = Ahead
      <4>1. buffer[write_index] = written + 1 /\ write_index = Slot(j)
        BY <3>2, <2>1, <2>3, <1>p DEF InPlace
      <4>2. written + 1 = Passed + 1 + j
        BY <3>2, <1>p DEF Ahead
      <4> QED BY <4>1, <4>2
    <3>3. j < Ahead \/ j = Ahead
      BY <2>2, <2>3, <2>5
    <3> QED BY <3>1, <3>2, <3>3
  <2>6. \A j \in 0 .. Ahead' - 1 :
          (reader' = "copied" => j > 0) => buffer'[Slot(j)'] = Passed' + 1 + j
    BY <2>1, <2>2, <2>3, <2>5
  <2> QED BY <2>1, <2>u, <2>2, <2>4, <2>6, <1>p DEF InPlace, InOrder
<1>4. CASE WrapWrite
  <2>1. write_place' = write_place
    BY <1>4, <1>p DEF WrapWrite, write_place, Wrapped
  <2> QED BY <1>4, <2>1 DEF WrapWrite, InPlace, InOrder, Unread, Copied, Passed, Ahead, Slot, read_place
<1>5. CASE GetCall
  BY <1>5 DEF GetCall, InPlace, InOrder, Unread, Copied, Passed, Ahead, Slot, read_place, write_place
<1>6. CASE Poll
  <2>1. /\ Unread # 0 /\ reader = "polling" /\ reader' = "copying"
        /\ UNCHANGED <<buffer, write_index, read_index, writer, msg, written, out>>
    BY <1>6 DEF Poll
  <2> QED BY <2>1, <1>p DEF InPlace, InOrder, Unread, Copied, Passed, Ahead, Slot, read_place, write_place
<1>7. CASE Copy
  <2>1. /\ reader = "copying" /\ reader' = "copied"
        /\ UNCHANGED <<buffer, write_index, read_index, writer, written, out>>
    BY <1>7 DEF Copy
  <2>2. /\ Unread' = Unread - 1 /\ Passed' = Passed /\ Ahead' = Ahead /\ Passed = Len(out)
        /\ read_place' = read_place /\ write_place' = write_place
        /\ \A j : Slot(j)' = Slot(j)
    BY <2>1, <1>p DEF Unread, Copied, Passed, Ahead, Slot, read_place, write_place
  <2>3. Unread > 0 /\ Unread < Size /\ Ahead = Unread
    BY <2>1, <1>p DEF InPlace
  <2>4. buffer[read_index] = Len(out) + 1
    <3>1. 0 \in 0 .. Ahead - 1 /\ Slot(0) = read_index
      BY <2>1, <2>3, <1>p DEF Slot
    <3>2. buffer[Slot(0)] = Passed + 1 + 0
      BY <3>1, <2>1 DEF InPlace
    <3> QED BY <3>1, <3>2, <2>2, <1>p
  <2>5. ~(writer = "storing" /\ write_index = read_index)
    <3>1. write_place # read_place
      BY <2>3, <1>p, SMTT(20) DEF InPlace
    <3> QED BY <3>1, <2>1, <1>p
  <2>6. msg' = Len(out) + 1
    BY <1>7, <2>4, <2>5 DEF Copy
  <2>7. Unread' \in 0 .. Size - 1 /\ InOrder'
    BY <2>1, <2>2, <2>3, <1>n DEF InOrder
  <2>8. \A j \in 0 .. Ahead' - 1 :
          (reader' = "copied" => j > 0) => buffer'[Slot(j)'] = Passed' + 1 + j
    BY <2>1, <2>2, <2>3 DEF InPlace
  <2> QED BY <2>1, <2>2, <2>6, <2>7, <2>8 DEF InPlace
<1>8. CASE Advance
  <2>1. /\ reader = "copied" /\ reader' = "moved" /\ read_index' = read_index + 1
        /\ UNCHANGED <<buffer, write_index, writer, msg, written, out>>
    BY <1>8 DEF Advance
  <2>2. /\ Unread' = Unread /\ Passed' = Passed + 1 /\ Ahead' = Ahead - 1
        /\ write_place' = write_place
    BY <2>1, <1>p DEF Unread, Copied, Passed, Ahead, write_place
  <2>3. read_place' = IF read_place + 1 = Size THEN 0 ELSE read_place + 1
    BY <2>1, <1>p DEF read_place, Wrapped
  <2>4. write_place' = read_place' + Ahead' \/ write_place' = read_place' + Ahead' - Size
    <3>1. write_place = read_place + Ahead \/ write_place = read_place + Ahead - Size
      BY DEF InPlace
    <3>2. Ahead \in 1 .. Size
      BY <2>1, <1>p DEF InPlace
    <3> QED BY <3>1, <3>2, <2>2, <2>3, <1>p
  <2>5. ASSUME NEW j \in 0 .. Ahead' - 1
        PROVE  buffer'[Slot(j)'] = Passed' + 1 + j
    <3>1. Ahead \in 1 .. Size
      BY <2>1, <1>p DEF InPlace
    <3>2. j + 1 \in 0 .. Ahead - 1 /\ j + 1 > 0 /\ j \in Nat
      BY <3>1, <2>2
    <3>3. Slot(j)' = Slot(j + 1)
      BY <3>1, <3>2, <2>3, <1>p DEF Slot
    <3>4. buffer[Slot(j + 1)] = Passed + 1 + (j + 1)
      BY <3>2 DEF InPlace
    <3> QED BY <3>2, <3>3, <3>4, <2>1, <2>2, <1>p
  <2> QED BY <2>1, <2>2, <2>4, <2>5, <1>p DEF InPlace, InOrder
<1>9. CASE WrapRead
  <2>1. /\ reader = "moved" /\ reader' = "idle" /\ out' = Append(out, msg)
        /\ UNCHANGED <<buffer, write_index, writer, written>>
    BY <1>9 DEF WrapRead
  <2>2. Len(out') = Len(out) + 1 /\ msg = Len(out) + 1
    BY <2>1 DEF InPlace, TypeOK
  <2>3. read_place' = read_place
    BY <1>9, <1>p DEF WrapRead, read_place, Wrapped
  <2>4. /\ Unread' = Unread /\ Passed' = Passed /\ Ahead' = Ahead
        /\ write_place' = write_place /\ \A j : Slot(j)' = Slot(j)
    BY <2>1, <2>2, <2>3, <1>p DEF Unread, Copied, Passed, Ahead, Slot, write_place
  <2>5. InOrder'
    BY <2>1, <2>2 DEF InOrder, TypeOK
  <2> QED BY <2>1, <2>3, <2>4, <2>5 DEF InPlace
<1>10. CASE UNCHANGED vars
  BY <1>10 DEF vars, InPlace, InOrder, Unread, Copied, Passed, Ahead, Slot, read_place, write_place
<1> QED
  BY <1>1, <1>2, <1>3, <1>4, <1>5, <1>6, <1>7, <1>8, <1>9, <1>10 DEF Next, WriterStep, ReaderStep
-----------------------------------------------------------------------------
LEMMA Initially == Init => IInv
<1> SUFFICES ASSUME Init PROVE IInv
  OBVIOUS
<1>1. /\ write_index = 0 /\ read_index = 0 /\ writer = "idle" /\ reader = "idle"
      /\ written = 0 /\ msg \in Int /\ overrun \in BOOLEAN /\ misled \in BOOLEAN
      /\ out \in Seq(Int) /\ Len(out) = 0 /\ Size \in Nat /\ Size > 0
  <2>1. out = << >>
    BY DEF Init
  <2>2. out \in Seq(Int) /\ Len(out) = 0
    BY <2>1
  <2>3. write_index = 0 /\ read_index = 0 /\ writer = "idle" /\ reader = "idle" /\ written = 0
    BY DEF Init
  <2>4. msg = 0
    BY DEF Init, Null
  <2>5. overrun \in BOOLEAN /\ misled \in BOOLEAN
    BY DEF Init
  <2> QED BY <2>2, <2>3, <2>4, <2>5, RingAssumption
<1>2. buffer \in [0 .. Size - 1 -> Nat]
  BY DEF Init, Null
<1>3. TypeOK /\ IndicesInRange
  BY <1>1, <1>2 DEF TypeOK, IndicesInRange
<1>4. FirstLap /\ NeverNull
  BY <1>1 DEF FirstLap, NeverNull
<1>5. Unread = 0 /\ Passed = 0 /\ Ahead = 0 /\ read_place = 0 /\ write_place = 0
  <2>1. Copied = 0 /\ Passed = 0
    BY <1>1 DEF Copied, Passed
  <2> QED BY <2>1, <1>1 DEF Unread, Ahead, read_place, write_place, Wrapped
<1>6. InPlace /\ InOrder
  BY <1>1, <1>5 DEF InPlace, InOrder
<1> QED BY <1>3, <1>4, <1>6 DEF IInv

LEMMA Inductive == IInv /\ [Next]_vars => IInv'
<1> SUFFICES ASSUME IInv, [Next]_vars PROVE IInv'
  OBVIOUS
<1>1. TypeOK' /\ IndicesInRange'
  BY TypeInductive DEF IInv
<1>2. FirstLap' /\ NeverNull'
  BY FirstLapInductive DEF IInv
<1>3. (overrun => overrun') /\ (misled => misled')
  BY DEF IInv, TypeOK, Next, WriterStep, ReaderStep, vars, StoreBegin, StoreEnd, Publish,
         WrapWrite, GetCall, Poll, Copy, Advance, WrapRead
<1>4. overrun' \/ misled' \/ (InPlace' /\ InOrder')
  BY <1>1, <1>3, OrderInductive DEF IInv
<1> QED BY <1>1, <1>2, <1>4 DEF IInv

(* The invariant the theorems below follow from.                           *)
THEOREM Invariant == Spec => []IInv
  BY Initially, Inductive, PTL DEF Spec

(* Every variable keeps its type; in particular no message is ever torn    *)
(* into the ring itself.                                                   *)
THEOREM TypeCorrect == Spec => []TypeOK
<1>1. IInv => TypeOK
  BY DEF IInv
<1> QED BY <1>1, Invariant, PTL

(* write and get_next_packet use slots of the vector only.                 *)
THEOREM AlwaysInBounds == Spec => []InBounds
<1>1. IInv => InBounds
  BY DEF IInv, IndicesInRange, InBounds
<1> QED BY <1>1, Invariant, PTL

(* get_next_packet never returns the null pointer of an unused slot.       *)
THEOREM NoNullMessage == Spec => []NeverNull
<1>1. IInv => NeverNull
  BY DEF IInv
<1> QED BY <1>1, Invariant, PTL

(* Until the ring is full, or the reader misled, each message is taken     *)
(* once and in order.                                                      *)
THEOREM TakenInOrder == Spec => []InOrderUnlessDisturbed
<1>1. IInv => InOrderUnlessDisturbed
  BY DEF IInv, InOrderUnlessDisturbed
<1> QED BY <1>1, Invariant, PTL
=============================================================================
