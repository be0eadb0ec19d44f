--------------------------- MODULE CircularBuffer ---------------------------
(***************************************************************************)
(* hp::peripheral::CircularBuffer (common/src/circular_buffer.cc): a byte  *)
(* ring guarded by a mutex, whose readers wait on a condition variable for *)
(* as many bytes as they asked for and whose writers drop the oldest bytes *)
(* when they do not fit.                                                   *)
(*                                                                         *)
(* A byte is represented by its position in the stream of all bytes ever   *)
(* written, so that a stale, lost or repeated byte can be told apart.      *)
(* Each memcpy is a step of its own: a call that wraps takes two or more.  *)
(* The char and the uint8_t overloads have the same text and are one       *)
(* action each.  The operations that change the geometry of the buffer and *)
(* those that read its indices without the mutex are in                    *)
(* CircularBufferFull.  A definition named X_Y is X with the slip Y; it is *)
(* used by no specification, only put in the place of X to see that a      *)
(* property notices.                                                       *)
(***************************************************************************)
EXTENDS Integers, Sequences

CONSTANTS
  Threads,     (* every thread that calls the buffer                      *)
  Writers,     (* those that write                                        *)
  Readers,     (* those that read                                         *)
  Free,        (* "no thread": the value of lock when the mutex is free   *)
  Size,        (* the constructor's size_bytes                            *)
  Word,        (* 2^32 in the code: arithmetic on uint32_t wraps here     *)
  WriteLens,   (* the lengths that are written                            *)
  ReadLens,    (* the lengths that are asked for                          *)
  MaxBytes     (* bound: how many bytes are written in a behaviour        *)

ASSUME BufferAssumption ==
  /\ Size \in Nat \ {0}
  /\ Word \in Nat /\ Size < Word
  /\ Writers \subseteq Threads /\ Readers \subseteq Threads
  /\ Free \notin Threads
  /\ WriteLens \subseteq Nat /\ ReadLens \subseteq Nat
  /\ MaxBytes \in Nat

VARIABLES
  head, tail, size, buf,   (* head_, tail_, size_ and buf_                *)
  destroyed,               (* destructor_call_                            *)
  lock,                    (* the thread that holds m, or Free            *)
  pc,                      (* where each thread is                        *)
  len, timed,              (* len and "timeout > 0" of its read or write  *)
  data, ret,               (* what the call handed out, what it returned  *)
  rem, room,               (* the holder's len_data, and remain_bytes()   *)
                           (* when it took the mutex to write             *)
  written                  (* how many bytes have been written so far     *)

ring == <<head, tail, size, buf>>
call == <<len, timed, data, ret>>
vars == <<ring, destroyed, lock, pc, call, rem, room, written>>

Zero == -1                   (* the byte memset and resize() leave *)
Holding == {"blocking", "reading", "writing", "fault"}
PCs == Holding \cup {"idle", "locking", "waiting", "woken", "expired"}

U(x) == x % Word
Smaller(a, b) == IF a < b THEN a ELSE b

remain_bytes ==
  IF head >= tail THEN U((size - 1) - (head - tail)) ELSE U(tail - head - 1)

count == U((size - 1) - remain_bytes)

(* notify_all *)
Notified_One == [t \in Threads |->
  IF pc[t] = "waiting" /\ t = (CHOOSE u \in Threads : pc[u] = "waiting")
    THEN "woken" ELSE pc[t]]
Notified == [t \in Threads |-> IF pc[t] = "waiting" THEN "woken" ELSE pc[t]]

(* A call returns and its parameters go out of scope. *)
Leave(t) ==
  /\ len' = [len EXCEPT ![t] = 0]
  /\ timed' = [timed EXCEPT ![t] = FALSE]

Init ==
  /\ head = 0 /\ tail = 0 /\ size = Size
  /\ buf = [i \in 0 .. Size - 1 |-> Zero]
  /\ destroyed = FALSE
  /\ lock = Free
  /\ pc = [t \in Threads |-> "idle"]
  /\ len = [t \in Threads |-> 0]
  /\ timed = [t \in Threads |-> FALSE]
  /\ data = [t \in Threads |-> << >>]
  /\ ret = [t \in Threads |-> "none"]
  /\ rem = 0 /\ room = 0 /\ written = 0
-----------------------------------------------------------------------------
(* write *)

WriteEnter(t, n) ==
  /\ pc[t] = "idle" /\ ~destroyed /\ lock = Free
  /\ written + n <= MaxBytes
  /\ lock' = t
  /\ pc' = [pc EXCEPT ![t] = "writing"]
  /\ len' = [len EXCEPT ![t] = n]
  /\ data' = [data EXCEPT ![t] = << >>]
  /\ ret' = [ret EXCEPT ![t] = "none"]
  /\ rem' = n
  /\ room' = remain_bytes
  /\ UNCHANGED <<ring, destroyed, timed, written>>

(* The bytes one memcpy moves, the places they go to or come from, and the *)
(* index that follows them.                                                *)
Chunk_Whole(from) == rem
Chunk_OneShort(from) == Smaller(rem, U(size - 1 - from))
Chunk(from) == Smaller(rem, U(size - from))
Places(from) == from .. from + Chunk(from) - 1
Following_NoWrap(from) == U(from + Chunk(from))
Following(from) == U(from + Chunk(from)) % size

(* Where an overflow puts tail_: all places but one are then on hold. *)
AfterOverflow_NoWrap == U(head + 1)
AfterOverflow_OneTooFar == U(head + 2) % size
AfterOverflow == U(head + 1) % size

(* A memcpy past the end of the vector: undefined behaviour, after which   *)
(* nothing is claimed of the thread, which still holds the mutex.          *)
Fault(t) ==
  /\ pc' = [pc EXCEPT ![t] = "fault"]
  /\ UNCHANGED <<ring, destroyed, lock, call, rem, room, written>>

CopyIn ==
  /\ buf' = [i \in DOMAIN buf |->
               IF i \in Places(head) THEN written + (i - head) ELSE buf[i]]
  /\ head' = Following(head)
  /\ rem' = rem - Chunk(head)
  /\ written' = written + Chunk(head)
  /\ UNCHANGED <<tail, size, destroyed, lock, pc, call, room>>

WriteChunk(t) ==
  /\ pc[t] = "writing" /\ rem > 0
  /\ IF Places(head) \subseteq DOMAIN buf THEN CopyIn ELSE Fault(t)

WriteExit(t) ==
  /\ pc[t] = "writing" /\ rem = 0
  /\ IF len[t] > room
       THEN /\ tail' = AfterOverflow
            /\ ret' = [ret EXCEPT ![t] = "BUF_OVERFLOW"]
       ELSE /\ tail' = tail
            /\ ret' = [ret EXCEPT ![t] = "BUF_NOERROR"]
  /\ pc' = [Notified EXCEPT ![t] = "idle"]
  /\ lock' = Free
  /\ Leave(t)
  /\ room' = 0
  /\ UNCHANGED <<head, size, buf, destroyed, data, rem, written>>
-----------------------------------------------------------------------------
(* read, and read_next_byte, which reads one byte without a timeout *)

ReadCall(t, n, withTimeout) ==
  /\ pc[t] = "idle" /\ ~destroyed
  /\ pc' = [pc EXCEPT ![t] = "locking"]
  /\ len' = [len EXCEPT ![t] = n]
  /\ timed' = [timed EXCEPT ![t] = withTimeout]
  /\ data' = [data EXCEPT ![t] = << >>]
  /\ ret' = [ret EXCEPT ![t] = "none"]
  /\ UNCHANGED <<ring, destroyed, lock, rem, room, written>>

TimeIsOver_Never(t) == FALSE
TimeIsOver(t) == pc[t] = "expired"

check_free_space(t) == ~destroyed => count >= len[t]

(* The reader takes the mutex and evaluates check_free_space: there are    *)
(* enough bytes and it goes on to copy them; or the buffer is going away,  *)
(* or the time is over, and it returns; or it is about to block.           *)
ReadTest(t) ==
  /\ pc[t] \in {"locking", "woken", "expired"} /\ lock = Free
  /\ \/ /\ ~destroyed /\ count >= len[t]
        /\ pc' = [pc EXCEPT ![t] = "reading"]
        /\ lock' = t
        /\ rem' = len[t]
        /\ UNCHANGED <<len, timed, ret>>
     \/ /\ check_free_space(t) \/ TimeIsOver(t)
        /\ destroyed \/ count < len[t]
        /\ pc' = [pc EXCEPT ![t] = "idle"]
        /\ ret' = [ret EXCEPT ![t] = "BUF_TIMEOUT"]
        /\ Leave(t)
        /\ UNCHANGED <<lock, rem>>
     \/ /\ ~check_free_space(t) /\ ~TimeIsOver(t)
        /\ pc' = [pc EXCEPT ![t] = "blocking"]
        /\ lock' = t
        /\ UNCHANGED <<len, timed, ret, rem>>
  /\ UNCHANGED <<ring, destroyed, data, room, written>>

(* The condition variable releases the mutex and puts the reader to sleep, *)
(* in one step as far as other holders of the mutex can tell.              *)
Sleep(t) ==
  /\ pc[t] = "blocking"
  /\ pc' = [pc EXCEPT ![t] = "waiting"]
  /\ lock' = Free
  /\ UNCHANGED <<ring, destroyed, call, rem, room, written>>

Expire(t) ==
  /\ pc[t] = "waiting" /\ timed[t]
  /\ pc' = [pc EXCEPT ![t] = "expired"]
  /\ UNCHANGED <<ring, destroyed, lock, call, rem, room, written>>

SpuriousWake(t) ==
  /\ pc[t] = "waiting"
  /\ pc' = [pc EXCEPT ![t] = "woken"]
  /\ UNCHANGED <<ring, destroyed, lock, call, rem, room, written>>

CopyOut(t) ==
  /\ data' = [data EXCEPT ![t] =
                @ \o [i \in 1 .. Chunk(tail) |-> buf[tail + i - 1]]]
  /\ tail' = Following(tail)
  /\ rem' = rem - Chunk(tail)
  /\ UNCHANGED <<head, size, buf, destroyed, lock, pc, len, timed, ret, room, written>>

ReadChunk(t) ==
  /\ pc[t] = "reading" /\ rem > 0
  /\ IF Places(tail) \subseteq DOMAIN buf THEN CopyOut(t) ELSE Fault(t)

ReadExit(t) ==
  /\ pc[t] = "reading" /\ rem = 0
  /\ pc' = [pc EXCEPT ![t] = "idle"]
  /\ ret' = [ret EXCEPT ![t] = "BUF_NOERROR"]
  /\ lock' = Free
  /\ Leave(t)
  /\ UNCHANGED <<ring, destroyed, data, rem, room, written>>
-----------------------------------------------------------------------------
clear_buffer_HeadOnly ==
  /\ ~destroyed /\ lock = Free
  /\ head' = 0
  /\ UNCHANGED <<tail, size, buf, destroyed, lock, pc, call, rem, room, written>>

clear_buffer ==
  /\ ~destroyed /\ lock = Free
  /\ head' = 0 /\ tail' = 0
  /\ UNCHANGED <<size, buf, destroyed, lock, pc, call, rem, room, written>>

(* The destructor sets its flag and notifies without taking the mutex.     *)
(* No call starts afterwards; those under way are followed to their end.   *)
Destroy ==
  /\ ~destroyed
  /\ destroyed' = TRUE
  /\ pc' = Notified
  /\ UNCHANGED <<ring, lock, call, rem, room, written>>

(* The steps a thread takes while it holds the mutex. *)
HolderStep(t) ==
  WriteChunk(t) \/ WriteExit(t) \/ ReadChunk(t) \/ ReadExit(t) \/ Sleep(t)

Write(t) == \E n \in WriteLens : WriteEnter(t, n)
Read(t) == \E n \in ReadLens, withTimeout \in BOOLEAN : ReadCall(t, n, withTimeout)

Next ==
  \/ \E t \in Writers : Write(t)
  \/ \E t \in Readers : Read(t)
  \/ \E t \in Threads : HolderStep(t) \/ ReadTest(t) \/ Expire(t) \/ SpuriousWake(t)
  \/ clear_buffer
  \/ Destroy

(* A thread that runs inside the mutex leaves it.  A thread that asks for  *)
(* the mutex gets it if it is free again and again, and a deadline is      *)
(* absolute: no sequence of wake-ups can put it off for ever.              *)
Fairness ==
  \A t \in Threads :
    /\ WF_vars(HolderStep(t))
    /\ SF_vars(ReadTest(t))
    /\ SF_vars(Expire(t))

Spec == Init /\ [][Next]_vars
FairSpec == Spec /\ Fairness
-----------------------------------------------------------------------------
RingOK ==
  /\ head \in 0 .. Size - 1 /\ tail \in 0 .. Size - 1 /\ size = Size
  /\ buf \in [0 .. Size - 1 -> Int]
  /\ rem \in Nat /\ room \in 0 .. Size - 1 /\ written \in Nat

CallsOK ==
  /\ destroyed \in BOOLEAN
  /\ lock \in Threads \cup {Free}
  /\ pc \in [Threads -> PCs]
  /\ len \in [Threads -> Nat] /\ timed \in [Threads -> BOOLEAN]
  /\ ret \in [Threads -> {"none", "BUF_NOERROR", "BUF_OVERFLOW", "BUF_TIMEOUT"}]

(* Every variable keeps its type; in particular head_ and tail_ are always *)
(* valid indices, before and after every memcpy.                           *)
TypeOK == RingOK /\ CallsOK /\ data \in [Threads -> Seq(Int)]

(* The place i holds a byte written Age(i) bytes ago, if it was written.   *)
Age(i) == IF i < head THEN head - i ELSE head - i + size

Writing == lock # Free /\ pc[lock] = "writing"
Reading == lock # Free /\ pc[lock] = "reading"
Done == len[lock] - rem

(* How many of the newest bytes must still be in place. *)
Fresh == IF Writing THEN (size - 1 - room) + Done ELSE count

(* No byte that a reader may still be given has been overwritten or        *)
(* misplaced: at every step, inside a wrapping or an overflowing write     *)
(* too, the newest Fresh bytes lie in the order they were written.         *)
WindowIntact ==
  \A i \in DOMAIN buf : Age(i) <= Fresh => buf[i] = written - Age(i)

(* A reader sleeps only while the bytes it waits for are not there: what   *)
(* arrived between its test and its sleep, or what two readers were        *)
(* notified of and one took, leaves nobody asleep beside enough bytes.     *)
NoLostWakeup ==
  lock = Free => \A t \in Threads : pc[t] = "waiting" => count < len[t]

(* No memcpy leaves the vector. *)
NoFault == \A t \in Threads : pc[t] # "fault"

(* Every read and write takes effect on the abstract stream at the moment  *)
(* it returns: readers get the oldest bytes in order and each byte once,   *)
(* an overflow drops exactly the oldest ones and is reported by its own    *)
(* call, and a read that timed out took nothing.                           *)
hiBar == IF Writing THEN written - Done ELSE written
loBar == IF Writing THEN hiBar - (size - 1 - room)
         ELSE IF Reading THEN written - count - Done ELSE written - count
gotBar == [t \in Threads |-> IF pc[t] = "reading" THEN << >> ELSE data[t]]
Stream == INSTANCE ByteStream WITH
  Clients <- Threads, Capacity <- Size - 1, Lens <- WriteLens \cup ReadLens,
  lo <- loBar, hi <- hiBar, res <- ret, got <- gotBar
ImplementsStream == Stream!Spec

(* Whoever holds the mutex gives it back. *)
MutexReleased == \A t \in Threads : lock = t ~> lock # t

(* A read with a timeout returns, however often it is woken in vain, and   *)
(* whether or not the buffer is destroyed meanwhile.                       *)
TimedReadReturns == \A t \in Readers : (pc[t] = "locking" /\ timed[t]) ~> pc[t] = "idle"
=============================================================================
