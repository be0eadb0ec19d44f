------------------------ MODULE CircularBufferProofs ------------------------
(* The safety of CircularBuffer, and that it implements ByteStream, for    *)
(* every size, word, set of threads and set of lengths.                    *)
EXTENDS CircularBuffer, SequenceTheorems, TLAPS

LEMMA FunctionIsSeq ==
  ASSUME NEW S, NEW n \in Nat, NEW f \in [1 .. n -> S]
  PROVE  f \in Seq(S)
  BY SeqDef

(* Modular reduction of a value at most one step past the range. *)
LEMMA ModFits ==
  ASSUME NEW N \in Nat, N > 0, NEW x \in 0 .. N
  PROVE  x % N = IF x = N THEN 0 ELSE x
  OBVIOUS

(* Nothing the buffer computes between 0 and its size overflows a word. *)
LEMMA UFits ==
  ASSUME NEW x \in 0 .. Size
  PROVE  U(x) = x
  BY ModFits, BufferAssumption DEF U

(* The arithmetic facts of RingOK, without the function buf. *)
LEMMA Numbers ==
  ASSUME RingOK
  PROVE  /\ Size \in Nat /\ Size > 0 /\ size = Size
         /\ head \in Nat /\ head < Size /\ tail \in Nat /\ tail < Size
         /\ rem \in Nat /\ written \in Nat
         /\ room \in Nat /\ room < Size
         /\ DOMAIN buf = 0 .. Size - 1
  BY BufferAssumption DEF RingOK

(* The bytes between tail and head, counted without modular arithmetic. *)
Used == IF head >= tail THEN head - tail ELSE Size - (tail - head)

LEMMA CountIsUsed ==
  ASSUME RingOK
  PROVE  /\ count = Used /\ remain_bytes = Size - 1 - Used
         /\ Used \in Nat /\ Used < Size
<1>1. Used \in Nat /\ Used < Size
  BY Numbers DEF Used
<1>2. remain_bytes = Size - 1 - Used
  <2>1. CASE head >= tail
    <3>1. (Size - 1) - (head - tail) \in 0 .. Size
      BY <2>1, Numbers
    <3>2. U((Size - 1) - (head - tail)) = (Size - 1) - (head - tail)
      BY <3>1, UFits
    <3> QED BY <2>1, <3>2, Numbers DEF remain_bytes, Used
  <2>2. CASE ~(head >= tail)
    <3>1. tail - head - 1 \in 0 .. Size
      BY <2>2, Numbers
    <3>2. U(tail - head - 1) = tail - head - 1
      BY <3>1, UFits
    <3>3. remain_bytes = tail - head - 1 /\ Used = Size - (tail - head)
      BY <2>2, <3>2 DEF remain_bytes, Used
    <3> QED BY <3>3, Numbers
  <2> QED BY <2>1, <2>2
<1>3. count = Used
  <2>1. (Size - 1) - remain_bytes = Used /\ Used \in 0 .. Size
    BY <1>1, <1>2, Numbers
  <2>2. U(Used) = Used
    BY <2>1, UFits
  <2> QED BY <2>1, <2>2, Numbers DEF count
<1> QED BY <1>1, <1>2, <1>3

(* One memcpy moves at least a byte, no more than is left to move, and     *)
(* stays inside the vector.                                                *)
LEMMA ChunkFits ==
  ASSUME RingOK, rem > 0, NEW x \in 0 .. Size - 1
  PROVE  /\ Chunk(x) \in 1 .. rem
         /\ x + Chunk(x) \in 1 .. Size
         /\ Places(x) \subseteq DOMAIN buf
         /\ Following(x) = IF x + Chunk(x) = Size THEN 0 ELSE x + Chunk(x)
<1>0. size = Size /\ rem \in Nat /\ DOMAIN buf = 0 .. Size - 1
  BY Numbers
<1>1. U(size - x) = Size - x
  <2>1. Size - x \in 0 .. Size
    BY BufferAssumption
  <2> QED BY <1>0, <2>1, UFits
<1>2. Chunk(x) = IF rem < Size - x THEN rem ELSE Size - x
  BY <1>1 DEF Chunk, Smaller
<1>3. Chunk(x) \in 1 .. rem /\ x + Chunk(x) \in 1 .. Size
  BY <1>0, <1>2, BufferAssumption
<1>4. Places(x) \subseteq DOMAIN buf
  <2>1. \A y \in x .. x + Chunk(x) - 1 : y \in 0 .. Size - 1
    BY <1>0, <1>3, BufferAssumption
  <2> QED BY <1>0, <2>1 DEF Places
<1>5. Following(x) = IF x + Chunk(x) = Size THEN 0 ELSE x + Chunk(x)
  <2>1. U(x + Chunk(x)) = x + Chunk(x)
    BY <1>3, UFits
  <2>2. x + Chunk(x) \in 0 .. Size /\ Size > 0
    BY <1>3, BufferAssumption
  <2> QED BY <1>0, <2>1, <2>2, ModFits, BufferAssumption DEF Following
<1> QED BY <1>3, <1>4, <1>5

(* No memcpy leaves the vector: every turn of the copy loops copies.       *)
LEMMA Copies ==
  ASSUME RingOK, NEW t \in Threads
  PROVE  /\ WriteChunk(t) => pc[t] = "writing" /\ rem > 0 /\ CopyIn
         /\ ReadChunk(t) => pc[t] = "reading" /\ rem > 0 /\ CopyOut(t)
<1>1. head \in 0 .. Size - 1 /\ tail \in 0 .. Size - 1
  BY DEF RingOK
<1>2. rem > 0 => Places(head) \subseteq DOMAIN buf /\ Places(tail) \subseteq DOMAIN buf
  BY <1>1, ChunkFits
<1> QED BY <1>2 DEF WriteChunk, ReadChunk

(* The same, for the index a memcpy leaves behind. *)
LEMMA NextIndex ==
  ASSUME RingOK, rem > 0, NEW x \in 0 .. Size - 1
  PROVE  /\ Chunk(x) \in 1 .. rem
         /\ Following(x) \in 0 .. Size - 1
<1>1. /\ Chunk(x) \in 1 .. rem
      /\ x + Chunk(x) \in 1 .. Size
      /\ Following(x) = IF x + Chunk(x) = Size THEN 0 ELSE x + Chunk(x)
  BY ChunkFits
<1>2. (IF x + Chunk(x) = Size THEN 0 ELSE x + Chunk(x)) \in 0 .. Size - 1
  BY <1>1, BufferAssumption
<1> QED BY <1>1, <1>2
-----------------------------------------------------------------------------
(* head_ and tail_ stay valid indices and the arithmetic on them never     *)
(* wraps.                                                                  *)
LEMMA RingStep ==
  ASSUME RingOK, CallsOK, [Next]_vars
  PROVE  RingOK'
<1> USE BufferAssumption
<1>1. ASSUME NEW t \in Threads, NEW n \in WriteLens, WriteEnter(t, n)
      PROVE  RingOK'
  <2>1. remain_bytes \in 0 .. Size - 1
    BY CountIsUsed, Numbers
  <2>2. n \in Nat
    OBVIOUS
  <2> QED BY <1>1, <2>1, <2>2 DEF RingOK, WriteEnter, ring
<1>2. ASSUME NEW t \in Threads, WriteChunk(t)
      PROVE  RingOK'
  <2>0. rem > 0 /\ head \in 0 .. Size - 1 /\ head' = Following(head)
    BY <1>2, Copies DEF CopyIn, RingOK
  <2>1. Chunk(head) \in 1 .. rem /\ head' \in 0 .. Size - 1
    BY <2>0, NextIndex
  <2>2. buf' \in [0 .. Size - 1 -> Int]
    BY <1>2, Copies DEF RingOK, CopyIn
  <2>3. /\ rem' = rem - Chunk(head) /\ written' = written + Chunk(head)
        /\ UNCHANGED <<tail, size, room>>
    BY <1>2, Copies DEF CopyIn
  <2> QED BY <2>1, <2>2, <2>3, SMTT(20) DEF RingOK
<1>3. ASSUME NEW t \in Threads, WriteExit(t)
      PROVE  RingOK'
  <2>1. U(head + 1) % size \in 0 .. Size - 1
    BY UFits, ModFits DEF RingOK
  <2> QED BY <1>3, <2>1 DEF RingOK, WriteExit, AfterOverflow
<1>4. ASSUME NEW t \in Threads, ReadTest(t)
      PROVE  RingOK'
  <2>1. rem' = rem \/ rem' = len[t]
    BY <1>4 DEF ReadTest
  <2>2. rem' \in Nat
    BY <2>1 DEF RingOK, CallsOK
  <2> QED BY <1>4, <2>2 DEF RingOK, ReadTest, ring
<1>5. ASSUME NEW t \in Threads, ReadChunk(t)
      PROVE  RingOK'
  <2>1. /\ rem > 0 /\ tail' = Following(tail)
        /\ rem' = rem - Chunk(tail)
        /\ UNCHANGED <<head, size, buf, room, written>>
    BY <1>5, Copies DEF CopyOut
  <2>2. tail \in 0 .. Size - 1
    BY DEF RingOK
  <2>3. Chunk(tail) \in 1 .. rem /\ tail' \in 0 .. Size - 1
    BY <2>1, <2>2, NextIndex
  <2> QED BY <2>1, <2>3 DEF RingOK
<1>6. ASSUME NEW t \in Threads, NEW n \in ReadLens, NEW b \in BOOLEAN, ReadCall(t, n, b)
      PROVE  RingOK'
  BY <1>6 DEF RingOK, ReadCall, ring
<1>7. ASSUME NEW t \in Threads,
             Sleep(t) \/ Expire(t) \/ SpuriousWake(t) \/ ReadExit(t)
      PROVE  RingOK'
  BY <1>7 DEF RingOK, Sleep, Expire, SpuriousWake, ReadExit, ring
<1>8. CASE clear_buffer
  BY <1>8 DEF RingOK, clear_buffer
<1>9. CASE Destroy
  BY <1>9 DEF RingOK, Destroy, ring
<1>10. CASE UNCHANGED vars
  BY <1>10 DEF RingOK, vars, ring
<1> QED
  BY <1>1, <1>2, <1>3, <1>4, <1>5, <1>6, <1>7, <1>8, <1>9, <1>10
     DEF Next, Write, Read, HolderStep

(* What a memcpy takes out of the vector. *)
Taken == [i \in 1 .. Chunk(tail) |-> buf[tail + i - 1]]

LEMMA TakenIsSeq ==
  ASSUME RingOK, rem > 0
  PROVE  /\ Taken \in Seq(Int) /\ Len(Taken) = Chunk(tail)
         /\ \A i \in 1 .. Chunk(tail) : Taken[i] = buf[tail + i - 1]
<1>1. Chunk(tail) \in Nat /\ Places(tail) \subseteq DOMAIN buf
  BY ChunkFits DEF RingOK
<1>2. ASSUME NEW i \in 1 .. Chunk(tail)
      PROVE  buf[tail + i - 1] \in Int
  BY <1>1, <1>2, SMTT(20) DEF RingOK, Places
<1>3. Taken \in [1 .. Chunk(tail) -> Int]
  BY <1>2 DEF Taken
<1>4. Taken \in Seq(Int) /\ Len(Taken) = Chunk(tail)
  BY <1>1, <1>3, FunctionIsSeq
<1> QED BY <1>4 DEF Taken

LEMMA CallsStep ==
  ASSUME RingOK, CallsOK, [Next]_vars
  PROVE  CallsOK'
<1> USE BufferAssumption
<1>1. ASSUME NEW t \in Threads, NEW n \in WriteLens, WriteEnter(t, n)
      PROVE  CallsOK'
  BY <1>1 DEF CallsOK, WriteEnter, PCs, Holding
<1>2. ASSUME NEW t \in Threads, WriteChunk(t)
      PROVE  CallsOK'
  BY <1>2, Copies DEF CallsOK, CopyIn, call
<1>3. Notified \in [Threads -> PCs]
  BY DEF CallsOK, Notified, PCs
<1>4. ASSUME NEW t \in Threads, WriteExit(t)
      PROVE  CallsOK'
  BY <1>3, <1>4 DEF CallsOK, WriteExit, Leave, PCs
<1>5. ASSUME NEW t \in Threads, NEW n \in ReadLens, NEW b \in BOOLEAN, ReadCall(t, n, b)
      PROVE  CallsOK'
  BY <1>5 DEF CallsOK, ReadCall, PCs
<1>6. ASSUME NEW t \in Threads, ReadTest(t)
      PROVE  CallsOK'
  <2>1. lock' \in Threads \cup {Free} /\ destroyed' \in BOOLEAN
    BY <1>6 DEF CallsOK, ReadTest
  <2>2. pc' \in [Threads -> PCs]
    BY <1>6 DEF CallsOK, ReadTest, PCs, Holding
  <2>3. len' \in [Threads -> Nat]
    <3>1. len' = len \/ len' = [len EXCEPT ![t] = 0]
      BY <1>6 DEF ReadTest, Leave
    <3> QED BY <3>1 DEF CallsOK
  <2>5. timed' \in [Threads -> BOOLEAN]
    <3>1. timed' = timed \/ timed' = [timed EXCEPT ![t] = FALSE]
      BY <1>6 DEF ReadTest, Leave
    <3> QED BY <3>1 DEF CallsOK
  <2>4. ret' \in [Threads -> {"none", "BUF_NOERROR", "BUF_OVERFLOW", "BUF_TIMEOUT"}]
    BY <1>6 DEF CallsOK, ReadTest
  <2> QED BY <2>1, <2>2, <2>3, <2>4, <2>5 DEF CallsOK
<1>7. ASSUME NEW t \in Threads, Sleep(t) \/ Expire(t) \/ SpuriousWake(t)
      PROVE  CallsOK'
  BY <1>7 DEF CallsOK, Sleep, Expire, SpuriousWake, call, PCs, Holding
<1>8. ASSUME NEW t \in Threads, ReadChunk(t)
      PROVE  CallsOK'
  <2>1. UNCHANGED <<destroyed, lock, pc, len, timed, ret>>
    BY <1>8, Copies DEF CopyOut
  <2> QED BY <2>1 DEF CallsOK
<1>9. ASSUME NEW t \in Threads, ReadExit(t)
      PROVE  CallsOK'
  BY <1>9 DEF CallsOK, ReadExit, Leave, PCs
<1>10. CASE clear_buffer
  BY <1>10 DEF CallsOK, clear_buffer, call
<1>11. CASE Destroy
  BY <1>11, <1>3 DEF CallsOK, Destroy, call
<1>12. CASE UNCHANGED vars
  BY <1>12 DEF CallsOK, vars, call
<1> QED
  BY <1>1, <1>2, <1>4, <1>5, <1>6, <1>7, <1>8, <1>9, <1>10, <1>11, <1>12
     DEF Next, Write, Read, HolderStep

LEMMA DataStep ==
  ASSUME RingOK, data \in [Threads -> Seq(Int)], [Next]_vars
  PROVE  data' \in [Threads -> Seq(Int)]
<1>1. ASSUME NEW t \in Threads, ReadChunk(t)
      PROVE  data' \in [Threads -> Seq(Int)]
  <2>1. data' = [data EXCEPT ![t] = data[t] \o Taken] /\ rem > 0
    BY <1>1, Copies DEF CopyOut, Taken
  <2> DEFINE more == data[t] \o Taken
  <2>2. data[t] \in Seq(Int) /\ Taken \in Seq(Int)
    BY <2>1, TakenIsSeq
  <2>3. more \in Seq(Int)
    BY <2>2, ConcatProperties
  <2>4. data' = [data EXCEPT ![t] = more]
    BY <2>1
  <2> HIDE DEF more
  <2> QED BY <2>3, <2>4
<1>2. ASSUME NEW t \in Threads, data' = [data EXCEPT ![t] = << >>]
      PROVE  data' \in [Threads -> Seq(Int)]
  <2> DEFINE nothing == << >>
  <2>1. nothing \in Seq(Int)
    BY EmptySeq
  <2>2. data' = [data EXCEPT ![t] = nothing]
    BY <1>2
  <2> HIDE DEF nothing
  <2> QED BY <2>1, <2>2
<1>3. CASE UNCHANGED data
  BY <1>3
<1>4. \/ UNCHANGED data
      \/ \E t \in Threads : ReadChunk(t) \/ data' = [data EXCEPT ![t] = << >>]
  BY Copies, BufferAssumption
     DEF Next, vars, call, Write, Read, HolderStep, WriteEnter, CopyIn, WriteExit,
         ReadCall, ReadTest, Sleep, Expire, SpuriousWake, ReadExit, clear_buffer,
         Destroy
<1> QED BY <1>1, <1>2, <1>3, <1>4

LEMMA InitTypeOK == Init => TypeOK
<1>1. Init => RingOK
  BY BufferAssumption DEF Init, RingOK, Zero
<1>2. ASSUME Init
      PROVE  CallsOK
  <2>1. pc \in [Threads -> PCs]
    BY <1>2 DEF Init, PCs
  <2>2. timed \in [Threads -> BOOLEAN]
    BY <1>2 DEF Init
  <2>3. len \in [Threads -> Nat] /\ destroyed \in BOOLEAN /\ lock \in {Free}
    BY <1>2 DEF Init
  <2>4. ret \in [Threads -> {"none", "BUF_NOERROR", "BUF_OVERFLOW", "BUF_TIMEOUT"}]
    BY <1>2 DEF Init
  <2> QED BY <2>1, <2>2, <2>3, <2>4 DEF CallsOK
<1>3. Init => data \in [Threads -> Seq(Int)]
  <2> DEFINE nothing == << >>
  <2>1. nothing \in Seq(Int)
    BY EmptySeq
  <2>2. Init => data = [t \in Threads |-> nothing]
    BY DEF Init
  <2> HIDE DEF nothing
  <2> QED BY <2>1, <2>2
<1> QED BY <1>1, <1>2, <1>3 DEF TypeOK

(* Every variable keeps its type in every behaviour of the buffer. *)
THEOREM TypeCorrect == Spec => []TypeOK
<1>1. TypeOK /\ [Next]_vars => TypeOK'
  BY RingStep, CallsStep, DataStep DEF TypeOK
<1> QED BY <1>1, InitTypeOK, PTL DEF Spec
-----------------------------------------------------------------------------
(***************************************************************************)
(* The inductive invariant: who is inside the mutex, how far the one call  *)
(* inside it has come, and what the sleepers are waiting for.              *)
(***************************************************************************)
LockOwner == \A t \in Threads : pc[t] \in Holding <=> lock = t

WriterInside ==
  Writing => /\ rem <= len[lock]
             /\ len[lock] <= room => count = (size - 1 - room) + Done

ReaderInside == Reading => rem <= count

(* A sleeper's bytes are missing, unless a writer is inside the mutex: it  *)
(* will wake every sleeper when it leaves.                                 *)
SleepersWait ==
  \A t \in Threads :
    /\ pc[t] = "blocking" => count < len[t]
    /\ pc[t] = "waiting" => Writing \/ count < len[t]

IInv ==
  /\ TypeOK /\ LockOwner /\ NoFault
  /\ WriterInside /\ ReaderInside /\ SleepersWait
  /\ WindowIntact
-----------------------------------------------------------------------------
LEMMA LockOwnerStep ==
  ASSUME RingOK, CallsOK, LockOwner, [Next]_vars
  PROVE  LockOwner'
<1> USE BufferAssumption DEF CallsOK, LockOwner, Holding
<1>1. ASSUME NEW t \in Threads, NEW n \in WriteLens, WriteEnter(t, n)
      PROVE  LockOwner'
  BY <1>1 DEF WriteEnter
<1>2. ASSUME NEW t \in Threads, WriteChunk(t)
      PROVE  LockOwner'
  <2>1. UNCHANGED <<lock, pc>>
    BY <1>2, Copies DEF CopyIn
  <2> QED BY <2>1
<1>3. ASSUME NEW t \in Threads, WriteExit(t)
      PROVE  LockOwner'
  BY <1>3 DEF WriteExit, Notified
<1>4. ASSUME NEW t \in Threads, NEW n \in ReadLens, NEW b \in BOOLEAN, ReadCall(t, n, b)
      PROVE  LockOwner'
  BY <1>4 DEF ReadCall
<1>5. ASSUME NEW t \in Threads, ReadTest(t)
      PROVE  LockOwner'
  BY <1>5 DEF ReadTest
<1>6. ASSUME NEW t \in Threads, Sleep(t)
      PROVE  LockOwner'
  BY <1>6 DEF Sleep
<1>7. ASSUME NEW t \in Threads, Expire(t) \/ SpuriousWake(t)
      PROVE  LockOwner'
  BY <1>7 DEF Expire, SpuriousWake
<1>8. ASSUME NEW t \in Threads, ReadChunk(t)
      PROVE  LockOwner'
  <2>1. UNCHANGED <<lock, pc>>
    BY <1>8, Copies DEF CopyOut
  <2> QED BY <2>1
<1>9. ASSUME NEW t \in Threads, ReadExit(t)
      PROVE  LockOwner'
  BY <1>9 DEF ReadExit
<1>10. CASE clear_buffer
  BY <1>10 DEF clear_buffer
<1>11. CASE Destroy
  BY <1>11 DEF Destroy, Notified
<1>12. CASE UNCHANGED vars
  BY <1>12 DEF vars
<1> QED
  BY <1>1, <1>2, <1>3, <1>4, <1>5, <1>6, <1>7, <1>8, <1>9, <1>10, <1>11, <1>12
     DEF Next, Write, Read, HolderStep

LEMMA NoFaultStep ==
  ASSUME RingOK, CallsOK, NoFault, [Next]_vars
  PROVE  NoFault'
<1> SUFFICES ASSUME NEW u \in Threads
             PROVE  pc'[u] # "fault"
  BY DEF NoFault
<1>1. pc[u] # "fault"
  BY DEF NoFault
<1>2. ASSUME NEW t \in Threads, WriteChunk(t) \/ ReadChunk(t)
      PROVE  pc' = pc
  BY <1>2, Copies DEF CopyIn, CopyOut
<1>3. CASE \E t \in Threads : WriteChunk(t) \/ ReadChunk(t)
  BY <1>1, <1>2, <1>3
<1>4. CASE ~(\E t \in Threads : WriteChunk(t) \/ ReadChunk(t))
  <2>1. \/ pc' = pc \/ pc'[u] = Notified[u]
        \/ \E t \in Threads, p \in PCs \ {"fault"} : pc' = [pc EXCEPT ![t] = p]
        \/ \E t \in Threads : pc' = [Notified EXCEPT ![t] = "idle"]
    BY <1>4, BufferAssumption
       DEF Next, vars, Write, Read, HolderStep, WriteEnter, WriteExit,
           ReadCall, ReadTest, Sleep, Expire, SpuriousWake, ReadExit, clear_buffer,
           Destroy, PCs, Holding
  <2> QED BY <1>1, <2>1 DEF Notified, CallsOK
<1> QED BY <1>3, <1>4
-----------------------------------------------------------------------------
LEMMA CountIsUsedNext ==
  (RingOK => /\ count = Used /\ remain_bytes = Size - 1 - Used
             /\ Used \in Nat /\ Used < Size)'
<1>1. RingOK => /\ count = Used /\ remain_bytes = Size - 1 - Used
                /\ Used \in Nat /\ Used < Size
  BY CountIsUsed
<1> QED BY <1>1, PTL

(* What one memcpy of a write does to the numbers. *)
LEMMA WriteChunkEffect ==
  ASSUME RingOK, RingOK', CallsOK, LockOwner, NEW t \in Threads, WriteChunk(t)
  PROVE  /\ lock = t /\ Writing /\ Writing'
         /\ UNCHANGED <<tail, size, lock, pc, len, room>>
         /\ Chunk(head) \in 1 .. rem /\ head + Chunk(head) <= Size
         /\ head' = IF head + Chunk(head) = Size THEN 0 ELSE head + Chunk(head)
         /\ rem' = rem - Chunk(head) /\ written' = written + Chunk(head)
         /\ count + Chunk(head) < Size => count' = count + Chunk(head)
<1>1. /\ pc[t] = "writing" /\ rem > 0
      /\ head' = Following(head)
      /\ rem' = rem - Chunk(head) /\ written' = written + Chunk(head)
      /\ UNCHANGED <<tail, size, lock, pc, len, room>>
  BY Copies DEF CopyIn, call
<1>2. lock = t /\ Writing /\ Writing'
  BY <1>1, BufferAssumption DEF LockOwner, Holding, Writing
<1>3. head \in 0 .. Size - 1
  BY DEF RingOK
<1>4. /\ Chunk(head) \in 1 .. rem /\ head + Chunk(head) \in 1 .. Size
      /\ head' = IF head + Chunk(head) = Size THEN 0 ELSE head + Chunk(head)
  BY <1>1, <1>3, ChunkFits
<1>5. count + Chunk(head) < Size => count' = count + Chunk(head)
  <2>1. count = Used /\ count' = Used'
    BY CountIsUsed, CountIsUsedNext
  <2>2. Used' = IF head' >= tail THEN head' - tail ELSE Size - (tail - head')
    BY <1>1 DEF Used
  <2>3. Chunk(head) \in Nat /\ Chunk(head) > 0
    BY <1>4, Numbers
  <2> QED BY <1>4, <2>1, <2>2, <2>3, Numbers, SMTT(20) DEF Used
<1> QED BY <1>1, <1>2, <1>4, <1>5, Numbers

(* What one memcpy of a read does to the numbers. *)
LEMMA ReadChunkEffect ==
  ASSUME RingOK, RingOK', CallsOK, LockOwner, ReaderInside,
         NEW t \in Threads, ReadChunk(t)
  PROVE  /\ lock = t /\ Reading /\ Reading' /\ ~Writing /\ ~Writing'
         /\ UNCHANGED <<head, size, buf, lock, pc, len, room, written>>
         /\ Chunk(tail) \in 1 .. rem /\ tail + Chunk(tail) <= Size
         /\ tail' = IF tail + Chunk(tail) = Size THEN 0 ELSE tail + Chunk(tail)
         /\ rem' = rem - Chunk(tail)
         /\ count' = count - Chunk(tail)
<1>1. /\ pc[t] = "reading" /\ rem > 0
      /\ tail' = Following(tail)
      /\ rem' = rem - Chunk(tail)
      /\ UNCHANGED <<head, size, buf, lock, pc, len, room, written>>
  BY Copies DEF CopyOut
<1>2. lock = t /\ Reading /\ Reading' /\ ~Writing /\ ~Writing'
  BY <1>1, BufferAssumption DEF LockOwner, Holding, Reading, Writing
<1>3. tail \in 0 .. Size - 1
  BY DEF RingOK
<1>4. /\ Chunk(tail) \in 1 .. rem /\ tail + Chunk(tail) \in 1 .. Size
      /\ tail' = IF tail + Chunk(tail) = Size THEN 0 ELSE tail + Chunk(tail)
  BY <1>1, <1>3, ChunkFits
<1>5. count' = count - Chunk(tail)
  <2>1. count = Used /\ count' = Used'
    BY CountIsUsed, CountIsUsedNext
  <2>2. Used' = IF head >= tail' THEN head - tail' ELSE Size - (tail' - head)
    BY <1>1 DEF Used
  <2>3. Chunk(tail) \in Nat /\ Chunk(tail) > 0 /\ Chunk(tail) <= rem
    BY <1>4, Numbers
  <2>4. rem <= Used
    <3>1. rem <= count
      BY <1>2 DEF ReaderInside
    <3> QED BY <2>1, <3>1
  <2> DEFINE c == Chunk(tail)
  <2>5. /\ c \in Nat /\ c > 0 /\ c <= Used /\ tail + c <= Size
        /\ tail' = IF tail + c = Size THEN 0 ELSE tail + c
    BY <1>4, <2>3, <2>4, Numbers DEF Used
  <2> HIDE DEF c
  <2>6. CASE head >= tail
    <3>1. Used = head - tail /\ tail + c < Size /\ head >= tail + c
      BY <2>5, <2>6, Numbers DEF Used
    <3> QED BY <2>1, <2>2, <2>5, <3>1, Numbers DEF c
  <2>7. CASE ~(head >= tail)
    <3>1. Used = Size - (tail - head)
      BY <2>7 DEF Used
    <3>2. CASE tail + c = Size
      <4>1. tail' = 0 /\ head >= tail' /\ Used' = head
        BY <2>2, <2>5, <3>2, Numbers
      <4>2. Used - c = head
        BY <2>5, <3>1, <3>2, Numbers
      <4> QED BY <2>1, <4>1, <4>2 DEF c
    <3>3. CASE tail + c # Size
      <4>1. tail' = tail + c /\ ~(head >= tail')
        BY <2>5, <2>7, <3>3, Numbers
      <4>2. Used' = Size - (tail + c - head)
        BY <2>2, <2>5, <4>1, Numbers
      <4> QED BY <2>1, <2>5, <3>1, <4>2, Numbers DEF c
    <3> QED BY <3>2, <3>3
  <2> QED BY <2>6, <2>7
<1> QED BY <1>1, <1>2, <1>4, <1>5, Numbers

(* Leaving an overflowing write: all but one place is on hold. *)
LEMMA WriteExitEffect ==
  ASSUME RingOK, RingOK', CallsOK, LockOwner, WriterInside, NEW t \in Threads, WriteExit(t)
  PROVE  /\ lock = t /\ Writing /\ ~Writing' /\ ~Reading'
         /\ UNCHANGED <<head, size, buf, written>>
         /\ rem = 0 /\ lock' = Free
         /\ count' = IF len[t] > room THEN Size - 1 ELSE (Size - 1 - room) + len[t]
<1>1. /\ pc[t] = "writing" /\ rem = 0 /\ lock' = Free
      /\ UNCHANGED <<head, size, buf, written>>
      /\ tail' = IF len[t] > room THEN U(head + 1) % size ELSE tail
  BY DEF WriteExit, AfterOverflow
<1>2. lock = t /\ Writing /\ ~Writing' /\ ~Reading'
  BY <1>1, BufferAssumption DEF LockOwner, Holding, Writing, Reading
<1>3. count = Used /\ count' = Used'
  BY CountIsUsed, CountIsUsedNext
<1>4. Used' = IF head >= tail' THEN head - tail' ELSE Size - (tail' - head)
  BY <1>1 DEF Used
<1>5. CASE len[t] > room
  <2>1. U(head + 1) = head + 1
    <3>1. head + 1 \in 0 .. Size
      BY Numbers
    <3> QED BY <3>1, UFits
  <2>2. U(head + 1) % size = IF head + 1 = Size THEN 0 ELSE head + 1
    <3>1. head + 1 \in 0 .. Size /\ Size \in Nat /\ Size > 0 /\ size = Size
      BY Numbers
    <3> QED BY <2>1, <3>1, ModFits
  <2> QED BY <1>1, <1>2, <1>3, <1>4, <1>5, <2>2, Numbers
<1>6. CASE ~(len[t] > room)
  <2>1. len[t] \in Nat
    BY DEF CallsOK
  <2>2. count = (Size - 1 - room) + len[t]
    BY <1>1, <1>2, <1>6, <2>1, Numbers DEF WriterInside, Done
  <2>3. count' = count
    BY <1>1, <1>3, <1>4, <1>6 , Numbers DEF Used
  <2> QED BY <1>1, <1>2, <1>6, <2>2, <2>3
<1> QED BY <1>5, <1>6
-----------------------------------------------------------------------------
(* The window survives a step that moves no byte and claims no more of it. *)
LEMMA WindowFrame ==
  ASSUME RingOK, WindowIntact, UNCHANGED <<head, size, buf, written>>,
         Fresh \in Int, Fresh' \in Int, Fresh' <= Fresh
  PROVE  WindowIntact'
<1> SUFFICES ASSUME NEW i \in DOMAIN buf, Age(i)' <= Fresh'
             PROVE  buf[i] = written - Age(i)
  BY DEF WindowIntact, Age
<1>1. Age(i)' = Age(i)
  BY DEF Age
<1>2. Age(i) \in Int
  <2>1. i \in Int
    BY Numbers
  <2> QED BY <2>1, Numbers DEF Age
<1>3. Age(i) <= Fresh
  BY <1>1, <1>2
<1> QED BY <1>3 DEF WindowIntact

(* A memcpy of a write pushes every older byte back by as many places as   *)
(* it adds, and its own bytes are in order.                                *)
LEMMA WindowGrows ==
  ASSUME RingOK, RingOK', CallsOK, LockOwner, WindowIntact,
         NEW t \in Threads, WriteChunk(t)
  PROVE  WindowIntact'
<1> DEFINE c == Chunk(head)
<1>1. /\ lock = t /\ Writing /\ Writing' /\ UNCHANGED <<size, lock, len, room>>
      /\ c \in 1 .. rem /\ head + c <= Size
      /\ head' = IF head + c = Size THEN 0 ELSE head + c
      /\ rem' = rem - c /\ written' = written + c
  BY WriteChunkEffect
<1>2. buf' = [i \in DOMAIN buf |->
                IF i \in head .. head + c - 1 THEN written + (i - head) ELSE buf[i]]
  BY Copies DEF CopyIn, Places
<1>3. c \in Nat /\ c > 0
  BY <1>1, Numbers
<1> HIDE DEF c
<1>4. len[t] \in Nat
  BY DEF CallsOK
<1>5. Fresh \in Int /\ Fresh' = Fresh + c
  <2>1. Fresh = (Size - 1 - room) + (len[t] - rem)
    BY <1>1, Numbers DEF Fresh, Done
  <2>2. Fresh' = (Size - 1 - room) + (len[t] - rem')
    BY <1>1, Numbers DEF Fresh, Done
  <2>3. Size \in Nat /\ room \in Nat /\ rem \in Nat /\ rem' = rem - c
    BY <1>1, Numbers
  <2> QED BY <1>3, <1>4, <2>1, <2>2, <2>3
<1> SUFFICES ASSUME NEW i \in 0 .. Size - 1, Age(i)' <= Fresh'
             PROVE  buf'[i] = written' - Age(i)'
  BY <1>2, Numbers DEF WindowIntact
<1>6. i \in Nat /\ i < Size
  BY Numbers
<1>7. CASE i \in head .. head + c - 1
  <2>1. buf'[i] = written + (i - head)
    BY <1>2, <1>7, Numbers
  <2>2. i >= head /\ i < head + c
    BY <1>3, <1>6, <1>7, Numbers
  <2>3. Age(i)' = head + c - i
    BY <1>1, <1>3, <1>6, <2>2, Numbers, SMTT(20) DEF Age
  <2> QED BY <1>1, <1>3, <1>6, <2>1, <2>3, Numbers
<1>8. CASE i \notin head .. head + c - 1
  <2>1. buf'[i] = buf[i]
    BY <1>2, <1>8, Numbers
  <2>2. i < head \/ i >= head + c
    BY <1>3, <1>6, <1>8, Numbers
  <2>3. Age(i) \in Int /\ Age(i)' = Age(i) + c
    <3>1. CASE i < head
      <4>1. Age(i) = head - i
        BY <3>1 DEF Age
      <4>2. Age(i)' = IF head + c = Size THEN 0 - i + Size ELSE head + c - i
        BY <1>1, <1>3, <1>6, <3>1, Numbers, SMTT(20) DEF Age
      <4> QED BY <1>3, <1>6, <4>1, <4>2, Numbers, SMTT(20)
    <3>2. CASE i >= head + c
      <4>1. head + c # Size /\ ~(i < head) /\ ~(i < head + c)
        BY <1>1, <1>3, <1>6, <3>2, Numbers
      <4>2. Age(i) = head - i + Size
        BY <4>1, Numbers DEF Age
      <4>3. Age(i)' = head + c - i + Size
        BY <1>1, <4>1, Numbers, SMTT(20) DEF Age
      <4> QED BY <1>3, <1>6, <4>2, <4>3, Numbers, SMTT(20)
    <3> QED BY <2>2, <3>1, <3>2
  <2>4. Age(i) <= Fresh
    BY <1>3, <1>5, <2>3
  <2>5. buf[i] = written - Age(i)
    BY <2>4, Numbers DEF WindowIntact
  <2> QED BY <1>1, <1>3, <2>1, <2>3, <2>5, Numbers
<1> QED BY <1>7, <1>8
-----------------------------------------------------------------------------
(* Steps of threads outside the mutex leave what is inside alone.          *)
LEMMA OutsideStep ==
  ASSUME IInv, TypeOK',
         \/ \E t \in Threads :
              \/ \E n \in ReadLens, b \in BOOLEAN : ReadCall(t, n, b)
              \/ Expire(t) \/ SpuriousWake(t)
         \/ Destroy \/ UNCHANGED vars
  PROVE  WriterInside' /\ ReaderInside' /\ SleepersWait' /\ WindowIntact'
<1> USE DEF IInv, TypeOK
<1>1. UNCHANGED <<head, tail, size, buf, lock, rem, room, written>>
  BY DEF ReadCall, Expire, SpuriousWake, Destroy, vars, ring
<1>2. count' = count
  BY <1>1 DEF count, remain_bytes
<1>3. \A u \in Threads :
        /\ pc[u] \in Holding => pc'[u] = pc[u] /\ len'[u] = len[u]
        /\ pc'[u] \in Holding \cup {"waiting"} => pc'[u] = pc[u] /\ len'[u] = len[u]
  BY DEF ReadCall, Expire, SpuriousWake, Destroy, Notified, vars, call, CallsOK, Holding
<1>4. lock # Free => lock \in Threads /\ pc[lock] \in Holding
  BY DEF CallsOK, LockOwner
<1>5. lock # Free => pc'[lock] = pc[lock] /\ len'[lock] = len[lock]
  BY <1>3, <1>4
<1>6. /\ Writing' = Writing /\ Reading' = Reading
      /\ lock # Free => Done' = Done
  BY <1>1, <1>5 DEF Writing, Reading, Done
<1>7. WriterInside' /\ ReaderInside'
  BY <1>1, <1>2, <1>5, <1>6 DEF WriterInside, ReaderInside, Writing
<1>8. SleepersWait'
  BY <1>2, <1>3, <1>6 DEF SleepersWait, Holding
<1>9. Fresh' = Fresh
  BY <1>1, <1>2, <1>6 DEF Fresh, Writing
<1>10. Fresh \in Int
  <2>1. CASE Writing
    <3>1. len[lock] \in Nat
      BY <1>4, <2>1 DEF CallsOK, Writing
    <3> QED BY <2>1, <3>1, Numbers DEF Fresh, Done
  <2>2. CASE ~Writing
    BY <2>2, CountIsUsed DEF Fresh
  <2> QED BY <2>1, <2>2
<1>11. WindowIntact'
  BY <1>1, <1>9, <1>10, WindowFrame
<1> QED BY <1>7, <1>8, <1>11

LEMMA WriteEnterStep ==
  ASSUME IInv, TypeOK', NEW t \in Threads, NEW n \in WriteLens, WriteEnter(t, n)
  PROVE  WriterInside' /\ ReaderInside' /\ SleepersWait' /\ WindowIntact'
<1> USE DEF IInv, TypeOK
<1>1. /\ lock = Free /\ lock' = t /\ pc'[t] = "writing" /\ len'[t] = n
      /\ rem' = n /\ room' = remain_bytes /\ pc[t] = "idle"
      /\ UNCHANGED <<head, tail, size, buf, written>>
  BY DEF WriteEnter, ring, CallsOK
<1>2. count' = count
  BY <1>1 DEF count, remain_bytes
<1>3. Writing' /\ ~Reading' /\ ~Writing
  BY <1>1, BufferAssumption DEF Writing, Reading
<1>4. n \in Nat
  BY BufferAssumption
<1>5. (Size - 1 - room') + (len'[t] - rem') = count /\ count \in Int
  BY <1>1, <1>4, CountIsUsed, Numbers
<1>6. Fresh = count /\ Fresh' = count
  BY <1>1, <1>3, <1>5, Numbers DEF Fresh, Done
<1>7. WriterInside'
  BY <1>1, <1>2, <1>4, <1>5, Numbers DEF WriterInside, Done
<1>8. SleepersWait'
  BY <1>1, <1>2, <1>3 DEF SleepersWait, WriteEnter, CallsOK
<1>9. WindowIntact'
  BY <1>1, <1>5, <1>6, WindowFrame
<1> QED BY <1>3, <1>7, <1>8, <1>9 DEF ReaderInside

LEMMA WriteChunkStep ==
  ASSUME IInv, TypeOK', NEW t \in Threads, WriteChunk(t)
  PROVE  WriterInside' /\ ReaderInside' /\ SleepersWait' /\ WindowIntact'
<1> USE DEF IInv, TypeOK
<1> DEFINE c == Chunk(head)
<1>1. /\ lock = t /\ Writing /\ Writing'
      /\ UNCHANGED <<size, lock, pc, len, room>>
      /\ c \in 1 .. rem /\ rem' = rem - c
      /\ count + c < Size => count' = count + c
  BY WriteChunkEffect
<1> HIDE DEF c
<1>2. c \in Nat /\ c > 0 /\ c <= rem /\ len[t] \in Nat /\ count \in Nat
  BY <1>1, Numbers, CountIsUsed DEF CallsOK
<1>3. rem <= len[t] /\ (len[t] <= room => count = (Size - 1 - room) + (len[t] - rem))
  BY <1>1, Numbers DEF WriterInside, Done
<1>4. rem' <= len[t]
  BY <1>1, <1>2, <1>3, Numbers
<1>5. len[t] <= room => count' = (Size - 1 - room) + (len[t] - rem')
  <2> SUFFICES ASSUME len[t] <= room
               PROVE  count' = (Size - 1 - room) + (len[t] - rem')
    OBVIOUS
  <2>0. Size \in Nat /\ room \in Nat /\ rem \in Nat /\ rem' = rem - c
    BY <1>1, Numbers
  <2>1. count + c < Size
    BY <1>2, <1>3, <2>0
  <2>2. count' = count + c
    BY <1>1, <2>1
  <2>3. count = (Size - 1 - room) + (len[t] - rem)
    BY <1>3
  <2>4. len[t] \in Nat /\ c \in Nat
    BY <1>2
  <2> QED BY <2>0, <2>2, <2>3, <2>4
<1>6. WriterInside'
  BY <1>1, <1>4, <1>5, Numbers DEF WriterInside, Done
<1>7. ReaderInside'
  BY <1>1 DEF ReaderInside, Writing, Reading
<1>8. SleepersWait'
  <2>1. \A u \in Threads : pc[u] # "blocking"
    BY <1>1 DEF LockOwner, Holding, Writing
  <2> QED BY <1>1, <2>1 DEF SleepersWait
<1> QED BY <1>6, <1>7, <1>8, WindowGrows

LEMMA WriteExitStep ==
  ASSUME IInv, TypeOK', NEW t \in Threads, WriteExit(t)
  PROVE  WriterInside' /\ ReaderInside' /\ SleepersWait' /\ WindowIntact'
<1> USE DEF IInv, TypeOK
<1>1. /\ lock = t /\ Writing /\ ~Writing' /\ ~Reading'
      /\ UNCHANGED <<head, size, buf, written>>
      /\ rem = 0 /\ lock' = Free
      /\ count' = IF len[t] > room THEN Size - 1 ELSE (Size - 1 - room) + len[t]
  BY WriteExitEffect
<1>2. len[t] \in Nat
  BY DEF CallsOK
<1>3. Fresh = (Size - 1 - room) + len[t] /\ Fresh' = count'
  BY <1>1, <1>2, Numbers DEF Fresh, Done
<1>4. Fresh' <= Fresh /\ Fresh \in Int /\ Fresh' \in Int
  <2>1. Size \in Nat /\ room \in Nat /\ room < Size
    BY Numbers
  <2>2. Fresh' = IF len[t] > room THEN Size - 1 ELSE (Size - 1 - room) + len[t]
    BY <1>1, <1>3
  <2> QED BY <1>2, <1>3, <2>1, <2>2
<1>5. WindowIntact'
  BY <1>1, <1>4, WindowFrame
<1>6. SleepersWait'
  <2>1. \A u \in Threads : pc'[u] \notin {"blocking", "waiting"}
    BY <1>1 DEF WriteExit, Notified, CallsOK, LockOwner, Holding, Writing
  <2> QED BY <2>1 DEF SleepersWait
<1> QED BY <1>1, <1>5, <1>6 DEF WriterInside, ReaderInside

(* The reader takes the mutex, finds enough bytes or not, and goes on, or  *)
(* away, or to sleep.                                                      *)
LEMMA ReadTestStep ==
  ASSUME IInv, TypeOK', NEW t \in Threads, ReadTest(t)
  PROVE  WriterInside' /\ ReaderInside' /\ SleepersWait' /\ WindowIntact'
<1> USE DEF IInv, TypeOK
<1>1. /\ lock = Free /\ ~Writing
      /\ UNCHANGED <<head, tail, size, buf, room, written>>
  BY DEF ReadTest, ring, Writing
<1>2. count' = count
  BY <1>1 DEF count, remain_bytes
<1>3. ~Writing'
  BY <1>1, BufferAssumption DEF ReadTest, Writing, CallsOK
<1>4. Reading' => rem' <= count'
  <2>1. CASE ~destroyed /\ count >= len[t] /\ rem' = len[t]
    <3>1. len[t] \in Nat /\ count \in Nat
      BY CountIsUsed DEF CallsOK
    <3> QED BY <1>2, <2>1, <3>1
  <2>2. CASE lock' = lock
    BY <1>1, <2>2 DEF Reading
  <2>3. CASE lock' = t /\ pc' = [pc EXCEPT ![t] = "blocking"]
    BY <2>3 DEF Reading, CallsOK
  <2> QED BY <2>1, <2>2, <2>3 DEF ReadTest
<1>5. SleepersWait'
  <2>1. \A u \in Threads \ {t} : pc'[u] = pc[u] /\ len'[u] = len[u]
    BY DEF ReadTest, Leave, CallsOK
  <2>2. pc'[t] # "waiting" /\ (pc'[t] = "blocking" => count < len[t] /\ len' = len)
    <3>1. len[t] \in Nat /\ count \in Nat
      BY CountIsUsed DEF CallsOK
    <3>2. ~check_free_space(t) => count < len[t]
      BY <3>1 DEF check_free_space
    <3> QED BY <3>2 DEF ReadTest, CallsOK
  <2> QED BY <1>1, <1>2, <1>3, <2>1, <2>2 DEF SleepersWait
<1>6. Fresh = count /\ Fresh' = count /\ count \in Int
  BY <1>1, <1>2, <1>3, CountIsUsed DEF Fresh
<1>7. WindowIntact'
  BY <1>1, <1>6, WindowFrame
<1> QED BY <1>3, <1>4, <1>5, <1>7 DEF WriterInside, ReaderInside

LEMMA SleepStep ==
  ASSUME IInv, TypeOK', NEW t \in Threads, Sleep(t)
  PROVE  WriterInside' /\ ReaderInside' /\ SleepersWait' /\ WindowIntact'
<1> USE DEF IInv, TypeOK
<1>1. /\ pc[t] = "blocking" /\ lock = t /\ lock' = Free
      /\ pc' = [pc EXCEPT ![t] = "waiting"]
      /\ UNCHANGED <<head, tail, size, buf, len, written>>
  BY DEF Sleep, ring, call, LockOwner, Holding
<1>2. count' = count
  BY <1>1 DEF count, remain_bytes
<1>3. ~Writing /\ ~Writing' /\ ~Reading'
  BY <1>1 DEF Writing, Reading
<1>4. SleepersWait'
  BY <1>1, <1>2, <1>3 DEF SleepersWait, CallsOK
<1>5. Fresh = count /\ Fresh' = count /\ count \in Int
  BY <1>2, <1>3, CountIsUsed DEF Fresh
<1>6. WindowIntact'
  BY <1>1, <1>5, WindowFrame
<1> QED BY <1>3, <1>4, <1>6 DEF WriterInside, ReaderInside

LEMMA ReadChunkStep ==
  ASSUME IInv, TypeOK', NEW t \in Threads, ReadChunk(t)
  PROVE  WriterInside' /\ ReaderInside' /\ SleepersWait' /\ WindowIntact'
<1> USE DEF IInv, TypeOK
<1> DEFINE c == Chunk(tail)
<1>1. /\ lock = t /\ Reading /\ Reading' /\ ~Writing /\ ~Writing'
      /\ UNCHANGED <<head, size, buf, lock, pc, len, room, written>>
      /\ c \in 1 .. rem /\ rem' = rem - c /\ count' = count - c
  BY ReadChunkEffect
<1> HIDE DEF c
<1>2. c \in Nat /\ count \in Nat /\ rem \in Nat
  BY <1>1, Numbers, CountIsUsed
<1>3. rem <= count
  BY <1>1 DEF ReaderInside
<1>4. rem' <= count'
  BY <1>1, <1>2, <1>3
<1>5. SleepersWait'
  <2> SUFFICES ASSUME NEW u \in Threads, pc[u] \in {"blocking", "waiting"}
               PROVE  count' < len[u]
    BY <1>1 DEF SleepersWait
  <2>1. count < len[u] /\ len[u] \in Nat
    BY <1>1 DEF SleepersWait, CallsOK
  <2> QED BY <1>1, <1>2, <2>1
<1>6. Fresh = count /\ Fresh' = count - c
  BY <1>1 DEF Fresh
<1>7. WindowIntact'
  <2>1. Fresh' <= Fresh /\ Fresh \in Int /\ Fresh' \in Int
    BY <1>2, <1>6
  <2> QED BY <1>1, <2>1, WindowFrame
<1> QED BY <1>1, <1>4, <1>5, <1>7 DEF WriterInside, ReaderInside

LEMMA ReadExitStep ==
  ASSUME IInv, TypeOK', NEW t \in Threads, ReadExit(t)
  PROVE  WriterInside' /\ ReaderInside' /\ SleepersWait' /\ WindowIntact'
<1> USE DEF IInv, TypeOK
<1>1. /\ pc[t] = "reading" /\ lock = t /\ lock' = Free
      /\ pc' = [pc EXCEPT ![t] = "idle"] /\ len' = [len EXCEPT ![t] = 0]
      /\ UNCHANGED <<head, tail, size, buf, written>>
  BY DEF ReadExit, Leave, ring, LockOwner, Holding
<1>2. count' = count
  BY <1>1 DEF count, remain_bytes
<1>3. ~Writing /\ ~Writing' /\ ~Reading'
  BY <1>1 DEF Writing, Reading
<1>4. SleepersWait'
  BY <1>1, <1>2, <1>3 DEF SleepersWait, CallsOK
<1>5. Fresh = count /\ Fresh' = count /\ count \in Int
  BY <1>2, <1>3, CountIsUsed DEF Fresh
<1>6. WindowIntact'
  BY <1>1, <1>5, WindowFrame
<1> QED BY <1>3, <1>4, <1>6 DEF WriterInside, ReaderInside

LEMMA ClearStep ==
  ASSUME IInv, TypeOK', clear_buffer
  PROVE  WriterInside' /\ ReaderInside' /\ SleepersWait' /\ WindowIntact'
<1> USE DEF IInv, TypeOK
<1>1. /\ lock = Free /\ lock' = Free /\ head' = 0 /\ tail' = 0
      /\ UNCHANGED <<size, buf, pc, len, written>>
  BY DEF clear_buffer, call
<1>2. count' = 0
  <2>1. Used' = 0
    BY <1>1 DEF Used
  <2> QED BY <2>1, CountIsUsedNext
<1>3. ~Writing /\ ~Writing' /\ ~Reading'
  BY <1>1 DEF Writing, Reading
<1>4. SleepersWait'
  <2> SUFFICES ASSUME NEW u \in Threads, pc[u] \in {"blocking", "waiting"}
               PROVE  0 < len[u]
    BY <1>1, <1>2 DEF SleepersWait
  <2>1. count < len[u] /\ len[u] \in Nat /\ count \in Nat
    BY <1>3, CountIsUsed DEF SleepersWait, CallsOK
  <2> QED BY <2>1
<1>5. WindowIntact'
  <2> SUFFICES ASSUME NEW i \in 0 .. Size - 1
               PROVE  ~(Age(i)' <= 0)
    BY <1>1, <1>2, <1>3, Numbers DEF WindowIntact, Fresh
  <2>1. i \in Nat /\ i < Size /\ size' = Size
    BY <1>1, Numbers
  <2>2. Age(i)' = 0 - i + Size
    BY <1>1, <2>1, Numbers DEF Age
  <2> QED BY <2>1, <2>2, Numbers
<1> QED BY <1>3, <1>4, <1>5 DEF WriterInside, ReaderInside
-----------------------------------------------------------------------------
LEMMA Inductive == IInv /\ [Next]_vars => IInv'
<1> SUFFICES ASSUME IInv, [Next]_vars
             PROVE  IInv'
  OBVIOUS
<1>1. TypeOK'
  BY RingStep, CallsStep, DataStep DEF IInv, TypeOK
<1>2. LockOwner' /\ NoFault'
  BY LockOwnerStep, NoFaultStep DEF IInv, TypeOK
<1>3. WriterInside' /\ ReaderInside' /\ SleepersWait' /\ WindowIntact'
  <2>1. CASE \E t \in Writers, n \in WriteLens : WriteEnter(t, n)
    BY <1>1, <2>1, WriteEnterStep, BufferAssumption
  <2>2. CASE \E t \in Threads : WriteChunk(t)
    BY <1>1, <2>2, WriteChunkStep
  <2>3. CASE \E t \in Threads : WriteExit(t)
    BY <1>1, <2>3, WriteExitStep
  <2>4. CASE \E t \in Threads : ReadTest(t)
    BY <1>1, <2>4, ReadTestStep
  <2>5. CASE \E t \in Threads : Sleep(t)
    BY <1>1, <2>5, SleepStep
  <2>6. CASE \E t \in Threads : ReadChunk(t)
    BY <1>1, <2>6, ReadChunkStep
  <2>7. CASE \E t \in Threads : ReadExit(t)
    BY <1>1, <2>7, ReadExitStep
  <2>8. CASE clear_buffer
    BY <1>1, <2>8, ClearStep
  <2>9. CASE \E t \in Threads :
               \/ \E n \in ReadLens, b \in BOOLEAN : ReadCall(t, n, b)
               \/ Expire(t) \/ SpuriousWake(t)
    BY <1>1, <2>9, OutsideStep
  <2>10. CASE Destroy \/ UNCHANGED vars
    BY <1>1, <2>10, OutsideStep
  <2> QED
    BY <2>1, <2>2, <2>3, <2>4, <2>5, <2>6, <2>7, <2>8, <2>9, <2>10,
       BufferAssumption DEF Next, Write, Read, HolderStep
<1> QED BY <1>1, <1>2, <1>3 DEF IInv

LEMMA InitIInv == Init => IInv
<1> SUFFICES ASSUME Init
             PROVE  IInv
  OBVIOUS
<1>1. TypeOK
  BY InitTypeOK
<1>2. /\ head = 0 /\ tail = 0 /\ size = Size /\ lock = Free
      /\ DOMAIN buf = 0 .. Size - 1
      /\ \A t \in Threads : pc[t] = "idle"
  BY DEF Init
<1>3. LockOwner /\ NoFault /\ SleepersWait /\ ~Writing /\ ~Reading
  BY <1>2, BufferAssumption DEF LockOwner, NoFault, SleepersWait, Holding, Writing, Reading
<1>4. count = 0
  <2>1. Used = 0
    BY <1>2 DEF Used
  <2> QED BY <1>1, <2>1, CountIsUsed DEF TypeOK
<1>5. WindowIntact
  <2> SUFFICES ASSUME NEW i \in 0 .. Size - 1
               PROVE  ~(Age(i) <= 0)
    BY <1>2, <1>3, <1>4 DEF WindowIntact, Fresh
  <2>1. i \in Nat /\ i < Size /\ Size \in Nat
    BY BufferAssumption
  <2>2. Age(i) = 0 - i + Size
    BY <1>2, <2>1 DEF Age
  <2> QED BY <2>1, <2>2
<1> QED BY <1>1, <1>3, <1>5 DEF IInv, WriterInside, ReaderInside

THEOREM Invariant == Spec => []IInv
BY InitIInv, Inductive, PTL DEF Spec

(* At every step of every write and read, in-place overflows included, the *)
(* bytes that readers may still be given lie where the indices say.        *)
THEOREM WindowSafe == Spec => []WindowIntact
<1>1. IInv => WindowIntact
  BY DEF IInv
<1> QED BY <1>1, Invariant, PTL

(* No reader is left asleep beside enough bytes.                           *)
THEOREM WakeupSafe == Spec => []NoLostWakeup
<1>1. IInv => NoLostWakeup
  BY DEF IInv, SleepersWait, NoLostWakeup, Writing
<1> QED BY <1>1, Invariant, PTL

(* No read or write touches memory outside the vector.                     *)
THEOREM MemorySafe == Spec => []NoFault
<1>1. IInv => NoFault
  BY DEF IInv
<1> QED BY <1>1, Invariant, PTL
-----------------------------------------------------------------------------
(* CircularBuffer implements ByteStream: each step is a step of the        *)
(* stream, seen through loBar, hiBar and gotBar, or leaves the stream as   *)
(* it is.                                                                  *)

(* The n bytes of the stream from position p on, taken in two pieces.      *)
Run(p, n) == [i \in 1 .. n |-> p + i - 1]

LEMMA RunIsSeq ==
  ASSUME NEW p \in Int, NEW n \in Nat
  PROVE  /\ Run(p, n) \in Seq(Int) /\ Len(Run(p, n)) = n
         /\ \A i \in 1 .. n : Run(p, n)[i] = p + i - 1
<1>1. Run(p, n) \in [1 .. n -> Int]
  BY DEF Run
<1>2. Run(p, n) \in Seq(Int)
  BY <1>1, FunctionIsSeq
<1>3. Len(Run(p, n)) = n
  BY <1>1, <1>2
<1> QED BY <1>2, <1>3 DEF Run

LEMMA RunGrows ==
  ASSUME NEW p \in Int, NEW a \in Nat, NEW b \in Nat
  PROVE  Run(p, a) \o Run(p + a, b) = Run(p, a + b)
<1> DEFINE s == Run(p, a)  t == Run(p + a, b)  u == Run(p, a + b)
<1>1. /\ s \in Seq(Int) /\ Len(s) = a
      /\ \A i \in 1 .. a : s[i] = p + i - 1
  BY RunIsSeq
<1>2. /\ t \in Seq(Int) /\ Len(t) = b
      /\ \A i \in 1 .. b : t[i] = p + a + i - 1
  BY RunIsSeq
<1>3. /\ u \in Seq(Int) /\ Len(u) = a + b
      /\ \A i \in 1 .. a + b : u[i] = p + i - 1
  BY RunIsSeq
<1> HIDE DEF s, t, u
<1>4. /\ s \o t \in Seq(Int) /\ Len(s \o t) = a + b
      /\ \A i \in 1 .. a + b : (s \o t)[i] = IF i <= a THEN s[i] ELSE t[i - a]
  BY <1>1, <1>2, ConcatProperties
<1>5. ASSUME NEW i \in 1 .. a + b
      PROVE  (s \o t)[i] = u[i]
  <2>1. CASE i <= a
    BY <1>1, <1>3, <1>4, <2>1
  <2>2. CASE ~(i <= a)
    <3>1. i - a \in 1 .. b
      BY <2>2
    <3>2. t[i - a] = p + a + (i - a) - 1
      BY <1>2, <3>1
    <3> QED BY <1>2, <1>3, <1>4, <2>2, <3>2, SMTT(20)
  <2> QED BY <2>1, <2>2
<1>6. s \o t = u
  BY <1>3, <1>4, <1>5, SeqEqual
<1> QED BY <1>6 DEF s, t, u
-----------------------------------------------------------------------------
(***************************************************************************)
(* What else the buffer keeps true: a call has handed out nothing before   *)
(* it copies, lengths are those that were asked for, and a reader that is  *)
(* copying has, so far, the oldest bytes on hold when it began.            *)
(***************************************************************************)
BeforeCopy == {"locking", "woken", "expired", "blocking", "waiting", "writing"}

NothingYet == \A t \in Threads : pc[t] \in BeforeCopy => data[t] = << >>

LensKept ==
  \A t \in Threads :
    /\ pc[t] = "writing" => len[t] \in WriteLens
    /\ pc[t] \in {"locking", "woken", "expired", "blocking", "waiting", "reading"} =>
         len[t] \in ReadLens

ReadSoFar == Reading => rem <= len[lock] /\ data[lock] = Run(loBar, Done)

RInv == NothingYet /\ LensKept /\ ReadSoFar

LEMMA InitRInv == Init => RInv
  BY BufferAssumption DEF Init, RInv, NothingYet, LensKept, ReadSoFar, BeforeCopy, Reading

LEMMA NothingYetStep ==
  ASSUME RingOK, CallsOK, data \in [Threads -> Seq(Int)], NothingYet, [Next]_vars
  PROVE  NothingYet'
<1> USE BufferAssumption DEF CallsOK, NothingYet, BeforeCopy
<1>1. ASSUME NEW t \in Threads, NEW n \in WriteLens, WriteEnter(t, n)
      PROVE  NothingYet'
  BY <1>1 DEF WriteEnter
<1>2. ASSUME NEW t \in Threads, WriteChunk(t)
      PROVE  NothingYet'
  BY <1>2, Copies DEF CopyIn, call
<1>3. ASSUME NEW t \in Threads, WriteExit(t)
      PROVE  NothingYet'
  BY <1>3 DEF WriteExit, Notified
<1>4. ASSUME NEW t \in Threads, NEW n \in ReadLens, NEW b \in BOOLEAN, ReadCall(t, n, b)
      PROVE  NothingYet'
  BY <1>4 DEF ReadCall
<1>5. ASSUME NEW t \in Threads, ReadTest(t)
      PROVE  NothingYet'
  BY <1>5 DEF ReadTest
<1>6. ASSUME NEW t \in Threads, Sleep(t) \/ Expire(t) \/ SpuriousWake(t)
      PROVE  NothingYet'
  BY <1>6 DEF Sleep, Expire, SpuriousWake, call
<1>7. ASSUME NEW t \in Threads, ReadChunk(t)
      PROVE  NothingYet'
  <2>1. /\ pc[t] = "reading" /\ pc' = pc
        /\ \A u \in Threads \ {t} : data'[u] = data[u]
    BY <1>7, Copies DEF CopyOut
  <2> QED BY <2>1
<1>8. ASSUME NEW t \in Threads, ReadExit(t)
      PROVE  NothingYet'
  BY <1>8 DEF ReadExit
<1>9. CASE clear_buffer
  BY <1>9 DEF clear_buffer, call
<1>10. CASE Destroy
  BY <1>10 DEF Destroy, Notified, call
<1>11. CASE UNCHANGED vars
  BY <1>11 DEF vars, call
<1> QED
  BY <1>1, <1>2, <1>3, <1>4, <1>5, <1>6, <1>7, <1>8, <1>9, <1>10, <1>11
     DEF Next, Write, Read, HolderStep

LEMMA LensKeptStep ==
  ASSUME RingOK, CallsOK, LensKept, [Next]_vars
  PROVE  LensKept'
<1> USE BufferAssumption DEF CallsOK, LensKept
<1>1. ASSUME NEW t \in Threads, NEW n \in WriteLens, WriteEnter(t, n)
      PROVE  LensKept'
  BY <1>1 DEF WriteEnter
<1>2. ASSUME NEW t \in Threads, WriteChunk(t) \/ ReadChunk(t)
      PROVE  LensKept'
  <2>1. UNCHANGED <<pc, len>>
    BY <1>2, Copies DEF CopyIn, CopyOut, call
  <2> QED BY <2>1
<1>3. ASSUME NEW t \in Threads, WriteExit(t)
      PROVE  LensKept'
  BY <1>3 DEF WriteExit, Notified, Leave
<1>4. ASSUME NEW t \in Threads, NEW n \in ReadLens, NEW b \in BOOLEAN, ReadCall(t, n, b)
      PROVE  LensKept'
  BY <1>4 DEF ReadCall
<1>5. ASSUME NEW t \in Threads, ReadTest(t)
      PROVE  LensKept'
  BY <1>5 DEF ReadTest, Leave
<1>6. ASSUME NEW t \in Threads, Sleep(t) \/ Expire(t) \/ SpuriousWake(t)
      PROVE  LensKept'
  BY <1>6 DEF Sleep, Expire, SpuriousWake, call
<1>7. ASSUME NEW t \in Threads, ReadExit(t)
      PROVE  LensKept'
  BY <1>7 DEF ReadExit, Leave
<1>8. CASE clear_buffer
  BY <1>8 DEF clear_buffer, call
<1>9. CASE Destroy
  BY <1>9 DEF Destroy, Notified, call
<1>10. CASE UNCHANGED vars
  BY <1>10 DEF vars, call
<1> HIDE DEF CallsOK, LensKept
<1> QED
  BY <1>1, <1>2, <1>3, <1>4, <1>5, <1>6, <1>7, <1>8, <1>9, <1>10
     DEF Next, Write, Read, HolderStep
-----------------------------------------------------------------------------
(* Outside the mutex the bytes on hold are the last count ones.            *)
LEMMA BarsOutside ==
  ASSUME ~Writing, ~Reading
  PROVE  hiBar = written /\ loBar = written - count
  BY DEF hiBar, loBar

LEMMA BarsOutsideNext ==
  (~Writing /\ ~Reading => hiBar = written /\ loBar = written - count)'
<1>1. ~Writing /\ ~Reading => hiBar = written /\ loBar = written - count
  BY BarsOutside
<1> QED BY <1>1, PTL

(* A step that changes nothing of these leaves the bytes on hold alone.    *)
LEMMA BarsFrame ==
  ASSUME UNCHANGED <<head, tail, size, lock, rem, room, written>>,
         Writing' = Writing, Reading' = Reading,
         lock # Free => len'[lock] = len[lock]
  PROVE  hiBar' = hiBar /\ loBar' = loBar
<1>1. count' = count
  BY DEF count, remain_bytes
<1>2. Writing \/ Reading => Done' = Done
  BY DEF Writing, Reading, Done
<1> QED BY <1>1, <1>2 DEF hiBar, loBar

(* What the stream sees of a step.                                         *)
Seen == Stream!Next \/ UNCHANGED <<loBar, hiBar, gotBar, ret>>

LEMMA SeenWriteEnter ==
  ASSUME IInv, RInv, TypeOK', NEW t \in Threads, NEW n \in WriteLens, WriteEnter(t, n)
  PROVE  Seen /\ ReadSoFar'
<1> USE DEF IInv, TypeOK
<1>1. /\ lock = Free /\ lock' = t /\ pc[t] = "idle" /\ rem' = n /\ room' = remain_bytes
      /\ pc' = [pc EXCEPT ![t] = "writing"] /\ len' = [len EXCEPT ![t] = n]
      /\ data' = [data EXCEPT ![t] = << >>] /\ ret' = [ret EXCEPT ![t] = "none"]
      /\ UNCHANGED <<head, tail, size, written>>
  BY DEF WriteEnter, ring
<1>2. Writing' /\ ~Reading' /\ ~Writing /\ ~Reading
  BY <1>1, BufferAssumption DEF Writing, Reading, CallsOK
<1>3. n \in Nat
  BY BufferAssumption
<1>4. hiBar' = hiBar /\ loBar' = loBar
  <2>1. hiBar = written /\ loBar = written - count
    BY <1>2, BarsOutside
  <2>2. len'[t] = n
    BY <1>1 DEF CallsOK
  <2>3. hiBar' = written - (n - n)
    BY <1>1, <1>2, <2>2 DEF hiBar, Done
  <2>4. hiBar' = written
    BY <1>3, <2>3, Numbers
  <2>5. loBar' = written - (Size - 1 - remain_bytes)
    BY <1>1, <1>2, <2>4, Numbers DEF loBar
  <2> QED BY <2>1, <2>4, <2>5, CountIsUsed, Numbers
<1>5. gotBar' = [gotBar EXCEPT ![t] = << >>]
  BY <1>1 DEF gotBar, CallsOK
<1>6. Stream!Call(t)
  BY <1>1, <1>4, <1>5 DEF Stream!Call
<1> QED BY <1>2, <1>6 DEF Seen, Stream!Next, ReadSoFar

LEMMA SeenWriteChunk ==
  ASSUME IInv, RInv, TypeOK', NEW t \in Threads, WriteChunk(t)
  PROVE  Seen /\ ReadSoFar'
<1> USE DEF IInv, TypeOK
<1> DEFINE c == Chunk(head)
<1>1. /\ lock = t /\ Writing /\ Writing' /\ UNCHANGED <<size, lock, pc, len, room>>
      /\ c \in 1 .. rem /\ rem' = rem - c /\ written' = written + c
  BY WriteChunkEffect
<1> HIDE DEF c
<1>2. UNCHANGED <<data, ret>>
  BY Copies DEF CopyIn, call
<1>3. c \in Nat /\ rem \in Nat /\ len[t] \in Nat /\ written \in Nat
  BY <1>1, Numbers DEF CallsOK
<1>4. hiBar' = hiBar
  <2>1. hiBar = written - (len[t] - rem)
    BY <1>1 DEF hiBar, Done
  <2>2. hiBar' = (written + c) - (len[t] - (rem - c))
    BY <1>1 DEF hiBar, Done
  <2> QED BY <1>3, <2>1, <2>2
<1>5. loBar' = loBar
  BY <1>1, <1>4 DEF loBar
<1>6. gotBar' = gotBar
  BY <1>1, <1>2 DEF gotBar
<1>7. ~Reading'
  BY <1>1 DEF Writing, Reading
<1> QED BY <1>2, <1>4, <1>5, <1>6, <1>7 DEF Seen, ReadSoFar

LEMMA SeenWriteExit ==
  ASSUME IInv, RInv, TypeOK', NEW t \in Threads, WriteExit(t)
  PROVE  Seen /\ ReadSoFar'
<1> USE DEF IInv, TypeOK
<1>1. /\ lock = t /\ Writing /\ ~Writing' /\ ~Reading'
      /\ UNCHANGED <<head, size, buf, written>> /\ rem = 0
      /\ count' = IF len[t] > room THEN Size - 1 ELSE (Size - 1 - room) + len[t]
  BY WriteExitEffect
<1>2. /\ pc[t] = "writing" /\ pc' = [Notified EXCEPT ![t] = "idle"] /\ UNCHANGED data
      /\ ret' = [ret EXCEPT ![t] = IF len[t] > room THEN "BUF_OVERFLOW" ELSE "BUF_NOERROR"]
  BY DEF WriteExit
<1>3. /\ len[t] \in Nat /\ room \in Nat /\ Size \in Nat /\ written \in Nat /\ size = Size
  BY Numbers DEF CallsOK
<1>4. hiBar = written - len[t] /\ loBar = written - len[t] - (Size - 1 - room)
  <2>1. Done = len[t]
    BY <1>1, <1>3 DEF Done
  <2> QED BY <1>1, <1>3, <2>1 DEF hiBar, loBar
<1>5. hiBar' = written /\ loBar' = written - count'
  BY <1>1, BarsOutsideNext
<1>6. hiBar + len[t] - loBar > Size - 1 <=> len[t] > room
  <2> DEFINE n == len[t]  total == hiBar + n - loBar
  <2>1. n \in Nat /\ hiBar = written - n /\ loBar = written - n - (Size - 1 - room)
    BY <1>3, <1>4
  <2> HIDE DEF n
  <2>2. total = n + (Size - 1 - room)
    BY <1>3, <2>1
  <2> HIDE DEF total
  <2>3. total > Size - 1 <=> n > room
    BY <1>3, <2>1, <2>2
  <2> QED BY <2>3 DEF n, total
<1>7. hiBar' = hiBar + len[t]
  BY <1>3, <1>4, <1>5
<1>8. loBar' = IF len[t] > room THEN hiBar + len[t] - (Size - 1) ELSE loBar
  BY <1>1, <1>3, <1>4, <1>5, SMTT(20)
<1>9. gotBar' = gotBar
  BY <1>2 DEF gotBar, Notified, CallsOK
<1>10. Stream!Put(t, len[t])
  BY <1>2, <1>6, <1>7, <1>8, <1>9 DEF Stream!Put
<1>11. len[t] \in WriteLens \cup ReadLens
  BY <1>2 DEF RInv, LensKept
<1> QED BY <1>1, <1>10, <1>11 DEF Seen, Stream!Next, ReadSoFar

LEMMA SeenReadTest ==
  ASSUME IInv, RInv, TypeOK', NEW t \in Threads, ReadTest(t)
  PROVE  Seen /\ ReadSoFar'
<1> USE DEF IInv, TypeOK
<1>1. /\ lock = Free /\ ~Writing /\ ~Reading
      /\ UNCHANGED <<head, tail, size, buf, written, data>>
  BY DEF ReadTest, ring, Writing, Reading
<1>2. pc[t] \in {"locking", "woken", "expired"} /\ data[t] = << >>
  BY DEF ReadTest, RInv, NothingYet, BeforeCopy
<1>3. hiBar = written /\ loBar = written - count /\ count' = count
  BY <1>1, BarsOutside DEF count, remain_bytes
<1>4. CASE /\ pc' = [pc EXCEPT ![t] = "reading"] /\ lock' = t /\ rem' = len[t]
           /\ UNCHANGED <<len, ret>>
  <2>1. Reading' /\ ~Writing'
    BY <1>4, BufferAssumption DEF Reading, Writing, CallsOK
  <2>2. len[t] \in Nat /\ written \in Nat /\ count \in Nat
    BY Numbers, CountIsUsed DEF CallsOK
  <2>3. Done' = 0
    BY <1>4, <2>2 DEF Done
  <2>4. hiBar' = hiBar /\ loBar' = loBar
    BY <1>1, <1>3, <2>1, <2>2, <2>3 DEF hiBar, loBar
  <2>5. gotBar' = gotBar
    BY <1>1, <1>2, <1>4 DEF gotBar, CallsOK
  <2>6. ReadSoFar'
    <3>1. Run(loBar', 0) = << >>
      BY DEF Run
    <3>2. rem' <= len'[lock']
      BY <1>4, <2>2
    <3>3. data'[lock'] = << >>
      BY <1>1, <1>2, <1>4
    <3>4. data'[lock'] = Run(loBar', Done')
      BY <2>3, <3>1, <3>3
    <3> QED BY <3>2, <3>4 DEF ReadSoFar
  <2> QED BY <1>4, <2>4, <2>5, <2>6 DEF Seen
<1>5. CASE /\ pc' = [pc EXCEPT ![t] = "idle"] /\ ret' = [ret EXCEPT ![t] = "BUF_TIMEOUT"]
           /\ UNCHANGED lock
  <2>1. ~Reading' /\ ~Writing'
    BY <1>1, <1>5 DEF Reading, Writing
  <2>2. hiBar' = hiBar /\ loBar' = loBar
    BY <1>1, <1>3, <2>1, BarsOutsideNext
  <2>3. gotBar' = gotBar
    BY <1>1, <1>2, <1>5 DEF gotBar, CallsOK
  <2>4. Stream!GiveUp(t)
    BY <1>5, <2>2, <2>3 DEF Stream!GiveUp
  <2> QED BY <2>1, <2>4 DEF Seen, Stream!Next, ReadSoFar
<1>6. CASE /\ pc' = [pc EXCEPT ![t] = "blocking"] /\ lock' = t /\ UNCHANGED ret
  <2>1. ~Reading' /\ ~Writing'
    BY <1>6, BufferAssumption DEF Reading, Writing, CallsOK
  <2>2. hiBar' = hiBar /\ loBar' = loBar
    BY <1>1, <1>3, <2>1, BarsOutsideNext
  <2>3. gotBar' = gotBar
    BY <1>1, <1>2, <1>6 DEF gotBar, CallsOK
  <2> QED BY <1>6, <2>1, <2>2, <2>3 DEF Seen, ReadSoFar
<1> QED BY <1>4, <1>5, <1>6 DEF ReadTest

(* The bytes that one memcpy takes out are the next ones of the stream.    *)
LEMMA TakenIsRun ==
  ASSUME IInv, Reading, rem > 0
  PROVE  Taken = Run(written - count, Chunk(tail))
<1> USE DEF IInv, TypeOK
<1> DEFINE c == Chunk(tail)  p == written - count
<1>1. /\ c \in 1 .. rem /\ tail + c \in 1 .. Size /\ Places(tail) \subseteq DOMAIN buf
  <2>1. tail \in 0 .. Size - 1
    BY DEF RingOK
  <2> QED BY <2>1, ChunkFits
<1>2. /\ count \in Nat /\ rem <= count /\ Fresh = count /\ ~Writing
      /\ count = IF head >= tail THEN head - tail ELSE Size - (tail - head)
  BY CountIsUsed DEF ReaderInside, Fresh, Reading, Writing, Used
<1>3. c \in Nat /\ p \in Int
  BY <1>1, <1>2, Numbers, SMTT(20)
<1> SUFFICES ASSUME NEW i \in 1 .. c
             PROVE  buf[tail + i - 1] = p + i - 1
  BY DEF Taken, Run
<1> HIDE DEF c
<1>4. i \in Nat /\ i >= 1 /\ i <= c /\ c <= rem /\ tail + c <= Size
  BY <1>1, <1>3, Numbers
<1>5. Age(tail + i - 1) = count - (i - 1)
  <2>1. CASE head >= tail
    <3>1. tail + i - 1 < head
      BY <1>2, <1>3, <1>4, <2>1, Numbers, SMTT(20)
    <3> QED BY <1>2, <1>4, <2>1, <3>1, Numbers DEF Age
  <2>2. CASE ~(head >= tail)
    <3>1. ~(tail + i - 1 < head)
      BY <1>4, <2>2, Numbers
    <3> QED BY <1>2, <1>4, <2>2, <3>1, Numbers, SMTT(20) DEF Age
  <2> QED BY <2>1, <2>2
<1>6. tail + i - 1 \in DOMAIN buf
  BY <1>3, <1>4, Numbers
<1>7. Age(tail + i - 1) <= Fresh
  BY <1>2, <1>4, <1>5
<1>8. buf[tail + i - 1] = written - (count - (i - 1))
  BY <1>5, <1>6, <1>7 DEF WindowIntact
<1> QED BY <1>2, <1>4, <1>8, Numbers

LEMMA SeenReadChunk ==
  ASSUME IInv, RInv, TypeOK', NEW t \in Threads, ReadChunk(t)
  PROVE  Seen /\ ReadSoFar'
<1> USE DEF IInv, TypeOK
<1> DEFINE c == Chunk(tail)
<1>1. /\ lock = t /\ Reading /\ Reading' /\ ~Writing /\ ~Writing'
      /\ UNCHANGED <<size, lock, pc, len, written>>
      /\ c \in 1 .. rem /\ rem' = rem - c /\ count' = count - c
  BY ReadChunkEffect
<1>2. /\ data' = [data EXCEPT ![t] = data[t] \o Taken] /\ ret' = ret /\ rem > 0
  BY Copies DEF CopyOut, Taken
<1>3. Taken = Run(written - count, c)
  BY <1>1, <1>2, TakenIsRun
<1> HIDE DEF c
<1>4. /\ c \in Nat /\ c <= rem /\ rem \in Nat /\ len[t] \in Nat /\ written \in Nat
      /\ count \in Nat
  BY <1>1, Numbers, CountIsUsed DEF CallsOK
<1>5. hiBar' = hiBar
  BY <1>1 DEF hiBar
<1>6. Done = len[t] - rem /\ Done' = len[t] - (rem - c)
  BY <1>1 DEF Done
<1>7. loBar = written - count - (len[t] - rem)
  BY <1>1, <1>6 DEF loBar
<1>8. loBar' = loBar
  <2>1. loBar' = written - (count - c) - (len[t] - (rem - c))
    BY <1>1, <1>6 DEF loBar
  <2> QED BY <1>4, <1>7, <2>1
<1>9. gotBar' = gotBar
  BY <1>1, <1>2 DEF gotBar, Reading, CallsOK
<1>10. ReadSoFar'
  <2>1. rem <= len[t] /\ data[t] = Run(loBar, Done)
    BY <1>1 DEF RInv, ReadSoFar
  <2>2. /\ loBar \in Int /\ Done \in Nat /\ Done' = Done + c
        /\ loBar + Done = written - count
    <3> DEFINE n == len[t]
    <3>1. n \in Nat /\ rem <= n
      BY <1>4, <2>1
    <3>2. Done = n - rem /\ Done' = n - (rem - c) /\ loBar = written - count - (n - rem)
      BY <1>6, <1>7
    <3> HIDE DEF n
    <3>3. Done \in Nat /\ Done' = Done + c
      BY <1>4, <3>1, <3>2
    <3>4. loBar \in Int /\ loBar + Done = written - count
      BY <1>4, <3>1, <3>2
    <3> QED BY <3>3, <3>4
  <2>3. Run(loBar, Done) \o Run(loBar + Done, c) = Run(loBar, Done + c)
    BY <1>4, <2>2, RunGrows
  <2>4. data'[t] = data[t] \o Taken
    BY <1>2
  <2>5. data'[lock'] = Run(loBar', Done')
    BY <1>1, <1>3, <1>8, <2>1, <2>2, <2>3, <2>4
  <2>6. rem' <= len'[lock']
    BY <1>1, <1>4, <2>1
  <2> QED BY <2>5, <2>6 DEF ReadSoFar
<1> QED BY <1>2, <1>5, <1>8, <1>9, <1>10 DEF Seen

LEMMA SeenReadExit ==
  ASSUME IInv, RInv, TypeOK', NEW t \in Threads, ReadExit(t)
  PROVE  Seen /\ ReadSoFar'
<1> USE DEF IInv, TypeOK
<1>1. /\ pc[t] = "reading" /\ rem = 0 /\ lock = t /\ lock' = Free
      /\ pc' = [pc EXCEPT ![t] = "idle"] /\ ret' = [ret EXCEPT ![t] = "BUF_NOERROR"]
      /\ UNCHANGED <<head, tail, size, written, data>>
  BY DEF ReadExit, ring, LockOwner, Holding
<1>2. Reading /\ ~Writing /\ ~Reading' /\ ~Writing'
  BY <1>1, BufferAssumption DEF Reading, Writing
<1>3. count' = count
  BY <1>1 DEF count, remain_bytes
<1>4. len[t] \in Nat /\ written \in Nat /\ count \in Nat
  BY Numbers, CountIsUsed DEF CallsOK
<1>5. Done = len[t]
  BY <1>1, <1>4 DEF Done
<1>6. hiBar = written /\ loBar = written - count - len[t] /\ data[t] = Run(loBar, len[t])
  BY <1>1, <1>2, <1>5 DEF hiBar, loBar, RInv, ReadSoFar
<1>7. hiBar' = hiBar /\ loBar' = written - count
  BY <1>1, <1>2, <1>3, <1>6, BarsOutsideNext
<1>8. loBar' = loBar + len[t] /\ len[t] <= hiBar - loBar
  BY <1>4, <1>6, <1>7
<1>9. gotBar' = [gotBar EXCEPT ![t] = Run(loBar, len[t])]
  BY <1>1, <1>6 DEF gotBar, CallsOK
<1>10. Stream!Run(loBar, len[t]) = Run(loBar, len[t])
  BY DEF Stream!Run, Run
<1>11. Stream!Get(t, len[t])
  BY <1>1, <1>7, <1>8, <1>9, <1>10 DEF Stream!Get
<1>12. len[t] \in WriteLens \cup ReadLens
  BY <1>1 DEF RInv, LensKept
<1> QED BY <1>2, <1>11, <1>12 DEF Seen, Stream!Next, ReadSoFar

LEMMA SeenClear ==
  ASSUME IInv, RInv, TypeOK', clear_buffer
  PROVE  Seen /\ ReadSoFar'
<1> USE DEF IInv, TypeOK
<1>1. /\ lock = Free /\ lock' = Free /\ head' = 0 /\ tail' = 0
      /\ UNCHANGED <<pc, data, ret, written>>
  BY DEF clear_buffer, call
<1>2. ~Writing /\ ~Reading /\ ~Writing' /\ ~Reading'
  BY <1>1 DEF Writing, Reading
<1>3. count' = 0
  <2>1. Used' = 0
    BY <1>1 DEF Used
  <2> QED BY <2>1, CountIsUsedNext
<1>4. hiBar' = hiBar /\ loBar' = hiBar
  BY <1>1, <1>2, <1>3, BarsOutside, BarsOutsideNext, Numbers
<1>5. gotBar' = gotBar
  BY <1>1 DEF gotBar
<1>6. Stream!Discard
  BY <1>1, <1>4, <1>5 DEF Stream!Discard
<1> QED BY <1>2, <1>6 DEF Seen, Stream!Next, ReadSoFar

LEMMA SeenSleep ==
  ASSUME IInv, RInv, TypeOK', NEW t \in Threads, Sleep(t)
  PROVE  Seen /\ ReadSoFar'
<1> USE DEF IInv, TypeOK
<1>1. /\ pc[t] = "blocking" /\ lock = t /\ lock' = Free /\ pc' = [pc EXCEPT ![t] = "waiting"]
      /\ UNCHANGED <<head, tail, size, written, data, ret>>
  BY DEF Sleep, ring, call, LockOwner, Holding
<1>2. ~Writing /\ ~Reading /\ ~Writing' /\ ~Reading'
  BY <1>1 DEF Writing, Reading
<1>3. count' = count
  BY <1>1 DEF count, remain_bytes
<1>4. hiBar' = hiBar /\ loBar' = loBar
  BY <1>1, <1>2, <1>3, BarsOutside, BarsOutsideNext
<1>5. gotBar' = gotBar
  BY <1>1 DEF gotBar, CallsOK
<1> QED BY <1>1, <1>2, <1>4, <1>5 DEF Seen, ReadSoFar

(* Steps of threads outside the mutex: a read begins, or nothing is seen.  *)
LEMMA SeenOutside ==
  ASSUME IInv, RInv, TypeOK',
         \/ \E t \in Threads :
              \/ \E n \in ReadLens, b \in BOOLEAN : ReadCall(t, n, b)
              \/ Expire(t) \/ SpuriousWake(t)
         \/ Destroy \/ UNCHANGED vars
  PROVE  Seen /\ ReadSoFar'
<1> USE DEF IInv, TypeOK
<1>1. UNCHANGED <<head, tail, size, lock, rem, room, written>>
  BY DEF ReadCall, Expire, SpuriousWake, Destroy, vars, ring
<1>2. \A u \in Threads :
        pc[u] \in Holding => pc'[u] = pc[u] /\ len'[u] = len[u] /\ data'[u] = data[u]
  BY SMTT(20) DEF ReadCall, Expire, SpuriousWake, Destroy, Notified, vars, call, CallsOK, Holding
<1>3. lock # Free => lock \in Threads /\ pc[lock] \in Holding
  BY DEF CallsOK, LockOwner
<1>4. lock # Free =>
        pc'[lock] = pc[lock] /\ len'[lock] = len[lock] /\ data'[lock] = data[lock]
  BY <1>2, <1>3
<1>5. Writing' = Writing /\ Reading' = Reading
  BY <1>1, <1>4 DEF Writing, Reading
<1>6. hiBar' = hiBar /\ loBar' = loBar
  BY <1>1, <1>4, <1>5, BarsFrame
<1>7. ReadSoFar'
  <2>1. Reading => Done' = Done
    BY <1>1, <1>4 DEF Reading, Done
  <2> QED BY <1>1, <1>4, <1>5, <1>6, <2>1 DEF RInv, ReadSoFar, Reading
<1>8. ASSUME NEW t \in Threads, NEW n \in ReadLens, NEW b \in BOOLEAN, ReadCall(t, n, b)
      PROVE  Stream!Call(t)
  <2>1. /\ pc[t] = "idle" /\ pc' = [pc EXCEPT ![t] = "locking"]
        /\ data' = [data EXCEPT ![t] = << >>] /\ ret' = [ret EXCEPT ![t] = "none"]
    BY <1>8 DEF ReadCall
  <2>2. gotBar' = [gotBar EXCEPT ![t] = << >>]
    BY <2>1 DEF gotBar, CallsOK
  <2> QED BY <1>6, <2>1, <2>2 DEF Stream!Call
<1>9. ASSUME NEW t \in Threads, Expire(t) \/ SpuriousWake(t)
      PROVE  gotBar' = gotBar /\ ret' = ret
  BY <1>9 DEF Expire, SpuriousWake, call, gotBar, CallsOK
<1>10. ASSUME Destroy
       PROVE  gotBar' = gotBar /\ ret' = ret
  BY <1>10 DEF Destroy, Notified, call, gotBar, CallsOK
<1>11. ASSUME UNCHANGED vars
       PROVE  gotBar' = gotBar /\ ret' = ret
  BY <1>11 DEF vars, call, gotBar
<1>12. Seen
  BY <1>6, <1>8, <1>9, <1>10, <1>11 DEF Seen, Stream!Next
<1> QED BY <1>7, <1>12
-----------------------------------------------------------------------------
LEMMA StreamStep ==
  ASSUME IInv, RInv, TypeOK', [Next]_vars
  PROVE  Seen /\ ReadSoFar'
<1>1. CASE \E t \in Writers, n \in WriteLens : WriteEnter(t, n)
  BY <1>1, SeenWriteEnter, BufferAssumption
<1>2. CASE \E t \in Threads : WriteChunk(t)
  BY <1>2, SeenWriteChunk
<1>3. CASE \E t \in Threads : WriteExit(t)
  BY <1>3, SeenWriteExit
<1>4. CASE \E t \in Threads : ReadTest(t)
  BY <1>4, SeenReadTest
<1>5. CASE \E t \in Threads : Sleep(t)
  BY <1>5, SeenSleep
<1>6. CASE \E t \in Threads : ReadChunk(t)
  BY <1>6, SeenReadChunk
<1>7. CASE \E t \in Threads : ReadExit(t)
  BY <1>7, SeenReadExit
<1>8. CASE clear_buffer
  BY <1>8, SeenClear
<1>9. CASE \E t \in Threads :
             \/ \E n \in ReadLens, b \in BOOLEAN : ReadCall(t, n, b)
             \/ Expire(t) \/ SpuriousWake(t)
  BY <1>9, SeenOutside
<1>10. CASE Destroy \/ UNCHANGED vars
  BY <1>10, SeenOutside
<1> QED
  BY <1>1, <1>2, <1>3, <1>4, <1>5, <1>6, <1>7, <1>8, <1>9, <1>10, BufferAssumption
     DEF Next, Write, Read, HolderStep

LEMMA InitStream == Init => Stream!Init
<1> SUFFICES ASSUME Init
             PROVE  Stream!Init
  OBVIOUS
<1>1. ~Writing /\ ~Reading /\ written = 0 /\ RingOK
  BY InitTypeOK DEF Init, Writing, Reading, TypeOK
<1>2. count = 0
  <2>1. Used = 0
    BY <1>1, Numbers DEF Init, Used
  <2> QED BY <1>1, <2>1, CountIsUsed
<1>3. hiBar = 0 /\ loBar = 0
  BY <1>1, <1>2, BarsOutside
<1>4. gotBar = [t \in Threads |-> << >>] /\ ret = [t \in Threads |-> "none"]
  BY DEF Init, gotBar
<1> QED BY <1>3, <1>4 DEF Stream!Init

(* Every read and write of the buffer takes effect on the abstract stream  *)
(* at one moment: readers get the oldest bytes, in order and each byte     *)
(* once, and an overflow drops the oldest bytes only and is reported.      *)
THEOREM Implements == Spec => ImplementsStream
<1>1. Init => IInv /\ RInv /\ Stream!Init
  BY InitIInv, InitRInv, InitStream
<1>2. IInv /\ RInv /\ [Next]_vars => IInv' /\ RInv' /\ [Stream!Next]_(Stream!streamVars)
  <2> SUFFICES ASSUME IInv, RInv, [Next]_vars
               PROVE  IInv' /\ RInv' /\ [Stream!Next]_(Stream!streamVars)
    OBVIOUS
  <2>1. IInv'
    BY Inductive
  <2>2. TypeOK'
    BY <2>1 DEF IInv
  <2>3. Seen /\ ReadSoFar'
    BY <2>2, StreamStep
  <2>4. NothingYet' /\ LensKept'
    BY NothingYetStep, LensKeptStep DEF IInv, TypeOK, RInv
  <2>5. [Stream!Next]_(Stream!streamVars)
    BY <2>3 DEF Seen, Stream!streamVars
  <2> QED BY <2>1, <2>3, <2>4, <2>5 DEF RInv
<1> QED BY <1>1, <1>2, PTL DEF Spec, ImplementsStream, Stream!Spec
=============================================================================
