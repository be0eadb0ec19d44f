---------------------- MODULE CircularBufferFullProofs ----------------------
(* What the calls outside the monitor of CircularBuffer can and cannot do, *)
(* for every size, word, set of threads and set of lengths.                *)
EXTENDS CircularBufferFull, TLAPS

(* What of the types the bounds of a memcpy rest on: the indices and the   *)
(* vector may be at odds, but no number is negative and size_ is not zero. *)
Typed ==
  /\ head \in Nat /\ tail \in Nat /\ size \in 1 .. Word - 1 /\ rem \in Nat
  /\ pc \in [Threads -> PCs \cup {"counting"}]
  /\ len \in [Threads -> Nat]

(* While nothing moves the indices a get_all_bytes has loaded what they    *)
(* are, and asks for as many bytes as there are.                           *)
Undisturbed(t) ==
  /\ pc[t] \in {"counting", "locking", "reading", "fault", "idle"}
  /\ ret[t] # "length_error"
  /\ pc[t] = "counting" => \A k \in DOMAIN seen[t] : seen[t][k] = Index(k)
  /\ pc[t] = "locking" => len[t] = count

(* What a get_all_bytes has loaded are numbers, and no one else has loaded *)
(* any.                                                                    *)
Loaded ==
  /\ seen = [t \in Threads |-> seen[t]] /\ ret = [t \in Threads |-> ret[t]]
  /\ \A t \in Threads :
       /\ pc[t] # "counting" => DOMAIN seen[t] = {}
       /\ \A k \in DOMAIN seen[t] : seen[t][k] \in Nat

Unraced == \A t \in Threads : bulk[t] /\ ~raced[t] => Undisturbed(t)
-----------------------------------------------------------------------------
(* Modular reduction, in the range and one step past it                    *)
LEMMA ModFits ==
  ASSUME NEW N \in Nat, N > 0, NEW x \in 0 .. N
  PROVE  x % N = IF x = N THEN 0 ELSE x
  OBVIOUS

LEMMA ModTyped ==
  ASSUME NEW N \in Nat, N > 0, NEW x \in Int
  PROVE  x % N \in Nat /\ x % N < N
<1>1. x % N \in 0 .. N - 1
  OBVIOUS
<1> QED BY <1>1

LEMMA WordIs == Word \in Nat /\ Word > 0
BY BufferAssumption

LEMMA UTyped ==
  ASSUME NEW x \in Int
  PROVE  U(x) \in Nat /\ U(x) < Word
BY ModTyped, WordIs DEF U

LEMMA UFits ==
  ASSUME NEW x \in Nat, x < Word
  PROVE  U(x) = x
<1>1. x \in 0 .. Word
  BY WordIs
<1> QED BY <1>1, ModFits, WordIs DEF U

(* One memcpy moves no more than is left to move; the index that follows   *)
(* it is a number.                                                         *)
LEMMA ChunkTyped ==
  ASSUME Typed, NEW x \in Nat
  PROVE  /\ Chunk(x) \in Nat /\ Chunk(x) <= rem
         /\ Following(x) \in Nat
<1>1. U(size - x) \in Nat
  BY UTyped DEF Typed
<1>2. Chunk(x) \in Nat /\ Chunk(x) <= rem
  BY <1>1 DEF Chunk, Smaller, Typed
<1>3. U(x + Chunk(x)) \in Nat
  BY <1>2, UTyped
<1>4. Following(x) \in Nat
  <2>1. size \in Nat /\ size > 0
    BY WordIs DEF Typed
  <2> QED BY <1>3, <2>1, ModTyped DEF Following
<1> QED BY <1>2, <1>4

(* While size_ and the vector agree and the index is inside, so is every   *)
(* place a memcpy touches.                                                 *)
LEMMA PlacesInside ==
  ASSUME Typed, GeometrySound, NEW x \in Nat, x < size
  PROVE  Places(x) \subseteq DOMAIN buf
<1>1. size \in Nat /\ size < Word
  BY WordIs DEF Typed
<1>2. U(size - x) = size - x
  <2>1. size - x \in Nat /\ size - x < Word
    BY <1>1, WordIs
  <2> QED BY <2>1, UFits
<1>3. Chunk(x) <= size - x /\ Chunk(x) \in Nat
  BY <1>1, <1>2 DEF Chunk, Smaller, Typed
<1>4. \A y \in x .. x + Chunk(x) - 1 : y \in 0 .. size - 1
  BY <1>1, <1>3
<1> QED BY <1>4 DEF Places, GeometrySound

LEMMA NoFaultWhileSound ==
  ASSUME Typed, GeometrySound, [FullNext]_fullVars, NEW t \in Threads, pc'[t] = "fault"
  PROVE  pc[t] = "fault"
<1>0. pc \in [Threads -> PCs \cup {"counting"}]
  BY DEF Typed
<1>1. Places(head) \subseteq DOMAIN buf /\ Places(tail) \subseteq DOMAIN buf
  BY PlacesInside DEF Typed, GeometrySound, IndicesInRing
<1>2. ASSUME Next PROVE pc[t] = "fault"
  BY <1>0, <1>1, <1>2 DEF Next, Write, Read, HolderStep, WriteEnter, ReadCall, WriteChunk, CopyIn,
     WriteExit, ReadChunk, CopyOut, ReadExit, Sleep, ReadTest, Expire, SpuriousWake, clear_buffer,
     Destroy, Notified
<1>3. ASSUME NEW u \in BulkReaders, BulkCall(u) \/ (\E k \in Loads : BulkLoad(u, k)) \/ BulkRead(u)
      PROVE  pc[t] = "fault"
  BY <1>0, <1>3 DEF BulkCall, BulkLoad, BulkRead, vars
<1>4. ASSUME (\E n \in VectorSizes : set_new_buffer_size(n)) \/ (\E n \in RingSizes : set_size(n))
      PROVE  pc[t] = "fault"
  BY <1>4 DEF set_new_buffer_size, set_size
<1>5. CASE UNCHANGED fullVars
  BY <1>5 DEF fullVars, vars
<1> QED BY <1>2, <1>3, <1>4, <1>5 DEF FullNext
-----------------------------------------------------------------------------
LEMMA SeenCountTyped ==
  ASSUME Typed, NEW s, \A k \in Loads : s[k] \in Nat
  PROVE  SeenCount(s) \in Int
<1>0. "head -" \in Loads /\ "tail -" \in Loads
  BY DEF Loads, Subtracted
<1>1. s["head -"] \in Nat /\ s["tail -"] \in Nat
  BY <1>0
<1>2. size \in Nat
  BY WordIs DEF Typed
<1> DEFINE x == s["head -"]
           y == s["tail -"]
           remain == IF InOneRun(s) THEN U((size - 1) - (x - y)) ELSE U(y - x - 1)
           n == U((size - 1) - remain)
<1>3. SeenCount(s) = IF n < Word \div 2 THEN n ELSE n - Word
  BY DEF SeenCount
<1>4. x \in Nat /\ y \in Nat
  BY <1>1
<1> HIDE DEF x, y
<1>5. (size - 1) - (x - y) \in Int /\ y - x - 1 \in Int
  BY <1>2, <1>4
<1>6. U((size - 1) - (x - y)) \in Nat /\ U(y - x - 1) \in Nat
  BY <1>5, UTyped
<1>7. remain \in Nat
  BY <1>6
<1> HIDE DEF remain
<1>8. (size - 1) - remain \in Int
  BY <1>2, <1>7
<1>9. n \in Nat
  BY <1>8, UTyped
<1> HIDE DEF n
<1> QED BY <1>3, <1>9, WordIs

LEMMA TypedInductive ==
  ASSUME Typed, Loaded, [FullNext]_fullVars
  PROVE  Typed'
<1>0. /\ head \in Nat /\ tail \in Nat /\ size \in 1 .. Word - 1 /\ rem \in Nat
      /\ pc \in [Threads -> PCs \cup {"counting"}] /\ len \in [Threads -> Nat]
  BY DEF Typed
<1>c. /\ Chunk(head) \in Nat /\ Chunk(head) <= rem /\ Following(head) \in Nat
      /\ Chunk(tail) \in Nat /\ Chunk(tail) <= rem /\ Following(tail) \in Nat
  BY <1>0, ChunkTyped
<1>l. WriteLens \subseteq Nat /\ ReadLens \subseteq Nat /\ Writers \subseteq Threads
      /\ Readers \subseteq Threads /\ BulkReaders \subseteq Threads
      /\ RingSizes \subseteq 1 .. Word - 1
  BY BufferAssumption, FullAssumption
<1>p. ASSUME NEW f \in [Threads -> PCs \cup {"counting"}], NEW u \in Threads,
             NEW v \in PCs \cup {"counting"}
      PROVE  [f EXCEPT ![u] = v] \in [Threads -> PCs \cup {"counting"}]
  OBVIOUS
<1>n. Notified \in [Threads -> PCs \cup {"counting"}]
  BY <1>0 DEF Notified, PCs
<1>s. {"idle", "locking", "waiting", "woken", "expired", "blocking", "reading", "writing",
       "fault", "counting"} = PCs \cup {"counting"}
  BY DEF PCs, Holding
<1>1. ASSUME NEW u \in Writers, NEW n \in WriteLens, WriteEnter(u, n) PROVE Typed'
  <2>1. u \in Threads /\ n \in Nat /\ len' \in [Threads -> Nat]
    BY <1>0, <1>1, <1>l DEF WriteEnter
  <2> QED BY <2>1, <1>0, <1>1, <1>p, <1>s DEF WriteEnter, Typed, ring
<1>2. ASSUME NEW u \in Readers, NEW n \in ReadLens, NEW timeout \in BOOLEAN, ReadCall(u, n, timeout)
      PROVE  Typed'
  <2>1. u \in Threads /\ n \in Nat /\ len' \in [Threads -> Nat]
    BY <1>0, <1>2, <1>l DEF ReadCall
  <2> QED BY <2>1, <1>0, <1>2, <1>p, <1>s DEF ReadCall, Typed, ring
<1>3. ASSUME NEW u \in Threads, WriteChunk(u) PROVE Typed'
  <2>1. CASE CopyIn
    BY <2>1, <1>0, <1>c DEF CopyIn, Typed, call
  <2>2. CASE Fault(u)
    BY <2>2, <1>0, <1>p, <1>s DEF Fault, Typed, ring, call
  <2> QED BY <1>3, <2>1, <2>2 DEF WriteChunk
<1>4. ASSUME NEW u \in Threads, WriteExit(u) PROVE Typed'
  <2>1. AfterOverflow \in Nat
    <3>1. U(head + 1) \in Nat /\ size \in Nat /\ size > 0
      BY <1>0, UTyped, WordIs
    <3> QED BY <3>1, ModTyped DEF AfterOverflow
  <2>2. tail' \in Nat /\ len' \in [Threads -> Nat]
    BY <2>1, <1>0, <1>4 DEF WriteExit, Leave
  <2>3. pc' \in [Threads -> PCs \cup {"counting"}]
    BY <1>4, <1>n, <1>p, <1>s DEF WriteExit
  <2> QED BY <2>2, <2>3, <1>0, <1>4 DEF WriteExit, Typed
<1>5. ASSUME NEW u \in Threads, ReadChunk(u) PROVE Typed'
  <2>1. CASE CopyOut(u)
    BY <2>1, <1>0, <1>c DEF CopyOut, Typed
  <2>2. CASE Fault(u)
    BY <2>2, <1>0, <1>p, <1>s DEF Fault, Typed, ring, call
  <2> QED BY <1>5, <2>1, <2>2 DEF ReadChunk
<1>6. ASSUME NEW u \in Threads, ReadExit(u) PROVE Typed'
  BY <1>0, <1>6, <1>p, <1>s DEF ReadExit, Leave, Typed, ring
<1>7. ASSUME NEW u \in Threads, ReadTest(u) PROVE Typed'
  <2>1. len' \in [Threads -> Nat] /\ rem' \in Nat
    BY <1>0, <1>7 DEF ReadTest, Leave
  <2>2. pc' \in [Threads -> PCs \cup {"counting"}]
    BY <1>0, <1>7, <1>p, <1>s DEF ReadTest
  <2> QED BY <2>1, <2>2, <1>0, <1>7 DEF ReadTest, Typed, ring
<1>8. ASSUME NEW u \in Threads, Sleep(u) \/ Expire(u) \/ SpuriousWake(u) PROVE Typed'
  BY <1>0, <1>8, <1>p, <1>s DEF Sleep, Expire, SpuriousWake, Typed, ring, call
<1>9. ASSUME clear_buffer \/ Destroy PROVE Typed'
  BY <1>0, <1>9, <1>n DEF clear_buffer, Destroy, Typed, ring, call
<1>10. ASSUME NEW u \in BulkReaders, BulkCall(u) PROVE Typed'
  BY <1>0, <1>10, <1>l, <1>p, <1>s DEF BulkCall, Typed, ring
<1>11. ASSUME NEW u \in BulkReaders, NEW k \in Loads, BulkLoad(u, k) PROVE Typed'
  BY <1>0, <1>11 DEF BulkLoad, Typed, vars, ring, call
<1>12. ASSUME NEW u \in BulkReaders, BulkRead(u) PROVE Typed'
  <2>1. SeenCount(seen[u]) \in Int
    <3>1. u \in Threads /\ DOMAIN seen[u] = Loads
      BY <1>12, <1>l DEF BulkRead
    <3>2. \A k \in Loads : seen[u][k] \in Nat
      BY <3>1 DEF Loaded
    <3> QED BY <3>2, SeenCountTyped
  <2>2. len' \in [Threads -> Nat]
    BY <2>1, <1>0, <1>12 DEF BulkRead
  <2>3. pc' \in [Threads -> PCs \cup {"counting"}]
    BY <1>0, <1>12, <1>l, <1>p, <1>s DEF BulkRead
  <2> QED BY <2>2, <2>3, <1>0, <1>12 DEF BulkRead, Typed, ring
<1>13. ASSUME NEW n, set_new_buffer_size(n) PROVE Typed'
  BY <1>0, <1>13 DEF set_new_buffer_size, Typed, call
<1>14. ASSUME NEW n \in RingSizes, set_size(n) PROVE Typed'
  BY <1>0, <1>14, <1>l DEF set_size, Typed, call
<1>15. CASE UNCHANGED fullVars
  BY <1>0, <1>15 DEF fullVars, vars, ring, call, Typed
<1> QED
  BY <1>1, <1>2, <1>3, <1>4, <1>5, <1>6, <1>7, <1>8, <1>9, <1>10, <1>11, <1>12, <1>13, <1>14, <1>15
     DEF FullNext, Next, Write, Read, HolderStep

-----------------------------------------------------------------------------
(* A step of the monitor is the thread's own, or leaves where it is and    *)
(* what its call returned and asks for as they are, unless it wakes it.    *)
Own(t) ==
  Write(t) \/ Read(t) \/ HolderStep(t) \/ ReadTest(t) \/ Expire(t) \/ SpuriousWake(t)

Apart(t) ==
  /\ pc[t] # "waiting" => pc'[t] = pc[t]
  /\ pc[t] = "waiting" => pc'[t] \in {"waiting", "woken"}
  /\ ret'[t] = ret[t] /\ len'[t] = len[t]

LEMMA NotifiedIs ==
  ASSUME NEW t \in Threads
  PROVE  Notified[t] = IF pc[t] = "waiting" THEN "woken" ELSE pc[t]
  BY DEF Notified

LEMMA OthersApart ==
  ASSUME Typed, Loaded, NEW t \in Threads, NEW u \in Threads, u # t, Own(u)
  PROVE  Apart(t)
<1>0. /\ pc \in [Threads -> PCs \cup {"counting"}] /\ len \in [Threads -> Nat]
      /\ ret = [v \in Threads |-> ret[v]]
  BY DEF Typed, Loaded
<1>1. ASSUME NEW n, WriteEnter(u, n) PROVE Apart(t)
  BY <1>0, <1>1 DEF WriteEnter, Apart
<1>2. ASSUME NEW n, NEW timeout, ReadCall(u, n, timeout) PROVE Apart(t)
  BY <1>0, <1>2 DEF ReadCall, Apart
<1>3. CASE WriteChunk(u)
  BY <1>0, <1>3 DEF WriteChunk, CopyIn, Fault, Apart, call
<1>4. CASE WriteExit(u)
  <2>1. pc'[t] = Notified[t]
    <3>1. Notified = [v \in Threads |-> Notified[v]]
      BY DEF Notified
    <3> QED BY <3>1, <1>4 DEF WriteExit
  <2> QED BY <2>1, <1>0, <1>4, NotifiedIs DEF WriteExit, Leave, Apart
<1>5. CASE ReadChunk(u)
  BY <1>0, <1>5 DEF ReadChunk, CopyOut, Fault, Apart, call
<1>6. CASE ReadExit(u)
  BY <1>0, <1>6 DEF ReadExit, Leave, Apart
<1>7. CASE ReadTest(u)
  BY <1>0, <1>7 DEF ReadTest, Leave, Apart
<1>8. CASE Sleep(u) \/ Expire(u) \/ SpuriousWake(u)
  BY <1>0, <1>8 DEF Sleep, Expire, SpuriousWake, Apart, call
<1> QED BY <1>1, <1>2, <1>3, <1>4, <1>5, <1>6, <1>7, <1>8 DEF Own, Write, Read, HolderStep

LEMMA OwnOrApart ==
  ASSUME Typed, Loaded, Next, NEW t \in Threads
  PROVE  Own(t) \/ Apart(t)
<1>1. ASSUME NEW u \in Threads, Own(u) PROVE Own(t) \/ Apart(t)
  BY <1>1, OthersApart
<1>2. CASE clear_buffer
  BY <1>2 DEF clear_buffer, Apart, call
<1>3. CASE Destroy
  <2>1. pc'[t] = Notified[t]
    BY <1>3 DEF Destroy
  <2> QED BY <2>1, <1>3, NotifiedIs DEF Destroy, Apart, call
<1>4. Writers \subseteq Threads /\ Readers \subseteq Threads
  BY BufferAssumption
<1> QED BY <1>1, <1>2, <1>3, <1>4 DEF Next, Own

(* What a thread's own step needs, and where it brings it                  *)
LEMMA OwnMoves ==
  ASSUME Typed, NEW t \in Threads, Own(t)
  PROVE  \/ pc[t] = "idle" /\ pc'[t] \in {"writing", "locking"}
         \/ pc[t] = "reading" /\ (ReadChunk(t) \/ ReadExit(t))
         \/ pc[t] = "locking" /\ ReadTest(t)
         \/ pc[t] \in {"writing", "blocking", "waiting", "woken", "expired"}
<1>0. pc \in [Threads -> PCs \cup {"counting"}]
  BY DEF Typed
<1>1. CASE Write(t) \/ Read(t)
  BY <1>0, <1>1 DEF Write, Read, WriteEnter, ReadCall
<1>2. CASE HolderStep(t)
  BY <1>2 DEF HolderStep, WriteChunk, WriteExit, ReadChunk, ReadExit, Sleep
<1>3. CASE ReadTest(t)
  BY <1>3 DEF ReadTest
<1>4. CASE Expire(t) \/ SpuriousWake(t)
  BY <1>4 DEF Expire, SpuriousWake
<1> QED BY <1>1, <1>2, <1>3, <1>4 DEF Own

-----------------------------------------------------------------------------
LEMMA NextLeavesCounting ==
  ASSUME Typed, Loaded, Next, NEW t \in Threads
  PROVE  pc'[t] = "counting" <=> pc[t] = "counting"
<1>1. CASE Apart(t)
  BY <1>1 DEF Apart
<1>2. CASE Own(t)
  <2>1. pc[t] # "counting"
    BY <1>2, OwnMoves
  <2>2. pc'[t] # "counting"
    <3>0. pc \in [Threads -> PCs \cup {"counting"}]
      BY DEF Typed
    <3>1. CASE Write(t) \/ Read(t) \/ ReadTest(t) \/ Expire(t) \/ SpuriousWake(t)
      BY <3>0, <3>1 DEF Write, Read, WriteEnter, ReadCall, ReadTest, Expire, SpuriousWake
    <3>2. CASE HolderStep(t)
      <4>1. CASE WriteExit(t)
        BY <3>0, <4>1 DEF WriteExit, Notified
      <4>2. CASE ~WriteExit(t)
        BY <3>0, <3>2, <4>2 DEF HolderStep, WriteChunk, CopyIn, ReadChunk, CopyOut, Fault, ReadExit,
           Sleep
      <4> QED BY <4>1, <4>2
    <3> QED BY <1>2, <3>1, <3>2 DEF Own
  <2> QED BY <2>1, <2>2
<1> QED BY <1>1, <1>2, OwnOrApart

LEMMA NextReturns ==
  ASSUME Loaded, Next
  PROVE  ret' = [t \in Threads |-> ret'[t]]
<1>0. ret = [t \in Threads |-> ret[t]]
  BY DEF Loaded
<1>1. ASSUME NEW u, Write(u) \/ Read(u) PROVE ret' = [t \in Threads |-> ret'[t]]
  BY <1>0, <1>1 DEF Write, Read, WriteEnter, ReadCall
<1>2. ASSUME NEW u, WriteChunk(u) \/ ReadChunk(u) PROVE ret' = ret
  BY <1>2 DEF WriteChunk, ReadChunk, CopyIn, CopyOut, Fault, call
<1>3. ASSUME NEW u, WriteExit(u) \/ ReadExit(u) PROVE ret' = [t \in Threads |-> ret'[t]]
  BY <1>0, <1>3 DEF WriteExit, ReadExit
<1>4. ASSUME NEW u, ReadTest(u) PROVE ret' = [t \in Threads |-> ret'[t]]
  BY <1>0, <1>4 DEF ReadTest
<1>5. ASSUME NEW u, Sleep(u) \/ Expire(u) \/ SpuriousWake(u) PROVE ret' = ret
  BY <1>5 DEF Sleep, Expire, SpuriousWake, call
<1>6. CASE clear_buffer \/ Destroy
  BY <1>0, <1>6 DEF clear_buffer, Destroy, call
<1> QED BY <1>0, <1>1, <1>2, <1>3, <1>4, <1>5, <1>6 DEF Next, HolderStep

LEMMA LoadedInductive ==
  ASSUME Typed, Loaded, [FullNext]_fullVars
  PROVE  Loaded'
<1>0. /\ seen = [t \in Threads |-> seen[t]] /\ ret = [t \in Threads |-> ret[t]]
      /\ pc \in [Threads -> PCs \cup {"counting"}] /\ head \in Nat /\ tail \in Nat
      /\ BulkReaders \subseteq Threads
  BY BufferAssumption, FullAssumption DEF Loaded, Typed
<1>1. ASSUME Next, UNCHANGED seen PROVE Loaded'
  <2>1. ret' = [t \in Threads |-> ret'[t]]
    BY <1>1, NextReturns
  <2>2. \A t \in Threads : pc'[t] # "counting" => pc[t] # "counting"
    BY <1>1, NextLeavesCounting
  <2> QED BY <2>1, <2>2, <1>1 DEF Loaded
<1>2. ASSUME NEW u \in BulkReaders, BulkCall(u) PROVE Loaded'
  BY <1>0, <1>2 DEF BulkCall, Loaded
<1>3. ASSUME NEW u \in BulkReaders, NEW k \in Loads, BulkLoad(u, k) PROVE Loaded'
  <2>1. UNCHANGED <<pc, ret>> /\ pc[u] = "counting"
    BY <1>3 DEF BulkLoad, vars, call
  <2>2. seen' = [t \in Threads |-> seen'[t]]
    BY <1>0, <1>3 DEF BulkLoad
  <2>3. ASSUME NEW t \in Threads, t # u PROVE seen'[t] = seen[t]
    BY <1>0, <1>3, <2>3 DEF BulkLoad
  <2>4. Index(k) \in Nat
    BY <1>0 DEF Index
  <2>5. ASSUME NEW l \in DOMAIN seen'[u] PROVE seen'[u][l] \in Nat
    <3>1. seen'[u] = [m \in DOMAIN seen[u] \cup {k} |-> IF m = k THEN Index(k) ELSE seen[u][m]]
      BY <1>0, <1>3 DEF BulkLoad
    <3>2. \A m \in DOMAIN seen[u] : seen[u][m] \in Nat
      BY <1>0 DEF Loaded
    <3> QED BY <2>4, <2>5, <3>1, <3>2
  <2> QED BY <1>0, <2>1, <2>2, <2>3, <2>5 DEF Loaded
<1>4. ASSUME NEW u \in BulkReaders, BulkRead(u) PROVE Loaded'
  <2>1. ret' = [t \in Threads |-> ret'[t]]
    BY <1>0, <1>4 DEF BulkRead
  <2>2. seen' = [t \in Threads |-> seen'[t]]
    BY <1>0, <1>4 DEF BulkRead
  <2>3. ASSUME NEW t \in Threads, t # u PROVE seen'[t] = seen[t] /\ pc'[t] = pc[t]
    BY <1>0, <1>4, <2>3 DEF BulkRead
  <2>4. DOMAIN seen'[u] = {}
    <3>1. seen'[u] = << >>
      BY <1>0, <1>4 DEF BulkRead
    <3> QED BY <3>1
  <2> QED BY <1>0, <2>1, <2>2, <2>3, <2>4 DEF Loaded
<1>5. ASSUME (\E n \in VectorSizes : set_new_buffer_size(n)) \/ (\E n \in RingSizes : set_size(n))
      PROVE  Loaded'
  BY <1>5 DEF set_new_buffer_size, set_size, Loaded, call
<1>6. CASE UNCHANGED fullVars
  BY <1>6 DEF fullVars, vars, call, Loaded
<1> QED BY <1>1, <1>2, <1>3, <1>4, <1>5, <1>6 DEF FullNext

LEMMA Initially == FullInit => Typed /\ Loaded /\ Unraced
<1> SUFFICES ASSUME FullInit PROVE Typed /\ Loaded /\ Unraced
  OBVIOUS
<1>1. Typed
  BY BufferAssumption DEF FullInit, Init, Typed, PCs
<1>2. Loaded
  <2>1. \A t \in Threads : seen[t] = << >>
    BY DEF FullInit
  <2>2. \A t \in Threads : DOMAIN seen[t] = {}
    <3>1. DOMAIN << >> = {}
      OBVIOUS
    <3> QED BY <2>1, <3>1
  <2> QED BY <2>2 DEF FullInit, Init, Loaded
<1>3. Unraced
  BY DEF FullInit, Unraced
<1> QED BY <1>1, <1>2, <1>3

(* No write or read leaves the vector while the vector, size_ and the      *)
(* indices agree, whatever else runs beside it: FaultOnlyIfUnsound.        *)
THEOREM FaultsOnlyIfUnsound == FullSpec => FaultOnlyIfUnsound
<1>1. Typed /\ Loaded /\ [FullNext]_fullVars => Typed' /\ Loaded'
  BY TypedInductive, LoadedInductive
<1>2. Typed /\ [FullNext]_fullVars
        => \A t \in Threads : pc'[t] = "fault" => pc[t] = "fault" \/ ~GeometrySound
  BY NoFaultWhileSound
<1> QED BY <1>1, <1>2, Initially, PTL DEF FullSpec, FaultOnlyIfUnsound
-----------------------------------------------------------------------------
(* A ring so small beside a machine word that a count is never taken for a *)
(* negative int: what get_all_bytes relies on.                             *)
Small == size <= Word \div 2

LEMMA SmallInductive ==
  ASSUME RingSizes \subseteq 1 .. Word \div 2, Small, [FullNext]_fullVars
  PROVE  Small'
<1>1. \/ size' = size
      \/ \E n \in RingSizes : size' = n
  BY DEF FullNext, Next, Write, Read, HolderStep, WriteEnter, ReadCall, WriteChunk, CopyIn, Fault,
     WriteExit, ReadChunk, CopyOut, ReadExit, Sleep, ReadTest, Expire, SpuriousWake, clear_buffer,
     Destroy, BulkCall, BulkLoad, BulkRead, set_new_buffer_size, set_size, fullVars, vars, ring
<1>2. Word \div 2 \in Nat
  BY WordIs
<1> HIDE DEF Small
<1> QED BY <1>1, <1>2 DEF Small

(* Indices inside the ring leave fewer than size_ places to write to.      *)
LEMMA RemainFits ==
  ASSUME Typed, IndicesInRing
  PROVE  remain_bytes \in 0 .. size - 1
<1>0. /\ head \in Nat /\ tail \in Nat /\ size \in Nat /\ Word \in Nat
      /\ size < Word /\ head < size /\ tail < size
  BY WordIs DEF Typed, IndicesInRing
<1>1. CASE head >= tail
  <2>1. (size - 1) - (head - tail) \in Nat /\ (size - 1) - (head - tail) < Word
    BY <1>0, <1>1
  <2> QED BY <1>0, <1>1, <2>1, UFits DEF remain_bytes
<1>2. CASE ~(head >= tail)
  <2>1. tail - head - 1 \in Nat /\ tail - head - 1 < Word
    BY <1>0, <1>2
  <2> QED BY <1>0, <1>2, <2>1, UFits DEF remain_bytes
<1> QED BY <1>1, <1>2

LEMMA CountFits ==
  ASSUME Typed, IndicesInRing
  PROVE  count \in 0 .. size - 1
<1>0. size \in Nat /\ Word \in Nat /\ size < Word
  BY WordIs DEF Typed
<1>1. remain_bytes \in 0 .. size - 1
  BY RemainFits
<1>2. (size - 1) - remain_bytes \in Nat /\ (size - 1) - remain_bytes < Word
  BY <1>0, <1>1
<1> QED BY <1>0, <1>1, <1>2, UFits DEF count

(* What the loaded values give is the count, while they are current.       *)
LEMMA SeenCountCurrent ==
  ASSUME Typed, Small, IndicesInRing, NEW s, \A k \in Loads : s[k] = Index(k)
  PROVE  SeenCount(s) = count
<1>1. /\ s["head >="] = head /\ s["tail <="] = tail
      /\ s["head -"] = head /\ s["tail -"] = tail
  BY DEF Loads, Compared, Subtracted, Index
<1>2. SeenCount(s) = IF count < Word \div 2 THEN count ELSE count - Word
  BY <1>1 DEF SeenCount, InOneRun, count, remain_bytes
<1>3. count < Word \div 2
  <2>1. count \in Int /\ count < size
    BY CountFits, WordIs DEF Typed
  <2> QED BY <2>1, WordIs DEF Small, Typed
<1> QED BY <1>2, <1>3

(* A call of get_all_bytes that started now, or one that goes on untouched *)
LEMMA Tracked ==
  ASSUME Track, NEW t \in Threads, bulk'[t], ~raced'[t]
  PROVE  \/ pc[t] = "idle" /\ pc'[t] = "counting"
         \/ /\ bulk[t] /\ ~raced[t]
            /\ pc[t] = "idle" => pc'[t] = "idle"
            /\ pc[t] \in {"counting", "locking"} =>
                 UNCHANGED <<head, tail, size>> /\ IndicesInRing
<1>1. CASE pc[t] = "idle" /\ pc'[t] # "idle"
  BY <1>1 DEF Track
<1>2. CASE ~(pc[t] = "idle" /\ pc'[t] # "idle")
  <2>1. bulk'[t] = bulk[t]
    BY <1>2 DEF Track
  <2>2. /\ ~raced[t]
        /\ pc[t] \in {"counting", "locking"} =>
             <<head', tail', size'>> = <<head, tail, size>> /\ IndicesInRing
    BY <1>2 DEF Track
  <2> QED BY <1>2, <2>1, <2>2
<1> QED BY <1>1, <1>2

(* A call of get_all_bytes starts.                                         *)
LEMMA UnracedStart ==
  ASSUME Typed, Loaded, FullNext, NEW t \in Threads,
         pc[t] = "idle", pc'[t] = "counting"
  PROVE  Undisturbed(t)'
<1>0. /\ seen = [v \in Threads |-> seen[v]] /\ ret = [v \in Threads |-> ret[v]]
      /\ pc \in [Threads -> PCs \cup {"counting"}]
      /\ BulkReaders \subseteq Threads
  BY BufferAssumption, FullAssumption DEF Loaded, Typed
<1>1. ASSUME Next PROVE FALSE
  BY <1>1, NextLeavesCounting
<1>2. ASSUME NEW u \in BulkReaders, BulkCall(u) PROVE Undisturbed(t)'
  <2>1. u = t
    BY <1>0, <1>2 DEF BulkCall
  <2>2. ret'[t] = "none" /\ seen' = seen
    BY <1>0, <1>2, <2>1 DEF BulkCall
  <2>3. DOMAIN seen[t] = {}
    BY DEF Loaded
  <2> QED BY <2>2, <2>3 DEF Undisturbed
<1>3. ASSUME NEW u \in BulkReaders, NEW k \in Loads, BulkLoad(u, k) PROVE FALSE
  BY <1>3 DEF BulkLoad, vars
<1>4. ASSUME NEW u \in BulkReaders, BulkRead(u) PROVE FALSE
  BY <1>0, <1>4 DEF BulkRead
<1>5. ASSUME (\E n \in VectorSizes : set_new_buffer_size(n)) \/ (\E n \in RingSizes : set_size(n))
      PROVE  FALSE
  BY <1>5 DEF set_new_buffer_size, set_size
<1> QED BY <1>1, <1>2, <1>3, <1>4, <1>5 DEF FullNext

(* A step that is not the thread's own leaves its call undisturbed.        *)
LEMMA UnracedApart ==
  ASSUME NEW t \in Threads, Undisturbed(t), Apart(t), seen'[t] = seen[t],
         pc[t] \in {"counting", "locking"} => UNCHANGED <<head, tail, size>>
  PROVE  Undisturbed(t)'
<1>1. pc'[t] = pc[t] /\ ret'[t] = ret[t] /\ len'[t] = len[t]
  BY DEF Undisturbed, Apart
<1>2. CASE pc[t] = "counting"
  <2>1. \A k : Index(k)' = Index(k)
    BY <1>2 DEF Index
  <2> QED BY <1>1, <1>2, <2>1 DEF Undisturbed
<1>3. CASE pc[t] = "locking"
  <2>1. count' = count
    BY <1>3 DEF count, remain_bytes, U
  <2> QED BY <1>1, <1>3, <2>1 DEF Undisturbed
<1>4. CASE pc[t] \notin {"counting", "locking"}
  BY <1>1, <1>4 DEF Undisturbed
<1> QED BY <1>2, <1>3, <1>4

(* The thread's own step in the monitor: its test finds what it asks for.  *)
LEMMA UnracedOwn ==
  ASSUME Typed, Loaded, NEW t \in Threads, Undisturbed(t), Own(t),
         pc[t] = "idle" => pc'[t] = "idle",
         pc[t] = "locking" => IndicesInRing
  PROVE  Undisturbed(t)'
<1>0. ret = [v \in Threads |-> ret[v]] /\ pc \in [Threads -> PCs \cup {"counting"}]
  BY DEF Loaded, Typed
<1>1. CASE pc[t] = "reading" /\ ReadChunk(t)
  BY <1>0, <1>1 DEF ReadChunk, CopyOut, Fault, call, Undisturbed
<1>2. CASE pc[t] = "reading" /\ ReadExit(t)
  BY <1>0, <1>2 DEF ReadExit, Undisturbed
<1>3. CASE pc[t] = "locking" /\ ReadTest(t)
  <2>1. count \in Int /\ len[t] = count
    <3>1. count \in Int
      BY <1>3, CountFits
    <3> QED BY <1>3, <3>1 DEF Undisturbed
  <2>2. count >= len[t] /\ check_free_space(t)
    BY <2>1 DEF check_free_space
  <2>3. pc'[t] \in {"reading", "idle"} /\ ret'[t] # "length_error"
    BY <1>0, <1>3, <2>2 DEF ReadTest, Undisturbed
  <2> QED BY <2>3 DEF Undisturbed
<1> QED BY <1>1, <1>2, <1>3, OwnMoves DEF Undisturbed

(* A load of a call, of this thread or another.                            *)
LEMMA UnracedLoad ==
  ASSUME Loaded, NEW t \in Threads, Undisturbed(t),
         NEW u \in BulkReaders, NEW k \in Loads, BulkLoad(u, k)
  PROVE  Undisturbed(t)'
<1>0. seen = [v \in Threads |-> seen[v]] /\ BulkReaders \subseteq Threads
  BY BufferAssumption, FullAssumption DEF Loaded
<1>1. UNCHANGED <<pc, ret, len, head, tail, size>>
  BY DEF BulkLoad, vars, call, ring
<1>2. \A l : Index(l)' = Index(l)
  BY <1>1 DEF Index
<1>3. count' = count
  BY <1>1 DEF count, remain_bytes, U
<1>4. ASSUME pc[t] = "counting", NEW l \in DOMAIN seen'[t] PROVE seen'[t][l] = Index(l)
  <2>1. CASE u # t
    <3>1. seen'[t] = seen[t]
      BY <1>0, <2>1 DEF BulkLoad
    <3> QED BY <1>4, <3>1 DEF Undisturbed
  <2>2. CASE u = t
    <3>1. seen'[t] = [m \in DOMAIN seen[t] \cup {k} |-> IF m = k THEN Index(k) ELSE seen[t][m]]
      BY <1>0, <2>2 DEF BulkLoad
    <3>2. \A m \in DOMAIN seen[t] : seen[t][m] = Index(m)
      BY <1>4 DEF Undisturbed
    <3> QED BY <1>4, <3>1, <3>2
  <2> QED BY <2>1, <2>2
<1> QED BY <1>1, <1>2, <1>3, <1>4 DEF Undisturbed

(* A call has counted: the string gets as many bytes as there are.         *)
LEMMA UnracedRead ==
  ASSUME Typed, Loaded, Small, NEW t \in Threads, Undisturbed(t), BulkRead(t),
         UNCHANGED <<head, tail, size>>, IndicesInRing
  PROVE  Undisturbed(t)'
<1>0. /\ ret = [v \in Threads |-> ret[v]] /\ len \in [Threads -> Nat]
      /\ pc \in [Threads -> PCs \cup {"counting"}]
  BY DEF Loaded, Typed
<1>1. SeenCount(seen[t]) = count
  <2>1. \A k \in Loads : seen[t][k] = Index(k)
    BY DEF BulkRead, Undisturbed
  <2> QED BY <2>1, SeenCountCurrent
<1>2. count \in Nat
  BY CountFits, WordIs DEF Typed
<1>3. pc'[t] = "locking" /\ len'[t] = count /\ ret'[t] = ret[t]
  BY <1>0, <1>1, <1>2 DEF BulkRead
<1>4. count' = count
  BY DEF count, remain_bytes, U
<1> QED BY <1>3, <1>4 DEF Undisturbed

LEMMA UnracedInductive ==
  ASSUME Typed, Loaded, Small, Unraced, [FullNext]_fullVars
  PROVE  Unraced'
<1>1. CASE UNCHANGED fullVars
  <2>1. ASSUME NEW t \in Threads, Undisturbed(t) PROVE Undisturbed(t)'
    BY <1>1, <2>1 DEF fullVars, vars, ring, call, Undisturbed, Index, count, remain_bytes, U
  <2>2. UNCHANGED <<bulk, raced>>
    BY <1>1 DEF fullVars
  <2> QED BY <2>1, <2>2 DEF Unraced
<1>2. ASSUME FullNext, NEW t \in Threads, bulk'[t], ~raced'[t]
      PROVE  Undisturbed(t)'
  <2>0. BulkReaders \subseteq Threads
    BY BufferAssumption, FullAssumption
  <2>1. CASE pc[t] = "idle" /\ pc'[t] = "counting"
    BY <1>2, <2>1, UnracedStart
  <2>2. CASE /\ bulk[t] /\ ~raced[t]
             /\ pc[t] = "idle" => pc'[t] = "idle"
             /\ pc[t] \in {"counting", "locking"} =>
                  UNCHANGED <<head, tail, size>> /\ IndicesInRing
    <3>1. Undisturbed(t)
      BY <2>2 DEF Unraced
    <3>2. ASSUME Next, UNCHANGED seen PROVE Undisturbed(t)'
      BY <2>2, <3>1, <3>2, OwnOrApart, UnracedOwn, UnracedApart
    <3>3. ASSUME NEW u \in BulkReaders, BulkCall(u) PROVE Undisturbed(t)'
      <4>1. u # t
        BY <2>2, <3>3 DEF BulkCall, Typed
      <4>2. Apart(t) /\ seen'[t] = seen[t]
        BY <4>1, <3>3 DEF BulkCall, Typed, Loaded, Apart
      <4> QED BY <2>2, <3>1, <4>2, UnracedApart
    <3>4. ASSUME NEW u \in BulkReaders, NEW k \in Loads, BulkLoad(u, k) PROVE Undisturbed(t)'
      BY <3>1, <3>4, UnracedLoad
    <3>5. ASSUME NEW u \in BulkReaders, BulkRead(u) PROVE Undisturbed(t)'
      <4>1. CASE u = t
        <5>1. pc[t] = "counting"
          BY <4>1, <3>5 DEF BulkRead
        <5> QED BY <5>1, <2>2, <3>1, <3>5, <4>1, UnracedRead
      <4>2. CASE u # t
        <5>1. Apart(t) /\ seen'[t] = seen[t]
          BY <4>2, <2>0, <3>5 DEF BulkRead, Typed, Loaded, Apart
        <5> QED BY <2>2, <3>1, <5>1, UnracedApart
      <4> QED BY <4>1, <4>2
    <3>6. ASSUME (\E n \in VectorSizes : set_new_buffer_size(n))
                 \/ (\E n \in RingSizes : set_size(n))
          PROVE  Undisturbed(t)'
      <4>1. Apart(t) /\ seen'[t] = seen[t]
        BY <3>6 DEF set_new_buffer_size, set_size, call, Apart
      <4> QED BY <2>2, <3>1, <4>1, UnracedApart
    <3> QED BY <1>2, <3>2, <3>3, <3>4, <3>5, <3>6 DEF FullNext
  <2>3. Track
    BY <1>2 DEF FullNext
  <2> QED BY <1>2, <2>1, <2>2, <2>3, Tracked
<1> QED BY <1>1, <1>2 DEF Unraced

(* On a ring so small, get_all_bytes waits or throws only if it was raced. *)
THEOREM BulkReadsFailOnlyIfRaced ==
  ASSUME Size <= Word \div 2, RingSizes \subseteq 1 .. Word \div 2
  PROVE  FullSpec => []BulkReadFailsOnlyIfRaced
<1>1. FullInit => Small
  BY DEF FullInit, Init, Small
<1>2. Typed /\ Loaded /\ Small /\ Unraced /\ [FullNext]_fullVars
        => Typed' /\ Loaded' /\ Small' /\ Unraced'
  BY TypedInductive, LoadedInductive, SmallInductive, UnracedInductive
<1>3. Unraced => BulkReadFailsOnlyIfRaced
  <2>1. BulkReaders \subseteq Threads
    BY BufferAssumption, FullAssumption
  <2> QED BY <2>1 DEF Unraced, Undisturbed, BulkReadFailsOnlyIfRaced
<1> QED BY <1>1, <1>2, <1>3, Initially, PTL DEF FullSpec

=============================================================================
