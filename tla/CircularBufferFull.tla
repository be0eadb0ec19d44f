------------------------- MODULE CircularBufferFull -------------------------
(***************************************************************************)
(* CircularBuffer with the operations that step outside its monitor:       *)
(* get_all_bytes, which computes how many bytes to read from head_ and     *)
(* tail_ without the mutex, and erase_buffer, set_new_buffer_size and      *)
(* set_size, which change the vector without size_, or size_ without the   *)
(* vector.                                                                 *)
(* A definition named X_Y is X with the slip Y, kept beside it to see that *)
(* a property notices; no specification uses it.                           *)
(***************************************************************************)
EXTENDS CircularBuffer

CONSTANTS
  BulkReaders,   (* the readers that call get_all_bytes                   *)
  VectorSizes,   (* the arguments of set_new_buffer_size; 0: erase_buffer *)
  RingSizes      (* the arguments of set_size                             *)

ASSUME FullAssumption ==
  /\ BulkReaders \subseteq Readers
  /\ VectorSizes \subseteq Nat
  /\ RingSizes \subseteq 1 .. Word - 1

VARIABLES
  seen,    (* what the running get_all_bytes of a thread loaded so far    *)
  bulk,    (* whether the thread's current or last call is get_all_bytes  *)
  raced    (* whether the indices moved, or lay outside size_, after that *)
           (* call began to load them and before its read looked at them  *)
           (* under the mutex                                             *)

fullVars == <<vars, seen, bulk, raced>>

FullInit ==
  /\ Init
  /\ seen = [t \in Threads |-> << >>]
  /\ bulk = [t \in Threads |-> FALSE]
  /\ raced = [t \in Threads |-> FALSE]

IndicesInRing == head < size /\ tail < size

(* Bookkeeping for the properties, part of every step. *)
Track ==
  LET starts(t) == pc[t] = "idle" /\ pc'[t] # "idle"
      adrift == \/ <<head', tail', size'>> # <<head, tail, size>>
                \/ ~IndicesInRing
  IN /\ bulk' = [t \in Threads |-> IF starts(t) THEN pc'[t] = "counting" ELSE bulk[t]]
     /\ raced' = [t \in Threads |->
                    ~starts(t) /\ (raced[t] \/ (adrift /\ pc[t] \in {"counting", "locking"}))]
-----------------------------------------------------------------------------
(* get_all_bytes *)

BulkCall(t) ==
  /\ pc[t] = "idle" /\ ~destroyed
  /\ pc' = [pc EXCEPT ![t] = "counting"]
  /\ data' = [data EXCEPT ![t] = << >>]
  /\ ret' = [ret EXCEPT ![t] = "none"]
  /\ UNCHANGED <<ring, destroyed, lock, len, timed, rem, room, written, seen>>

(* remain_bytes() compares the indices and then loads both again, in       *)
(* either order, to subtract them.                                         *)
Compared == {"head >=", "tail <="}
Subtracted == {"head -", "tail -"}
Loads == Compared \cup Subtracted

Index(k) == IF k \in {"head >=", "head -"} THEN head ELSE tail

BulkLoad(t, k) ==
  /\ pc[t] = "counting" /\ k \notin DOMAIN seen[t]
  /\ k \in Subtracted => Compared \subseteq DOMAIN seen[t]
  /\ seen' = [seen EXCEPT ![t] =
                [l \in DOMAIN seen[t] \cup {k} |-> IF l = k THEN Index(k) ELSE seen[t][l]]]
  /\ UNCHANGED vars

InOneRun_Strict(s) == s["head >="] > s["tail <="]
InOneRun(s) == s["head >="] >= s["tail <="]

(* The count that the loaded values give, as an int. *)
SeenCount(s) ==
  LET remain == IF InOneRun(s) THEN U((size - 1) - (s["head -"] - s["tail -"]))
                ELSE U(s["tail -"] - s["head -"] - 1)
      n == U((size - 1) - remain)
  IN IF n < Word \div 2 THEN n ELSE n - Word

(* The string gets that length, or resize throws; then read. *)
BulkRead(t) ==
  LET n == SeenCount(seen[t])
  IN /\ pc[t] = "counting" /\ DOMAIN seen[t] = Loads
     /\ \/ /\ n < 0
           /\ pc' = [pc EXCEPT ![t] = "idle"]
           /\ ret' = [ret EXCEPT ![t] = "length_error"]
           /\ UNCHANGED len
        \/ /\ n >= 0
           /\ pc' = [pc EXCEPT ![t] = "locking"]
           /\ len' = [len EXCEPT ![t] = n]
           /\ UNCHANGED ret
     /\ seen' = [seen EXCEPT ![t] = << >>]
     /\ UNCHANGED <<ring, destroyed, lock, timed, data, rem, room, written>>
-----------------------------------------------------------------------------
(* erase_buffer is the case n = 0; new bytes of a vector<char> are zero. *)
set_new_buffer_size(n) ==
  /\ ~destroyed /\ lock = Free
  /\ buf' = [i \in 0 .. n - 1 |-> IF i \in DOMAIN buf THEN buf[i] ELSE Zero]
  /\ UNCHANGED <<head, tail, size, destroyed, lock, pc, call, rem, room, written, seen>>

set_size(n) ==
  /\ ~destroyed /\ lock = Free
  /\ size' = n
  /\ UNCHANGED <<head, tail, buf, destroyed, lock, pc, call, rem, room, written, seen>>

FullNext ==
  /\ \/ Next /\ UNCHANGED seen
     \/ \E t \in BulkReaders : BulkCall(t) \/ (\E k \in Loads : BulkLoad(t, k)) \/ BulkRead(t)
     \/ \E n \in VectorSizes : set_new_buffer_size(n)
     \/ \E n \in RingSizes : set_size(n)
  /\ Track

FullSpec == FullInit /\ [][FullNext]_fullVars
-----------------------------------------------------------------------------
(* get_all_bytes asks for exactly the bytes that are there: it waits, or   *)
(* throws, only if the indices moved between its unlocked loads and its    *)
(* locked test, or set_size had left them outside the ring.                *)
BulkReadFailsOnlyIfRaced ==
  \A t \in BulkReaders :
    bulk[t] /\ (pc[t] \in {"blocking", "waiting"} \/ ret[t] = "length_error") => raced[t]

GeometrySound == 0 .. size - 1 \subseteq DOMAIN buf /\ IndicesInRing

(* A memcpy leaves the vector only while the resizing calls have set the   *)
(* vector, size_ and the indices at odds: as long as they agree, no write  *)
(* or read of any length, wrapping or overflowing, touches memory outside. *)
FaultOnlyIfUnsound ==
  [][\A t \in Threads : pc'[t] = "fault" => pc[t] = "fault" \/ ~GeometrySound]_fullVars
=============================================================================
