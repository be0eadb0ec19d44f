----------------------------- MODULE ByteStream -----------------------------
(***************************************************************************)
(* What hp::peripheral::CircularBuffer promises its callers: a bounded     *)
(* first-in first-out stream of bytes that keeps the newest Capacity bytes *)
(* and drops the oldest when a write does not fit.                         *)
(*                                                                         *)
(* A byte is named by its position in the stream of all bytes ever         *)
(* written, so the bytes on hold are the positions lo .. hi - 1.           *)
(***************************************************************************)
EXTENDS Integers, Sequences

CONSTANTS
  Clients,    (* the threads that call the buffer                  *)
  Capacity,   (* how many bytes it keeps: one less than its size   *)
  Lens        (* the lengths of reads and writes                   *)

VARIABLES
  lo,    (* position of the oldest byte on hold                        *)
  hi,    (* position of the next byte to be written                    *)
  got,   (* for each client, what its current or last call handed out  *)
  res    (* for each client, the BufferError of its last call          *)

streamVars == <<lo, hi, got, res>>

BufferErrors == {"BUF_NOERROR", "BUF_OVERFLOW", "BUF_TIMEOUT"}

(* The n bytes from position p on. *)
Run(p, n) == [i \in 1 .. n |-> p + i - 1]

Init ==
  /\ lo = 0
  /\ hi = 0
  /\ got = [c \in Clients |-> << >>]
  /\ res = [c \in Clients |-> "none"]

(* A client enters a call: nothing handed out and no result yet. *)
Call(c) ==
  /\ got' = [got EXCEPT ![c] = << >>]
  /\ res' = [res EXCEPT ![c] = "none"]
  /\ UNCHANGED <<lo, hi>>

(* n bytes enter; the oldest leave if there are now too many, and then     *)
(* the writer is told so.                                                  *)
Put(c, n) ==
  /\ hi' = hi + n
  /\ lo' = IF hi + n - lo > Capacity THEN hi + n - Capacity ELSE lo
  /\ res' = [res EXCEPT ![c] =
               IF hi + n - lo > Capacity THEN "BUF_OVERFLOW" ELSE "BUF_NOERROR"]
  /\ UNCHANGED got

(* The n oldest bytes leave, in order, to one client. *)
Get(c, n) ==
  /\ n <= hi - lo
  /\ got' = [got EXCEPT ![c] = Run(lo, n)]
  /\ lo' = lo + n
  /\ res' = [res EXCEPT ![c] = "BUF_NOERROR"]
  /\ UNCHANGED hi

(* A read gives up and takes nothing. *)
GiveUp(c) ==
  /\ res' = [res EXCEPT ![c] = "BUF_TIMEOUT"]
  /\ UNCHANGED <<lo, hi, got>>

(* Every byte on hold is discarded. *)
Discard ==
  /\ lo' = hi
  /\ UNCHANGED <<hi, got, res>>

Next ==
  \/ \E c \in Clients : Call(c) \/ GiveUp(c)
  \/ \E c \in Clients, n \in Lens : Put(c, n) \/ Get(c, n)
  \/ Discard

Spec == Init /\ [][Next]_streamVars
=============================================================================
