-------------------------- MODULE MCCircularBuffer --------------------------
(* CircularBuffer with one writer and two readers on a ring of four bytes. *)
EXTENDS CircularBuffer

CONSTANTS w, r1, r2

MCThreads == {w, r1, r2}
MCWriters == {w}
MCReaders == {r1, r2}
MCWriteLens == {1, 2, 5}
MCReadLens == {1, 3}
MCShortWrites == {1, 3}
MCShortReads == {2, 3}
=============================================================================
