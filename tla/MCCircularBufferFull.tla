------------------------ MODULE MCCircularBufferFull ------------------------
(* CircularBufferFull with one writer and one reader that uses both read   *)
(* and get_all_bytes, on a ring of four bytes.                             *)
EXTENDS CircularBufferFull

CONSTANTS w, r

MCThreads == {w, r}
MCWriters == {w}
MCReaders == {r}
MCWriteLens == {2, 3}
MCReadLens == {1, 2}
MCVectorSizes == {0, 3, 6}
MCRingSizes == {2, 6}
MCSmallVectors == {3}
MCNone == {}
=============================================================================
