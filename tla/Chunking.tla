------------------------------- MODULE Chunking -------------------------------
(***************************************************************************)
(* How a batch of count items is cut into chunks for a pool of w workers:  *)
(* hypertile_batch_spawn (capi/src/lib.rs) and the batch_spawn functions   *)
(* of the Python extension (sys/src/lib.rs).  Chunks are numbered from 0.  *)
(***************************************************************************)
EXTENDS Integers

DivCeil(a, b) == (a + b - 1) \div b

AtMost(a, b)  == IF a <= b THEN a ELSE b
AtLeast(a, b) == IF a >= b THEN a ELSE b

\* w is active_count(), which is 0 while no worker has registered yet.
NumChunks(count, w) == AtLeast(AtMost(AtLeast(w, 1) * 4, count), 1)
ChunkSize(count, w) == DivCeil(count, NumChunks(count, w))

First(c, size)       == c * size
End(c, size, count)  == AtMost(First(c, size) + size, count)
Items(c, size, count) == First(c, size)..End(c, size, count) - 1

\* The C function computes the number of chunks with items in them, ...
ActualChunks(count, w) == DivCeil(count, ChunkSize(count, w))
Chunks(count, w) == 0..ActualChunks(count, w) - 1

\* ... the Python functions leave their loop at the first one without.
LoopChunks(count, w) ==
    {c \in 0..NumChunks(count, w) - 1 :
        \A b \in 0..c : First(b, ChunkSize(count, w))
                          < End(b, ChunkSize(count, w), count)}
=============================================================================
