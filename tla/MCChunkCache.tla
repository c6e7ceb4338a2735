---------------------------- MODULE MCChunkCache ----------------------------
(***************************************************************************)
(* Small instances of ChunkCache.  Three readers and three chunks for two  *)
(* resident ones make every kind of meeting: two readers of one chunk, a   *)
(* sweep against a hit, a sweep against a read, a failed read against a    *)
(* waiter, Close against each of them, and the hand at the ring's end.     *)
(***************************************************************************)
EXTENDS ChunkCache, TLC

\* Readers and chunks are interchangeable.
Symmetry == Permutations(Readers) \union Permutations(Chunks)
=============================================================================
