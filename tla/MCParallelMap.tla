--------------------------- MODULE MCParallelMap ---------------------------
(***************************************************************************)
(* A small instance of ParallelMap.  Five items over two or three          *)
(* goroutines give MapChunked a short last chunk and a batch too small to  *)
(* share, and Map workers that take several items each.                    *)
(***************************************************************************)
EXTENDS ParallelMap

\* Nothing asked for, one at a time, and more than one.
SmallLimits == {-1, 1, 3}
=============================================================================
