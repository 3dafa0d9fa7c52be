------------------------------ MODULE MCKernel ------------------------------
(***************************************************************************)
(* The lane counts of SSE, NEON, AVX and AVX-512 (and of the scalar        *)
(* target), with batches around their multiples.                           *)
(***************************************************************************)
EXTENDS Kernel

SmallCounts == 0 .. 33
LaneCounts == {1, 2, 4, 8, 16}
=============================================================================
