---------------------------- MODULE MCChunkArith ----------------------------
(***************************************************************************)
(* ChunkArith with ints of seven bits, every one of them as simd_lanes.    *)
(***************************************************************************)
EXTENDS ChunkArith

SomeTotals == 0 .. 48
AllInts == (-IntMax - 1) .. IntMax
=============================================================================
