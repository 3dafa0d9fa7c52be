------------------------------ MODULE Batching ------------------------------
(***************************************************************************)
(* expand_to_batches (worker.cpp): the pairs of a RangePricingRequest are  *)
(* cut into chunks of at most simd_lanes pairs, one BatchPricingRequest    *)
(* per chunk.                                                              *)
(***************************************************************************)
EXTENDS Messages

CONSTANT SimdLanes  \* Config.simd_lanes

ASSUME SimdLanesAssumption == SimdLanes \in Nat \ {0}

\* The number of chunks of a vector of `total' pairs: the division rounds up.
Chunks(total) == (total + SimdLanes - 1) \div SimdLanes

ChunkStart(c) == c * SimdLanes

ChunkEnd(c, total) ==
    IF ChunkStart(c) + SimdLanes < total THEN ChunkStart(c) + SimdLanes ELSE total

\* The pairs start <= i < end of the request, counted from 0 as the code does.
ChunkPairs(pairs, c) ==
    SubSeq(pairs, ChunkStart(c) + 1, ChunkEnd(c, Len(pairs)))

\* Five of the six fields of the parameters are added to the batch's own
\* PricingParams; option_type is not, and reads as the schema's default Call.
BatchParams(base) == [base EXCEPT !.option_type = "Call"]

\* The chunk c (0 <= c < Chunks) of the request rr.
Batch(rr, c) ==
    [batch_counter_id |-> c,
     request          |-> BatchParams(rr.request),
     pairs            |-> ChunkPairs(rr.pairs, c)]

BatchCount(rr) == Chunks(Len(rr.pairs))
=============================================================================
