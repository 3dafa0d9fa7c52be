----------------------------- MODULE ChunkArith -----------------------------
(***************************************************************************)
(* expand_to_batches (worker.cpp) in the integers of C++: every number is  *)
(* an int of limited width, division truncates towards 0, and simd_lanes   *)
(* is any int, since config.cpp validates threads only.  Module Batching   *)
(* is the same computation in the integers of mathematics.                 *)
(*                                                                         *)
(* Overflow of an int is undefined; an addition that is followed by idiv   *)
(* or sdiv wraps on every target of the build.  Division by 0 traps on x86 *)
(* and yields 0 on ARM64.                                                  *)
(***************************************************************************)
EXTENDS Messages

CONSTANTS
    IntMax,  \* the largest int
    Totals,  \* numbers of pairs
    Lanes    \* values of --simd_lanes

ASSUME ChunkArithAssumption ==
    /\ IntMax \in Nat \ {0}
    /\ Totals \subseteq 0 .. IntMax
    /\ Lanes \subseteq (-IntMax - 1) .. IntMax

VARIABLES
    pc,        \* "enter", "loop", "done", or how expand_to_batches failed
    total,     \* the number of pairs of the request
    chunk_sz,  \* simd_lanes
    chunks,    \* the number of batches to cut
    c,         \* the next of them
    slices     \* the places [start, end) of the batches cut so far

vars == <<pc, total, chunk_sz, chunks, c, slices>>

Int32(n) == ((n + IntMax + 1) % (2 * (IntMax + 1))) - IntMax - 1

Abs(n) == IF n < 0 THEN -n ELSE n

\* Division truncates towards 0.
Quotient(a, b) ==
    IF (a < 0) = (b < 0) THEN Abs(a) \div Abs(b) ELSE -(Abs(a) \div Abs(b))

\* The dividend of the number of chunks; wrongly, without rounding up.
Dividend_Down == total
Dividend == Int32(Int32(total + chunk_sz) - 1)

\* A negative capacity is a huge size_t, for which reserve throws
\* std::length_error; nothing in run_server catches it.
Reservable(n) == n >= 0

Enter ==
    /\ pc = "enter"
    /\ \/ /\ chunk_sz # 0
          /\ chunks' = Quotient(Dividend, chunk_sz)
          /\ pc' = IF Reservable(chunks') THEN "loop" ELSE "thrown"
       \/ /\ chunk_sz = 0
          /\ chunks' = 0
          /\ pc' \in {"loop", "trapped"}
    /\ UNCHANGED <<total, chunk_sz, c, slices>>

start == Int32(c * chunk_sz)

\* std::min(start + chunk_sz, total); wrongly, without the minimum.
end_Unclipped == Int32(start + chunk_sz)
end == IF Int32(start + chunk_sz) < total THEN Int32(start + chunk_sz) ELSE total

CutChunk ==
    /\ pc = "loop"
    /\ c < chunks
    /\ IF Reservable(end - start)
       THEN /\ slices' = Append(slices, <<start, end>>)
            /\ c' = c + 1
            /\ pc' = pc
       ELSE /\ pc' = "thrown"
            /\ UNCHANGED <<c, slices>>
    /\ UNCHANGED <<total, chunk_sz, chunks>>

Leave ==
    /\ pc = "loop"
    /\ c >= chunks
    /\ pc' = "done"
    /\ UNCHANGED <<total, chunk_sz, chunks, c, slices>>

Ended == pc \in {"done", "thrown", "trapped"} /\ UNCHANGED vars

Init ==
    /\ pc = "enter"
    /\ total \in Totals
    /\ chunk_sz \in Lanes
    /\ chunks = 0 /\ c = 0
    /\ slices = <<>>

Next == Enter \/ CutChunk \/ Leave \/ Ended

Spec == Init /\ [][Next]_vars
-----------------------------------------------------------------------------
\* Batching for a number of lanes.
Unbounded(SimdLanes) == INSTANCE Batching

\* What cutting means: the batches follow each other without gap or overlap
\* from the first pair to the last, and none is empty or larger than simd_lanes.
IsPartition ==
    /\ \A k \in DOMAIN slices :
          /\ slices[k][1] = IF k = 1 THEN 0 ELSE slices[k - 1][2]
          /\ slices[k][2] - slices[k][1] \in 1 .. chunk_sz
    /\ total = IF slices = <<>> THEN 0 ELSE slices[Len(slices)][2]

\* simd_lanes is positive and the dividend does not overflow.
Admissible == chunk_sz >= 1 /\ total + chunk_sz - 1 <= IntMax

\* With such lanes expand_to_batches returns, with every pair in exactly one
\* batch: a pair in no batch is missing from the reply, and an exception here
\* ends the server.
EveryPairSliced ==
    Admissible => /\ pc \notin {"thrown", "trapped"}
                  /\ pc = "done" => IsPartition

\* Whatever the flag, no batch reaches outside the request's pairs, where
\* pairs->Get(i) would read other memory: a bad value ends in an exception, in a
\* trap or in batches that are missing.
SlicesInBounds ==
    \A k \in DOMAIN slices :
        0 <= slices[k][1] /\ slices[k][1] <= slices[k][2] /\ slices[k][2] <= total

\* The ints of the code then compute what Batching says, on which every result
\* about the server rests.
AgreesWithBatching ==
    Admissible /\ pc = "done" =>
        slices = [k \in 1 .. Unbounded(chunk_sz)!Chunks(total) |->
                     <<Unbounded(chunk_sz)!ChunkStart(k - 1),
                       Unbounded(chunk_sz)!ChunkEnd(k - 1, total)>>]
=============================================================================
