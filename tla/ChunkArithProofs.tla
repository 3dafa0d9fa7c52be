--------------------------- MODULE ChunkArithProofs ---------------------------
(***************************************************************************)
(* Theorems about ChunkArith, for ints of any width, any number of pairs   *)
(* and any value of --simd_lanes.                                          *)
(***************************************************************************)
EXTENDS ChunkArith, TLAPS

-----------------------------------------------------------------------------
(***************************************************************************)
(* The int arithmetic.                                                     *)
(***************************************************************************)

\* What an int holds is left alone.
LEMMA InRange ==
    ASSUME NEW n \in (-IntMax - 1) .. IntMax
    PROVE  Int32(n) = n
<1> DEFINE W == 2 * (IntMax + 1)
           r == n + IntMax + 1
<1>1. W \in Nat \ {0} /\ r \in 0 .. W - 1
  BY ChunkArithAssumption
<1>2. r = 0 * W + r
  BY <1>1
<1> HIDE DEF W
<1>3. r % W = r
  BY <1>1, <1>2
<1> QED
  BY <1>3, ChunkArithAssumption DEF Int32, W

\* One step beyond the largest int is the smallest, and so on from there.
LEMMA AboveRange ==
    ASSUME NEW n \in IntMax + 1 .. 2 * IntMax + 1
    PROVE  Int32(n) = n - 2 * (IntMax + 1)
<1> DEFINE W == 2 * (IntMax + 1)
           r == n - IntMax - 1
           a == n + IntMax + 1
<1>1. W \in Nat \ {0} /\ r \in 0 .. W - 1 /\ a \in Int
  BY ChunkArithAssumption
<1>2. a = 1 * W + r
  BY ChunkArithAssumption
<1> HIDE DEF W, a, r
<1>3. a % W = r
  BY <1>1, <1>2
<1> QED
  BY <1>3, ChunkArithAssumption DEF Int32, W, a, r

\* One step below the smallest int is the largest.
LEMMA BelowRange == Int32(-IntMax - 2) = IntMax
<1> DEFINE W == 2 * (IntMax + 1)
           r == W - 1
<1>1. W \in Nat \ {0} /\ r \in 0 .. W - 1
  BY ChunkArithAssumption
<1>2. -1 = (-1) * W + r
  BY <1>1
<1> HIDE DEF W, r
<1>3. (-1) % W = r
  BY <1>1, <1>2
<1>4. (-IntMax - 2) + IntMax + 1 = -1
  BY ChunkArithAssumption
<1> QED
  BY <1>1, <1>3, <1>4, ChunkArithAssumption DEF Int32, W, r

\* The quotient of a division by a positive number is the last multiple below.
LEMMA Division ==
    ASSUME NEW a \in Nat, NEW N \in Nat \ {0}
    PROVE  /\ a \div N \in Nat
           /\ (a \div N) * N <= a
           /\ a < (a \div N) * N + N
OBVIOUS

\* The next multiple of a smaller number.
LEMMA NextMultiple ==
    ASSUME NEW x \in Int, NEW y \in Int, NEW N \in Nat, x < y
    PROVE  x * N + N <= y * N
OBVIOUS

\* Wrapping and dividing give integers.
LEMMA Int32Type ==
    ASSUME NEW n \in Int
    PROVE  Int32(n) \in Int
BY ChunkArithAssumption DEF Int32

\* So does the division by a number that is not 0.
LEMMA QuotientType ==
    ASSUME NEW a \in Int, NEW b \in Int, b # 0
    PROVE  Quotient(a, b) \in Int
BY DEF Quotient, Abs

\* The dividend wraps exactly when the sum of pairs and lanes is too large for
\* an int; the sum that is one too large wraps there and back again.
LEMMA DividendValue ==
    ASSUME total \in 0 .. IntMax, chunk_sz \in 1 .. IntMax
    PROVE  /\ Admissible => Dividend = total + chunk_sz - 1
           /\ ~Admissible => Dividend \in Int /\ Dividend < 0
<1> DEFINE s == total + chunk_sz
           W == 2 * (IntMax + 1)
<1>1. s \in 1 .. 2 * IntMax /\ IntMax \in Nat \ {0}
  BY ChunkArithAssumption
<1>2. CASE s <= IntMax
  <2>1. Int32(s) = s
    BY <1>1, <1>2, InRange
  <2>2. Int32(s - 1) = s - 1
    BY <1>1, <1>2, InRange
  <2> QED
    BY <1>1, <1>2, <2>1, <2>2 DEF Dividend, Admissible
<1>3. CASE s = IntMax + 1
  <2>1. Int32(s) = -IntMax - 1
    BY <1>1, <1>3, AboveRange
  <2>2. Int32(s) - 1 = -IntMax - 2
    BY <1>1, <2>1
  <2> QED
    BY <1>1, <1>3, <2>2, BelowRange DEF Dividend, Admissible
<1>4. CASE s > IntMax + 1
  <2>1. Int32(s) = s - W
    BY <1>1, <1>4, AboveRange
  <2>2. Int32(s - W - 1) = s - W - 1
    BY <1>1, <1>4, InRange
  <2> QED
    BY <1>1, <1>4, <2>1, <2>2 DEF Dividend, Admissible
<1> QED
  BY <1>1, <1>2, <1>3, <1>4

-----------------------------------------------------------------------------
(***************************************************************************)
(* The batches of admissible lanes.                                        *)
(***************************************************************************)

\* The number of batches, and the k-th of them.
Needed(n, l) == (n + l - 1) \div l
Cut(n, l, k) == <<(k - 1) * l, IF k * l < n THEN k * l ELSE n>>

\* Rounding up: the batches before the last do not reach the end, all of them do.
LEMMA RoundUp ==
    ASSUME NEW n \in Nat, NEW l \in Nat \ {0}
    PROVE  /\ Needed(n, l) \in Nat
           /\ \A k \in Nat : k < Needed(n, l) => k * l < n
           /\ n <= Needed(n, l) * l
           /\ Needed(n, l) = 0 => n = 0
<1> DEFINE a == n + l - 1
           q == a \div l
<1>1. a \in Nat
  OBVIOUS
<1> HIDE DEF a
<1>2. q \in Nat /\ q * l <= a /\ a < q * l + l
  BY <1>1, Division
<1>3. q = Needed(n, l)
  BY DEF a, Needed
<1> HIDE DEF q
<1>4. n <= q * l
  BY <1>2 DEF a
<1>5. ASSUME NEW k \in Nat, k < q PROVE k * l < n
  <2>1. k * l + l <= q * l
    BY <1>2, <1>5, NextMultiple
  <2>2. k * l \in Int /\ q * l \in Int
    BY <1>2
  <2> QED
    BY <1>2, <2>1, <2>2 DEF a
<1>6. q = 0 => n = 0
  BY <1>2, <1>4
<1> QED
  BY <1>2, <1>3, <1>4, <1>5, <1>6

\* A batch before the last starts where the one before it ended, is not empty
\* and has at most l pairs.
LEMMA CutFits ==
    ASSUME NEW n \in Nat, NEW l \in Nat \ {0}, NEW k \in 1 .. Needed(n, l)
    PROVE  /\ Cut(n, l, k)[1] \in Nat /\ Cut(n, l, k)[2] \in Nat
           /\ Cut(n, l, k)[1] = IF k = 1 THEN 0 ELSE Cut(n, l, k - 1)[2]
           /\ Cut(n, l, k)[2] - Cut(n, l, k)[1] \in 1 .. l
           /\ Cut(n, l, k)[2] <= n
<1> DEFINE x == (k - 1) * l
           y == k * l
<1>1. k - 1 \in Nat /\ k \in Nat /\ k - 1 < Needed(n, l)
  BY RoundUp
<1>2. x \in Nat /\ y = x + l /\ x < n
  BY <1>1, RoundUp
<1>3. Cut(n, l, k) = <<x, IF y < n THEN y ELSE n>>
  BY DEF Cut
<1>4. k # 1 => Cut(n, l, k - 1)[2] = x
  BY <1>2 DEF Cut
<1>5. k = 1 => x = 0
  OBVIOUS
<1> HIDE DEF x, y
<1> QED
  BY <1>2, <1>3, <1>4, <1>5

\* The last batch ends with the last pair.
LEMMA LastCut ==
    ASSUME NEW n \in Nat, NEW l \in Nat \ {0}, Needed(n, l) # 0
    PROVE  Cut(n, l, Needed(n, l))[2] = n
<1>1. Needed(n, l) \in Nat /\ n <= Needed(n, l) * l /\ Needed(n, l) * l \in Nat
  BY RoundUp
<1> QED
  BY <1>1 DEF Cut

-----------------------------------------------------------------------------
(***************************************************************************)
(* The loop.                                                               *)
(***************************************************************************)

\* The types of the variables.
ArithType ==
    /\ pc \in {"enter", "loop", "done", "thrown", "trapped"}
    /\ total \in 0 .. IntMax
    /\ chunk_sz \in (-IntMax - 1) .. IntMax
    /\ chunks \in Int /\ c \in Nat

\* Admissible lanes: the first c batches have been cut, of all that are needed.
Cutting ==
    /\ pc \in {"enter", "loop", "done"}
    /\ pc = "enter" => c = 0
    /\ pc # "enter" => chunks = Needed(total, chunk_sz) /\ c <= chunks
    /\ pc = "done" => c = chunks
    /\ slices = [k \in 1 .. c |-> Cut(total, chunk_sz, k)]

\* Others: no batch is ever cut, since there are none to cut, or the first has
\* a negative size and throws.
NotCutting ==
    /\ c = 0 /\ slices = <<>>
    /\ chunk_sz >= 0 => chunks <= 0

ArithInv ==
    /\ ArithType
    /\ Admissible => Cutting
    /\ ~Admissible => NotCutting

\* Nothing is cut when expand_to_batches is entered.
LEMMA ArithInit == Init => ArithInv
<1> SUFFICES ASSUME Init PROVE ArithInv
  OBVIOUS
<1>1. ArithType
  BY ChunkArithAssumption DEF Init, ArithType
<1>2. Cutting
  <2>1. <<>> = [k \in 1 .. 0 |-> Cut(total, chunk_sz, k)]
    OBVIOUS
  <2> QED
    BY <2>1 DEF Init, Cutting
<1>3. NotCutting
  BY DEF Init, NotCutting
<1> QED
  BY <1>1, <1>2, <1>3 DEF ArithInv

\* The division that counts the batches.
LEMMA EnterInv == ArithInv /\ Enter => ArithInv'
<1> SUFFICES ASSUME ArithInv, Enter PROVE ArithInv'
  OBVIOUS
<1>1. /\ total \in 0 .. IntMax /\ chunk_sz \in (-IntMax - 1) .. IntMax /\ c \in Nat
      /\ UNCHANGED <<total, chunk_sz, c, slices>> /\ pc = "enter" /\ IntMax \in Nat
  BY ChunkArithAssumption DEF ArithInv, ArithType, Enter
<1>2. Admissible' <=> Admissible
  BY <1>1 DEF Admissible
<1>3. CASE chunk_sz = 0
  <2>1. chunks' = 0 /\ pc' \in {"loop", "trapped"} /\ ~Admissible
    BY <1>3 DEF Enter, Admissible
  <2> QED
    BY <1>1, <1>2, <2>1 DEF ArithInv, ArithType, NotCutting
<1>4. CASE chunk_sz < 0
  <2>1. chunks' \in Int /\ pc' \in {"loop", "thrown"}
    <3>1. Dividend \in Int
      BY <1>1, Int32Type DEF Dividend
    <3> QED
      BY <1>1, <1>4, <3>1, QuotientType DEF Enter
  <2>2. ~Admissible
    BY <1>1, <1>4 DEF Admissible
  <2> QED
    BY <1>1, <1>2, <1>4, <2>1, <2>2 DEF ArithInv, ArithType, NotCutting
<1>5. CASE chunk_sz > 0 /\ Admissible
  <2>1. Dividend = total + chunk_sz - 1 /\ chunk_sz \in 1 .. IntMax
    BY <1>1, <1>5, DividendValue
  <2>2. Quotient(Dividend, chunk_sz) = Needed(total, chunk_sz)
    BY <1>1, <2>1 DEF Quotient, Abs, Needed
  <2>3. Needed(total, chunk_sz) \in Nat
    BY <1>1, <2>1, RoundUp
  <2>4. chunks' = Needed(total, chunk_sz) /\ pc' = "loop"
    BY <1>5, <2>2, <2>3 DEF Enter, Reservable
  <2>5. Cutting'
    BY <1>1, <1>5, <2>3, <2>4 DEF ArithInv, Cutting
  <2> QED
    BY <1>1, <1>2, <1>5, <2>3, <2>4, <2>5 DEF ArithInv, ArithType
<1>6. CASE chunk_sz > 0 /\ ~Admissible
  <2>1. Dividend \in Int /\ Dividend < 0 /\ chunk_sz \in 1 .. IntMax
    BY <1>1, <1>6, DividendValue
  <2>2. Quotient(Dividend, chunk_sz) = -((-Dividend) \div chunk_sz)
    BY <2>1 DEF Quotient, Abs
  <2>3. (-Dividend) \div chunk_sz \in Nat
    BY <1>1, <2>1, Division
  <2>4. chunks' \in Int /\ chunks' <= 0 /\ pc' \in {"loop", "thrown"}
    BY <1>6, <2>2, <2>3 DEF Enter
  <2> QED
    BY <1>1, <1>2, <1>6, <2>4 DEF ArithInv, ArithType, NotCutting
<1> QED
  BY <1>1, <1>3, <1>4, <1>5, <1>6

\* One turn of the loop; with admissible lanes no number in it overflows.
LEMMA CutChunkInv == ArithInv /\ CutChunk => ArithInv'
<1> SUFFICES ASSUME ArithInv, CutChunk PROVE ArithInv'
  OBVIOUS
<1>1. /\ total \in 0 .. IntMax /\ chunk_sz \in (-IntMax - 1) .. IntMax /\ c \in Nat
      /\ UNCHANGED <<total, chunk_sz, chunks>> /\ pc = "loop" /\ c < chunks
      /\ chunks \in Int /\ IntMax \in Nat
  BY ChunkArithAssumption DEF ArithInv, ArithType, CutChunk
<1>2. Admissible' <=> Admissible
  BY <1>1 DEF Admissible
<1>3. CASE Admissible
  <2>1. /\ chunk_sz \in Nat \ {0} /\ total \in Nat /\ total + chunk_sz - 1 <= IntMax
        /\ chunks = Needed(total, chunk_sz)
        /\ slices = [k \in 1 .. c |-> Cut(total, chunk_sz, k)]
    BY <1>1, <1>3 DEF ArithInv, Cutting, Admissible
  <2>2. c * chunk_sz < total /\ c * chunk_sz \in Nat
    BY <1>1, <2>1, RoundUp
  <2>3. start = c * chunk_sz
    BY <1>1, <2>2, InRange DEF start
  <2>4. Int32(start + chunk_sz) = start + chunk_sz
    <3>1. start + chunk_sz \in (-IntMax - 1) .. IntMax
      BY <1>1, <2>1, <2>2, <2>3
    <3> QED
      BY <3>1, InRange
  <2>5. (c + 1) * chunk_sz = start + chunk_sz /\ ((c + 1) - 1) * chunk_sz = start
    BY <1>1, <2>1, <2>3
  <2>6. <<start, end>> = Cut(total, chunk_sz, c + 1)
    BY <2>4, <2>5 DEF end, Cut
  <2>7. end - start \in Nat
    BY <2>1, <2>2, <2>3, <2>4 DEF end
  <2>8. slices' = Append(slices, Cut(total, chunk_sz, c + 1)) /\ c' = c + 1 /\ pc' = pc
    BY <2>6, <2>7 DEF CutChunk, Reservable
  <2>9. slices' = [k \in 1 .. c + 1 |-> Cut(total, chunk_sz, k)]
    <3>1. \A k \in 1 .. c : slices[k] = Cut(total, chunk_sz, k)
      BY <2>1
    <3>2. Len(slices) = c /\ slices = [k \in 1 .. c |-> slices[k]]
      BY <1>1, <2>1
    <3> QED
      BY <1>1, <2>1, <2>8, <3>1, <3>2
  <2>10. Cutting'
    BY <1>1, <2>1, <2>8, <2>9 DEF Cutting
  <2> QED
    BY <1>1, <1>2, <1>3, <2>8, <2>10 DEF ArithInv, ArithType
<1>4. CASE ~Admissible
  <2>1. c = 0 /\ slices = <<>> /\ (chunk_sz >= 0 => chunks <= 0)
    BY <1>4 DEF ArithInv, NotCutting
  <2>2. chunk_sz < 0
    BY <1>1, <2>1
  <2>3. start = 0 /\ Int32(start + chunk_sz) = chunk_sz
    <3>1. c * chunk_sz = 0
      BY <1>1, <2>1
    <3>2. start = 0
      BY <1>1, <3>1, InRange DEF start
    <3> QED
      BY <1>1, <3>2, InRange
  <2>4. ~Reservable(end - start)
    BY <1>1, <2>2, <2>3 DEF end, Reservable
  <2>5. pc' = "thrown" /\ UNCHANGED <<c, slices>>
    BY <2>4 DEF CutChunk
  <2> QED
    BY <1>1, <1>2, <1>4, <2>1, <2>5 DEF ArithInv, ArithType, NotCutting
<1> QED
  BY <1>3, <1>4

\* Every step of expand_to_batches keeps the invariant.
LEMMA ArithNext == ArithInv /\ [Next]_vars => ArithInv'
<1> SUFFICES ASSUME ArithInv, [Next]_vars PROVE ArithInv'
  OBVIOUS
<1>1. CASE Leave
  <2>1. /\ UNCHANGED <<total, chunk_sz, chunks, c, slices>> /\ pc = "loop" /\ pc' = "done"
        /\ c >= chunks
    BY <1>1 DEF Leave
  <2>2. Admissible' <=> Admissible
    BY <2>1 DEF Admissible
  <2>3. Admissible => Cutting'
    BY <2>1 DEF ArithInv, ArithType, Cutting
  <2> QED
    BY <2>1, <2>2, <2>3 DEF ArithInv, ArithType, NotCutting
<1>2. CASE UNCHANGED vars
  BY <1>2 DEF vars, ArithInv, ArithType, Admissible, Cutting, NotCutting
<1> QED
  BY <1>1, <1>2, EnterInv, CutChunkInv DEF Next, Ended

\* So it holds throughout.
LEMMA ArithInvariance == Spec => []ArithInv
<1> QED
  BY ArithInit, ArithNext, PTL DEF Spec

-----------------------------------------------------------------------------
\* With positive lanes whose sum with the number of pairs does not overflow,
\* expand_to_batches returns, and its batches partition the pairs.
THEOREM PairsSliced == Spec => []EveryPairSliced
<1>1. ArithInv => EveryPairSliced
  <2> SUFFICES ASSUME ArithInv, Admissible
               PROVE  /\ pc \notin {"thrown", "trapped"}
                      /\ pc = "done" => IsPartition
    BY DEF EveryPairSliced
  <2>1. Cutting /\ total \in Nat /\ chunk_sz \in Nat \ {0} /\ c \in Nat
    BY ChunkArithAssumption DEF ArithInv, ArithType, Admissible
  <2>2. ASSUME pc = "done" PROVE IsPartition
    <3>1. c = Needed(total, chunk_sz) /\ slices = [k \in 1 .. c |-> Cut(total, chunk_sz, k)]
      BY <2>1, <2>2 DEF Cutting
    <3>2. DOMAIN slices = 1 .. c /\ Len(slices) = c
      BY <2>1, <3>1
    <3>3. ASSUME NEW k \in 1 .. c
          PROVE  /\ slices[k][1] = IF k = 1 THEN 0 ELSE slices[k - 1][2]
                 /\ slices[k][2] - slices[k][1] \in 1 .. chunk_sz
      <4>1. slices[k] = Cut(total, chunk_sz, k)
        BY <3>1
      <4>2. k # 1 => slices[k - 1] = Cut(total, chunk_sz, k - 1)
        BY <2>1, <3>1
      <4> QED
        BY <2>1, <3>1, <4>1, <4>2, CutFits
    <3>4. c # 0 => slices[c] = Cut(total, chunk_sz, c)
      BY <2>1, <3>1
    <3>5. total = IF slices = <<>> THEN 0 ELSE slices[Len(slices)][2]
      <4>1. CASE c = 0
        <5>1. total = 0
          BY <2>1, <3>1, <4>1, RoundUp
        <5>2. slices = <<>>
          BY <3>1, <4>1
        <5> QED
          BY <5>1, <5>2
      <4>2. CASE c # 0
        <5>1. slices # <<>>
          BY <2>1, <3>2, <4>2
        <5> QED
          BY <2>1, <3>1, <3>2, <3>4, <4>2, <5>1, LastCut
      <4> QED
        BY <4>1, <4>2
    <3> QED
      BY <3>2, <3>3, <3>5 DEF IsPartition
  <2> QED
    BY <2>1, <2>2 DEF Cutting
<1> QED
  BY <1>1, ArithInvariance, PTL

\* Whatever --simd_lanes is, no batch reads outside the request's pairs.
THEOREM NoStrayReads == Spec => []SlicesInBounds
<1>1. ArithInv => SlicesInBounds
  <2> SUFFICES ASSUME ArithInv, NEW k \in DOMAIN slices
               PROVE  /\ 0 <= slices[k][1] /\ slices[k][1] <= slices[k][2]
                      /\ slices[k][2] <= total
    BY DEF SlicesInBounds
  <2>1. CASE ~Admissible
    BY <2>1 DEF ArithInv, NotCutting
  <2>2. CASE Admissible
    <3>1. Cutting /\ total \in Nat /\ chunk_sz \in Nat \ {0} /\ c \in Nat
      BY <2>2, ChunkArithAssumption DEF ArithInv, ArithType, Admissible
    <3>2. /\ slices = [j \in 1 .. c |-> Cut(total, chunk_sz, j)]
          /\ c # 0 => c <= Needed(total, chunk_sz)
      BY <3>1 DEF Cutting
    <3>3. k \in 1 .. Needed(total, chunk_sz) /\ slices[k] = Cut(total, chunk_sz, k)
      <4>1. Needed(total, chunk_sz) \in Nat /\ k \in 1 .. c
        BY <3>1, <3>2, RoundUp
      <4> QED
        BY <3>1, <3>2, <4>1
    <3>4. /\ Cut(total, chunk_sz, k)[1] \in Nat /\ Cut(total, chunk_sz, k)[2] \in Nat
          /\ Cut(total, chunk_sz, k)[2] - Cut(total, chunk_sz, k)[1] \in 1 .. chunk_sz
          /\ Cut(total, chunk_sz, k)[2] <= total
      BY <3>1, <3>3, CutFits
    <3> QED
      BY <3>1, <3>3, <3>4
  <2> QED
    BY <2>1, <2>2
<1> QED
  BY <1>1, ArithInvariance, PTL

\* The ints of expand_to_batches compute what Batching computes without bound:
\* the server's theorems, which rest on Batching, are about this code too.
THEOREM IntsSuffice == Spec => []AgreesWithBatching
<1>1. ArithInv => AgreesWithBatching
  <2> SUFFICES ASSUME ArithInv, Admissible, pc = "done"
               PROVE  slices = [k \in 1 .. Unbounded(chunk_sz)!Chunks(total) |->
                                  <<Unbounded(chunk_sz)!ChunkStart(k - 1),
                                    Unbounded(chunk_sz)!ChunkEnd(k - 1, total)>>]
    BY DEF AgreesWithBatching
  <2>1. Cutting /\ total \in Nat /\ chunk_sz \in Nat \ {0} /\ c \in Nat
    BY ChunkArithAssumption DEF ArithInv, ArithType, Admissible
  <2>2. slices = [k \in 1 .. Needed(total, chunk_sz) |-> Cut(total, chunk_sz, k)]
    BY <2>1 DEF Cutting
  <2>3. Unbounded(chunk_sz)!Chunks(total) = Needed(total, chunk_sz)
    BY DEF Needed, Unbounded!Chunks
  <2>4. ASSUME NEW k \in 1 .. Needed(total, chunk_sz)
        PROVE  Cut(total, chunk_sz, k) = <<Unbounded(chunk_sz)!ChunkStart(k - 1),
                                           Unbounded(chunk_sz)!ChunkEnd(k - 1, total)>>
    <3>1. (k - 1) * chunk_sz + chunk_sz = k * chunk_sz
      BY <2>1, RoundUp
    <3> QED
      BY <3>1 DEF Cut, Unbounded!ChunkStart, Unbounded!ChunkEnd
  <2> QED
    BY <2>2, <2>3, <2>4
<1> QED
  BY <1>1, ArithInvariance, PTL
=============================================================================
