---------------------------- MODULE KernelProofs ----------------------------
(***************************************************************************)
(* vectorized_price stores every element once and nothing else, each by    *)
(* the loop its place calls for, and faults on wide vectors only; for all  *)
(* batch sizes, lane counts and alignments.                                *)
(***************************************************************************)
EXTENDS Kernel, TLAPS

\* The loops fill the buffers from the left: what is stored is what is below i.
KernelInv ==
    /\ count \in Nat /\ N \in Nat \ {0} /\ i \in Nat
    /\ pc \in {"lanes", "tail", "done", "fault"}
    /\ i <= count
    /\ pc = "tail" => i < count
    /\ pc = "done" => i = count
    /\ stored = 0 .. i - 1
    /\ again = {}

\* The loop invariant holds before the first store of vectorized_price.
LEMMA KernelInvInit == Init => KernelInv
BY KernelAssumption DEF Init, KernelInv

\* Each store of the kernel, and the step between its loops, keep it.
LEMMA KernelInvNext == KernelInv /\ [Next]_vars => KernelInv'
<1> SUFFICES ASSUME KernelInv, [Next]_vars PROVE KernelInv'
  OBVIOUS
<1> USE DEF KernelInv
<1>1. CASE StoreLanes
  <2>1. i' = i + N /\ i + N <= count /\ UNCHANGED <<count, N, pc>> /\ pc = "lanes"
    BY <1>1 DEF StoreLanes, args, VectorLeft, NextVector
  <2>2. (0 .. i - 1) \cap (i .. i + N - 1) = {}
    OBVIOUS
  <2>3. (0 .. i - 1) \cup (i .. i + N - 1) = 0 .. i + N - 1
    OBVIOUS
  <2>4. stored' = 0 .. i' - 1 /\ again' = {}
    BY <1>1, <2>1, <2>2, <2>3 DEF StoreLanes, StoreAt
  <2> QED
    BY <2>1, <2>4
<1>2. CASE LeaveLanes \/ StoreFaults
  BY <1>2 DEF LeaveLanes, StoreFaults, args, VectorLeft, AfterLanes
<1>3. CASE StoreScalar
  <2>1. pc = "tail" /\ i' = i + 1 /\ i < count /\ UNCHANGED <<count, N>>
    BY <1>3 DEF StoreScalar, args
  <2>2. pc' \in {"tail", "done"} /\ (pc' = "tail" => i' < count) /\ (pc' = "done" => i' = count)
    BY <1>3, <2>1 DEF StoreScalar
  <2>3. (0 .. i - 1) \cap {i} = {} /\ (0 .. i - 1) \cup {i} = 0 .. i
    OBVIOUS
  <2>4. stored' = 0 .. i' - 1 /\ again' = {}
    BY <1>3, <2>1, <2>3 DEF StoreScalar, StoreAt
  <2> QED
    BY <2>1, <2>2, <2>4
<1>4. CASE Done \/ UNCHANGED vars
  BY <1>4 DEF Done, vars, args
<1> QED
  BY <1>1, <1>2, <1>3, <1>4 DEF Next

\* So it holds throughout a call of vectorized_price.
LEMMA KernelInvariance == Spec => []KernelInv
<1> QED
  BY KernelInvInit, KernelInvNext, PTL DEF Spec

\* No store of the kernel is outside the buffers, and none is repeated.
THEOREM KernelInBounds == Spec => []StoresInBounds
<1>1. KernelInv => StoresInBounds
  BY DEF KernelInv, StoresInBounds
<1> QED
  BY <1>1, KernelInvariance, PTL

\* When the kernel returns, every element of the buffers has been stored.
THEOREM KernelComplete == Spec => []AllStored
<1>1. KernelInv => AllStored
  BY DEF KernelInv, AllStored
<1> QED
  BY <1>1, KernelInvariance, PTL
-----------------------------------------------------------------------------
(***************************************************************************)
(* Which loop stores an element, and when a store faults.                  *)
(***************************************************************************)

\* Remainders, from the quotient.
LEMMA Remainder ==
    ASSUME NEW a \in Int, NEW n \in Nat \ {0}, NEW q \in Int, NEW r \in 0 .. n - 1,
           a = q * n + r
    PROVE  a % n = r
OBVIOUS

\* A number without remainder is a multiple.
LEMMA Multiple ==
    ASSUME NEW a \in Int, NEW n \in Nat \ {0}, a % n = 0
    PROVE  a = (a \div n) * n /\ a \div n \in Int
OBVIOUS

Multiples == {q * N : q \in Nat}

\* The vector loop stands at a multiple of the lanes; the tail begins where no
\* whole vector is left; a fault is that of a whole vector at such a place.
LoopInv ==
    /\ prices \in Addresses(N) /\ hedge_ratios \in Addresses(N)
    /\ pc \in {"lanes", "fault"} => i \in Multiples /\ scalar = {}
    /\ pc \in {"tail", "done"} =>
          \E first \in Multiples : /\ first <= i /\ count < first + N
                                   /\ scalar = first .. i - 1
    /\ pc = "fault" => i + N <= count /\ ~Aligned

\* The loops of vectorized_price have not begun.
LEMMA LoopInvInit == Init => LoopInv
<1> SUFFICES ASSUME Init PROVE LoopInv
  OBVIOUS
<1>1. N \in Nat \ {0}
  BY KernelAssumption DEF Init
<1>2. 0 \in Multiples
  BY <1>1 DEF Multiples
<1> QED
  BY <1>1, <1>2 DEF Init, LoopInv

\* Each store of the kernel, and the step between its loops, keep it.
LEMMA LoopInvNext == KernelInv /\ LoopInv /\ [Next]_vars => LoopInv'
<1> SUFFICES ASSUME KernelInv, LoopInv, [Next]_vars PROVE LoopInv'
  OBVIOUS
<1>0. count \in Nat /\ N \in Nat \ {0} /\ i \in Nat /\ i <= count
  BY DEF KernelInv
<1>1. CASE StoreLanes
  <2>1. pc = "lanes" /\ i' = i + N /\ UNCHANGED <<count, N, prices, hedge_ratios, pc, scalar>>
    BY <1>1 DEF StoreLanes, args, NextVector
  <2>2. PICK q \in Nat : i = q * N
    BY <2>1 DEF LoopInv, Multiples
  <2>3. i' = (q + 1) * N /\ q + 1 \in Nat
    BY <1>0, <2>1, <2>2
  <2>4. i' \in Multiples'
    BY <2>1, <2>3 DEF Multiples
  <2> QED
    BY <2>1, <2>4 DEF LoopInv, Addresses
<1>2. CASE StoreFaults
  BY <1>2, <1>0 DEF StoreFaults, args, LoopInv, VectorLeft, Aligned, Multiples, Addresses
<1>3. CASE LeaveLanes
  <2>1. /\ pc = "lanes" /\ pc' \in {"tail", "done"} /\ count < i + N
        /\ UNCHANGED <<count, N, prices, hedge_ratios, i, scalar>>
    BY <1>3, <1>0 DEF LeaveLanes, args, VectorLeft, AfterLanes
  <2>2. i \in Multiples /\ scalar = {} /\ Multiples' = Multiples
    BY <2>1 DEF LoopInv, Multiples
  <2>3. scalar' = i .. i' - 1 /\ i <= i' /\ count' < i + N'
    BY <1>0, <2>1, <2>2
  <2>4. prices' \in Addresses(N)' /\ hedge_ratios' \in Addresses(N)'
    BY <2>1 DEF LoopInv, Addresses
  <2> QED
    BY <2>1, <2>2, <2>3, <2>4 DEF LoopInv
<1>4. CASE StoreScalar
  <2>1. /\ pc = "tail" /\ pc' \in {"tail", "done"} /\ i' = i + 1 /\ scalar' = scalar \cup {i}
        /\ UNCHANGED <<count, N, prices, hedge_ratios>>
    BY <1>4 DEF StoreScalar, args
  <2>2. PICK first \in Multiples : first <= i /\ count < first + N /\ scalar = first .. i - 1
    BY <2>1 DEF LoopInv
  <2>3. first \in Nat /\ Multiples' = Multiples
    BY <1>0, <2>1, <2>2 DEF Multiples
  <2>4. first <= i' /\ count' < first + N' /\ scalar' = first .. i' - 1
    BY <1>0, <2>1, <2>2, <2>3
  <2>5. prices' \in Addresses(N)' /\ hedge_ratios' \in Addresses(N)'
    BY <2>1 DEF LoopInv, Addresses
  <2> QED
    BY <2>1, <2>2, <2>3, <2>4, <2>5 DEF LoopInv
<1>5. CASE Done \/ UNCHANGED vars
  BY <1>5 DEF Done, vars, args, LoopInv, Multiples, Addresses, Aligned
<1> QED
  BY <1>1, <1>2, <1>3, <1>4, <1>5 DEF Next

\* So it holds throughout a call of vectorized_price.
LEMMA LoopInvariance == Spec => [](KernelInv /\ LoopInv)
<1> QED
  BY KernelInvInit, KernelInvNext, LoopInvInit, LoopInvNext, PTL DEF Spec

\* The scalar tail stores the last count % N elements and no others, so which exp
\* a price comes from depends on the pair's place in the batch alone.
THEOREM KernelTail == Spec => []TailIsRemainder
<1>1. KernelInv /\ LoopInv => TailIsRemainder
  <2> SUFFICES ASSUME KernelInv, LoopInv, pc = "done"
               PROVE  scalar = (count - (count % N)) .. count - 1
    BY DEF TailIsRemainder
  <2>1. count \in Nat /\ N \in Nat \ {0} /\ i = count
    BY DEF KernelInv
  <2>2. PICK first \in Multiples : first <= i /\ count < first + N /\ scalar = first .. i - 1
    BY DEF LoopInv
  <2>3. PICK q \in Nat : first = q * N
    BY <2>2 DEF Multiples
  <2>4. count = q * N + (count - first) /\ count - first \in 0 .. N - 1 /\ first \in Nat
    BY <2>1, <2>2, <2>3
  <2>5. count % N = count - first
    <3> DEFINE r == count - first
    <3>1. count = q * N + r /\ r \in 0 .. N - 1 /\ count \in Int /\ q \in Int
      BY <2>1, <2>4
    <3> HIDE DEF r
    <3>2. count % N = r
      BY <2>1, <3>1, Remainder
    <3> QED
      BY <3>2 DEF r
  <2> QED
    BY <2>1, <2>2, <2>4, <2>5
<1> QED
  BY <1>1, LoopInvariance, PTL

\* Addresses of an allocator whose alignment the vector's size divides are
\* aligned to the vector.
LEMMA NarrowAddresses ==
    ASSUME NEW n \in Nat \ {0}, Align % n = 0, NEW a \in Addresses(n)
    PROVE  a = 0
<1>1. PICK k \in 0 .. n : (k * Align) % n = a
  BY DEF Addresses
<1>2. Align = (Align \div n) * n /\ Align \div n \in Int
  BY Multiple, KernelAssumption
<1> DEFINE m == Align \div n
<1> HIDE DEF m
<1>3. Align = m * n /\ m \in Int /\ k \in Int
  BY <1>1, <1>2 DEF m
<1>4. k * Align = (k * m) * n + 0 /\ k * m \in Int /\ k * Align \in Int
  BY <1>3
<1>5. (k * Align) % n = 0
  BY <1>4, Remainder
<1> QED
  BY <1>1, <1>5

\* A store of the kernel faults only when the vector is wider than the
\* allocation's alignment, and only in a batch of at least one vector.
THEOREM FaultsAreWide == Spec => []FaultNeedsWideVector
<1>1. KernelInv /\ LoopInv => FaultNeedsWideVector
  <2> SUFFICES ASSUME KernelInv, LoopInv, pc = "fault"
               PROVE  Align % N # 0 /\ count >= N
    BY DEF FaultNeedsWideVector
  <2>1. count \in Nat /\ N \in Nat \ {0} /\ i \in Nat /\ i + N <= count /\ ~Aligned
    BY DEF KernelInv, LoopInv
  <2>2. PICK q \in Nat : i = q * N
    BY DEF LoopInv, Multiples
  <2>3. ASSUME Align % N = 0 PROVE FALSE
    <3>1. prices = 0 /\ hedge_ratios = 0
      BY <2>1, <2>3, NarrowAddresses DEF LoopInv
    <3>2. (0 + i) % N = 0
      BY <2>1, <2>2, Remainder
    <3> QED
      BY <2>1, <3>1, <3>2 DEF Aligned
  <2> QED
    BY <2>1, <2>3
<1> QED
  BY <1>1, LoopInvariance, PTL
=============================================================================
