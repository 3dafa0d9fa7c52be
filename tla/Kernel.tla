------------------------------- MODULE Kernel -------------------------------
(***************************************************************************)
(* vectorized_price (range_pricer.cpp), one store at a time: a loop that   *)
(* stores N lanes, then a scalar tail.  The buffers prices and             *)
(* hedge_ratios have `count' elements (process() and price() size them     *)
(* with the number of pairs) and are stored to at the same places, so one  *)
(* set of places stands for both.                                          *)
(*                                                                         *)
(* Which of the two loops stores an element matters: the first stores      *)
(* hn::Exp, Highway's polynomial, the second std::exp.  And the first      *)
(* stores with hn::Store, Highway's aligned store: the address must be a   *)
(* multiple of the vector's size, or the processor faults.  The buffers    *)
(* are std::vectors, whose allocator aligns to 16 bytes, whatever N is.    *)
(***************************************************************************)
EXTENDS Integers

CONSTANTS
    Counts,  \* the batch sizes considered
    Widths,  \* the lane counts of the SIMD targets that may be selected
    Align    \* the alignment of an allocation, in floats: 16 bytes are 4

ASSUME KernelAssumption ==
    /\ Counts \subseteq Nat
    /\ Widths \subseteq Nat \ {0}
    /\ Align \in Nat \ {0}

VARIABLES
    count,   \* the number of pairs
    N,       \* hn::Lanes(d) of the target HWY_DYNAMIC_DISPATCH selected
    prices, hedge_ratios,  \* their addresses, in floats, modulo N
    i,       \* the index of both loops
    pc,      \* "lanes", "tail", "done" or "fault"
    stored,  \* the places stored to
    again,   \* the places stored to more than once
    scalar   \* the places the tail stored to

args == <<count, N, prices, hedge_ratios>>
vars == <<args, i, pc, stored, again, scalar>>

StoreAt(places) ==
    /\ stored' = stored \cup places
    /\ again' = again \cup (stored \cap places)

\* The guard of the vector loop: a whole vector is left.  Wrongly, any element
\* is left; or a last full vector is left to the tail.
VectorLeft_AnyElement == i < count
VectorLeft_Strict == i + N < count
VectorLeft == i + N <= count

\* The loop's increment; wrongly, none.
NextVector_Same == i
NextVector == i + N

\* What hn::Store requires of prices + i and of hedge_ratios + i.
Aligned == (prices + i) % N = 0 /\ (hedge_ratios + i) % N = 0

\* hn::Store writes the N elements from prices + i on.
StoreLanes ==
    /\ pc = "lanes"
    /\ VectorLeft
    /\ Aligned
    /\ StoreAt(i .. i + N - 1)
    /\ i' = NextVector
    /\ UNCHANGED <<args, pc, scalar>>

\* A misaligned store ends the process with SIGSEGV.  That prices may have been
\* stored before hedge_ratios faults makes no difference then.
StoreFaults ==
    /\ pc = "lanes"
    /\ VectorLeft
    /\ ~Aligned
    /\ pc' = "fault"
    /\ UNCHANGED <<args, i, stored, again, scalar>>

\* What follows the vector loop; wrongly, no scalar tail.
AfterLanes_NoTail == "done"
AfterLanes == IF i < count THEN "tail" ELSE "done"

LeaveLanes ==
    /\ pc = "lanes"
    /\ ~VectorLeft
    /\ pc' = AfterLanes
    /\ UNCHANGED <<args, i, stored, again, scalar>>

StoreScalar ==
    /\ pc = "tail"
    /\ StoreAt({i})
    /\ scalar' = scalar \cup {i}
    /\ i' = i + 1
    /\ pc' = IF i + 1 < count THEN "tail" ELSE "done"
    /\ UNCHANGED args

\* The residues, modulo the lanes n, of the addresses an allocation may have.
Addresses(n) == {a \in 0 .. n - 1 : \E k \in 0 .. n : (k * Align) % n = a}

Done == pc \in {"done", "fault"} /\ UNCHANGED vars

Init ==
    /\ count \in Counts /\ N \in Widths
    /\ prices \in Addresses(N) /\ hedge_ratios \in Addresses(N)
    /\ i = 0 /\ pc = "lanes"
    /\ stored = {} /\ again = {} /\ scalar = {}

Next == StoreLanes \/ StoreFaults \/ LeaveLanes \/ StoreScalar \/ Done

Spec == Init /\ [][Next]_vars

\* The loop runs on the thread that called it.
FairSpec == Spec /\ WF_vars(StoreLanes \/ StoreFaults \/ LeaveLanes \/ StoreScalar)
-----------------------------------------------------------------------------
\* No store is outside the buffers, whatever the lane count and the batch size,
\* and no element is stored twice, so no lane overwrites another's.
StoresInBounds == stored \subseteq 0 .. count - 1 /\ again = {}

\* When the kernel returns, every element has been stored: no price that
\* process() reads is one of the zeros the vector was made with.
AllStored == pc = "done" => stored = 0 .. count - 1

\* Neither loop runs for ever.
KernelEnds == <>(pc \in {"done", "fault"})

\* Every batch is priced, on every target: no store faults.
NoFault == pc # "fault"

\* Which exp a pair's price comes from depends on its place in the batch alone:
\* the last count % N elements, and no others, come from the tail.
TailIsRemainder ==
    pc = "done" => scalar = (count - (count % N)) .. count - 1

\* Only vectors wider than the allocator's alignment fault (AVX2 and AVX-512,
\* never SSE or NEON), and only for a batch of at least one vector: batches of
\* the default four pairs never do.
FaultNeedsWideVector ==
    pc = "fault" => /\ Align % N # 0
                    /\ count >= N
=============================================================================
