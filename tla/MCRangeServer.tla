---------------------------- MODULE MCRangeServer ----------------------------
(***************************************************************************)
(* Small instances of RangeServer.                                         *)
(***************************************************************************)
EXTENDS ServiceRefinement

Params == [option_type |-> "Put", stock_price |-> 100, strike_price |-> 110,
           interest_rate |-> 3, time_to_maturity |-> 2, stock_discretization |-> 1]

Grid(n) == [i \in 1 .. n |-> [idx |-> i - 1, alpha |-> i, beta |-> 0]]

Req(hash, params, pairs) ==
    [request |-> params, request_hash |-> hash, pairs |-> pairs]

\* idx need not follow the order of the pairs, nor be unique.
Shuffled ==
    <<[idx |-> 1, alpha |-> 5, beta |-> 6], [idx |-> 0, alpha |-> 7, beta |-> 8],
      [idx |-> 1, alpha |-> 9, beta |-> 9]>>

Rejected == [Params EXCEPT !.time_to_maturity = 0]

ThreeChunks == Req(11, [Params EXCEPT !.interest_rate = 5], Grid(5))
TwoChunks   == Req(12, Params, Shuffled)
NoPairs     == Req(13, Params, <<>>)
BadParams   == Req(14, Rejected, Grid(3))

AllRequests == {ThreeChunks, TwoChunks, NoPairs, BadParams, Malformed}

LiveRequests == {TwoChunks}

\* Of 1, 5, 6 and 8 chunks: a request that leaves the pipes' reports behind, one
\* that just fits, one beyond the certain capacity of one worker's pipes of three,
\* and one beyond all the room there is.  Chunks of two pairs, whose responses are
\* beyond a limit of two tables, but for the last, which has one.
CapacityRequests == {Req(n, Params, Grid(2 * n - 1)) : n \in {1, 5, 6, 8}}

\* Four batches, for the three that one worker's pipes of one hold.
BeyondCapacity == {Req(15, Params, Grid(4))}

WorkerSymmetry == Permutations(Workers)
ClientSymmetry == Permutations(Clients)
=============================================================================
