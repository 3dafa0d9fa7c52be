------------------------------- MODULE Pricer -------------------------------
(***************************************************************************)
(* range_pricer::process (range_pricer.cpp), the call a worker thread      *)
(* makes for one batch.  What vectorized_price stores in the lanes is in   *)
(* module Kernel; here it is its result.                                   *)
(***************************************************************************)
EXTENDS Messages

\* The two checks that throw std::invalid_argument.
ParamsRejected(params) ==
    \/ params.time_to_maturity <= 0
    \/ params.stock_discretization <= 0

\* The exponent of exp(-r*T), what every lane and the scalar tail hold.
PresentValue(params) == -(params.interest_rate * params.time_to_maturity)

PriceRow(params, pair) ==
    [idx |-> pair.idx, alpha |-> pair.alpha, beta |-> pair.beta,
     price |-> PresentValue(params), hedge_ratio |-> 0]

PriceRows(params, pairs) ==
    [k \in 1 .. Len(pairs) |-> PriceRow(params, pairs[k])]

\* The serialised response to a batch, and the zero-length message that
\* stands for a batch whose pricing threw.
Priced(batch) ==
    [batch_id |-> batch.batch_counter_id, ok |-> TRUE,
     results  |-> PriceRows(batch.request, batch.pairs)]

Failed(batch) ==
    [batch_id |-> batch.batch_counter_id, ok |-> FALSE, results |-> <<>>]
=============================================================================
