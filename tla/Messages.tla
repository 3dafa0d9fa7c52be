------------------------------ MODULE Messages ------------------------------
(***************************************************************************)
(* The tables of schemas/pricing_request.fbs, as sets of records.          *)
(*                                                                         *)
(* A float is an integer: the server only copies floats, compares two of   *)
(* them with 0 and hands them to the pricing kernel.  The price of a row   *)
(* is the exponent -r*T of the stub model exp(-r*T); exp is injective, so  *)
(* two rows have the same exponent exactly when they have the same price.  *)
(***************************************************************************)
EXTENDS Integers, Sequences

CONSTANT MaxTables  \* Verifier::Options.max_tables

\* The two tables of a request or of a batch, whose pairs are structs, are within
\* the limit, which is a million.
ASSUME MaxTablesAssumption == MaxTables \in Nat \ {0, 1}

OptionType == {"Call", "Put"}

PricingParams ==
    [option_type : OptionType, stock_price : Int, strike_price : Int,
     interest_rate : Int, time_to_maturity : Int, stock_discretization : Int]

AlphaBetaPair == [idx : Nat, alpha : Int, beta : Int]

RangePricingRequest ==
    [request : PricingParams, request_hash : Nat, pairs : Seq(AlphaBetaPair)]

PricingResponse ==
    [idx : Nat, alpha : Int, beta : Int, price : Int, hedge_ratio : Int]

RangePricingResponse ==
    [request_hash : Nat, results : Seq(PricingResponse)]

\* Verifying a response counts its own table and one table for every row, and
\* gives up beyond max_tables.
Verifies(results) == Len(results) + 1 <= MaxTables

(***************************************************************************)
(* The two messages of the inproc pipes.  batch_counter_id is              *)
(* request_hash * 1000 + c; the server never reads it back (worker threads *)
(* log it), so it is abstracted to the chunk number c that tells the       *)
(* batches of one request apart.  A worker that fails sends a zero-length  *)
(* message: ok is FALSE, results is empty, and batch_id is then an         *)
(* auxiliary field that no action reads.                                   *)
(***************************************************************************)
BatchPricingRequest ==
    [batch_counter_id : Nat, request : PricingParams, pairs : Seq(AlphaBetaPair)]

BatchPricingResponse ==
    [batch_id : Nat, ok : BOOLEAN, results : Seq(PricingResponse)]
=============================================================================
