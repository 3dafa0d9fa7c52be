---------------------------- MODULE RangeService ----------------------------
(***************************************************************************)
(* What a client is promised by the server, with no batches, pipes, worker *)
(* threads or context in sight: requests are taken one at a time, each is  *)
(* answered at most once, and the answer is the request's own.             *)
(*                                                                         *)
(* This is the reference that module ServiceRefinement shows RangeServer   *)
(* to implement.  It says what a right answer is, by the places of the     *)
(* pairs it prices, and not, as run_server does, how one is put together.  *)
(***************************************************************************)
EXTENDS Batching, Pricer, Functions

CONSTANTS Clients, PyClients, Requests, Malformed, None, MayThrow

VARIABLES
    up,       \* the server serves
    cstate, alive, request, reply  \* of each client, as in RangeServer

vars == <<up, cstate, alive, request, reply>>
-----------------------------------------------------------------------------
AllChunks(r) == 0 .. BatchCount(r) - 1

\* The chunks with so many rows that their response does not verify.
Oversize(r) == {k \in AllChunks(r) : ~Verifies(ChunkPairs(r.pairs, k))}

\* The sets of chunks whose rows an answer may lack.
Missing(r) ==
    CASE ParamsRejected(r.request) -> {AllChunks(r)}
      [] ~ParamsRejected(r.request) /\ MayThrow ->
            {m \in SUBSET AllChunks(r) : Oversize(r) \subseteq m}
      [] OTHER -> {Oversize(r)}

\* The places of the pairs that are left.
Left(r, missing) == {i \in DOMAIN r.pairs : (i - 1) \div SimdLanes \notin missing}

\* The rows price the pairs at these places, each once, whatever their order.
PriceAll(rows, r, places) ==
    \E f \in [DOMAIN rows -> places] :
        /\ f \in Bijection(DOMAIN rows, places)
        /\ \A k \in DOMAIN rows : rows[k] = PriceRow(r.request, r.pairs[f[k]])

ByIdx(rows) == \A j, k \in DOMAIN rows : j < k => rows[j].idx <= rows[k].idx

\* What may be answered to a request.
IsAnswer(r, a) ==
    IF r = Malformed
    THEN a = [request_hash |-> 0, results |-> <<>>]
    ELSE /\ a.request_hash = r.request_hash
         /\ ByIdx(a.results)
         /\ \E missing \in Missing(r) : PriceAll(a.results, r, Left(r, missing))
-----------------------------------------------------------------------------
Init ==
    /\ up = TRUE
    /\ cstate = [c \in Clients |-> "idle"]
    /\ alive = [c \in Clients |-> TRUE]
    /\ request = [c \in Clients |-> None]
    /\ reply = [c \in Clients |-> None]

Submit(c, r) ==
    /\ cstate[c] = "idle"
    /\ cstate' = [cstate EXCEPT ![c] = "sent"]
    /\ request' = [request EXCEPT ![c] = r]
    /\ UNCHANGED <<up, alive, reply>>

\* One request at a time.
Accept(c) ==
    /\ up = TRUE
    /\ cstate[c] = "sent"
    /\ \A d \in Clients : cstate[d] # "taken"
    /\ cstate' = [cstate EXCEPT ![c] = "taken"]
    /\ UNCHANGED <<up, alive, request, reply>>

Answer(c) ==
    /\ up = TRUE
    /\ cstate[c] = "taken"
    /\ \/ /\ alive[c]
          /\ cstate' = [cstate EXCEPT ![c] = "replied"]
          /\ reply'[c] \in RangePricingResponse
          /\ IsAnswer(request[c], reply'[c])
          /\ reply' = [reply EXCEPT ![c] = reply'[c]]
       \/ /\ ~alive[c]
          /\ cstate' = [cstate EXCEPT ![c] = "lost"]
          /\ reply' = reply
    /\ UNCHANGED <<up, alive, request>>

\* Only a client that verifies its reply may refuse it, and only for its size.
Receive(c) ==
    /\ cstate[c] = "replied"
    /\ alive[c]
    /\ \/ cstate' = [cstate EXCEPT ![c] = "done"]
       \/ /\ c \notin PyClients /\ ~Verifies(reply[c].results)
          /\ cstate' = [cstate EXCEPT ![c] = "refused"]
    /\ UNCHANGED <<up, alive, request, reply>>

Crash(c) ==
    /\ cstate[c] \in {"sent", "taken"}
    /\ alive[c]
    /\ alive' = [alive EXCEPT ![c] = FALSE]
    /\ UNCHANGED <<up, cstate, request, reply>>

\* A dead client's request that was not taken may be forgotten.
Forget(c) ==
    /\ cstate[c] = "sent"
    /\ ~alive[c]
    /\ cstate' = [cstate EXCEPT ![c] = "lost"]
    /\ UNCHANGED <<up, alive, request, reply>>

Stop ==
    /\ up = TRUE
    /\ up' = FALSE
    /\ UNCHANGED <<cstate, alive, request, reply>>

Next ==
    \/ Stop
    \/ \E c \in Clients :
          \/ \E r \in Requests : Submit(c, r)
          \/ Accept(c) \/ Answer(c) \/ Receive(c) \/ Crash(c) \/ Forget(c)

Spec == Init /\ [][Next]_vars
=============================================================================
