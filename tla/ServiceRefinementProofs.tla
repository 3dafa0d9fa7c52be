----------------------- MODULE ServiceRefinementProofs -----------------------
(***************************************************************************)
(* RangeServer implements RangeService, for any number of workers and      *)
(* clients, any requests, any simd_lanes >= 1, any high-water mark and any *)
(* limit on the tables of a message.                                       *)
(*                                                                         *)
(* A client's view is cstate, alive, request, reply and whether the server *)
(* is up.  Only frontend.recv, frontend.send and the clients' own steps    *)
(* change it; all the rest of run_server is a stuttering step.  What has   *)
(* to be shown is that the reply it ends with is an answer: which rows are *)
(* in all_results is the subject of Accounted.                             *)
(***************************************************************************)
EXTENDS ServiceRefinement, RangeServerProofs

\* One request at a time: while the server is up, only the request of peer is
\* taken, and no client is sent a reply before its request was served.
ClientInv ==
    /\ main \notin {"join", "exited"} =>
          \A c \in Clients : cstate[c] = "taken" => main \in {"reject", "serving"} /\ peer = c
    /\ main = "reject" => rr = Malformed
    /\ \A c \in Clients : cstate[c] \in {"idle", "sent", "taken"} => reply[c] = None

\* What process() may have made of the chunk id of the request r.
IsResult(r, m) ==
    \/ /\ ~ParamsRejected(r.request)
       /\ m = Priced(Batch(r, m.batch_id))
    \/ /\ ParamsRejected(r.request) \/ MayThrow
       /\ m = Failed(Batch(r, m.batch_id))

\* While a request is served, every message on its way is a chunk of it, or the
\* result of one.
OwnMessages ==
    main = "serving" =>
        \A w \in Workers :
            /\ \A k \in DOMAIN dispatch[w].queue :
                  dispatch[w].queue[k] = Batch(rr, dispatch[w].queue[k].batch_counter_id)
            /\ \A k \in DOMAIN results[w].queue : IsResult(rr, results[w].queue[k])
            /\ worker[w] = "pricing" => hand[w] = Batch(rr, hand[w].batch_counter_id)
            /\ worker[w] = "pushing" => IsResult(rr, hand[w])

\* The places of the pairs of some chunks.
Places(r, chunks) == {i \in DOMAIN r.pairs : (i - 1) \div SimdLanes \in chunks}

\* A chunk whose rows do not arrive has a reason not to.
MayLack(r, id) == ParamsRejected(r.request) \/ MayThrow \/ ~Verifies(ChunkPairs(r.pairs, id))

\* A chunk whose rows do arrive was priced, and its response verified.
MayKeep(r, id) == ~ParamsRejected(r.request) /\ Verifies(ChunkPairs(r.pairs, id))

\* The rows are those of the chunks in kept, of the chunks col, each once.
AccountFor(r, rows, col, kept) ==
    /\ kept \subseteq col
    /\ \A id \in kept : MayKeep(r, id)
    /\ \A id \in col \ kept : MayLack(r, id)
    /\ \E g \in [DOMAIN rows -> Places(r, kept)] :
          /\ g \in Bijection(DOMAIN rows, Places(r, kept))
          /\ \A k \in DOMAIN rows : rows[k] = PriceRow(r.request, r.pairs[g[k]])

\* The rows collected so far are those of some of the chunks collected so far.
Accounted ==
    /\ main \in {"binding", "recv", "reject"} => all_results = <<>>
    /\ main = "serving" =>
          /\ sent <= BatchCount(rr)
          /\ \E kept \in SUBSET Range(collected) :
                AccountFor(rr, all_results, Range(collected), kept)

\* A reply has no more rows than its request has pairs, or none.
SizedReply(c) ==
    /\ reply[c] \in RangePricingResponse
    /\ \/ Verifies(reply[c].results)
       \/ request[c] \in RangePricingRequest /\ Len(reply[c].results) <= Len(request[c].pairs)

ReplySizes ==
    \A c \in Clients :
        /\ cstate[c] = "replied" => SizedReply(c)
        /\ cstate[c] = "refused" => SizedReply(c) /\ ~Verifies(reply[c].results)
-----------------------------------------------------------------------------
(***************************************************************************)
(* Where the pairs of a chunk are.                                         *)
(***************************************************************************)

\* The chunks before the last begin before the last pair, and all of them
\* together reach it.
LEMMA ChunksReach ==
    ASSUME NEW n \in Nat
    PROVE  /\ Chunks(n) \in Nat
           /\ \A id \in 0 .. Chunks(n) - 1 : id * SimdLanes < n
           /\ n <= Chunks(n) * SimdLanes
<1> DEFINE a == n + SimdLanes - 1
           q == a \div SimdLanes
<1>1. a \in Nat /\ SimdLanes \in Nat \ {0}
  BY SimdLanesAssumption
<1> HIDE DEF a
<1>2. q \in Nat /\ q * SimdLanes <= a /\ a < q * SimdLanes + SimdLanes
  BY <1>1
<1>3. q = Chunks(n)
  BY DEF a, Chunks
<1> HIDE DEF q
<1>4. n <= q * SimdLanes
  BY <1>1, <1>2 DEF a
<1>5. ASSUME NEW id \in 0 .. q - 1 PROVE id * SimdLanes < n
  <2>1. id * SimdLanes + SimdLanes <= q * SimdLanes
    BY <1>1, <1>2, <1>5
  <2>2. id * SimdLanes \in Int /\ q * SimdLanes \in Int
    BY <1>1, <1>2, <1>5
  <2> QED
    BY <1>1, <1>2, <2>1, <2>2 DEF a
<1> QED
  BY <1>2, <1>3, <1>4, <1>5

\* The place i belongs to the chunk (i - 1) \div SimdLanes, one of the request's.
LEMMA ChunkOfPlace ==
    ASSUME NEW n \in Nat, NEW i \in 1 .. n
    PROVE  /\ (i - 1) \div SimdLanes \in 0 .. Chunks(n) - 1
           /\ \A id \in 0 .. Chunks(n) - 1 :
                (i - 1) \div SimdLanes = id <=> i \in ChunkStart(id) + 1 .. ChunkEnd(id, n)
<1> DEFINE q == (i - 1) \div SimdLanes
<1>1. SimdLanes \in Nat \ {0} /\ i - 1 \in Nat
  BY SimdLanesAssumption
<1>2. q \in Nat /\ q * SimdLanes <= i - 1 /\ i - 1 < q * SimdLanes + SimdLanes
  BY <1>1
<1> HIDE DEF q
<1>3. Chunks(n) \in Nat /\ n <= Chunks(n) * SimdLanes
  BY ChunksReach
<1>4. q < Chunks(n)
  <2> SUFFICES ASSUME Chunks(n) <= q PROVE FALSE
    BY <1>2, <1>3
  <2>1. Chunks(n) * SimdLanes <= q * SimdLanes
    BY <1>1, <1>2, <1>3
  <2>2. Chunks(n) * SimdLanes \in Int /\ q * SimdLanes \in Int
    BY <1>1, <1>2, <1>3
  <2> QED
    BY <1>2, <1>3, <2>1, <2>2
<1>5. ASSUME NEW id \in 0 .. Chunks(n) - 1
      PROVE  q = id <=> i \in ChunkStart(id) + 1 .. ChunkEnd(id, n)
  <2> DEFINE x == id * SimdLanes
  <2>1. x \in Nat /\ q * SimdLanes \in Nat
    BY <1>1, <1>2, <1>3
  <2>2. ChunkStart(id) = x /\ ChunkEnd(id, n) = IF x + SimdLanes < n THEN x + SimdLanes ELSE n
    BY DEF ChunkStart, ChunkEnd
  <2>3. q < id => q * SimdLanes + SimdLanes <= x
    BY <1>1, <1>2, <1>3
  <2>4. id < q => x + SimdLanes <= q * SimdLanes
    BY <1>1, <1>2, <1>3
  <2>5. q = id => q * SimdLanes = x
    OBVIOUS
  <2> HIDE DEF x
  <2> QED
    BY <1>1, <1>2, <1>3, <2>1, <2>2, <2>3, <2>4, <2>5
<1> QED
  BY <1>2, <1>3, <1>4, <1>5 DEF q

\* The pairs of a chunk are those at its places, in order.
LEMMA PairsOfChunk ==
    ASSUME NEW r \in RangePricingRequest, NEW id \in 0 .. BatchCount(r) - 1
    PROVE  /\ \A j \in DOMAIN ChunkPairs(r.pairs, id) :
                 /\ ChunkStart(id) + j \in Places(r, {id})
                 /\ ChunkPairs(r.pairs, id)[j] = r.pairs[ChunkStart(id) + j]
           /\ \A i \in Places(r, {id}) : i - ChunkStart(id) \in DOMAIN ChunkPairs(r.pairs, id)
<1> DEFINE pairs == r.pairs
           m == ChunkStart(id) + 1
           n == ChunkEnd(id, Len(pairs))
<1>1. pairs \in Seq(AlphaBetaPair) /\ Len(pairs) \in Nat /\ DOMAIN pairs = 1 .. Len(pairs)
  BY DEF RangePricingRequest
<1>2. BatchCount(r) = Chunks(Len(pairs)) /\ Chunks(Len(pairs)) \in Nat
  BY <1>1, ChunksReach DEF BatchCount
<1>3. id \in Nat /\ ChunkStart(id) \in Nat /\ ChunkStart(id) < Len(pairs)
  <2>1. id \in Nat /\ id \in 0 .. Chunks(Len(pairs)) - 1
    BY <1>2
  <2>2. id * SimdLanes < Len(pairs)
    BY <1>1, <2>1, ChunksReach
  <2> QED
    BY <2>1, <2>2, SimdLanesAssumption DEF ChunkStart
<1>4. m \in 1 .. Len(pairs) /\ n \in 1 .. Len(pairs) /\ m <= n
  BY <1>1, <1>3, SimdLanesAssumption DEF ChunkEnd
<1>5. \A i \in DOMAIN pairs : (i - 1) \div SimdLanes = id <=> i \in m .. n
  BY <1>1, <1>2, ChunkOfPlace
<1>6. Places(r, {id}) = m .. n
  BY <1>1, <1>4, <1>5 DEF Places
<1>7. ChunkPairs(pairs, id) = SubSeq(pairs, m, n)
  BY DEF ChunkPairs
<1> HIDE DEF pairs, n
<1>8. /\ Len(SubSeq(pairs, m, n)) = n - m + 1
      /\ DOMAIN SubSeq(pairs, m, n) = 1 .. n - m + 1
      /\ \A j \in 1 .. n - m + 1 : SubSeq(pairs, m, n)[j] = pairs[m + j - 1]
  BY <1>1, <1>3, <1>4
<1>9. ASSUME NEW j \in DOMAIN ChunkPairs(pairs, id)
      PROVE  /\ ChunkStart(id) + j \in m .. n
             /\ ChunkPairs(pairs, id)[j] = pairs[ChunkStart(id) + j]
  <2>1. j \in 1 .. n - m + 1
    BY <1>7, <1>8
  <2>2. m + j - 1 = ChunkStart(id) + j /\ ChunkStart(id) + j \in m .. n
    BY <1>3, <1>4, <2>1
  <2> QED
    BY <1>7, <1>8, <2>1, <2>2
<1>10. ASSUME NEW i \in m .. n PROVE i - ChunkStart(id) \in DOMAIN ChunkPairs(pairs, id)
  <2>1. i - ChunkStart(id) \in 1 .. n - m + 1
    BY <1>3, <1>4
  <2> QED
    BY <1>7, <1>8, <2>1
<1> QED
  BY <1>6, <1>9, <1>10 DEF pairs
-----------------------------------------------------------------------------
(***************************************************************************)
(* Accounting for the rows.                                                *)
(***************************************************************************)

\* A bijection, spelled out.
LEMMA BijectionIs ==
    ASSUME NEW S, NEW T, NEW f
    PROVE  f \in Bijection(S, T) <=>
              /\ f \in [S -> T]
              /\ \A x, y \in S : f[x] = f[y] => x = y
              /\ \A t \in T : \E x \in S : f[x] = t
BY DEF Bijection, Injection, Surjection, IsInjective

\* No rows account for no chunks.
LEMMA AccountNone ==
    ASSUME NEW r \in RangePricingRequest
    PROVE  AccountFor(r, <<>>, {}, {})
<1> DEFINE g == [k \in {} |-> k]
<1>1. DOMAIN <<>> = {} /\ Places(r, {}) = {}
  BY DEF Places
<1>2. g \in [{} -> {}]
  OBVIOUS
<1>3. g \in Bijection({}, {})
  BY <1>2, BijectionIs
<1> HIDE DEF g
<1>4. \E f \in [{} -> {}] : f \in Bijection({}, {})
  BY <1>2, <1>3
<1> QED
  BY <1>1, <1>4 DEF AccountFor

\* The rows of one chunk more, appended.
LEMMA AccountMore ==
    ASSUME NEW r \in RangePricingRequest, NEW rows \in Seq(PricingResponse), NEW col, NEW kept,
           AccountFor(r, rows, col, kept),
           NEW id \in 0 .. BatchCount(r) - 1, id \notin col, MayKeep(r, id),
           NEW more \in Seq(PricingResponse),
           more = PriceRows(r.request, ChunkPairs(r.pairs, id))
    PROVE  AccountFor(r, rows \o more, col \cup {id}, kept \cup {id})
<1> DEFINE A == Places(r, kept)
           B == Places(r, {id})
           C == Places(r, kept \cup {id})
           p == ChunkPairs(r.pairs, id)
           n == Len(rows)
           x == ChunkStart(id)
<1>1. PICK g \in [DOMAIN rows -> A] :
          /\ g \in Bijection(DOMAIN rows, A)
          /\ \A k \in DOMAIN rows : rows[k] = PriceRow(r.request, r.pairs[g[k]])
  BY DEF AccountFor
<1>2. /\ \A j \in DOMAIN p : x + j \in B /\ p[j] = r.pairs[x + j]
      /\ \A i \in B : i - x \in DOMAIN p
  BY PairsOfChunk
<1>3. r.pairs \in Seq(AlphaBetaPair) /\ id \in Nat
  <2>1. r.pairs \in Seq(AlphaBetaPair)
    BY DEF RangePricingRequest
  <2>2. Len(r.pairs) \in Nat
    BY <2>1
  <2>3. BatchCount(r) \in Nat
    BY <2>2, ChunksReach DEF BatchCount
  <2> QED
    BY <2>1, <2>3
<1>4. p \in Seq(AlphaBetaPair) /\ x \in Nat
  BY <1>3, ChunkPairsType, SimdLanesAssumption DEF ChunkStart
<1>5. /\ DOMAIN more = 1 .. Len(p) /\ DOMAIN p = 1 .. Len(p) /\ Len(p) \in Nat /\ Len(more) = Len(p)
      /\ \A j \in 1 .. Len(p) : more[j] = PriceRow(r.request, r.pairs[x + j])
  BY <1>2, <1>4 DEF PriceRows
<1>6. /\ A \cup B = C /\ A \cap B = {} /\ A \subseteq Int /\ B \subseteq Int
      /\ id \notin kept
  BY <1>3 DEF Places, AccountFor
<1>7. n \in Nat /\ DOMAIN rows = 1 .. n
  OBVIOUS
<1>8. /\ DOMAIN (rows \o more) = 1 .. n + Len(p)
      /\ \A k \in 1 .. n : (rows \o more)[k] = rows[k]
      /\ \A k \in n + 1 .. n + Len(p) : (rows \o more)[k] = more[k - n]
  BY <1>5, <1>7
<1> DEFINE h == [k \in 1 .. n + Len(p) |-> IF k <= n THEN g[k] ELSE x + (k - n)]
<1> HIDE DEF A, B, C, p, n, x
<1>9. /\ g \in [1 .. n -> A]
      /\ \A j, k \in 1 .. n : g[j] = g[k] => j = k
      /\ \A i \in A : \E k \in 1 .. n : g[k] = i
  <2>1. g \in Bijection(1 .. n, A)
    BY <1>1, <1>7
  <2> QED
    BY <2>1 DEF Bijection, Injection, Surjection, IsInjective
<1>10. \A k \in 1 .. n + Len(p) :
          \/ k \in 1 .. n /\ h[k] = g[k] /\ h[k] \in A
          \/ k \in n + 1 .. n + Len(p) /\ k - n \in 1 .. Len(p) /\ h[k] = x + (k - n) /\ h[k] \in B
  <2> TAKE k \in 1 .. n + Len(p)
  <2>1. CASE k <= n
    BY <1>7, <1>9, <2>1
  <2>2. CASE k > n
    <3>1. k - n \in 1 .. Len(p) /\ k \in n + 1 .. n + Len(p)
      BY <1>5, <1>7, <2>2
    <3>2. h[k] = x + (k - n)
      BY <1>5, <1>7, <2>2
    <3> QED
      BY <1>2, <1>5, <3>1, <3>2
  <2> QED
    BY <1>5, <1>7, <2>1, <2>2
<1>11. h \in [1 .. n + Len(p) -> C]
  BY <1>6, <1>10
<1>12. \A j, k \in 1 .. n + Len(p) : h[j] = h[k] => j = k
  <2> SUFFICES ASSUME NEW j \in 1 .. n + Len(p), NEW k \in 1 .. n + Len(p), h[j] = h[k]
               PROVE  j = k
    OBVIOUS
  <2> HIDE DEF h
  <2>1. CASE h[j] \in A
    <3>1. j \in 1 .. n /\ k \in 1 .. n /\ h[j] = g[j] /\ h[k] = g[k]
      BY <1>6, <1>10, <2>1
    <3> QED
      BY <1>9, <3>1
  <2>2. CASE h[j] \in B
    <3>1. h[j] = x + (j - n) /\ h[k] = x + (k - n)
      BY <1>6, <1>10, <2>2
    <3>2. j \in Int /\ k \in Int /\ n \in Int /\ x \in Int
      BY <1>4, <1>5, <1>7
    <3>3. x + (j - n) = x + (k - n)
      BY <3>1
    <3> QED
      BY <3>2, <3>3
  <2> QED
    BY <1>10, <2>1, <2>2
<1>13. \A i \in C : \E k \in 1 .. n + Len(p) : h[k] = i
  <2> SUFFICES ASSUME NEW i \in C PROVE \E k \in 1 .. n + Len(p) : h[k] = i
    OBVIOUS
  <2>1. CASE i \in A
    <3>1. PICK k \in 1 .. n : g[k] = i
      BY <1>9, <2>1
    <3>2. k \in 1 .. n + Len(p) /\ h[k] = g[k]
      BY <1>5, <1>7
    <3> QED
      BY <3>1, <3>2
  <2>2. CASE i \in B
    <3> DEFINE k == n + (i - x)
    <3>1. i - x \in 1 .. Len(p) /\ i \in Int
      BY <1>2, <1>5, <1>6, <2>2
    <3>2. k \in 1 .. n + Len(p) /\ ~(k <= n) /\ x + (k - n) = i
      BY <1>4, <1>5, <1>7, <3>1
    <3> HIDE DEF k
    <3>3. h[k] = i
      BY <3>2
    <3> QED
      BY <3>2, <3>3
  <2> QED
    BY <1>6, <2>1, <2>2
<1>14. h \in Bijection(DOMAIN (rows \o more), C)
  <2> HIDE DEF h
  <2>1. h \in Bijection(1 .. n + Len(p), C)
    BY <1>11, <1>12, <1>13, BijectionIs, Zenon
  <2> QED
    BY <1>8, <2>1
<1>15. \A k \in DOMAIN (rows \o more) :
          (rows \o more)[k] = PriceRow(r.request, r.pairs[h[k]])
  <2> SUFFICES ASSUME NEW k \in 1 .. n + Len(p)
               PROVE  (rows \o more)[k] = PriceRow(r.request, r.pairs[h[k]])
    BY <1>8
  <2> HIDE DEF h
  <2>1. CASE k \in 1 .. n /\ h[k] = g[k]
    BY <1>1, <1>7, <1>8, <2>1
  <2>2. CASE k \in n + 1 .. n + Len(p) /\ k - n \in 1 .. Len(p) /\ h[k] = x + (k - n)
    BY <1>5, <1>8, <2>2
  <2> QED
    BY <1>10, <2>1, <2>2
<1> HIDE DEF h
<1>16. \E f \in [DOMAIN (rows \o more) -> C] :
          /\ f \in Bijection(DOMAIN (rows \o more), C)
          /\ \A k \in DOMAIN (rows \o more) : (rows \o more)[k] = PriceRow(r.request, r.pairs[f[k]])
  BY <1>8, <1>11, <1>14, <1>15
<1>17. /\ kept \cup {id} \subseteq col \cup {id}
       /\ \A d \in kept \cup {id} : MayKeep(r, d)
       /\ \A d \in (col \cup {id}) \ (kept \cup {id}) : MayLack(r, d)
  BY DEF AccountFor
<1> QED
  BY <1>16, <1>17 DEF AccountFor, C

\* One chunk more whose rows did not arrive.
LEMMA AccountLess ==
    ASSUME NEW r, NEW rows, NEW col, NEW kept, AccountFor(r, rows, col, kept),
           NEW id, MayLack(r, id)
    PROVE  AccountFor(r, rows, col \cup {id}, kept)
BY DEF AccountFor
-----------------------------------------------------------------------------
(***************************************************************************)
(* The steps that keep the invariants.                                     *)
(***************************************************************************)
USE DEF mainVars, pipeVars, workerVars, exitVars, clientVars, rr,
        FreshRows, Accepts, AllCollected, OnFailure, NextTurn, SocketCalls

\* The steps that neither receive nor send anything on a socket, and those of
\* the main thread that leave the loop.
Aside ==
    \/ BindFrontend \/ SendSignal \/ MonitorStep \/ UNCHANGED vars
    \/ \E w \in Workers : ConnectPull(w) \/ ConnectPush(w) \/ SocketFails(w)

Leaving == MainTerm \/ JoinThreads

\* Every step is one of these.
LEMMA StepKinds ==
    ASSUME [Next]_vars
    PROVE  \/ Aside \/ Leaving \/ SendError \/ SendReply
           \/ \E c \in Clients : RecvRequest(c) \/ ClientStep(c)
           \/ \E w \in Workers : \/ DispatchBatch(w) \/ CollectResult(w) \/ PullBatch(w)
                                 \/ PriceBatch(w) \/ PushResult(w) \/ WorkerTerm(w)
BY DEF Next, MainStep, WorkerStep, Terminated, Aside, Leaving

\* A step aside changes neither the clients nor a message.
LEMMA AsideIs ==
    ASSUME TypeOK, Aside
    PROVE  /\ UNCHANGED <<clientVars, pipeVars, hand, peer, sent, collected, all_results>>
           /\ main' = main \/ (main = "binding" /\ main' \in {"recv", "join"})
           /\ \A w \in Workers :
                 worker'[w] # worker[w] => worker'[w] \in {"connecting", "pulling", "exited"}
<1>1. CASE BindFrontend \/ SendSignal \/ MonitorStep \/ UNCHANGED vars
  BY <1>1 DEF BindFrontend, SendSignal, MonitorStep, SigWait, ShutdownContext, vars
<1>2. ASSUME NEW v \in Workers, ConnectPull(v) \/ ConnectPush(v) \/ SocketFails(v)
      PROVE  /\ UNCHANGED <<clientVars, pipeVars, hand, peer, sent, collected, all_results, main>>
             /\ \A w \in Workers :
                   worker'[w] # worker[w] => worker'[w] \in {"connecting", "pulling", "exited"}
  BY <1>2 DEF ConnectPull, ConnectPush, SocketFails, TypeOK, WorkerType
<1> QED
  BY <1>1, <1>2 DEF Aside

\* A step of a worker, or of the main thread between two of its messages, does
\* not touch the clients.
LEMMA WorkIs ==
    ASSUME NEW w \in Workers,
           \/ DispatchBatch(w) \/ CollectResult(w) \/ PullBatch(w) \/ PriceBatch(w)
           \/ PushResult(w) \/ WorkerTerm(w)
    PROVE  UNCHANGED <<clientVars, main, peer>>
BY DEF DispatchBatch, CollectResult, PullBatch, PriceBatch, PushResult, WorkerTerm

\* A client's own step leaves the server alone, and its request as it was sent.
LEMMA ClientStepIs ==
    ASSUME TypeOK, NEW c \in Clients, ClientStep(c)
    PROVE  /\ UNCHANGED <<mainVars, pipeVars, workerVars, exitVars, reply>>
           /\ \A d \in Clients : cstate[d] # "idle" => request'[d] = request[d]
           /\ \A d \in Clients : cstate'[d] = "taken" => cstate[d] = "taken"
BY DEF ClientStep, ClientSend, ClientRecv, PyClientRecv, ClientCrash, DropRequest, TypeOK, ClientType

\* One request at a time, and no reply before its request was served.
LEMMA ClientNext == TypeOK /\ ClientInv /\ [Next]_vars => ClientInv'
<1> SUFFICES ASSUME TypeOK, ClientInv, [Next]_vars PROVE ClientInv'
  OBVIOUS
<1>1. CASE Aside
  BY <1>1, AsideIs DEF ClientInv
<1>2. CASE Leaving
  BY <1>2 DEF Leaving, MainTerm, JoinThreads, ClientInv
<1>3. ASSUME NEW response, Send(response), main \in {"reject", "serving"} PROVE ClientInv'
  <2>1. peer \in Clients /\ cstate[peer] = "taken"
    BY <1>3 DEF TypeOK, MainType
  <2>2. /\ cstate' = [cstate EXCEPT ![peer] = IF alive[peer] THEN "replied" ELSE "lost"]
        /\ \A c \in Clients \ {peer} : reply'[c] = reply[c]
        /\ main' = "recv"
    BY <1>3 DEF Send, TypeOK, ClientType
  <2>3. \A c \in Clients : cstate[c] = "taken" => c = peer
    BY <1>3 DEF ClientInv
  <2>4. /\ cstate'[peer] \in {"replied", "lost"}
        /\ \A c \in Clients \ {peer} : cstate'[c] = cstate[c]
    BY <2>1, <2>2 DEF TypeOK, ClientType
  <2> QED
    BY <2>1, <2>2, <2>3, <2>4 DEF ClientInv
<1>4. ASSUME NEW c \in Clients, RecvRequest(c) PROVE ClientInv'
  <2>1. /\ main = "recv" /\ cstate[c] = "sent" /\ UNCHANGED <<request, reply>>
        /\ cstate' = [cstate EXCEPT ![c] = "taken"] /\ peer' = c
        /\ main' = IF request[c] = Malformed THEN "reject" ELSE "serving"
    BY <1>4 DEF RecvRequest
  <2>2. cstate'[c] = "taken" /\ \A d \in Clients \ {c} : cstate'[d] = cstate[d]
    BY <2>1 DEF TypeOK, ClientType
  <2> QED
    BY <2>1, <2>2 DEF ClientInv
<1>5. ASSUME NEW c \in Clients, ClientStep(c) PROVE ClientInv'
  <2>1. /\ UNCHANGED <<main, peer, reply>>
        /\ \A d \in Clients : cstate[d] # "idle" => request'[d] = request[d]
        /\ \A d \in Clients : cstate'[d] = "taken" => cstate[d] = "taken"
    BY <1>5, ClientStepIs
  <2>2. \A d \in Clients : cstate'[d] \in {"idle", "sent", "taken"} =>
                              cstate[d] \in {"idle", "sent", "taken"}
    BY <1>5 DEF ClientStep, ClientSend, ClientRecv, PyClientRecv, ClientCrash, DropRequest,
                TypeOK, ClientType
  <2>3. main = "reject" => peer \in Clients /\ cstate[peer] = "taken"
    BY DEF TypeOK, MainType
  <2> QED
    BY <2>1, <2>2, <2>3 DEF ClientInv
<1>6. CASE \E w \in Workers : \/ DispatchBatch(w) \/ CollectResult(w) \/ PullBatch(w)
                              \/ PriceBatch(w) \/ PushResult(w) \/ WorkerTerm(w)
  BY <1>6, WorkIs DEF ClientInv
<1>7. CASE SendError \/ SendReply
  BY <1>3, <1>7 DEF SendError, SendReply
<1> QED
  BY <1>1, <1>2, <1>4, <1>5, <1>6, <1>7, StepKinds
\* The parameters of a batch are the request's, as far as process() reads them.
LEMMA BatchPricing ==
    ASSUME NEW r \in RangePricingRequest, NEW id \in Nat
    PROVE  /\ Batch(r, id).batch_counter_id = id
           /\ ParamsRejected(Batch(r, id).request) <=> ParamsRejected(r.request)
           /\ Priced(Batch(r, id)).batch_id = id
           /\ Failed(Batch(r, id)).batch_id = id
           /\ Priced(Batch(r, id)).results = PriceRows(r.request, ChunkPairs(r.pairs, id))
           /\ Failed(Batch(r, id)).results = <<>>
<1>1. r.request \in PricingParams
  BY DEF RangePricingRequest
<1> DEFINE base == r.request
           b == BatchParams(base)
<1>2. /\ b.time_to_maturity = base.time_to_maturity /\ b.interest_rate = base.interest_rate
      /\ b.stock_discretization = base.stock_discretization
  BY <1>1 DEF BatchParams, PricingParams
<1>3. PresentValue(b) = PresentValue(base) /\ (ParamsRejected(b) <=> ParamsRejected(base))
  BY <1>2 DEF PresentValue, ParamsRejected
<1> HIDE DEF base, b
<1>4. PriceRows(b, ChunkPairs(r.pairs, id)) = PriceRows(base, ChunkPairs(r.pairs, id))
  BY <1>3 DEF PriceRows, PriceRow
<1> QED
  BY <1>3, <1>4 DEF Batch, Priced, Failed, b, base

\* The messages of one worker.
OwnOf(w, r) ==
    /\ \A k \in DOMAIN dispatch[w].queue :
          dispatch[w].queue[k] = Batch(r, dispatch[w].queue[k].batch_counter_id)
    /\ \A k \in DOMAIN results[w].queue : IsResult(r, results[w].queue[k])
    /\ worker[w] = "pricing" => hand[w] = Batch(r, hand[w].batch_counter_id)
    /\ worker[w] = "pushing" => IsResult(r, hand[w])

\* OwnMessages is about each of them.
LEMMA OwnEach ==
    /\ OwnMessages <=> (main = "serving" => \A w \in Workers : OwnOf(w, rr))
    /\ OwnMessages' <=> (main' = "serving" => \A w \in Workers : OwnOf(w, rr)')
BY DEF OwnMessages, OwnOf

\* dispatch.send writes a batch of the request being served.
LEMMA OwnDispatch ==
    ASSUME TypeOK, NEW w \in Workers, DispatchBatch(w), \A v \in Workers : OwnOf(v, rr)
    PROVE  \A v \in Workers : OwnOf(v, rr)'
<1>1. /\ rr \in RangePricingRequest /\ sent \in Nat /\ rr' = rr
      /\ UNCHANGED <<results, worker, hand>>
  BY DEF DispatchBatch, TypeOK, MainType
<1>2. Batch(rr, sent) \in BatchPricingRequest /\ Batch(rr, sent).batch_counter_id = sent
  BY <1>1, BatchType, BatchPricing
<1>3. /\ \A v \in Workers \ {w} : dispatch'[v] = dispatch[v]
      /\ dispatch[w].queue \in Seq(BatchPricingRequest)
      /\ dispatch'[w].queue = Append(dispatch[w].queue, Batch(rr, sent))
  <2>1. dispatch[w] \in PipeOf(BatchPricingRequest)
    BY DEF TypeOK, PipeType
  <2>2. dispatch' = [dispatch EXCEPT ![w] = Put(dispatch[w], Batch(rr, sent))]
    BY DEF DispatchBatch
  <2>3. Put(dispatch[w], Batch(rr, sent)).queue = Append(dispatch[w].queue, Batch(rr, sent))
    BY <1>2, <2>1, PutPipe
  <2>4. dispatch[w].queue \in Seq(BatchPricingRequest)
    BY <2>1 DEF PipeOf
  <2>5. dispatch \in [Workers -> PipeOf(BatchPricingRequest)]
    BY DEF TypeOK, PipeType
  <2> QED
    BY <2>2, <2>3, <2>4, <2>5
<1> DEFINE m == Batch(rr, sent)
<1>4. m.batch_counter_id = sent /\ m \in BatchPricingRequest
  BY <1>2
<1> DEFINE q == dispatch[w].queue
<1>5. \A k \in DOMAIN Append(q, m) : Append(q, m)[k] = m \/ (k \in DOMAIN q /\ Append(q, m)[k] = q[k])
  <2> HIDE DEF q, m
  <2> QED
    BY <1>3, <1>4 DEF q
<1>6. \A k \in DOMAIN dispatch'[w].queue :
          dispatch'[w].queue[k] = Batch(rr, dispatch'[w].queue[k].batch_counter_id)
  BY <1>2, <1>3, <1>5 DEF OwnOf
<1>7. OwnOf(w, rr)'
  BY <1>1, <1>6 DEF OwnOf
<1>8. \A v \in Workers \ {w} : OwnOf(v, rr)'
  BY <1>1, <1>3 DEF OwnOf
<1> QED
  BY <1>7, <1>8

\* results.recv takes one away.
LEMMA OwnCollect ==
    ASSUME TypeOK, NEW w \in Workers, CollectResult(w), \A v \in Workers : OwnOf(v, rr)
    PROVE  \A v \in Workers : OwnOf(v, rr)'
<1>1. rr' = rr /\ UNCHANGED <<dispatch, worker, hand>>
  BY DEF CollectResult
<1>2. /\ \A v \in Workers \ {w} : results'[v] = results[v]
      /\ results[w].queue \in Seq(BatchPricingResponse) /\ results[w].queue # <<>>
      /\ results'[w].queue = Tail(results[w].queue)
  BY TakePipe DEF CollectResult, TypeOK, PipeType, PipeOf, HasMessage
<1>3. \A k \in DOMAIN results'[w].queue :
          k + 1 \in DOMAIN results[w].queue /\ results'[w].queue[k] = results[w].queue[k + 1]
  BY <1>2
<1>4. OwnOf(w, rr)'
  BY <1>1, <1>3 DEF OwnOf
<1>5. \A v \in Workers \ {w} : OwnOf(v, rr)'
  BY <1>1, <1>2 DEF OwnOf
<1> QED
  BY <1>4, <1>5

\* pull.recv takes a batch of the request in hand.
LEMMA OwnPull ==
    ASSUME TypeOK, NEW w \in Workers, PullBatch(w), \A v \in Workers : OwnOf(v, rr)
    PROVE  \A v \in Workers : OwnOf(v, rr)'
<1>1. rr' = rr /\ UNCHANGED results
  BY DEF PullBatch
<1>2. /\ \A v \in Workers \ {w} : /\ dispatch'[v] = dispatch[v] /\ hand'[v] = hand[v]
                                  /\ worker'[v] = worker[v]
      /\ dispatch[w].queue \in Seq(BatchPricingRequest) /\ dispatch[w].queue # <<>>
      /\ dispatch'[w].queue = Tail(dispatch[w].queue)
      /\ hand'[w] = Head(dispatch[w].queue) /\ worker'[w] = "pricing"
  BY TakePipe DEF PullBatch, TypeOK, PipeType, PipeOf, WorkerType, HasMessage
<1>3. /\ 1 \in DOMAIN dispatch[w].queue /\ hand'[w] = dispatch[w].queue[1]
      /\ \A k \in DOMAIN dispatch'[w].queue :
            k + 1 \in DOMAIN dispatch[w].queue /\ dispatch'[w].queue[k] = dispatch[w].queue[k + 1]
  BY <1>2
<1>4. OwnOf(w, rr)'
  BY <1>1, <1>2, <1>3 DEF OwnOf
<1>5. \A v \in Workers \ {w} : OwnOf(v, rr)'
  BY <1>1, <1>2 DEF OwnOf
<1> QED
  BY <1>4, <1>5

\* process() makes a result of it, or its exception handler does.
LEMMA OwnPrice ==
    ASSUME TypeOK, main = "serving", NEW w \in Workers, PriceBatch(w),
           \A v \in Workers : OwnOf(v, rr)
    PROVE  \A v \in Workers : OwnOf(v, rr)'
<1>1. rr' = rr /\ UNCHANGED <<results, dispatch>> /\ rr \in RangePricingRequest
  BY DEF PriceBatch, TypeOK, MainType
<1> DEFINE id == hand[w].batch_counter_id
           b == Batch(rr, id)
<1>2. id \in Nat /\ hand[w] = b
  BY DEF PriceBatch, TypeOK, WorkerType, OwnOf, BatchPricingRequest
<1>3. /\ ParamsRejected(b.request) <=> ParamsRejected(rr.request)
      /\ Priced(b).batch_id = id /\ Failed(b).batch_id = id
  BY <1>1, <1>2, BatchPricing
<1>4. /\ \A v \in Workers \ {w} : hand'[v] = hand[v] /\ worker'[v] = worker[v]
      /\ worker'[w] = "pushing"
      /\ \/ ~ParamsRejected(hand[w].request) /\ hand'[w] = Priced(hand[w])
         \/ (ParamsRejected(hand[w].request) \/ MayThrow) /\ hand'[w] = Failed(hand[w])
  BY DEF PriceBatch, TypeOK, WorkerType
<1> HIDE DEF id
<1>5. IsResult(rr, hand'[w])
  <2>1. CASE ~ParamsRejected(hand[w].request) /\ hand'[w] = Priced(hand[w])
    BY <1>2, <1>3, <2>1 DEF IsResult
  <2>2. CASE (ParamsRejected(hand[w].request) \/ MayThrow) /\ hand'[w] = Failed(hand[w])
    BY <1>2, <1>3, <2>2 DEF IsResult
  <2> QED
    BY <1>4, <2>1, <2>2
<1> QED
  BY <1>1, <1>4, <1>5 DEF OwnOf

\* push.send hands it on.
LEMMA OwnPush ==
    ASSUME TypeOK, NEW w \in Workers, PushResult(w), \A v \in Workers : OwnOf(v, rr)
    PROVE  \A v \in Workers : OwnOf(v, rr)'
<1>1. rr' = rr /\ UNCHANGED dispatch
  BY DEF PushResult
<1> DEFINE m == hand[w]
           q == results[w].queue
<1>2. m \in BatchPricingResponse /\ IsResult(rr, m)
  BY DEF PushResult, TypeOK, WorkerType, OwnOf
<1>3. /\ \A v \in Workers \ {w} : /\ results'[v] = results[v] /\ hand'[v] = hand[v]
                                  /\ worker'[v] = worker[v]
      /\ q \in Seq(BatchPricingResponse) /\ results'[w].queue = Append(q, m)
      /\ worker'[w] = "pulling"
  <2>1. results[w] \in PipeOf(BatchPricingResponse)
    BY DEF TypeOK, PipeType
  <2>2. results' = [results EXCEPT ![w] = Put(results[w], m)]
    BY DEF PushResult
  <2>3. Put(results[w], m).queue = Append(q, m)
    BY <1>2, <2>1, PutPipe
  <2>4. q \in Seq(BatchPricingResponse)
    BY <2>1 DEF PipeOf
  <2>5. results \in [Workers -> PipeOf(BatchPricingResponse)]
    BY DEF TypeOK, PipeType
  <2>6. /\ \A v \in Workers \ {w} : hand'[v] = hand[v] /\ worker'[v] = worker[v]
        /\ worker'[w] = "pulling"
    BY DEF PushResult, TypeOK, WorkerType
  <2> QED
    BY <2>2, <2>3, <2>4, <2>5, <2>6
<1>4. \A k \in DOMAIN Append(q, m) : Append(q, m)[k] = m \/ (k \in DOMAIN q /\ Append(q, m)[k] = q[k])
  <2> HIDE DEF q, m
  <2> QED
    BY <1>2, <1>3
<1>5. \A k \in DOMAIN results'[w].queue : IsResult(rr, results'[w].queue[k])
  BY <1>2, <1>3, <1>4 DEF OwnOf
<1> QED
  BY <1>1, <1>3, <1>5 DEF OwnOf

\* frontend.recv finds no message of an earlier request on its way.
LEMMA OwnRecv ==
    ASSUME Inv, NEW c \in Clients, RecvRequest(c)
    PROVE  \A v \in Workers : OwnOf(v, rr)'
<1> SUFFICES ASSUME NEW v \in Workers PROVE OwnOf(v, rr)'
  OBVIOUS
<1>1. UNCHANGED <<dispatch, results, worker, hand>> /\ main = "recv"
  BY DEF RecvRequest
<1>2. dispatch[v].queue = <<>> /\ results[v].queue = <<>> /\ hand[v] = None
  BY <1>1, Quiescent DEF QuiescentBetweenRequests, HasMessage
<1>3. worker[v] \notin {"pricing", "pushing"}
  BY <1>2, ServerAssumption DEF Inv, TypeOK, WorkerType
<1> QED
  BY <1>1, <1>2, <1>3 DEF OwnOf

\* Every step keeps the messages the request's own.
LEMMA OwnNext == Inv /\ OwnMessages /\ [Next]_vars => OwnMessages'
<1> SUFFICES ASSUME Inv, OwnMessages, [Next]_vars, main' = "serving"
             PROVE  \A v \in Workers : OwnOf(v, rr)'
  BY OwnEach
<1>1. TypeOK
  BY DEF Inv
<1>2. main = "serving" => \A v \in Workers : OwnOf(v, rr)
  BY OwnEach
<1>3. CASE Aside
  <2>1. /\ UNCHANGED <<request, peer, dispatch, results, hand>> /\ main = "serving"
        /\ \A w \in Workers :
              worker'[w] # worker[w] => worker'[w] \in {"connecting", "pulling", "exited"}
    BY <1>1, <1>3, AsideIs
  <2> QED
    BY <1>2, <2>1 DEF OwnOf
<1>4. CASE Leaving \/ SendError \/ SendReply
  BY <1>4 DEF Leaving, MainTerm, JoinThreads, SendError, SendReply, Send
<1>5. ASSUME NEW c \in Clients, ClientStep(c) PROVE \A v \in Workers : OwnOf(v, rr)'
  <2>1. /\ UNCHANGED <<main, peer, dispatch, results, worker, hand>>
        /\ \A d \in Clients : cstate[d] # "idle" => request'[d] = request[d]
    BY <1>1, <1>5, ClientStepIs
  <2>2. peer \in Clients /\ cstate[peer] = "taken"
    BY <1>1, <2>1 DEF TypeOK, MainType
  <2>3. rr' = rr
    BY <2>1, <2>2
  <2> QED
    BY <1>2, <2>1, <2>3 DEF OwnOf
<1>6. ASSUME NEW w \in Workers,
             \/ DispatchBatch(w) \/ CollectResult(w) \/ PullBatch(w)
             \/ PriceBatch(w) \/ PushResult(w)
      PROVE  \A v \in Workers : OwnOf(v, rr)'
  <2>1. main = "serving"
    BY <1>6, WorkIs
  <2> QED
    BY <1>1, <1>2, <1>6, <2>1, OwnDispatch, OwnCollect, OwnPull, OwnPrice, OwnPush
<1>7. ASSUME NEW w \in Workers, WorkerTerm(w) PROVE \A v \in Workers : OwnOf(v, rr)'
  <2>1. /\ UNCHANGED <<main, peer, request, dispatch, results>> /\ worker'[w] = "exited"
        /\ \A v \in Workers \ {w} : hand'[v] = hand[v] /\ worker'[v] = worker[v]
    BY <1>1, <1>7 DEF WorkerTerm, TypeOK, WorkerType
  <2> QED
    BY <1>2, <2>1 DEF OwnOf
<1> QED
  BY <1>3, <1>4, <1>5, <1>6, <1>7, StepKinds, OwnRecv
\* What the main thread makes of one result: all of the chunk's rows, or none
\* and a reason.
LEMMA RowsOfResult ==
    ASSUME NEW r \in RangePricingRequest, NEW m \in BatchPricingResponse, IsResult(r, m)
    PROVE  \/ /\ MayKeep(r, m.batch_id)
              /\ ReadRows(m) = PriceRows(r.request, ChunkPairs(r.pairs, m.batch_id))
           \/ /\ MayLack(r, m.batch_id)
              /\ ReadRows(m) = <<>>
<1> DEFINE id == m.batch_id
           p == ChunkPairs(r.pairs, id)
<1>1. id \in Nat /\ r.pairs \in Seq(AlphaBetaPair)
  BY DEF BatchPricingResponse, RangePricingRequest
<1>2. p \in Seq(AlphaBetaPair)
  BY <1>1, ChunkPairsType
<1>3. /\ Priced(Batch(r, id)).results = PriceRows(r.request, p)
      /\ Failed(Batch(r, id)).results = <<>>
  BY <1>1, BatchPricing
<1> HIDE DEF id, p
<1>4. Verifies(<<>>)
  BY MaxTablesAssumption DEF Verifies
<1>5. Verifies(PriceRows(r.request, p)) <=> Verifies(p)
  BY <1>2 DEF Verifies, PriceRows
<1>6. CASE ~ParamsRejected(r.request) /\ m = Priced(Batch(r, id))
  <2>1. m.results = PriceRows(r.request, p)
    BY <1>3, <1>6
  <2>2. CASE Verifies(p)
    BY <1>5, <1>6, <2>1, <2>2 DEF MayKeep, ReadRows, id, p
  <2>3. CASE ~Verifies(p)
    BY <1>5, <2>1, <2>3 DEF MayLack, ReadRows, id, p
  <2> QED
    BY <2>2, <2>3
<1>7. CASE (ParamsRejected(r.request) \/ MayThrow) /\ m = Failed(Batch(r, id))
  <2>1. m.results = <<>>
    BY <1>3, <1>7
  <2> QED
    BY <1>4, <1>7, <2>1 DEF MayLack, ReadRows, id
<1> QED
  BY <1>6, <1>7 DEF IsResult, id

\* One turn of the collecting loop accounts for one chunk more.
LEMMA AccountedCollect ==
    ASSUME Inv, Inv', OwnMessages, Accounted, NEW w \in Workers, CollectResult(w)
    PROVE  Accounted'
<1> DEFINE m == Head(results[w].queue)
           id == m.batch_id
           col == Range(collected)
<1>1. /\ TypeOK /\ main = "serving" /\ UNCHANGED <<main, peer, request, sent>>
      /\ rr \in RangePricingRequest /\ sent \in Nat /\ sent <= BatchCount(rr)
      /\ collected \in Seq(Nat) /\ all_results \in Seq(PricingResponse)
      /\ collected' = Append(collected, id) /\ all_results' = all_results \o ReadRows(m)
  BY DEF Inv, TypeOK, MainType, CollectResult, Accounted
<1>2. m \in BatchPricingResponse /\ id \in Nat /\ IsResult(rr, m)
  <2>1. results[w].queue \in Seq(BatchPricingResponse) /\ results[w].queue # <<>>
    BY <1>1 DEF CollectResult, TypeOK, PipeType, PipeOf, HasMessage
  <2>2. 1 \in DOMAIN results[w].queue /\ m = results[w].queue[1] /\ m \in BatchPricingResponse
    BY <2>1
  <2> QED
    BY <1>1, <2>2 DEF OwnMessages, BatchPricingResponse
<1> HIDE DEF m
<1>3. /\ Len(collected) + 1 \in DOMAIN collected' /\ collected'[Len(collected) + 1] = id
      /\ \A i \in DOMAIN collected : /\ i \in DOMAIN collected' /\ collected'[i] = collected[i]
                                     /\ i # Len(collected) + 1
      /\ \A i \in DOMAIN collected' : i \in DOMAIN collected \/ i = Len(collected) + 1
  BY <1>1, <1>2
<1>4. id \notin col /\ id \in 0 .. sent - 1
  BY <1>1, <1>3 DEF Inv, NoChunkTwice, Range
<1>5. Range(collected') = col \cup {id}
  BY <1>3 DEF Range
<1>6. id \in 0 .. BatchCount(rr) - 1
  <2>1. BatchCount(rr) \in Nat
    BY <1>1, ChunksReach DEF BatchCount, RangePricingRequest
  <2> QED
    BY <1>1, <1>2, <1>4, <2>1
<1> HIDE DEF col, id
<1>7. PICK kept \in SUBSET col : AccountFor(rr, all_results, col, kept)
  BY <1>1 DEF Accounted, col
<1>8. \E k \in SUBSET (col \cup {id}) : AccountFor(rr, all_results \o ReadRows(m), col \cup {id}, k)
  <2>1. CASE MayKeep(rr, id) /\ ReadRows(m) = PriceRows(rr.request, ChunkPairs(rr.pairs, id))
    <3>1. ReadRows(m) \in Seq(PricingResponse)
      BY <1>2 DEF ReadRows, BatchPricingResponse
    <3>2. AccountFor(rr, all_results \o ReadRows(m), col \cup {id}, kept \cup {id})
      BY <1>1, <1>4, <1>6, <1>7, <2>1, <3>1, AccountMore
    <3>3. kept \cup {id} \in SUBSET (col \cup {id})
      OBVIOUS
    <3> QED
      BY <3>2, <3>3
  <2>2. CASE MayLack(rr, id) /\ ReadRows(m) = <<>>
    <3>1. all_results \o ReadRows(m) = all_results
      BY <1>1, <2>2
    <3>2. AccountFor(rr, all_results \o ReadRows(m), col \cup {id}, kept)
      BY <1>7, <2>2, <3>1, AccountLess
    <3>3. kept \in SUBSET (col \cup {id})
      OBVIOUS
    <3> QED
      BY <3>2, <3>3
  <2> QED
    BY <1>1, <1>2, <2>1, <2>2, RowsOfResult DEF id
<1> QED
  BY <1>1, <1>5, <1>8 DEF Accounted

\* Every step keeps the account of the rows.
LEMMA AccountedNext == Inv /\ Inv' /\ OwnMessages /\ Accounted /\ [Next]_vars => Accounted'
<1> SUFFICES ASSUME Inv, Inv', OwnMessages, Accounted, [Next]_vars PROVE Accounted'
  OBVIOUS
<1>1. TypeOK /\ IdleMain
  BY DEF Inv
<1>2. CASE Aside
  <2>1. /\ UNCHANGED <<request, peer, sent, collected, all_results>>
        /\ main' = main \/ (main = "binding" /\ main' \in {"recv", "join"})
    BY <1>1, <1>2, AsideIs
  <2> QED
    BY <2>1 DEF Accounted
<1>3. CASE Leaving \/ SendError \/ SendReply
  <2>1. main' \in {"join", "exited"} \/ (main' = "recv" /\ all_results' = <<>>)
    BY <1>3 DEF Leaving, MainTerm, JoinThreads, SendError, SendReply, Send
  <2> QED
    BY <2>1 DEF Accounted
<1>4. ASSUME NEW c \in Clients, RecvRequest(c) PROVE Accounted'
  <2>1. /\ main = "recv" /\ UNCHANGED <<sent, collected, all_results, request>> /\ peer' = c
        /\ main' \in {"reject", "serving"}
    BY <1>4 DEF RecvRequest
  <2>2. all_results' = <<>> /\ sent' = 0 /\ collected' = <<>>
    BY <1>1, <2>1 DEF Accounted, IdleMain
  <2>3. ASSUME main' = "serving"
        PROVE  /\ sent' <= BatchCount(rr')
               /\ \E kept \in SUBSET Range(collected') :
                     AccountFor(rr', all_results', Range(collected'), kept)
    <3>1. rr' \in RangePricingRequest
      BY <2>3 DEF Inv, TypeOK, MainType
    <3>2. BatchCount(rr') \in Nat
      <4>1. PICK r \in RangePricingRequest : r = rr'
        BY <3>1
      <4>2. Len(r.pairs) \in Nat
        BY DEF RangePricingRequest
      <4>3. Chunks(Len(r.pairs)) \in Nat
        BY <4>2, ChunksReach
      <4>4. BatchCount(rr') = Chunks(Len(r.pairs))
        BY <4>1 DEF BatchCount
      <4> QED
        BY <4>3, <4>4
    <3>3. Range(collected') = {}
      BY <2>2 DEF Range
    <3>4. AccountFor(rr', <<>>, {}, {})
      BY <3>1, AccountNone
    <3>5. \E kept \in SUBSET Range(collected') :
             AccountFor(rr', all_results', Range(collected'), kept)
      BY <2>2, <3>3, <3>4
    <3> QED
      BY <2>2, <3>2, <3>5
  <2> QED
    BY <2>1, <2>2, <2>3 DEF Accounted
<1>5. ASSUME NEW c \in Clients, ClientStep(c) PROVE Accounted'
  <2>1. /\ UNCHANGED <<main, peer, sent, collected, all_results>>
        /\ \A d \in Clients : cstate[d] # "idle" => request'[d] = request[d]
    BY <1>1, <1>5, ClientStepIs
  <2>2. main = "serving" => rr' = rr
    BY <1>1, <2>1, ServerAssumption DEF TypeOK, MainType
  <2> QED
    BY <2>1, <2>2 DEF Accounted
<1>6. ASSUME NEW w \in Workers, DispatchBatch(w) PROVE Accounted'
  <2>1. /\ UNCHANGED <<main, peer, request, collected, all_results>> /\ main = "serving"
        /\ sent' = sent + 1 /\ sent < BatchCount(rr) /\ sent \in Nat
        /\ rr \in RangePricingRequest
    BY <1>1, <1>6 DEF DispatchBatch, TypeOK, MainType
  <2>2. BatchCount(rr) \in Nat
    BY <2>1, ChunksReach DEF BatchCount, RangePricingRequest
  <2>3. sent' <= BatchCount(rr)
    BY <2>1, <2>2
  <2> QED
    BY <2>1, <2>3 DEF Accounted
<1>7. ASSUME NEW w \in Workers, PullBatch(w) \/ PriceBatch(w) \/ PushResult(w) \/ WorkerTerm(w)
      PROVE  Accounted'
  <2>1. UNCHANGED <<main, peer, sent, collected, all_results, request>>
    BY <1>7 DEF PullBatch, PriceBatch, PushResult, WorkerTerm
  <2> QED
    BY <2>1 DEF Accounted
<1> QED
  BY <1>2, <1>3, <1>4, <1>5, <1>6, <1>7, StepKinds, AccountedCollect
-----------------------------------------------------------------------------
(***************************************************************************)
(* The reply.                                                              *)
(***************************************************************************)

\* As many results as chunks are the results of all the chunks.
LEMMA AllAreCollected ==
    ASSUME Inv, NEW n \in Nat, sent = n, Len(collected) = n
    PROVE  Range(collected) = 0 .. n - 1
<1>1. /\ collected \in Seq(Nat) /\ DOMAIN collected = 1 .. n
      /\ \A i, j \in 1 .. n : collected[i] = collected[j] => i = j
      /\ \A i \in 1 .. n : collected[i] \in 0 .. n - 1
  <2>1. collected \in Seq(Nat)
    BY DEF Inv, TypeOK, MainType
  <2>2. DOMAIN collected = 1 .. n
    BY <2>1
  <2> QED
    BY <2>1, <2>2 DEF Inv, NoChunkTwice
<1>2. collected \in Injection(1 .. n, 0 .. n - 1)
  BY <1>1 DEF Injection, IsInjective
<1>3. IsFiniteSet(0 .. n - 1) /\ Cardinality(0 .. n - 1) = n
  BY CountBelow
<1>4. Cardinality(1 .. n) = n
  BY FS_Interval
<1>5. collected \in Surjection(1 .. n, 0 .. n - 1)
  BY <1>2, <1>3, <1>4, FS_Injection
<1> QED
  BY <1>1, <1>5 DEF Surjection, Range

\* RangeService computes with chunks and rows as RangeServer does.
LEMMA ServiceData ==
    /\ \A r : Service!BatchCount(r) = BatchCount(r)
    /\ \A pairs, id : Service!ChunkPairs(pairs, id) = ChunkPairs(pairs, id)
    /\ \A rows : Service!Verifies(rows) <=> Verifies(rows)
    /\ \A params : Service!ParamsRejected(params) <=> ParamsRejected(params)
    /\ \A params, pair : Service!PriceRow(params, pair) = PriceRow(params, pair)
    /\ \A S, T : Service!Bijection(S, T) = Bijection(S, T)
    /\ Service!RangePricingResponse = RangePricingResponse
<1>1. \A r : Service!BatchCount(r) = BatchCount(r)
  BY DEF Service!BatchCount, BatchCount, Service!Chunks, Chunks
<1>2. \A pairs, id : Service!ChunkPairs(pairs, id) = ChunkPairs(pairs, id)
  BY DEF Service!ChunkPairs, ChunkPairs, Service!ChunkStart, ChunkStart, Service!ChunkEnd, ChunkEnd
<1>3. \A rows : Service!Verifies(rows) <=> Verifies(rows)
  BY DEF Service!Verifies, Verifies
<1>4. \A params : Service!ParamsRejected(params) <=> ParamsRejected(params)
  BY DEF Service!ParamsRejected, ParamsRejected
<1>5. \A params, pair : Service!PriceRow(params, pair) = PriceRow(params, pair)
  BY DEF Service!PriceRow, PriceRow, Service!PresentValue, PresentValue
<1>6. \A S, T : Service!Bijection(S, T) = Bijection(S, T)
  BY DEF Service!Bijection, Bijection, Service!Injection, Injection, Service!Surjection,
         Surjection, Service!IsInjective, IsInjective
<1>7. Service!RangePricingResponse = RangePricingResponse
  BY DEF Service!RangePricingResponse, RangePricingResponse, Service!PricingResponse, PricingResponse
<1> QED
  BY <1>1, <1>2, <1>3, <1>4, <1>5, <1>6, <1>7

\* The rows of a subset of the chunks are an answer when the others may lack.
LEMMA MissingChunks ==
    ASSUME NEW r \in RangePricingRequest, NEW rows, NEW kept,
           AccountFor(r, rows, 0 .. BatchCount(r) - 1, kept)
    PROVE  LET missing == (0 .. BatchCount(r) - 1) \ kept
           IN  missing \in Service!Missing(r) /\ Service!Left(r, missing) = Places(r, kept)
<1> DEFINE all == 0 .. BatchCount(r) - 1
           missing == all \ kept
<1>1. /\ kept \subseteq all
      /\ \A id \in kept : MayKeep(r, id)
      /\ \A id \in missing : MayLack(r, id)
  BY DEF AccountFor
<1>2. Service!AllChunks(r) = all
  BY ServiceData DEF Service!AllChunks
<1>3. Service!Oversize(r) = {id \in all : ~Verifies(ChunkPairs(r.pairs, id))}
  BY <1>2, ServiceData DEF Service!Oversize
<1>4. missing \in Service!Missing(r)
  <2> HIDE DEF all
  <2>1. CASE ParamsRejected(r.request)
    <3>1. missing = all
      BY <1>1, <2>1 DEF MayKeep
    <3> QED
      BY <1>2, <2>1, <3>1, ServiceData DEF Service!Missing
  <2>2. CASE ~ParamsRejected(r.request) /\ MayThrow
    <3>1. Service!Oversize(r) \subseteq missing
      BY <1>1, <1>3 DEF MayKeep
    <3> QED
      BY <1>2, <2>2, <3>1, ServiceData DEF Service!Missing
  <2>3. CASE ~ParamsRejected(r.request) /\ ~MayThrow
    <3>1. Service!Oversize(r) = missing
      BY <1>1, <1>3, <2>3 DEF MayKeep, MayLack
    <3> QED
      BY <2>3, <3>1, ServiceData DEF Service!Missing
  <2> QED
    BY <2>1, <2>2, <2>3
<1>5. \A i \in DOMAIN r.pairs : (i - 1) \div SimdLanes \in all
  <2>1. r.pairs \in Seq(AlphaBetaPair)
    BY DEF RangePricingRequest
  <2>2. Len(r.pairs) \in Nat /\ DOMAIN r.pairs = 1 .. Len(r.pairs)
    BY <2>1
  <2> QED
    BY <2>2, ChunkOfPlace DEF BatchCount
<1>6. Service!Left(r, missing) = Places(r, kept)
  BY <1>1, <1>5 DEF Service!Left, Places
<1> QED
  BY <1>4, <1>6

\* What std::sort leaves of the collected rows is an answer to the request, and
\* has at most one row for each of its pairs.
LEMMA ReplyIsAnswer ==
    ASSUME Inv, Accounted, main = "serving", sent = BatchCount(rr),
           Len(collected) = BatchCount(rr), NEW rows \in Sorted(all_results)
    PROVE  /\ Service!IsAnswer(rr, [request_hash |-> rr.request_hash, results |-> rows])
           /\ Len(rows) <= Len(rr.pairs)
<1> DEFINE D == DOMAIN all_results
           r == rr
<1>1. r \in RangePricingRequest /\ all_results \in Seq(PricingResponse) /\ sent \in Nat
  BY DEF Inv, TypeOK, MainType
<1>2. Range(collected) = 0 .. BatchCount(r) - 1
  BY <1>1, AllAreCollected
<1>3. PICK kept : AccountFor(r, all_results, 0 .. BatchCount(r) - 1, kept)
  BY <1>2 DEF Accounted
<1> DEFINE P == Places(r, kept)
           missing == (0 .. BatchCount(r) - 1) \ kept
<1>4. missing \in Service!Missing(r) /\ Service!Left(r, missing) = P
  BY <1>1, <1>3, MissingChunks
<1> HIDE DEF r
<1>5. PICK g \in [D -> P] :
          /\ g \in Bijection(D, P)
          /\ \A k \in D : all_results[k] = PriceRow(r.request, r.pairs[g[k]])
  BY <1>3 DEF AccountFor
<1>6. PICK p \in Bijection(D, D) : rows = [k \in D |-> all_results[p[k]]] /\ InOrder(rows)
  BY DEF Sorted, Rearrangements
<1> HIDE DEF P, D, missing
<1>7. /\ p \in [D -> D] /\ g \in [D -> P]
      /\ \A x, y \in D : p[x] = p[y] => x = y
      /\ \A x, y \in D : g[x] = g[y] => x = y
      /\ \A y \in D : \E x \in D : p[x] = y
      /\ \A i \in P : \E y \in D : g[y] = i
  BY <1>5, <1>6 DEF Bijection, Injection, Surjection, IsInjective
<1> DEFINE f == [k \in D |-> g[p[k]]]
<1>8. f \in [D -> P] /\ DOMAIN rows = D
  BY <1>6, <1>7
<1>9. \A x, y \in D : f[x] = f[y] => x = y
  BY <1>7
<1>10. \A i \in P : \E x \in D : f[x] = i
  BY <1>7
<1>11. \A k \in D : rows[k] = PriceRow(r.request, r.pairs[f[k]])
  BY <1>5, <1>6, <1>7
<1> HIDE DEF f
<1>12. f \in Bijection(D, P)
  BY <1>8, <1>9, <1>10 DEF Bijection, Injection, Surjection, IsInjective
<1>13. Service!PriceAll(rows, r, P)
  BY <1>8, <1>11, <1>12, ServiceData DEF Service!PriceAll
<1>14. Service!ByIdx(rows)
  BY <1>6 DEF InOrder, Service!ByIdx
<1>15. r # Malformed
  BY <1>1, ServerAssumption
<1>16. Service!IsAnswer(r, [request_hash |-> r.request_hash, results |-> rows])
  BY <1>4, <1>13, <1>14, <1>15 DEF Service!IsAnswer
<1>17. Len(rows) <= Len(r.pairs)
  <2>1. rows \in Seq(PricingResponse) /\ r.pairs \in Seq(AlphaBetaPair)
    BY <1>1, SortedType DEF RangePricingRequest
  <2>2. /\ D = 1 .. Len(rows) /\ Len(rows) \in Nat
        /\ DOMAIN r.pairs = 1 .. Len(r.pairs) /\ Len(r.pairs) \in Nat
    BY <1>8, <2>1
  <2>3. P \subseteq 1 .. Len(r.pairs)
    BY <2>2 DEF P, Places
  <2>4. f \in Injection(1 .. Len(rows), 1 .. Len(r.pairs))
    BY <1>8, <1>9, <2>2, <2>3 DEF Injection, IsInjective
  <2>5. /\ IsFiniteSet(1 .. Len(r.pairs)) /\ Cardinality(1 .. Len(r.pairs)) = Len(r.pairs)
        /\ Cardinality(1 .. Len(rows)) = Len(rows)
    <3>1. \A n \in Nat : IsFiniteSet(1 .. n) /\ Cardinality(1 .. n) = n
      BY FS_Interval
    <3> QED
      BY <2>2, <3>1
  <2> QED
    BY <2>4, <2>5, FS_Injection
<1> QED
  BY <1>16, <1>17 DEF r
\* The response that frontend.send is given is an answer to peer's request.
LEMMA ResponseIsAnswer ==
    ASSUME Inv, ClientInv, Accounted, SendError \/ SendReply
    PROVE  \E response \in RangePricingResponse :
              /\ Send(response) /\ Service!IsAnswer(rr, response)
              /\ \/ Verifies(response.results)
                 \/ rr \in RangePricingRequest /\ Len(response.results) <= Len(rr.pairs)
<1>1. CASE SendError
  <2>1. ErrorResponse \in RangePricingResponse
    BY DEF ErrorResponse, RangePricingResponse
  <2>2. Send(ErrorResponse) /\ rr = Malformed
    BY <1>1 DEF SendError, ClientInv
  <2>3. Service!IsAnswer(rr, ErrorResponse)
    BY <2>2 DEF Service!IsAnswer, ErrorResponse
  <2>4. Verifies(ErrorResponse.results)
    BY MaxTablesAssumption DEF ErrorResponse, Verifies
  <2> QED
    BY <2>1, <2>2, <2>3, <2>4
<1>2. CASE SendReply
  <2>1. main = "serving" /\ sent = BatchCount(rr) /\ Len(collected) = BatchCount(rr)
    BY <1>2 DEF SendReply
  <2>2. PICK rows \in Sorted(all_results) :
           Send([request_hash |-> rr.request_hash, results |-> rows])
    BY <1>2 DEF SendReply
  <2> DEFINE response == [request_hash |-> rr.request_hash, results |-> rows]
  <2>3. /\ rr \in RangePricingRequest /\ rr.request_hash \in Nat
        /\ all_results \in Seq(PricingResponse)
    BY <2>1 DEF Inv, TypeOK, MainType, RangePricingRequest
  <2>4. response \in RangePricingResponse
    BY <2>3, SortedType DEF RangePricingResponse
  <2>5. Service!IsAnswer(rr, response) /\ Len(response.results) <= Len(rr.pairs)
    BY <2>1, ReplyIsAnswer
  <2>6. Send(response)
    BY <2>2
  <2> HIDE DEF response
  <2> QED
    BY <2>3, <2>4, <2>5, <2>6
<1> QED
  BY <1>1, <1>2

\* Every step keeps the replies within the size of their requests.
LEMMA SizesNext ==
    Inv /\ ClientInv /\ Accounted /\ ReplySizes /\ [Next]_vars => ReplySizes'
<1> SUFFICES ASSUME Inv, ClientInv, Accounted, ReplySizes, [Next]_vars PROVE ReplySizes'
  OBVIOUS
<1>1. TypeOK
  BY DEF Inv
<1>2. CASE Aside
  BY <1>1, <1>2, AsideIs DEF ReplySizes, SizedReply
<1>3. CASE Leaving
  BY <1>3 DEF Leaving, MainTerm, JoinThreads, ReplySizes, SizedReply
<1>4. CASE SendError \/ SendReply
  <2>1. PICK response \in RangePricingResponse :
           /\ Send(response)
           /\ \/ Verifies(response.results)
              \/ rr \in RangePricingRequest /\ Len(response.results) <= Len(rr.pairs)
    BY <1>4, ResponseIsAnswer
  <2>2. PICK p \in Clients : p = peer
    BY <1>1, <1>4, ServerAssumption DEF SendError, SendReply, TypeOK, MainType
  <2>3. /\ \A c \in Clients \ {p} : cstate'[c] = cstate[c] /\ reply'[c] = reply[c]
        /\ request' = request
        /\ cstate'[p] = IF alive[p] THEN "replied" ELSE "lost"
        /\ alive[p] => reply'[p] = response
    BY <1>1, <2>1, <2>2 DEF Send, TypeOK, ClientType
  <2>4. /\ cstate'[p] = "replied" => SizedReply(p)'
        /\ cstate'[p] # "refused"
    BY <2>1, <2>2, <2>3 DEF SizedReply
  <2> QED
    BY <2>3, <2>4 DEF ReplySizes, SizedReply
<1>5. ASSUME NEW c \in Clients, RecvRequest(c) PROVE ReplySizes'
  BY <1>1, <1>5 DEF RecvRequest, TypeOK, ClientType, ReplySizes, SizedReply
<1>6. ASSUME NEW c \in Clients, ClientStep(c) PROVE ReplySizes'
  <2>1. /\ reply' = reply
        /\ \A d \in Clients : cstate[d] # "idle" => request'[d] = request[d]
    BY <1>1, <1>6, ClientStepIs
  <2>2. \A d \in Clients :
           /\ cstate'[d] = "replied" => cstate[d] = "replied"
           /\ cstate'[d] = "refused" => \/ cstate[d] = "refused"
                                        \/ cstate[d] = "replied" /\ ~Verifies(reply[d].results)
    BY <1>1, <1>6 DEF ClientStep, ClientSend, ClientRecv, PyClientRecv, ClientCrash, DropRequest,
                      TypeOK, ClientType
  <2> QED
    BY <2>1, <2>2 DEF ReplySizes, SizedReply
<1>7. CASE \E w \in Workers : \/ DispatchBatch(w) \/ CollectResult(w) \/ PullBatch(w)
                              \/ PriceBatch(w) \/ PushResult(w) \/ WorkerTerm(w)
  BY <1>7, WorkIs DEF ReplySizes, SizedReply
<1> QED
  BY <1>2, <1>3, <1>4, <1>5, <1>6, <1>7, StepKinds

-----------------------------------------------------------------------------
(***************************************************************************)
(* The refinement.                                                         *)
(***************************************************************************)
ServiceInv == Inv /\ ClientInv /\ OwnMessages /\ Accounted /\ ReplySizes

\* Nothing is taken, on its way or collected when run_server starts.
LEMMA ServiceInit == Init => ServiceInv
<1> SUFFICES ASSUME Init PROVE ServiceInv
  OBVIOUS
<1>1. Inv
  BY InitInv
<1>2. ClientInv /\ OwnMessages /\ Accounted /\ ReplySizes
  BY DEF Init, ClientInv, OwnMessages, Accounted, ReplySizes
<1> QED
  BY <1>1, <1>2 DEF ServiceInv

\* Every step keeps the invariant.
LEMMA ServiceNext == ServiceInv /\ [Next]_vars => ServiceInv'
<1> SUFFICES ASSUME ServiceInv, [Next]_vars PROVE ServiceInv'
  OBVIOUS
<1>1. Inv /\ Inv' /\ TypeOK
  BY NextInv DEF ServiceInv, Inv
<1> QED
  BY <1>1, ClientNext, OwnNext, AccountedNext, SizesNext DEF ServiceInv

\* So it holds in every reachable state.
LEMMA ServiceInvariance == Spec => []ServiceInv
<1> QED
  BY ServiceInit, ServiceNext, PTL DEF Spec

\* A client of client.cpp calls a reply invalid only when it asked for more rows
\* than its verifier accepts, whatever was served before and in which order the
\* workers answered.
THEOREM RefusalsAreHuge == Spec => []OnlyHugeRepliesRefused
<1>1. ServiceInv => OnlyHugeRepliesRefused
  <2> SUFFICES ASSUME ServiceInv, NEW c \in Clients, cstate[c] = "refused"
               PROVE  /\ request[c] \in RangePricingRequest
                      /\ Len(request[c].pairs) + 1 > MaxTables
    BY DEF OnlyHugeRepliesRefused
  <2>1. SizedReply(c) /\ ~Verifies(reply[c].results)
    BY DEF ServiceInv, ReplySizes
  <2>2. request[c] \in RangePricingRequest /\ Len(reply[c].results) <= Len(request[c].pairs)
    BY <2>1 DEF SizedReply
  <2>3. Len(reply[c].results) \in Nat /\ Len(request[c].pairs) \in Nat
    BY <2>1, <2>2 DEF SizedReply, RangePricingResponse, RangePricingRequest
  <2> QED
    BY <2>1, <2>2, <2>3, MaxTablesAssumption DEF Verifies
<1> QED
  BY <1>1, ServiceInvariance, PTL

\* The state in which run_server starts is one of the service's.
LEMMA RefineInit == Init => Service!Init
BY DEF Init, Service!Init

\* frontend.send is the service's answer.
LEMMA RefineSend ==
    ASSUME ServiceInv, SendError \/ SendReply
    PROVE  \E c \in Clients : Service!Answer(c)
<1>1. PICK response \in RangePricingResponse : Send(response) /\ Service!IsAnswer(rr, response)
  BY ResponseIsAnswer DEF ServiceInv
<1>2. TypeOK /\ main \in {"reject", "serving"} /\ peer \in Clients /\ cstate[peer] = "taken"
  BY DEF SendError, SendReply, ServiceInv, Inv, TypeOK, MainType
<1>3. main \notin {"join", "exited"} /\ main' \notin {"join", "exited"} /\ UNCHANGED <<alive, request>>
  BY <1>1, <1>2 DEF Send
<1>4. CASE alive[peer]
  <2>1. /\ cstate' = [cstate EXCEPT ![peer] = "replied"]
        /\ reply' = [reply EXCEPT ![peer] = response]
    BY <1>1, <1>4 DEF Send
  <2>2. reply'[peer] = response
    BY <1>2, <2>1 DEF TypeOK, ClientType
  <2>3. reply'[peer] \in Service!RangePricingResponse
    BY <2>2, ServiceData
  <2>4. Service!IsAnswer(request[peer], reply'[peer])
    BY <1>1, <2>2
  <2>5. reply' = [reply EXCEPT ![peer] = reply'[peer]]
    BY <2>1, <2>2
  <2>6. Service!Answer(peer)
    BY <1>2, <1>3, <1>4, <2>1, <2>3, <2>4, <2>5 DEF Service!Answer
  <2> QED
    BY <1>2, <2>6
<1>5. CASE ~alive[peer]
  <2>1. /\ cstate' = [cstate EXCEPT ![peer] = "lost"]
        /\ reply' = [reply EXCEPT ![peer] = None]
    BY <1>1, <1>5 DEF Send
  <2>2. reply[peer] = None
    BY <1>2 DEF ServiceInv, ClientInv
  <2>3. reply' = reply
    BY <1>2, <2>1, <2>2 DEF TypeOK, ClientType
  <2>4. Service!Answer(peer)
    BY <1>2, <1>3, <1>5, <2>1, <2>3 DEF Service!Answer
  <2> QED
    BY <1>2, <2>4
<1> QED
  BY <1>4, <1>5

\* A client's own step is one of the service's client.
LEMMA RefineClient ==
    ASSUME TypeOK, NEW c \in Clients, ClientStep(c)
    PROVE  \/ \E r \in Requests : Service!Submit(c, r)
           \/ Service!Receive(c) \/ Service!Crash(c) \/ Service!Forget(c)
<1>1. main' = main
  BY ClientStepIs
<1>2. ASSUME NEW r \in Requests, ClientSend(c, r) PROVE Service!Submit(c, r)
  BY <1>1, <1>2 DEF ClientSend, Service!Submit
<1>3. CASE ClientRecv(c)
  BY <1>1, <1>3, ServiceData DEF ClientRecv, Service!Receive
<1>4. CASE PyClientRecv(c)
  BY <1>1, <1>4 DEF PyClientRecv, Service!Receive
<1>5. CASE ClientCrash(c)
  BY <1>1, <1>5 DEF ClientCrash, Service!Crash
<1>6. CASE DropRequest(c)
  BY <1>1, <1>6 DEF DropRequest, Service!Forget
<1> QED
  BY <1>2, <1>3, <1>4, <1>5, <1>6 DEF ClientStep

\* Every step of the server is one of the service's, or leaves what a client
\* sees as it is.
LEMMA RefineNext == ServiceInv /\ [Next]_vars => [Service!Next]_(Service!vars)
<1> SUFFICES ASSUME ServiceInv, [Next]_vars PROVE [Service!Next]_(Service!vars)
  OBVIOUS
<1>1. TypeOK
  BY DEF ServiceInv, Inv
<1>2. CASE Aside \/ Leaving
  <2>1. /\ UNCHANGED <<cstate, alive, request, reply>>
        /\ \/ main' \notin {"join", "exited"} /\ main \notin {"join", "exited"}
           \/ main' \in {"join", "exited"}
    BY <1>1, <1>2, AsideIs DEF Leaving, MainTerm, JoinThreads
  <2>2. UNCHANGED Service!vars \/ Service!Stop
    BY <2>1 DEF Service!vars, Service!Stop
  <2> QED
    BY <2>2 DEF Service!Next
<1>3. CASE SendError \/ SendReply
  BY <1>3, RefineSend DEF Service!Next
<1>4. ASSUME NEW c \in Clients, RecvRequest(c) PROVE Service!Next
  <2>1. \A d \in Clients : cstate[d] # "taken"
    BY <1>4 DEF RecvRequest, ServiceInv, ClientInv
  <2>2. Service!Accept(c)
    BY <1>4, <2>1 DEF RecvRequest, Service!Accept
  <2> QED
    BY <2>2 DEF Service!Next
<1>5. ASSUME NEW c \in Clients, ClientStep(c) PROVE Service!Next
  BY <1>1, <1>5, RefineClient DEF Service!Next
<1>6. CASE \E w \in Workers : \/ DispatchBatch(w) \/ CollectResult(w) \/ PullBatch(w)
                              \/ PriceBatch(w) \/ PushResult(w) \/ WorkerTerm(w)
  BY <1>6, WorkIs DEF Service!vars
<1> QED
  BY <1>2, <1>3, <1>4, <1>5, <1>6, StepKinds

\* run_server implements RangeService: one request at a time, at most one reply
\* each, none after the server stopped, and every reply the request's own hash
\* and rows in the order of idx, less whole chunks that had a reason to lack.
THEOREM ServerImplementsService == Spec => Implements
<1> QED
  BY RefineInit, RefineNext, ServiceInvariance, PTL DEF Spec, Implements, Service!Spec
=============================================================================
