-------------------------- MODULE RangeServerProofs --------------------------
(***************************************************************************)
(* Theorems about RangeServer, for any number of workers and clients, any  *)
(* requests, any simd_lanes >= 1 and any high-water mark.                  *)
(***************************************************************************)
EXTENDS RangeServer, TLAPS, FiniteSetTheorems, SequenceTheorems

-----------------------------------------------------------------------------
(***************************************************************************)
(* The operators the actions are built from.                               *)
(***************************************************************************)

\* The reader of a pipe reports after a positive number of messages.
LEMMA LwmType == Lwm \in Nat \ {0} /\ Lwm <= Hwm
BY HwmAssumption DEF Lwm

\* Writing keeps a pipe well formed, and within its mark when there was room.
LEMMA PutPipe ==
    ASSUME NEW M, NEW p \in PipeOf(M), NEW m \in M
    PROVE  /\ Put(p, m) \in PipeOf(M)
           /\ Put(p, m).queue = Append(p.queue, m)
           /\ Put(p, m).unreported = p.unreported
           /\ Len(Put(p, m).queue) = Len(p.queue) + 1
BY DEF Put, PipeOf

\* Reading keeps a pipe well formed, and never takes room away.
LEMMA TakePipe ==
    ASSUME NEW M, NEW p \in PipeOf(M), HasMessage(p)
    PROVE  /\ Take(p) \in PipeOf(M)
           /\ Head(p.queue) \in M
           /\ Take(p).queue = Tail(p.queue)
           /\ Len(Take(p).queue) + Take(p).unreported <= Len(p.queue) + p.unreported
<1>1. /\ p.queue \in Seq(M) /\ p.queue # <<>>
      /\ p.unreported \in 0 .. Lwm - 1
  BY DEF PipeOf, HasMessage
<1>2. Tail(p.queue) \in Seq(M) /\ Len(Tail(p.queue)) = Len(p.queue) - 1 /\ Head(p.queue) \in M
  BY <1>1
<1>3. /\ (p.unreported + 1) % Lwm \in 0 .. Lwm - 1
      /\ (p.unreported + 1) % Lwm <= p.unreported + 1
  BY <1>1, LwmType
<1> QED
  BY <1>1, <1>2, <1>3, LwmType DEF Take, PipeOf

\* A pipe stays within its mark: the writer waits for room, the reader makes it.
LEMMA PutWithinMark ==
    ASSUME NEW M, NEW p \in PipeOf(M), NEW m \in M, HasRoom(p)
    PROVE  WithinMark(Put(p, m))
<1>1. Len(p.queue) \in Nat /\ p.unreported \in Int
  BY DEF PipeOf
<1> QED
  BY <1>1, PutPipe, HwmAssumption DEF HasRoom, WithinMark

\* Reading keeps a pipe within its mark.
LEMMA TakeWithinMark ==
    ASSUME NEW M, NEW p \in PipeOf(M), HasMessage(p), WithinMark(p)
    PROVE  WithinMark(Take(p))
<1>1. Len(p.queue) \in Nat /\ p.unreported \in Int
  BY DEF PipeOf
<1>2. Len(Take(p).queue) \in Nat /\ Take(p).unreported \in Int
  BY TakePipe DEF PipeOf
<1> QED
  BY <1>1, <1>2, TakePipe, HwmAssumption DEF WithinMark

\* The pairs of a chunk are pairs of the request.
LEMMA ChunkPairsType ==
    ASSUME NEW pairs \in Seq(AlphaBetaPair), NEW c \in Nat
    PROVE  ChunkPairs(pairs, c) \in Seq(AlphaBetaPair)
<1> DEFINE m == ChunkStart(c) + 1
           n == ChunkEnd(c, Len(pairs))
<1>1. ChunkStart(c) \in Nat
  BY SimdLanesAssumption DEF ChunkStart
<1>2. n \in Int /\ n <= Len(pairs)
  BY <1>1, SimdLanesAssumption DEF ChunkEnd
<1>3. \A i \in m .. n : pairs[i] \in AlphaBetaPair
  BY <1>1, <1>2, ElementOfSeq
<1> HIDE DEF m, n
<1>4. SubSeq(pairs, m, n) \in Seq(AlphaBetaPair)
  BY <1>1, <1>2, <1>3, SubSeqProperties DEF m
<1> QED
  BY <1>4 DEF ChunkPairs, m, n

\* What expand_to_batches builds is a BatchPricingRequest.
LEMMA BatchType ==
    ASSUME NEW r \in RangePricingRequest, NEW c \in Nat
    PROVE  Batch(r, c) \in BatchPricingRequest
<1>1. r.request \in PricingParams /\ r.pairs \in Seq(AlphaBetaPair)
  BY DEF RangePricingRequest
<1>2. BatchParams(r.request) \in PricingParams
  BY <1>1 DEF BatchParams, PricingParams, OptionType
<1> QED
  BY <1>1, <1>2, ChunkPairsType DEF Batch, BatchPricingRequest

\* What a worker pushes is a BatchPricingResponse for the batch it pulled.
LEMMA ResponseType ==
    ASSUME NEW b \in BatchPricingRequest
    PROVE  /\ Priced(b) \in BatchPricingResponse
           /\ Failed(b) \in BatchPricingResponse
           /\ Priced(b).batch_id = b.batch_counter_id
           /\ Failed(b).batch_id = b.batch_counter_id
<1>1. b.request \in PricingParams /\ b.pairs \in Seq(AlphaBetaPair) /\ b.batch_counter_id \in Nat
  BY DEF BatchPricingRequest
<1>2. PresentValue(b.request) \in Int
  BY <1>1 DEF PresentValue, PricingParams
<1>3. \A pair \in AlphaBetaPair : PriceRow(b.request, pair) \in PricingResponse
  BY <1>2 DEF PriceRow, AlphaBetaPair, PricingResponse
<1>4. PriceRows(b.request, b.pairs) \in Seq(PricingResponse)
  BY <1>1, <1>3 DEF PriceRows
<1> QED
  BY <1>1, <1>4 DEF Priced, Failed, BatchPricingResponse

\* Sorting leaves rows.
LEMMA SortedType ==
    ASSUME NEW rows \in Seq(PricingResponse), NEW s \in Sorted(rows)
    PROVE  s \in Seq(PricingResponse)
<1>1. PICK p \in [DOMAIN rows -> DOMAIN rows] : s = [k \in DOMAIN rows |-> rows[p[k]]]
  BY DEF Sorted, Rearrangements, Bijection, Injection
<1>2. p \in [DOMAIN rows -> DOMAIN rows]
  BY <1>1
<1>3. DOMAIN rows = 1 .. Len(rows) /\ Len(rows) \in Nat
  OBVIOUS
<1> QED
  BY <1>1, <1>2, <1>3
-----------------------------------------------------------------------------
(***************************************************************************)
(* Type correctness.                                                       *)
(***************************************************************************)

\* The groups of vars, to expand UNCHANGED, and the parts of the actions.
USE DEF mainVars, pipeVars, workerVars, exitVars, clientVars, rr,
        FreshRows, Accepts, AllCollected, OnFailure, NextTurn, SocketCalls

\* The state in which run_server is about to bind is well typed.
LEMMA InitType == Init => TypeOK
<1> SUFFICES ASSUME Init PROVE TypeOK
  OBVIOUS
<1>1. MainType
  BY DEF Init, MainType
<1>2. PipeType
  BY LwmType, HwmAssumption DEF Init, PipeType, PipeOf, EmptyPipe, WithinMark
<1>3. WorkerType /\ ExitType /\ ClientType
  BY DEF Init, WorkerType, ExitType, ClientType
<1> QED
  BY <1>1, <1>2, <1>3 DEF TypeOK

\* frontend.send with a well-formed response keeps the types.
LEMMA SendType ==
    ASSUME TypeOK, main \in {"reject", "serving"},
           NEW response \in RangePricingResponse, Send(response)
    PROVE  TypeOK'
<1> USE DEF TypeOK, Send
<1>1. peer \in Clients
  BY ServerAssumption DEF MainType
<1>2. MainType'
  BY DEF MainType
<1>3. PipeType' /\ WorkerType' /\ ExitType'
  BY DEF PipeType, WorkerType, ExitType
<1>4. ClientType'
  BY <1>1 DEF MainType, ClientType
<1> QED
  BY <1>2, <1>3, <1>4

\* Every step of every thread and client keeps the types.
LEMMA NextType == TypeOK /\ [Next]_vars => TypeOK'
<1> SUFFICES ASSUME TypeOK, [Next]_vars PROVE TypeOK'
  OBVIOUS
<1> USE DEF TypeOK
<1>1. CASE BindFrontend
  BY <1>1 DEF BindFrontend, MainType, PipeType, WorkerType, ExitType, ClientType
<1>2. ASSUME NEW c \in Clients, RecvRequest(c) PROVE TypeOK'
  <2>1. request[c] \in RangePricingRequest \cup {Malformed}
    BY <1>2, ServerAssumption DEF RecvRequest, ClientType
  <2>2. MainType'
    BY <1>2, <2>1, ServerAssumption DEF RecvRequest, MainType, ClientType
  <2>3. ClientType'
    BY <1>2 DEF RecvRequest, ClientType
  <2>4. PipeType' /\ WorkerType' /\ ExitType'
    BY <1>2 DEF RecvRequest, PipeType, WorkerType, ExitType
  <2> QED
    BY <2>2, <2>3, <2>4
<1>3. CASE SendError
  <2>1. ErrorResponse \in RangePricingResponse
    BY DEF ErrorResponse, RangePricingResponse
  <2> QED
    BY <1>3, <2>1, SendType DEF SendError
<1>4. CASE SendReply
  <2>1. PICK rows \in Sorted(all_results) :
           Send([request_hash |-> rr.request_hash, results |-> rows])
    BY <1>4 DEF SendReply
  <2>2. rows \in Seq(PricingResponse) /\ rr.request_hash \in Nat
    BY <1>4, SortedType DEF SendReply, MainType, RangePricingRequest
  <2>3. [request_hash |-> rr.request_hash, results |-> rows] \in RangePricingResponse
    BY <2>2 DEF RangePricingResponse
  <2> QED
    BY <1>4, <2>1, <2>3, SendType DEF SendReply
<1>5. ASSUME NEW w \in Workers, DispatchBatch(w) PROVE TypeOK'
  <2>1. Batch(rr, sent) \in BatchPricingRequest
    BY <1>5, BatchType DEF DispatchBatch, MainType
  <2>2. /\ Put(dispatch[w], Batch(rr, sent)) \in PipeOf(BatchPricingRequest)
        /\ WithinMark(Put(dispatch[w], Batch(rr, sent)))
    BY <1>5, <2>1, PutPipe, PutWithinMark DEF DispatchBatch, PipeType
  <2>3. PipeType'
    BY <1>5, <2>2 DEF DispatchBatch, PipeType
  <2>4. MainType'
    BY <1>5 DEF DispatchBatch, MainType
  <2>5. WorkerType' /\ ExitType' /\ ClientType'
    BY <1>5 DEF DispatchBatch, WorkerType, ExitType, ClientType
  <2> QED
    BY <2>3, <2>4, <2>5
<1>6. ASSUME NEW w \in Workers, CollectResult(w) PROVE TypeOK'
  <2> DEFINE result_msg == Head(results[w].queue)
  <2>1. results[w] \in PipeOf(BatchPricingResponse) /\ HasMessage(results[w])
    BY <1>6 DEF CollectResult, PipeType
  <2>2. /\ Take(results[w]) \in PipeOf(BatchPricingResponse)
        /\ result_msg \in BatchPricingResponse
        /\ WithinMark(Take(results[w]))
    BY <2>1, TakePipe, TakeWithinMark DEF PipeType
  <2>3. PipeType'
    BY <1>6, <2>2 DEF CollectResult, PipeType
  <2>4. result_msg.batch_id \in Nat /\ ReadRows(result_msg) \in Seq(PricingResponse)
    BY <2>2 DEF BatchPricingResponse, ReadRows
  <2>5. MainType'
    BY <1>6, <2>4 DEF CollectResult, MainType
  <2>6. WorkerType' /\ ExitType' /\ ClientType'
    BY <1>6 DEF CollectResult, WorkerType, ExitType, ClientType
  <2> QED
    BY <2>3, <2>5, <2>6
<1>7. CASE MainTerm
  BY <1>7 DEF MainTerm, MainType, PipeType, WorkerType, ExitType, ClientType
<1>8. CASE JoinThreads
  BY <1>8 DEF JoinThreads, MainType, PipeType, WorkerType, ExitType, ClientType
<1>9. ASSUME NEW w \in Workers, ConnectPull(w) \/ ConnectPush(w) PROVE TypeOK'
  <2>1. WorkerType'
    BY <1>9 DEF ConnectPull, ConnectPush, WorkerType
  <2>2. MainType' /\ PipeType' /\ ExitType' /\ ClientType'
    BY <1>9 DEF ConnectPull, ConnectPush, MainType, PipeType, ExitType, ClientType
  <2> QED
    BY <2>1, <2>2
<1>10. ASSUME NEW w \in Workers, PullBatch(w) PROVE TypeOK'
  <2>1. dispatch[w] \in PipeOf(BatchPricingRequest) /\ HasMessage(dispatch[w])
    BY <1>10 DEF PullBatch, PipeType
  <2>2. /\ Take(dispatch[w]) \in PipeOf(BatchPricingRequest)
        /\ Head(dispatch[w].queue) \in BatchPricingRequest
        /\ WithinMark(Take(dispatch[w]))
    BY <2>1, TakePipe, TakeWithinMark DEF PipeType
  <2>3. PipeType'
    BY <1>10, <2>2 DEF PullBatch, PipeType
  <2>4. WorkerType'
    BY <1>10, <2>2 DEF PullBatch, WorkerType
  <2>5. MainType' /\ ExitType' /\ ClientType'
    BY <1>10 DEF PullBatch, MainType, ExitType, ClientType
  <2> QED
    BY <2>3, <2>4, <2>5
<1>11. ASSUME NEW w \in Workers, PriceBatch(w) PROVE TypeOK'
  <2>1. hand[w] \in BatchPricingRequest
    BY <1>11 DEF PriceBatch, WorkerType
  <2>2. hand' \in {[hand EXCEPT ![w] = Priced(@)], [hand EXCEPT ![w] = Failed(@)]}
    BY <1>11 DEF PriceBatch
  <2>3. WorkerType'
    BY <1>11, <2>1, <2>2, ResponseType DEF PriceBatch, WorkerType
  <2>4. MainType' /\ PipeType' /\ ExitType' /\ ClientType'
    BY <1>11 DEF PriceBatch, MainType, PipeType, ExitType, ClientType
  <2> QED
    BY <2>3, <2>4
<1>12. ASSUME NEW w \in Workers, PushResult(w) PROVE TypeOK'
  <2>1. hand[w] \in BatchPricingResponse
    BY <1>12 DEF PushResult, WorkerType
  <2>2. /\ Put(results[w], hand[w]) \in PipeOf(BatchPricingResponse)
        /\ WithinMark(Put(results[w], hand[w]))
    BY <1>12, <2>1, PutPipe, PutWithinMark DEF PushResult, PipeType
  <2>3. PipeType'
    BY <1>12, <2>2 DEF PushResult, PipeType
  <2>4. WorkerType'
    BY <1>12 DEF PushResult, WorkerType
  <2>5. MainType' /\ ExitType' /\ ClientType'
    BY <1>12 DEF PushResult, MainType, ExitType, ClientType
  <2> QED
    BY <2>3, <2>4, <2>5
<1>13. ASSUME NEW w \in Workers, WorkerTerm(w) \/ SocketFails(w) PROVE TypeOK'
  <2>1. WorkerType'
    BY <1>13 DEF WorkerTerm, SocketFails, WorkerType
  <2>2. MainType' /\ PipeType' /\ ExitType' /\ ClientType'
    BY <1>13 DEF WorkerTerm, SocketFails, MainType, PipeType, ExitType, ClientType
  <2> QED
    BY <2>1, <2>2
<1>14. CASE SendSignal \/ SigWait \/ ShutdownContext
  BY <1>14 DEF SendSignal, SigWait, ShutdownContext,
               MainType, PipeType, WorkerType, ExitType, ClientType
<1>15. ASSUME NEW c \in Clients, NEW r \in Requests, ClientSend(c, r) PROVE TypeOK'
  <2>1. MainType'
    BY <1>15 DEF ClientSend, MainType, ClientType
  <2>2. ClientType'
    BY <1>15 DEF ClientSend, ClientType
  <2>3. PipeType' /\ WorkerType' /\ ExitType'
    BY <1>15 DEF ClientSend, PipeType, WorkerType, ExitType
  <2> QED
    BY <2>1, <2>2, <2>3
<1>16. ASSUME NEW c \in Clients, ClientRecv(c) \/ PyClientRecv(c) \/ ClientCrash(c) \/ DropRequest(c)
      PROVE  TypeOK'
  <2>1. MainType'
    BY <1>16 DEF ClientRecv, PyClientRecv, ClientCrash, DropRequest, MainType, ClientType
  <2>2. ClientType'
    BY <1>16 DEF ClientRecv, PyClientRecv, ClientCrash, DropRequest, ClientType
  <2>3. PipeType' /\ WorkerType' /\ ExitType'
    BY <1>16 DEF ClientRecv, PyClientRecv, ClientCrash, DropRequest, PipeType, WorkerType, ExitType
  <2> QED
    BY <2>1, <2>2, <2>3
<1>17. CASE UNCHANGED vars
  BY <1>17 DEF vars, MainType, PipeType, WorkerType, ExitType, ClientType
<1> QED
  BY <1>1, <1>2, <1>3, <1>4, <1>5, <1>6, <1>7, <1>8, <1>9, <1>10, <1>11, <1>12,
     <1>13, <1>14, <1>15, <1>16, <1>17
     DEF Next, MainStep, WorkerStep, MonitorStep, ClientStep, Terminated

\* Every reachable state is well typed; in particular no pipe ever holds more
\* than its high-water mark, and the request being served stays verified.
THEOREM TypeCorrect == Spec => []TypeOK
<1> QED
  BY InitType, NextType, PTL DEF Spec

-----------------------------------------------------------------------------
(***************************************************************************)
(* No chunk is in two places.                                              *)
(*                                                                         *)
(* The argument is about the sequences of chunk numbers alone: P[w] is the *)
(* pipeline of worker w, col what was collected, n how many were sent.     *)
(* The actions do four things to them: append n to a pipeline, move the    *)
(* head of one to col, drop a number out of one, or start again with none. *)
(***************************************************************************)
Apart(P, col, n) ==
    /\ \A i, j \in DOMAIN col : col[i] = col[j] => i = j
    /\ \A i \in DOMAIN col : col[i] \in 0 .. n - 1
    /\ \A w \in Workers : \A k \in DOMAIN P[w] :
          /\ P[w][k] \in 0 .. n - 1
          /\ \A i \in DOMAIN col : col[i] # P[w][k]
    /\ \A v, w \in Workers : \A j \in DOMAIN P[v] : \A k \in DOMAIN P[w] :
          P[v][j] = P[w][k] => v = w /\ j = k

Pipelines == [w \in Workers |-> Pipeline(w)]

\* Two places that hold the same chunk are one place.
LEMMA ApartSame ==
    ASSUME NEW P, NEW col, NEW n, Apart(P, col, n)
    PROVE  \A u, v \in Workers : \A j \in DOMAIN P[u] : \A k \in DOMAIN P[v] :
              P[u][j] = P[v][k] => u = v /\ j = k
BY DEF Apart

\* dispatch.send adds a chunk whose number was not used before.
LEMMA ApartSend ==
    ASSUME NEW P \in [Workers -> Seq(Nat)], NEW col \in Seq(Nat), NEW n \in Nat,
           NEW w \in Workers, Apart(P, col, n)
    PROVE  Apart([P EXCEPT ![w] = Append(@, n)], col, n + 1)
<1> DEFINE Q == [P EXCEPT ![w] = Append(@, n)]
<1>1. Q \in [Workers -> Seq(Nat)]
  OBVIOUS
<1>2. \A v \in Workers : \A k \in DOMAIN Q[v] :
        \/ k \in DOMAIN P[v] /\ Q[v][k] = P[v][k]
        \/ v = w /\ k = Len(P[w]) + 1 /\ Q[v][k] = n
  OBVIOUS
<1> HIDE DEF Q
<1>3. \A v \in Workers : \A k \in DOMAIN P[v] : P[v][k] \in Nat /\ P[v][k] < n
  BY DEF Apart
<1>4. \A i \in DOMAIN col : col[i] \in Nat /\ col[i] < n
  BY DEF Apart
<1>5. \A v \in Workers : \A k \in DOMAIN Q[v] :
        Q[v][k] \in 0 .. n /\ \A i \in DOMAIN col : col[i] # Q[v][k]
  <2> SUFFICES ASSUME NEW v \in Workers, NEW k \in DOMAIN Q[v]
               PROVE  Q[v][k] \in 0 .. n /\ \A i \in DOMAIN col : col[i] # Q[v][k]
    OBVIOUS
  <2>1. CASE k \in DOMAIN P[v] /\ Q[v][k] = P[v][k]
    <3>1. \A i \in DOMAIN col : col[i] # P[v][k]
      BY <2>1 DEF Apart
    <3> QED
      BY <2>1, <3>1, <1>3
  <2>2. CASE v = w /\ k = Len(P[w]) + 1 /\ Q[v][k] = n
    BY <2>2, <1>4
  <2> QED
    BY <2>1, <2>2, <1>2
<1>6. \A u, v \in Workers : \A j \in DOMAIN Q[u] : \A k \in DOMAIN Q[v] :
        Q[u][j] = Q[v][k] => u = v /\ j = k
  <2> SUFFICES ASSUME NEW u \in Workers, NEW v \in Workers,
                      NEW j \in DOMAIN Q[u], NEW k \in DOMAIN Q[v],
                      Q[u][j] = Q[v][k]
               PROVE  u = v /\ j = k
    OBVIOUS
  <2>1. CASE j \in DOMAIN P[u] /\ Q[u][j] = P[u][j] /\ k \in DOMAIN P[v] /\ Q[v][k] = P[v][k]
    <3>1. P[u][j] = P[v][k]
      BY <2>1
    <3>2. \A y, z \in Workers : \A g \in DOMAIN P[y] : \A h \in DOMAIN P[z] :
          P[y][g] = P[z][h] => y = z /\ g = h
      BY ApartSame
    <3> QED
      BY <2>1, <3>1, <3>2
  <2>2. CASE Q[u][j] = n
    <3>1. \A x \in Workers : \A l \in DOMAIN P[x] : P[x][l] # n
      BY <1>3
    <3>2. u = w /\ j = Len(P[w]) + 1
      BY Zenon, <2>2, <3>1, <1>2
    <3>3. Q[v][k] = n
      BY <2>2
    <3>4. v = w /\ k = Len(P[w]) + 1
      BY Zenon, <3>3, <3>1, <1>2
    <3> QED
      BY <3>2, <3>4
  <2> QED
    BY <2>1, <2>2, <1>2
<1>7. Apart(Q, col, n + 1)
  BY <1>4, <1>5, <1>6 DEF Apart
<1> QED
  BY <1>7 DEF Q

\* results.recv moves the oldest chunk of a pipeline to the collected ones.
LEMMA ApartCollect ==
    ASSUME NEW P \in [Workers -> Seq(Nat)], NEW col \in Seq(Nat), NEW n \in Nat,
           NEW w \in Workers, P[w] # <<>>, Apart(P, col, n)
    PROVE  Apart([P EXCEPT ![w] = Tail(@)], Append(col, Head(P[w])), n)
<1> DEFINE Q == [P EXCEPT ![w] = Tail(@)]
           new == Append(col, P[w][1])
<1>1. /\ P[w] \in Seq(Nat) /\ Len(P[w]) \in Nat /\ 1 \in DOMAIN P[w]
      /\ DOMAIN P[w] = 1 .. Len(P[w])
      /\ Head(P[w]) = P[w][1]
  OBVIOUS
<1>2. \A v \in Workers : \A k \in DOMAIN Q[v] :
        \/ v # w /\ k \in DOMAIN P[v] /\ Q[v][k] = P[v][k]
        \/ v = w /\ k \in Nat /\ k # 0 /\ k + 1 \in DOMAIN P[w] /\ Q[v][k] = P[w][k + 1]
  BY <1>1
<1>3. \A i \in DOMAIN new :
        \/ i \in DOMAIN col /\ new[i] = col[i]
        \/ i = Len(col) + 1 /\ new[i] = P[w][1]
  OBVIOUS
<1> HIDE DEF Q, new
<1>4. \A i, j \in DOMAIN new : new[i] = new[j] => i = j
  BY <1>1, <1>3 DEF Apart
<1>5. \A i \in DOMAIN new : new[i] \in 0 .. n - 1
  BY <1>1, <1>3 DEF Apart
<1>6. \A v \in Workers : \A k \in DOMAIN Q[v] :
        Q[v][k] \in 0 .. n - 1 /\ \A i \in DOMAIN new : new[i] # Q[v][k]
  <2> SUFFICES ASSUME NEW v \in Workers, NEW k \in DOMAIN Q[v]
               PROVE  Q[v][k] \in 0 .. n - 1 /\ \A i \in DOMAIN new : new[i] # Q[v][k]
    OBVIOUS
  <2>1. CASE v # w /\ k \in DOMAIN P[v] /\ Q[v][k] = P[v][k]
    <3>1. P[v][k] \in 0 .. n - 1 /\ \A i \in DOMAIN col : col[i] # P[v][k]
      BY <2>1 DEF Apart
    <3>2. P[w][1] # P[v][k]
      BY <2>1, <1>1 DEF Apart
    <3> QED
      BY <2>1, <3>1, <3>2, <1>3
  <2>2. CASE v = w /\ k \in Nat /\ k # 0 /\ k + 1 \in DOMAIN P[w] /\ Q[v][k] = P[w][k + 1]
    <3>1. k + 1 # 1
      BY <2>2
    <3>2. P[w][k + 1] # P[w][1]
      BY <2>2, <3>1, <1>1 DEF Apart
    <3> QED
      BY <2>2, <3>2, <1>3 DEF Apart
  <2> QED
    BY <2>1, <2>2, <1>2
<1>7. \A u, v \in Workers : \A j \in DOMAIN Q[u] : \A k \in DOMAIN Q[v] :
        Q[u][j] = Q[v][k] => u = v /\ j = k
  <2> SUFFICES ASSUME NEW u \in Workers, NEW v \in Workers,
                      NEW j \in DOMAIN Q[u], NEW k \in DOMAIN Q[v],
                      Q[u][j] = Q[v][k]
               PROVE  u = v /\ j = k
    OBVIOUS
  <2>1. CASE u = w /\ v = w
    <3>1. j \in Nat /\ k \in Nat /\ j + 1 = k + 1
      BY <2>1, <1>2 DEF Apart
    <3> QED
      BY <2>1, <3>1
  <2>2. CASE u # w \/ v # w
    BY <2>2, <1>2 DEF Apart
  <2> QED
    BY <2>1, <2>2
<1>8. Apart(Q, new, n)
  BY <1>4, <1>5, <1>6, <1>7 DEF Apart
<1> QED
  BY <1>1, <1>8 DEF Q, new

\* A worker that ends loses the chunk it has in hand.
LEMMA ApartDrop ==
    ASSUME NEW P \in [Workers -> Seq(Nat)], NEW col \in Seq(Nat), NEW n \in Nat,
           NEW w \in Workers, NEW a \in Seq(Nat), NEW x \in Nat, NEW b \in Seq(Nat),
           P[w] = a \o <<x>> \o b, Apart(P, col, n)
    PROVE  Apart([P EXCEPT ![w] = a \o b], col, n)
<1> DEFINE Q == [P EXCEPT ![w] = a \o b]
           old == [k \in Nat |-> IF k <= Len(a) THEN k ELSE k + 1]
<1>1. /\ DOMAIN (a \o b) = 1 .. Len(a) + Len(b)
      /\ DOMAIN P[w] = 1 .. Len(a) + 1 + Len(b)
      /\ Len(a) \in Nat /\ Len(b) \in Nat
  OBVIOUS
<1>8. \A k \in Nat : k <= Len(a) => old[k] = k
  OBVIOUS
<1>9. \A k \in Nat : k > Len(a) => old[k] = k + 1
  BY <1>1
<1> HIDE DEF old
<1>2. \A k \in DOMAIN (a \o b) :
        k \in Nat /\ old[k] \in DOMAIN P[w] /\ (a \o b)[k] = P[w][old[k]]
  <2> SUFFICES ASSUME NEW k \in 1 .. Len(a) + Len(b)
               PROVE  k \in Nat /\ old[k] \in DOMAIN P[w] /\ (a \o b)[k] = P[w][old[k]]
    BY <1>1
  <2>1. CASE k <= Len(a)
    <3>1. old[k] = k /\ k \in Nat /\ k \in DOMAIN P[w]
      BY <2>1, <1>1, <1>8
    <3>2. (a \o b)[k] = a[k] /\ (a \o <<x>> \o b)[k] = a[k]
      BY <2>1, <1>1
    <3> QED
      BY <3>1, <3>2
  <2>2. CASE k > Len(a)
    <3>1. old[k] = k + 1 /\ k \in Nat /\ k + 1 \in DOMAIN P[w]
      BY <2>2, <1>1, <1>9
    <3>2. (a \o b)[k] = b[k - Len(a)]
      BY <2>2, <1>1
    <3>3. (a \o <<x>> \o b)[k + 1] = b[k - Len(a)]
      <4> DEFINE c == a \o <<x>>
      <4>1. c \in Seq(Nat) /\ Len(c) = Len(a) + 1
        OBVIOUS
      <4> HIDE DEF c
      <4>2. k + 1 \in 1 .. Len(c) + Len(b) /\ ~(k + 1 <= Len(c))
        BY <4>1, <2>2, <1>1
      <4>3. \A l \in 1 .. Len(c) + Len(b) :
              (c \o b)[l] = IF l <= Len(c) THEN c[l] ELSE b[l - Len(c)]
        BY <4>1, ConcatProperties, Zenon
      <4>4. (c \o b)[k + 1] = b[k + 1 - Len(c)]
        BY <4>2, <4>3
      <4>5. k + 1 - Len(c) = k - Len(a)
        BY <4>1, <1>1
      <4> QED
        BY <4>4, <4>5 DEF c
    <3> QED
      BY <3>1, <3>2, <3>3
  <2>3. k <= Len(a) \/ k > Len(a)
    BY <1>1
  <2> QED
    BY Zenon, <2>1, <2>2, <2>3
<1>3. \A j, k \in Nat : old[j] = old[k] => j = k
  <2> SUFFICES ASSUME NEW j \in Nat, NEW k \in Nat, old[j] = old[k] PROVE j = k
    OBVIOUS
  <2>1. \/ j <= Len(a) /\ old[j] = j
        \/ j > Len(a) /\ old[j] = j + 1
    BY <1>1, <1>8, <1>9
  <2>2. \/ k <= Len(a) /\ old[k] = k
        \/ k > Len(a) /\ old[k] = k + 1
    BY <1>1, <1>8, <1>9
  <2>3. CASE j <= Len(a) /\ old[j] = j
    BY <2>3, <2>2, <1>1
  <2>4. CASE j > Len(a) /\ old[j] = j + 1
    BY <2>4, <2>2, <1>1
  <2> QED
    BY <2>1, <2>3, <2>4
<1>4. \A v \in Workers : Q[v] = IF v = w THEN a \o b ELSE P[v]
  OBVIOUS
<1> HIDE DEF Q
<1>5. \A v \in Workers : \A k \in DOMAIN Q[v] :
        Q[v][k] \in 0 .. n - 1 /\ \A i \in DOMAIN col : col[i] # Q[v][k]
  <2> SUFFICES ASSUME NEW v \in Workers, NEW k \in DOMAIN Q[v]
               PROVE  Q[v][k] \in 0 .. n - 1 /\ \A i \in DOMAIN col : col[i] # Q[v][k]
    OBVIOUS
  <2>1. PICK l \in DOMAIN P[v] : Q[v][k] = P[v][l]
    BY <1>2, <1>4
  <2> QED
    BY <2>1 DEF Apart
<1>6. \A u, v \in Workers : \A j \in DOMAIN Q[u] : \A k \in DOMAIN Q[v] :
        Q[u][j] = Q[v][k] => u = v /\ j = k
  <2> SUFFICES ASSUME NEW u \in Workers, NEW v \in Workers,
                      NEW j \in DOMAIN Q[u], NEW k \in DOMAIN Q[v],
                      Q[u][j] = Q[v][k]
               PROVE  u = v /\ j = k
    OBVIOUS
  <2>1. PICK i \in DOMAIN P[u] : Q[u][j] = P[u][i] /\ i = IF u = w THEN old[j] ELSE j
    BY <1>2, <1>4
  <2>2. PICK l \in DOMAIN P[v] : Q[v][k] = P[v][l] /\ l = IF v = w THEN old[k] ELSE k
    BY <1>2, <1>4
  <2>3. u = v /\ i = l
    <3>1. P[u][i] = P[v][l]
      BY <2>1, <2>2
    <3>2. \A y, z \in Workers : \A g \in DOMAIN P[y] : \A h \in DOMAIN P[z] :
          P[y][g] = P[z][h] => y = z /\ g = h
      BY ApartSame
    <3> QED
      BY <3>1, <3>2
  <2>4. CASE u = w
    <3>1. j \in Nat /\ k \in Nat
      <4>1. Q[u] = a \o b /\ Q[v] = a \o b
        BY <2>3, <2>4, <1>4
      <4>2. j \in DOMAIN (a \o b) /\ k \in DOMAIN (a \o b)
        BY <4>1
      <4> QED
        BY <4>2, <1>2
    <3>2. old[j] = old[k]
      BY <2>1, <2>2, <2>3, <2>4
    <3> QED
      BY <2>3, <3>1, <3>2, <1>3
  <2>5. CASE u # w
    BY <2>1, <2>2, <2>3, <2>5
  <2> QED
    BY <2>4, <2>5
<1>7. Apart(Q, col, n)
  BY <1>5, <1>6 DEF Apart
<1> QED
  BY <1>7 DEF Q

\* There are n chunk numbers below n.
LEMMA CountBelow ==
    ASSUME NEW n \in Nat
    PROVE  IsFiniteSet(0 .. n - 1) /\ Cardinality(0 .. n - 1) = n
BY FS_Interval

\* The pigeonhole of the collecting loop: n different numbers below n are all
\* of them, so once n results were counted nothing is left anywhere.
LEMMA ApartFull ==
    ASSUME NEW P \in [Workers -> Seq(Nat)], NEW col \in Seq(Nat), NEW n \in Nat,
           Apart(P, col, n), Len(col) = n, NEW w \in Workers
    PROVE  P[w] = <<>>
<1> SUFFICES ASSUME P[w] # <<>> PROVE FALSE
  OBVIOUS
<1> DEFINE x == P[w][1]
           below == 0 .. n - 1
           rest == below \ {x}
<1>1. 1 \in DOMAIN P[w] /\ DOMAIN col = 1 .. n
  OBVIOUS
<1>2. x \in 0 .. n - 1 /\ \A i \in 1 .. n : col[i] # x
  BY <1>1 DEF Apart
<1>3. \A i \in 1 .. n : col[i] \in 0 .. n - 1
  BY <1>1 DEF Apart
<1>4. \A i, j \in 1 .. n : col[i] = col[j] => i = j
  BY <1>1 DEF Apart
<1> HIDE DEF x
<1>5. col \in [1 .. n -> rest]
  BY <1>1, <1>2, <1>3
<1>6. col \in Injection(1 .. n, rest)
  BY <1>1, <1>4, <1>5 DEF Injection, IsInjective
<1>7. IsFiniteSet(0 .. n - 1) /\ Cardinality(0 .. n - 1) = n
  BY CountBelow
<1>8. Cardinality(1 .. n) = n
  BY FS_Interval
<1>9. IsFiniteSet(rest) /\ Cardinality(rest) = n - 1
  <2>1. IsFiniteSet(below) /\ Cardinality(below) = n /\ x \in below
    BY <1>2, <1>7
  <2> HIDE DEF below
  <2> QED
    BY <2>1, FS_RemoveElement
<1>10. Cardinality(1 .. n) <= Cardinality(rest)
  BY <1>6, <1>9, FS_Injection
<1> QED
  BY <1>8, <1>9, <1>10

-----------------------------------------------------------------------------
(***************************************************************************)
(* The inductive invariant.  NoChunkTwice alone is not inductive: a reply  *)
(* starts the chunk numbers again at 0, which is right only if the main    *)
(* thread keeps nothing of the last request while it waits for the next.   *)
(***************************************************************************)
IdleMain ==
    main \in {"binding", "recv", "reject"} => sent = 0 /\ collected = <<>>

Inv == TypeOK /\ NoChunkTwice /\ IdleMain

\* NoChunkTwice is Apart of the pipelines.
LEMMA NoChunkTwiceIsApart == NoChunkTwice <=> Apart(Pipelines, collected, sent)
BY DEF NoChunkTwice, Apart, Pipelines

\* The same of the next state.
LEMMA NoChunkTwiceIsApartPrime ==
    NoChunkTwice' <=> Apart(Pipelines', collected', sent')
BY DEF NoChunkTwice, Apart, Pipelines

\* The chunk numbers of queues, one message longer or one shorter.
LEMMA IdsType ==
    /\ \A q \in Seq(BatchPricingRequest) : BatchIds(q) \in Seq(Nat)
    /\ \A q \in Seq(BatchPricingResponse) : ResultIds(q) \in Seq(Nat)
<1>1. ASSUME NEW q \in Seq(BatchPricingRequest) PROVE BatchIds(q) \in Seq(Nat)
  <2>1. \A k \in 1 .. Len(q) : q[k].batch_counter_id \in Nat
    <3>1. \A k \in 1 .. Len(q) : q[k] \in BatchPricingRequest
      BY ElementOfSeq
    <3>2. \A m \in BatchPricingRequest : m.batch_counter_id \in Nat
      BY DEF BatchPricingRequest
    <3> QED
      BY <3>1, <3>2
  <2> QED
    BY <2>1 DEF BatchIds
<1>2. ASSUME NEW q \in Seq(BatchPricingResponse) PROVE ResultIds(q) \in Seq(Nat)
  <2>1. \A k \in 1 .. Len(q) : q[k].batch_id \in Nat
    <3>1. \A k \in 1 .. Len(q) : q[k] \in BatchPricingResponse
      BY ElementOfSeq
    <3>2. \A m \in BatchPricingResponse : m.batch_id \in Nat
      BY DEF BatchPricingResponse
    <3> QED
      BY <3>1, <3>2
  <2> QED
    BY <2>1 DEF ResultIds
<1> QED
  BY <1>1, <1>2

\* dispatch.send puts a chunk number at the end of the queued ones.
LEMMA BatchIdsAppend ==
    ASSUME NEW q \in Seq(BatchPricingRequest), NEW m \in BatchPricingRequest
    PROVE  BatchIds(Append(q, m)) = Append(BatchIds(q), m.batch_counter_id)
BY DEF BatchIds, BatchPricingRequest

\* pull.recv takes the first of them.
LEMMA BatchIdsTail ==
    ASSUME NEW q \in Seq(BatchPricingRequest), q # <<>>
    PROVE  BatchIds(q) = <<Head(q).batch_counter_id>> \o BatchIds(Tail(q))
BY DEF BatchIds, BatchPricingRequest

\* push.send puts a chunk number at the end of the queued results.
LEMMA ResultIdsAppend ==
    ASSUME NEW q \in Seq(BatchPricingResponse), NEW m \in BatchPricingResponse
    PROVE  ResultIds(Append(q, m)) = ResultIds(q) \o <<m.batch_id>>
BY DEF ResultIds, BatchPricingResponse

\* results.recv takes the first of them.
LEMMA ResultIdsTail ==
    ASSUME NEW q \in Seq(BatchPricingResponse), q # <<>>
    PROVE  ResultIds(q) = <<Head(q).batch_id>> \o ResultIds(Tail(q))
BY DEF ResultIds, BatchPricingResponse

\* Pipelines hold chunk numbers.
LEMMA PipelinesType ==
    ASSUME TypeOK
    PROVE  /\ Pipelines \in [Workers -> Seq(Nat)]
           /\ \A w \in Workers : HeldIds(w) \in Seq(Nat)
<1> SUFFICES ASSUME NEW w \in Workers
             PROVE  Pipeline(w) \in Seq(Nat) /\ HeldIds(w) \in Seq(Nat)
  BY DEF Pipelines
<1>1. /\ results[w].queue \in Seq(BatchPricingResponse)
      /\ dispatch[w].queue \in Seq(BatchPricingRequest)
  BY DEF TypeOK, PipeType, PipeOf
<1>2. HeldIds(w) \in Seq(Nat)
  <2>1. CASE worker[w] = "pricing"
    <3>1. hand[w].batch_counter_id \in Nat
      BY <2>1 DEF TypeOK, WorkerType, BatchPricingRequest
    <3> QED
      BY <2>1, <3>1 DEF HeldIds
  <2>2. CASE worker[w] = "pushing"
    <3>1. hand[w].batch_id \in Nat
      BY <2>2 DEF TypeOK, WorkerType, BatchPricingResponse
    <3> QED
      BY <2>2, <3>1 DEF HeldIds
  <2>3. CASE worker[w] \notin {"pricing", "pushing"}
    BY <2>3 DEF HeldIds
  <2> QED
    BY <2>1, <2>2, <2>3
<1> QED
  BY <1>1, <1>2, IdsType DEF Pipeline

\* A step that moves no chunk in or out of a pipeline preserves NoChunkTwice.
LEMMA SamePipelines ==
    ASSUME NoChunkTwice, Pipelines' = Pipelines,
           collected' = collected, sent' = sent
    PROVE  NoChunkTwice'
BY NoChunkTwiceIsApart, NoChunkTwiceIsApartPrime

\* A step that leaves pipes and workers alone leaves the pipelines alone.
LEMMA UnchangedPipelines ==
    ASSUME UNCHANGED <<dispatch, results, worker, hand>>
    PROVE  Pipelines' = Pipelines
BY DEF Pipelines, Pipeline, HeldIds

\* dispatch.send lengthens one pipeline by the next chunk number.
LEMMA DispatchPipelines ==
    ASSUME TypeOK, NEW w \in Workers, DispatchBatch(w)
    PROVE  Pipelines' = [Pipelines EXCEPT ![w] = Append(@, sent)]
<1>1. Batch(rr, sent) \in BatchPricingRequest /\ Batch(rr, sent).batch_counter_id = sent
  BY BatchType DEF DispatchBatch, TypeOK, MainType, Batch
<1>2. dispatch[w] \in PipeOf(BatchPricingRequest) /\ results[w] \in PipeOf(BatchPricingResponse)
  BY DEF TypeOK, PipeType
<1>3. dispatch'[w].queue = Append(dispatch[w].queue, Batch(rr, sent))
  BY <1>1, <1>2, PutPipe DEF DispatchBatch, TypeOK, PipeType
<1>4. BatchIds(dispatch'[w].queue) = Append(BatchIds(dispatch[w].queue), sent)
  BY <1>1, <1>2, <1>3, BatchIdsAppend DEF PipeOf
<1>5. /\ ResultIds(results[w].queue) \in Seq(Nat) /\ HeldIds(w) \in Seq(Nat)
      /\ BatchIds(dispatch[w].queue) \in Seq(Nat)
  BY <1>2, IdsType, PipelinesType DEF PipeOf
<1>6. HeldIds(w)' = HeldIds(w) /\ results' = results /\ sent \in Nat
  BY DEF DispatchBatch, HeldIds, TypeOK, MainType
<1>7. Pipeline(w)' = Append(Pipeline(w), sent)
  BY <1>4, <1>5, <1>6 DEF Pipeline
<1>8. \A v \in Workers \ {w} : Pipeline(v)' = Pipeline(v)
  BY DEF DispatchBatch, Pipeline, HeldIds, TypeOK, PipeType
<1> QED
  BY <1>7, <1>8 DEF Pipelines

\* results.recv takes the oldest chunk off one pipeline.
LEMMA CollectPipelines ==
    ASSUME TypeOK, NEW w \in Workers, CollectResult(w)
    PROVE  /\ Pipelines[w] # <<>>
           /\ Pipelines' = [Pipelines EXCEPT ![w] = Tail(@)]
           /\ collected' = Append(collected, Head(Pipelines[w]))
<1>1. results[w] \in PipeOf(BatchPricingResponse) /\ HasMessage(results[w])
  BY DEF CollectResult, TypeOK, PipeType
<1>2. /\ results[w].queue \in Seq(BatchPricingResponse) /\ results[w].queue # <<>>
      /\ Tail(results[w].queue) \in Seq(BatchPricingResponse)
      /\ Head(results[w].queue).batch_id \in Nat
  <2>1. /\ results[w].queue \in Seq(BatchPricingResponse) /\ results[w].queue # <<>>
    BY <1>1 DEF PipeOf, HasMessage
  <2>2. /\ Tail(results[w].queue) \in Seq(BatchPricingResponse)
        /\ Head(results[w].queue) \in BatchPricingResponse
    BY <2>1
  <2> QED
    BY <2>1, <2>2 DEF BatchPricingResponse
<1>3. results'[w].queue = Tail(results[w].queue)
  BY <1>1, TakePipe DEF CollectResult, TypeOK, PipeType
<1>4. ResultIds(results[w].queue)
        = <<Head(results[w].queue).batch_id>> \o ResultIds(results'[w].queue)
  BY <1>2, <1>3, ResultIdsTail
<1>5. dispatch[w].queue \in Seq(BatchPricingRequest)
  BY DEF TypeOK, PipeType, PipeOf
<1>6. /\ ResultIds(results'[w].queue) \in Seq(Nat) /\ HeldIds(w) \in Seq(Nat)
      /\ BatchIds(dispatch[w].queue) \in Seq(Nat)
  BY <1>2, <1>3, <1>5, IdsType, PipelinesType
<1>7. HeldIds(w)' = HeldIds(w) /\ dispatch' = dispatch
  BY DEF CollectResult, HeldIds
<1>8. Pipeline(w) = <<Head(results[w].queue).batch_id>> \o Pipeline(w)'
  BY <1>2, <1>4, <1>6, <1>7 DEF Pipeline
<1>9. Pipeline(w)' \in Seq(Nat)
  BY <1>6, <1>7 DEF Pipeline
<1>10. /\ Pipeline(w) # <<>>
       /\ Head(Pipeline(w)) = Head(results[w].queue).batch_id
       /\ Tail(Pipeline(w)) = Pipeline(w)'
  BY <1>2, <1>8, <1>9
<1>11. \A v \in Workers \ {w} : Pipeline(v)' = Pipeline(v)
  BY DEF CollectResult, Pipeline, HeldIds, TypeOK, PipeType
<1> QED
  BY <1>10, <1>11 DEF Pipelines, CollectResult

\* A worker's steps keep every chunk where it is along the worker's way.
LEMMA WorkerPipelines ==
    ASSUME TypeOK, NEW w \in Workers,
           \/ ConnectPull(w) \/ ConnectPush(w) \/ SocketFails(w) \/ PullBatch(w)
           \/ PriceBatch(w) \/ PushResult(w)
    PROVE  Pipelines' = Pipelines
<1>1. /\ results[w].queue \in Seq(BatchPricingResponse)
      /\ dispatch[w].queue \in Seq(BatchPricingRequest)
  BY DEF TypeOK, PipeType, PipeOf
<1>2. /\ ResultIds(results[w].queue) \in Seq(Nat)
      /\ BatchIds(dispatch[w].queue) \in Seq(Nat)
  BY <1>1, IdsType
<1>3. \A v \in Workers \ {w} : Pipeline(v)' = Pipeline(v)
  BY DEF ConnectPull, ConnectPush, SocketFails, PullBatch, PriceBatch, PushResult, Pipeline,
         HeldIds, TypeOK, PipeType, WorkerType
<1>4. CASE ConnectPull(w) \/ ConnectPush(w) \/ SocketFails(w)
  <2>1. HeldIds(w) = <<>> /\ HeldIds(w)' = <<>>
    BY <1>4 DEF ConnectPull, ConnectPush, SocketFails, HeldIds, TypeOK, WorkerType
  <2>2. Pipeline(w)' = Pipeline(w)
    BY <1>4, <2>1 DEF ConnectPull, ConnectPush, SocketFails, Pipeline
  <2> QED
    BY <2>2, <1>3 DEF Pipelines
<1>5. CASE PullBatch(w)
  <2> DEFINE b == Head(dispatch[w].queue)
  <2>1. /\ dispatch[w].queue # <<>> /\ b \in BatchPricingRequest
        /\ Tail(dispatch[w].queue) \in Seq(BatchPricingRequest)
        /\ b.batch_counter_id \in Nat
    <3>1. dispatch[w].queue # <<>>
      BY <1>5 DEF PullBatch, HasMessage
    <3>2. /\ b \in BatchPricingRequest
          /\ Tail(dispatch[w].queue) \in Seq(BatchPricingRequest)
      BY <1>1, <3>1
    <3> HIDE DEF b
    <3> QED
      BY <3>1, <3>2 DEF BatchPricingRequest
  <2>2. dispatch'[w].queue = Tail(dispatch[w].queue) /\ results' = results
    BY <1>5, TakePipe DEF PullBatch, TypeOK, PipeType
  <2>3. BatchIds(dispatch[w].queue) = <<b.batch_counter_id>> \o BatchIds(dispatch'[w].queue)
    BY <1>1, <2>1, <2>2, BatchIdsTail
  <2>4. HeldIds(w) = <<>> /\ HeldIds(w)' = <<b.batch_counter_id>>
    BY <1>5 DEF PullBatch, HeldIds, TypeOK, WorkerType
  <2>5. BatchIds(dispatch'[w].queue) \in Seq(Nat)
    BY <2>1, <2>2, IdsType
  <2>6. Pipeline(w)' = Pipeline(w)
    BY <1>2, <2>1, <2>2, <2>3, <2>4, <2>5 DEF Pipeline
  <2> QED
    BY <2>6, <1>3 DEF Pipelines
<1>6. CASE PriceBatch(w)
  <2>1. hand[w] \in BatchPricingRequest
    BY <1>6 DEF PriceBatch, TypeOK, WorkerType
  <2>2. hand'[w] \in {Priced(hand[w]), Failed(hand[w])} /\ worker'[w] = "pushing"
    BY <1>6 DEF PriceBatch, TypeOK, WorkerType
  <2>3. hand'[w].batch_id = hand[w].batch_counter_id
    BY <2>1, <2>2, ResponseType
  <2>4. HeldIds(w)' = HeldIds(w)
    BY <1>6, <2>2, <2>3 DEF PriceBatch, HeldIds
  <2>5. Pipeline(w)' = Pipeline(w)
    BY <1>6, <2>4 DEF PriceBatch, Pipeline
  <2> QED
    BY <2>5, <1>3 DEF Pipelines
<1>7. CASE PushResult(w)
  <2>1. hand[w] \in BatchPricingResponse /\ hand[w].batch_id \in Nat
    BY <1>7 DEF PushResult, TypeOK, WorkerType, BatchPricingResponse
  <2>2. results'[w].queue = Append(results[w].queue, hand[w]) /\ dispatch' = dispatch
    BY <1>7, <2>1, PutPipe DEF PushResult, TypeOK, PipeType
  <2>3. ResultIds(results'[w].queue) = ResultIds(results[w].queue) \o <<hand[w].batch_id>>
    BY <1>1, <2>1, <2>2, ResultIdsAppend
  <2>4. HeldIds(w) = <<hand[w].batch_id>> /\ HeldIds(w)' = <<>>
    BY <1>7 DEF PushResult, HeldIds, TypeOK, WorkerType
  <2>5. Pipeline(w)' = Pipeline(w)
    BY <1>2, <2>1, <2>2, <2>3, <2>4 DEF Pipeline
  <2> QED
    BY <2>5, <1>3 DEF Pipelines
<1> QED
  BY <1>4, <1>5, <1>6, <1>7

\* A worker that ends drops at most the chunk it has in hand.
LEMMA TermPipelines ==
    ASSUME TypeOK, NEW w \in Workers, WorkerTerm(w), Apart(Pipelines, collected, sent)
    PROVE  Apart(Pipelines', collected, sent)
<1> DEFINE a == ResultIds(results[w].queue)
           b == BatchIds(dispatch[w].queue)
<1>1. a \in Seq(Nat) /\ b \in Seq(Nat)
  BY IdsType DEF TypeOK, PipeType, PipeOf
<1>2. \A v \in Workers \ {w} : Pipeline(v)' = Pipeline(v)
  BY DEF WorkerTerm, Pipeline, HeldIds, TypeOK, WorkerType
<1>3. HeldIds(w)' = <<>> /\ dispatch' = dispatch /\ results' = results
  BY DEF WorkerTerm, HeldIds, TypeOK, WorkerType
<1>4. Pipeline(w)' = a \o b
  <2>1. Pipeline(w)' = a \o <<>> \o b
    BY <1>3 DEF Pipeline
  <2> QED
    BY <1>1, <2>1
<1>5. Pipelines' = [Pipelines EXCEPT ![w] = a \o b]
  BY <1>2, <1>4 DEF Pipelines
<1>6. CASE worker[w] = "pushing"
  <2>1. hand[w].batch_id \in Nat
    BY <1>6 DEF TypeOK, WorkerType, BatchPricingResponse
  <2>2. Pipelines[w] = a \o <<hand[w].batch_id>> \o b
    BY <1>6 DEF Pipelines, Pipeline, HeldIds
  <2>3. collected \in Seq(Nat) /\ sent \in Nat /\ Pipelines \in [Workers -> Seq(Nat)]
    BY PipelinesType DEF TypeOK, MainType
  <2> HIDE DEF a, b
  <2> QED
    BY <1>1, <1>5, <2>1, <2>2, <2>3, ApartDrop
<1>7. CASE worker[w] # "pushing"
  <2>1. HeldIds(w) = <<>>
    BY <1>7 DEF WorkerTerm, HeldIds
  <2>2. Pipeline(w)' = Pipeline(w)
    BY <1>3, <2>1 DEF Pipeline
  <2>3. Pipelines' = Pipelines
    BY <1>2, <2>2 DEF Pipelines
  <2> QED
    BY <2>3
<1> QED
  BY <1>6, <1>7

\* Nothing is in flight when run_server starts.
LEMMA InitInv == Init => Inv
<1> SUFFICES ASSUME Init PROVE Inv
  OBVIOUS
<1>1. TypeOK
  BY InitType
<1>2. \A w \in Workers : Pipeline(w) = <<>>
  BY DEF Init, Pipeline, ResultIds, BatchIds, HeldIds, EmptyPipe
<1>3. NoChunkTwice
  BY <1>2 DEF Init, NoChunkTwice
<1> QED
  BY <1>1, <1>3 DEF Inv, IdleMain, Init

\* A reply starts the chunk numbers again at 0: no chunk may be left over.
LEMMA SendInv ==
    ASSUME Inv, NEW response, Send(response),
           main = "reject" \/ (main = "serving" /\ Len(collected) = sent)
    PROVE  NoChunkTwice' /\ IdleMain'
<1>1. Pipelines' = Pipelines
  BY UnchangedPipelines DEF Send
<1>2. /\ Pipelines \in [Workers -> Seq(Nat)] /\ collected \in Seq(Nat) /\ sent \in Nat
      /\ Apart(Pipelines, collected, sent) /\ Len(collected) = sent
  BY PipelinesType, NoChunkTwiceIsApart DEF Inv, TypeOK, MainType, IdleMain
<1>3. \A w \in Workers : Pipelines[w] = <<>>
  BY <1>2, ApartFull
<1>4. collected' = <<>> /\ sent' = 0
  BY DEF Send
<1>5. Apart(Pipelines', collected', sent')
  BY <1>1, <1>3, <1>4 DEF Apart
<1> QED
  BY <1>4, <1>5, NoChunkTwiceIsApartPrime DEF IdleMain

\* Every step of every thread and client keeps the inductive invariant.
LEMMA NextInv == Inv /\ [Next]_vars => Inv'
<1> SUFFICES ASSUME Inv, [Next]_vars PROVE Inv'
  OBVIOUS
<1>1. TypeOK /\ TypeOK' /\ NoChunkTwice /\ IdleMain /\ Apart(Pipelines, collected, sent)
  BY NextType, NoChunkTwiceIsApart DEF Inv
<1>2. /\ Pipelines \in [Workers -> Seq(Nat)] /\ collected \in Seq(Nat) /\ sent \in Nat
  BY <1>1, PipelinesType DEF TypeOK, MainType
<1> SUFFICES NoChunkTwice' /\ IdleMain'
  BY <1>1 DEF Inv
<1>3. CASE SendError
  <2>1. PICK response : Send(response)
    BY <1>3 DEF SendError
  <2>2. main = "reject"
    BY <1>3 DEF SendError
  <2>3. main = "reject" \/ (main = "serving" /\ Len(collected) = sent)
    BY <2>2
  <2> QED
    BY <2>1, <2>3, SendInv
<1>4. CASE SendReply
  <2>1. PICK response : Send(response)
    BY <1>4 DEF SendReply
  <2>2. main = "serving" /\ Len(collected) = sent
    BY <1>4 DEF SendReply
  <2> QED
    BY <2>1, <2>2, SendInv
<1>5. ASSUME NEW w \in Workers, DispatchBatch(w) PROVE NoChunkTwice' /\ IdleMain'
  <2>1. collected' = collected /\ sent' = sent + 1 /\ IdleMain'
    BY <1>5 DEF DispatchBatch, IdleMain
  <2>2. Apart(Pipelines', collected', sent')
    <3>1. Pipelines' = [Pipelines EXCEPT ![w] = Append(@, sent)]
      BY <1>1, <1>5, DispatchPipelines
    <3>2. Apart([Pipelines EXCEPT ![w] = Append(@, sent)], collected, sent + 1)
      BY <1>1, <1>2, ApartSend
    <3> QED
      BY <2>1, <3>1, <3>2
  <2> QED
    BY <2>1, <2>2, NoChunkTwiceIsApartPrime
<1>6. ASSUME NEW w \in Workers, CollectResult(w) PROVE NoChunkTwice' /\ IdleMain'
  <2>1. sent' = sent /\ IdleMain'
    BY <1>6 DEF CollectResult, IdleMain
  <2>2. Apart(Pipelines', collected', sent')
    <3>1. /\ Pipelines[w] # <<>>
          /\ Pipelines' = [Pipelines EXCEPT ![w] = Tail(@)]
          /\ collected' = Append(collected, Head(Pipelines[w]))
      BY <1>1, <1>6, CollectPipelines
    <3>2. Apart([Pipelines EXCEPT ![w] = Tail(@)], Append(collected, Head(Pipelines[w])), sent)
      BY <1>1, <1>2, <3>1, ApartCollect
    <3> QED
      BY <2>1, <3>1, <3>2
  <2> QED
    BY <2>1, <2>2, NoChunkTwiceIsApartPrime
<1>7. CASE \/ BindFrontend \/ MainTerm \/ JoinThreads \/ SendSignal \/ MonitorStep \/ UNCHANGED vars
           \/ \E c \in Clients : RecvRequest(c) \/ ClientStep(c)
  <2>1. UNCHANGED <<dispatch, results, worker, hand, sent, collected>>
    BY <1>7 DEF BindFrontend, MainTerm, JoinThreads, SendSignal, MonitorStep, SigWait,
                ShutdownContext, vars, RecvRequest, ClientStep, ClientSend, ClientRecv,
                PyClientRecv, ClientCrash, DropRequest
  <2>2. NoChunkTwice'
    BY <1>1, <2>1, UnchangedPipelines, SamePipelines
  <2>3. main' \in {"binding", "recv", "reject"} => main \in {"binding", "recv", "reject"}
    BY <1>7 DEF BindFrontend, MainTerm, JoinThreads, SendSignal, MonitorStep, SigWait,
                ShutdownContext, vars, RecvRequest, ClientStep, ClientSend, ClientRecv,
                PyClientRecv, ClientCrash, DropRequest
  <2> QED
    BY <1>1, <2>1, <2>2, <2>3 DEF IdleMain
<1>8. ASSUME NEW w \in Workers,
             \/ ConnectPull(w) \/ ConnectPush(w) \/ SocketFails(w) \/ PullBatch(w)
             \/ PriceBatch(w) \/ PushResult(w)
      PROVE  NoChunkTwice' /\ IdleMain'
  <2>1. UNCHANGED <<main, sent, collected>>
    BY <1>8 DEF ConnectPull, ConnectPush, SocketFails, PullBatch, PriceBatch, PushResult
  <2>2. NoChunkTwice'
    BY <1>1, <1>8, <2>1, WorkerPipelines, SamePipelines
  <2> QED
    BY <1>1, <2>1, <2>2 DEF IdleMain
<1>9. ASSUME NEW w \in Workers, WorkerTerm(w) PROVE NoChunkTwice' /\ IdleMain'
  <2>1. UNCHANGED <<main, sent, collected>>
    BY <1>9 DEF WorkerTerm
  <2>2. NoChunkTwice'
    BY <1>1, <1>9, <2>1, TermPipelines, NoChunkTwiceIsApartPrime
  <2> QED
    BY <1>1, <2>1, <2>2 DEF IdleMain
<1> QED
  BY <1>3, <1>4, <1>5, <1>6, <1>7, <1>8, <1>9
     DEF Next, MainStep, WorkerStep, Terminated

\* So the inductive invariant holds in every reachable state.
LEMMA Invariance == Spec => []Inv
<1> QED
  BY InitInv, NextInv, PTL DEF Spec

\* No chunk of a request is ever in two places, so none is priced, counted or
\* answered twice, however the workers interleave and whoever terminates when.
THEOREM ChunksApart == Spec => []NoChunkTwice
<1>1. Inv => NoChunkTwice
  BY DEF Inv
<1> QED
  BY <1>1, Invariance, PTL

\* Counting is enough: a main thread that has nothing sent has nothing in flight.
LEMMA Quiescent == Inv => QuiescentBetweenRequests
<1> SUFFICES ASSUME Inv, main \in {"binding", "recv", "reject"}, NEW w \in Workers
             PROVE  ~HasMessage(dispatch[w]) /\ ~HasMessage(results[w]) /\ hand[w] = None
  BY DEF QuiescentBetweenRequests
<1>1. TypeOK /\ sent = 0
  BY DEF Inv, IdleMain
<1>2. DOMAIN Pipeline(w) = {}
  BY <1>1 DEF Inv, NoChunkTwice
<1> DEFINE a == ResultIds(results[w].queue)
           h == HeldIds(w)
           b == BatchIds(dispatch[w].queue)
<1>3. /\ results[w].queue \in Seq(BatchPricingResponse)
      /\ dispatch[w].queue \in Seq(BatchPricingRequest)
  BY <1>1 DEF TypeOK, PipeType, PipeOf
<1>4. a \in Seq(Nat) /\ h \in Seq(Nat) /\ b \in Seq(Nat)
  BY <1>1, <1>3, IdsType, PipelinesType
<1>5. Pipeline(w) = a \o h \o b
  BY DEF Pipeline
<1>6. Len(a) = Len(results[w].queue) /\ Len(b) = Len(dispatch[w].queue)
  BY <1>3, <1>4 DEF ResultIds, BatchIds
<1> HIDE DEF a, h, b
<1>7. Len(a) = 0 /\ Len(h) = 0 /\ Len(b) = 0
  <2>1. DOMAIN (a \o h \o b) = 1 .. Len(a) + Len(h) + Len(b)
    BY <1>4
  <2>2. Len(a) \in Nat /\ Len(h) \in Nat /\ Len(b) \in Nat
    BY <1>4
  <2>3. 1 \notin 1 .. Len(a) + Len(h) + Len(b)
    BY <1>2, <1>5, <2>1
  <2> QED
    BY <2>2, <2>3
<1>8. worker[w] \notin {"pricing", "pushing"}
  BY <1>7 DEF h, HeldIds
<1> QED
  <2>1. results[w].queue = <<>> /\ dispatch[w].queue = <<>>
    BY <1>3, <1>6, <1>7, EmptySeq
  <2>2. hand[w] = None
    BY <1>1, <1>8 DEF TypeOK, WorkerType
  <2> QED
    BY <2>1, <2>2 DEF HasMessage

\* Counting is enough: when the main thread has received as many results as it
\* sent batches, no batch and no result is left for the next request to meet.
THEOREM Quiescence == Spec => []QuiescentBetweenRequests
<1> QED
  BY Quiescent, Invariance, PTL

-----------------------------------------------------------------------------
(***************************************************************************)
(* No chunk is lost while the context is open.                             *)
(***************************************************************************)
Covered(P, col, n) ==
    \A c \in 0 .. n - 1 :
        \/ \E i \in DOMAIN col : col[i] = c
        \/ \E w \in Workers : \E k \in DOMAIN P[w] : P[w][k] = c

\* The new chunk is at the end of the pipeline it was sent to.
LEMMA CoveredSend ==
    ASSUME NEW P \in [Workers -> Seq(Nat)], NEW col \in Seq(Nat), NEW n \in Nat,
           NEW w \in Workers, Covered(P, col, n)
    PROVE  Covered([P EXCEPT ![w] = Append(@, n)], col, n + 1)
<1> DEFINE Q == [P EXCEPT ![w] = Append(@, n)]
<1>1. P[w] \in Seq(Nat) /\ Q[w] = Append(P[w], n) /\ \A v \in Workers \ {w} : Q[v] = P[v]
  OBVIOUS
<1>2. /\ Len(P[w]) + 1 \in DOMAIN Q[w] /\ Q[w][Len(P[w]) + 1] = n
      /\ \A k \in DOMAIN P[w] : k \in DOMAIN Q[w] /\ Q[w][k] = P[w][k]
  BY <1>1
<1>3. \A v \in Workers : \A k \in DOMAIN P[v] : k \in DOMAIN Q[v] /\ Q[v][k] = P[v][k]
  BY <1>1, <1>2
<1> HIDE DEF Q
<1>4. ASSUME NEW c \in 0 .. (n + 1) - 1
      PROVE  \/ \E i \in DOMAIN col : col[i] = c
             \/ \E v \in Workers : \E k \in DOMAIN Q[v] : Q[v][k] = c
  <2>1. CASE c = n
    BY <1>2, <2>1
  <2>2. CASE c # n
    <3>1. c \in 0 .. n - 1
      BY <2>2
    <3>2. \/ \E i \in DOMAIN col : col[i] = c
          \/ \E v \in Workers : \E k \in DOMAIN P[v] : P[v][k] = c
      BY <3>1, Zenon DEF Covered
    <3> QED
      BY <1>3, <3>2, Zenon
  <2> QED
    BY <2>1, <2>2
<1>5. Covered(Q, col, n + 1)
  BY <1>4, Zenon DEF Covered
<1> QED
  BY <1>5, Zenon DEF Q

\* The head of a pipeline that was collected is among the collected results.
LEMMA CoveredCollect ==
    ASSUME NEW P \in [Workers -> Seq(Nat)], NEW col \in Seq(Nat), NEW n \in Nat,
           NEW w \in Workers, P[w] # <<>>, Covered(P, col, n)
    PROVE  Covered([P EXCEPT ![w] = Tail(@)], Append(col, Head(P[w])), n)
<1> DEFINE Q == [P EXCEPT ![w] = Tail(@)]
           d == Append(col, Head(P[w]))
<1>1. P[w] \in Seq(Nat) /\ Q[w] = Tail(P[w]) /\ \A v \in Workers \ {w} : Q[v] = P[v]
  OBVIOUS
<1>2. \A k \in DOMAIN P[w] : k = 1 \/ (k - 1 \in DOMAIN Q[w] /\ Q[w][k - 1] = P[w][k])
  BY <1>1
<1>3. /\ Len(col) + 1 \in DOMAIN d /\ d[Len(col) + 1] = P[w][1]
      /\ \A i \in DOMAIN col : i \in DOMAIN d /\ d[i] = col[i]
  BY <1>1
<1> HIDE DEF Q, d
<1> SUFFICES ASSUME NEW c \in 0 .. n - 1
             PROVE  \/ \E i \in DOMAIN d : d[i] = c
                    \/ \E v \in Workers : \E k \in DOMAIN Q[v] : Q[v][k] = c
  BY DEF Covered, Q, d
<1>4. CASE \E i \in DOMAIN col : col[i] = c
  BY <1>3, <1>4
<1>5. CASE \E v \in Workers : \E k \in DOMAIN P[v] : P[v][k] = c
  <2>1. PICK v \in Workers : \E k \in DOMAIN P[v] : P[v][k] = c
    BY <1>5
  <2>2. CASE v # w
    BY <1>1, <2>1, <2>2
  <2>3. CASE v = w
    BY <1>2, <1>3, <2>1, <2>3
  <2> QED
    BY <2>2, <2>3
<1> QED
  BY <1>4, <1>5 DEF Covered

\* While the context is open, what was sent is collected or in a pipeline, that of
\* a worker that has ended included.
AllCovered == ctx = "open" => Covered(Pipelines, collected, sent)

\* Every step of every thread and client keeps the chunks that were sent.
LEMMA NextCovered == TypeOK /\ AllCovered /\ [Next]_vars => AllCovered'
<1> SUFFICES ASSUME TypeOK, AllCovered, [Next]_vars, ctx' = "open"
             PROVE  Covered(Pipelines', collected', sent')
  BY DEF AllCovered, Covered
<1>1. ctx = "open"
  BY DEF Next, MainStep, WorkerStep, MonitorStep, ClientStep, Terminated, BindFrontend,
         RecvRequest, SendError, SendReply, Send, DispatchBatch, CollectResult, MainTerm,
         JoinThreads, ConnectPull, ConnectPush, PullBatch, PriceBatch, PushResult, WorkerTerm,
         SocketFails, SendSignal, SigWait, ShutdownContext, ClientSend, ClientRecv, PyClientRecv,
         ClientCrash, DropRequest, vars
<1>2. Covered(Pipelines, collected, sent)
  BY <1>1 DEF AllCovered
<1>3. /\ Pipelines \in [Workers -> Seq(Nat)] /\ collected \in Seq(Nat) /\ sent \in Nat
  BY PipelinesType DEF TypeOK, MainType
<1>4. CASE SendError \/ SendReply
  <2>1. sent' = 0
    BY <1>4 DEF SendError, SendReply, Send
  <2> QED
    BY <2>1 DEF Covered
<1>5. ASSUME NEW w \in Workers, DispatchBatch(w) PROVE Covered(Pipelines', collected', sent')
  <2>1. /\ Pipelines' = [Pipelines EXCEPT ![w] = Append(@, sent)]
        /\ collected' = collected /\ sent' = sent + 1
    BY <1>5, DispatchPipelines DEF DispatchBatch
  <2>2. Covered([Pipelines EXCEPT ![w] = Append(@, sent)], collected, sent + 1)
    BY <1>2, <1>3, CoveredSend
  <2> QED
    BY <2>1, <2>2
<1>6. ASSUME NEW w \in Workers, CollectResult(w) PROVE Covered(Pipelines', collected', sent')
  <2>1. /\ Pipelines[w] # <<>>
        /\ Pipelines' = [Pipelines EXCEPT ![w] = Tail(@)]
        /\ collected' = Append(collected, Head(Pipelines[w])) /\ sent' = sent
    BY <1>6, CollectPipelines DEF CollectResult
  <2>2. Covered([Pipelines EXCEPT ![w] = Tail(@)], Append(collected, Head(Pipelines[w])), sent)
    BY <1>2, <1>3, <2>1, CoveredCollect
  <2> QED
    BY <2>1, <2>2
<1>7. CASE \/ BindFrontend \/ MainTerm \/ JoinThreads \/ SendSignal \/ MonitorStep \/ UNCHANGED vars
           \/ \E c \in Clients : RecvRequest(c) \/ ClientStep(c)
  <2>1. UNCHANGED <<dispatch, results, worker, hand, sent, collected>>
    BY <1>7 DEF BindFrontend, MainTerm, JoinThreads, SendSignal, MonitorStep, SigWait,
                ShutdownContext, vars, RecvRequest, ClientStep, ClientSend, ClientRecv,
                PyClientRecv, ClientCrash, DropRequest
  <2> QED
    BY <1>2, <2>1, UnchangedPipelines
<1>8. ASSUME NEW w \in Workers,
             \/ ConnectPull(w) \/ ConnectPush(w) \/ SocketFails(w) \/ PullBatch(w)
             \/ PriceBatch(w) \/ PushResult(w)
      PROVE  Covered(Pipelines', collected', sent')
  <2>1. UNCHANGED <<sent, collected>>
    BY <1>8 DEF ConnectPull, ConnectPush, SocketFails, PullBatch, PriceBatch, PushResult
  <2> QED
    BY <1>2, <1>8, <2>1, WorkerPipelines
<1>9. ASSUME NEW w \in Workers, WorkerTerm(w) PROVE FALSE
  BY <1>1, <1>9 DEF WorkerTerm
<1> QED
  BY <1>4, <1>5, <1>6, <1>7, <1>8, <1>9
     DEF Next, MainStep, WorkerStep, Terminated

LEMMA CoveredAlways == Spec => []AllCovered
<1>1. Init => AllCovered
  BY DEF Init, AllCovered, Covered
<1> QED
  BY <1>1, TypeCorrect, NextCovered, PTL DEF Spec

\* A worker without a push socket has pushed nothing, and only such a worker ends
\* before the context is shut down.
NothingPushed ==
    ctx = "open" =>
        \A w \in Workers :
            worker[w] \in {"spawned", "connecting", "exited"} => results[w].queue = <<>>

\* A worker's step leads to the end only from before the sockets, and pushes only
\* from after them.
LEMMA PushedByWorker ==
    ASSUME TypeOK, NothingPushed, ctx = "open", NEW w \in Workers, WorkerStep(w)
    PROVE  NothingPushed'
<1> DEFINE Without == {"spawned", "connecting", "exited"}
<1>1. /\ worker \in [Workers -> {"spawned", "connecting", "pulling", "pricing", "pushing",
                                  "exited"}]
      /\ results \in [Workers -> PipeOf(BatchPricingResponse)]
      /\ \A v \in Workers : worker[v] \in Without => results[v].queue = <<>>
  BY DEF TypeOK, WorkerType, PipeType, NothingPushed
<1>2. CASE ConnectPull(w) \/ ConnectPush(w) \/ SocketFails(w)
  <2>1. results' = results /\ worker[w] \in Without
        /\ \E t \in {"connecting", "pulling", "exited"} : worker' = [worker EXCEPT ![w] = t]
    BY <1>2, Zenon DEF ConnectPull, ConnectPush, SocketFails, pipeVars
  <2> QED
    BY <1>1, <2>1 DEF NothingPushed
<1>3. CASE PullBatch(w) \/ PriceBatch(w)
  <2>1. results' = results
        /\ \E t \in {"pricing", "pushing"} : worker' = [worker EXCEPT ![w] = t]
    BY <1>3, Zenon DEF PullBatch, PriceBatch, OnFailure, pipeVars
  <2> QED
    BY <1>1, <2>1 DEF NothingPushed
<1>4. CASE PushResult(w)
  <2>1. /\ \A v \in Workers \ {w} : results'[v] = results[v]
        /\ worker' = [worker EXCEPT ![w] = "pulling"]
    BY <1>1, <1>4 DEF PushResult, NextTurn
  <2> QED
    BY <1>1, <2>1 DEF NothingPushed
<1>5. CASE WorkerTerm(w)
  BY <1>5 DEF WorkerTerm
<1> QED
  BY <1>2, <1>3, <1>4, <1>5 DEF WorkerStep

\* All other steps leave the workers where they are, and take from a pipe of
\* results that is not empty or from none.
LEMMA NextPushed == TypeOK /\ NothingPushed /\ [Next]_vars => NothingPushed'
<1> SUFFICES ASSUME TypeOK, NothingPushed, [Next]_vars, ctx' = "open" PROVE NothingPushed'
  BY DEF NothingPushed
<1>1. ctx = "open"
  BY DEF Next, MainStep, WorkerStep, MonitorStep, ClientStep, Terminated, BindFrontend,
         RecvRequest, SendError, SendReply, Send, DispatchBatch, CollectResult, MainTerm,
         JoinThreads, ConnectPull, ConnectPush, PullBatch, PriceBatch, PushResult, WorkerTerm,
         SocketFails, SendSignal, SigWait, ShutdownContext, ClientSend, ClientRecv,
         PyClientRecv, ClientCrash, DropRequest, vars
<1>2. ASSUME NEW w \in Workers, WorkerStep(w) PROVE NothingPushed'
  BY <1>1, <1>2, PushedByWorker
<1>3. ASSUME NEW w \in Workers, CollectResult(w) PROVE NothingPushed'
  <2>1. /\ worker' = worker /\ results[w].queue # <<>>
        /\ \A v \in Workers \ {w} : results'[v] = results[v]
    BY <1>3 DEF CollectResult, HasMessage, TypeOK, PipeType
  <2> QED
    BY <1>1, <2>1 DEF NothingPushed
<1>4. CASE \/ BindFrontend \/ SendError \/ SendReply \/ MainTerm \/ JoinThreads \/ SendSignal
           \/ MonitorStep \/ UNCHANGED vars \/ (\E w \in Workers : DispatchBatch(w))
           \/ \E c \in Clients : RecvRequest(c) \/ ClientStep(c)
  <2>1. UNCHANGED <<worker, results>>
    BY <1>4 DEF BindFrontend, SendError, SendReply, Send, MainTerm, JoinThreads, SendSignal,
                MonitorStep, SigWait, ShutdownContext, vars, DispatchBatch, RecvRequest,
                ClientStep, ClientSend, ClientRecv, PyClientRecv, ClientCrash, DropRequest
  <2> QED
    BY <1>1, <2>1 DEF NothingPushed
<1> QED
  BY <1>2, <1>3, <1>4 DEF Next, MainStep, Terminated

LEMMA PushedAlways == Spec => []NothingPushed
<1>1. Init => NothingPushed
  BY DEF Init, NothingPushed, EmptyPipe
<1> QED
  BY <1>1, TypeCorrect, NextPushed, PTL DEF Spec

\* While the context is open, no chunk that was sent disappears, whatever a worker
\* makes of a batch, but one: a batch whose worker could not create its push socket
\* and ended with the batch unread.
THEOREM NothingLost == Spec => []NoChunkLost
<1>1. TypeOK /\ AllCovered /\ NothingPushed => NoChunkLost
  <2> SUFFICES ASSUME TypeOK, AllCovered, NothingPushed, ctx = "open" PROVE NoChunkLost
    BY DEF NoChunkLost
  <2>1. ASSUME NEW w \in Workers PROVE Pipelines[w] = OnItsWay(w)
    <3>1. Pipelines[w] = Pipeline(w)
      BY DEF Pipelines
    <3>2. CASE worker[w] = "exited"
      <4>1. results[w].queue = <<>> /\ HeldIds(w) = <<>>
        BY <3>2 DEF NothingPushed, HeldIds
      <4>2. ResultIds(<<>>) = <<>>
        BY DEF ResultIds
      <4>3. BatchIds(dispatch[w].queue) \in Seq(Nat)
        BY IdsType DEF TypeOK, PipeType, PipeOf
      <4>4. <<>> \o <<>> \o BatchIds(dispatch[w].queue) = BatchIds(dispatch[w].queue)
        BY <4>3
      <4> QED
        BY <3>1, <3>2, <4>1, <4>2, <4>4 DEF Pipeline, OnItsWay
    <3> QED
      BY <3>1, <3>2 DEF OnItsWay
  <2>2. Covered(Pipelines, collected, sent)
    BY DEF AllCovered
  <2>3. ASSUME NEW c \in 0 .. sent - 1
        PROVE  \/ \E i \in DOMAIN collected : collected[i] = c
               \/ \E w \in Workers : \E k \in DOMAIN OnItsWay(w) : OnItsWay(w)[k] = c
    BY <2>1, <2>2 DEF Covered
  <2> QED
    BY <2>3 DEF NoChunkLost
<1> QED
  BY <1>1, TypeCorrect, CoveredAlways, PushedAlways, PTL

-----------------------------------------------------------------------------
(***************************************************************************)
(* When run_server cannot wedge.                                           *)
(***************************************************************************)

\* A pipe whose sender has to wait holds at least PipeRoom messages.
LEMMA FullPipe ==
    ASSUME NEW M, NEW p \in PipeOf(M), ~HasRoom(p)
    PROVE  Len(p.queue) >= PipeRoom
<1>1. Len(p.queue) \in Nat /\ p.unreported \in 0 .. Lwm - 1
  BY DEF PipeOf
<1> QED
  BY <1>1, LwmType, HwmAssumption DEF HasRoom, PipeRoom

\* Pipelines of at least l chunks each hold l numbers for each of their workers,
\* all different and all below n.
LEMMA ApartCount ==
    ASSUME NEW P \in [Workers -> Seq(Nat)], NEW col \in Seq(Nat), NEW n \in Nat,
           NEW l \in Nat, Apart(P, col, n),
           NEW some \in SUBSET Workers, \A w \in some : Len(P[w]) >= l
    PROVE  Cardinality(some) * l <= n
<1> DEFINE slots == some \X (1 .. l)
           below == 0 .. n - 1
           f == [s \in slots |-> P[s[1]][s[2]]]
<1>1. \A w \in some : \A k \in 1 .. l : k \in DOMAIN P[w]
  OBVIOUS
<1>2. \A w \in some : \A k \in 1 .. l : P[w][k] \in below
  BY <1>1 DEF Apart
<1>3. f \in [slots -> below]
  BY <1>2
<1>4. \A s, t \in slots : f[s] = f[t] => s = t
  <2> SUFFICES ASSUME NEW s \in slots, NEW t \in slots, f[s] = f[t] PROVE s = t
    OBVIOUS
  <2>1. /\ s = <<s[1], s[2]>> /\ s[1] \in some /\ s[2] \in DOMAIN P[s[1]]
        /\ t = <<t[1], t[2]>> /\ t[1] \in some /\ t[2] \in DOMAIN P[t[1]]
        /\ P[s[1]][s[2]] = P[t[1]][t[2]]
    BY <1>1
  <2>2. s[1] = t[1] /\ s[2] = t[2]
    <3>1. \A y, z \in Workers : \A g \in DOMAIN P[y] : \A h \in DOMAIN P[z] :
          P[y][g] = P[z][h] => y = z /\ g = h
      BY ApartSame
    <3> QED
      BY <2>1, <3>1
  <2> QED
    BY <2>1, <2>2
<1> HIDE DEF f
<1>5. f \in Injection(slots, below)
  BY <1>3, <1>4 DEF Injection, IsInjective
<1>6. IsFiniteSet(below) /\ Cardinality(below) = n
  BY CountBelow
<1>7. IsFiniteSet(1 .. l) /\ Cardinality(1 .. l) = l
  BY FS_Interval
<1>8. Cardinality(slots) = Cardinality(some) * Cardinality(1 .. l)
  <2>1. IsFiniteSet(some)
    BY ServerAssumption, FS_Subset
  <2> QED
    BY <1>7, <2>1, FS_Product
<1> HIDE DEF slots, below
<1>9. Cardinality(slots) <= Cardinality(below)
  BY <1>5, <1>6, FS_Injection
<1> QED
  BY <1>6, <1>7, <1>8, <1>9

\* A request of at most 2 * PipeRoom + 1 batches for each worker that runs never
\* wedges the server, although every batch is sent before any is collected.
THEOREM WithinCapacity == Spec => []NoWedge
<1>1. Inv => NoWedge
  <2> SUFFICES ASSUME Inv, main = "serving", BatchCount(rr) <= Capacity, Wedged
               PROVE  FALSE
    BY DEF NoWedge
  <2> DEFINE l == 2 * PipeRoom + 1
  <2>1. TypeOK /\ Apart(Pipelines, collected, sent)
    BY NoChunkTwiceIsApart DEF Inv
  <2>2. PipeRoom \in Nat /\ l \in Nat
    BY LwmType, HwmAssumption DEF PipeRoom
  <2>3. ASSUME NEW w \in Running PROVE Len(Pipelines[w]) >= l
    <3> DEFINE a == ResultIds(results[w].queue)
               h == HeldIds(w)
               b == BatchIds(dispatch[w].queue)
    <3>0. w \in Workers
      BY DEF Running
    <3>1. /\ results[w] \in PipeOf(BatchPricingResponse) /\ ~HasRoom(results[w])
          /\ dispatch[w] \in PipeOf(BatchPricingRequest) /\ ~HasRoom(dispatch[w])
      BY <2>1, <3>0 DEF TypeOK, PipeType, Wedged
    <3>2. Len(results[w].queue) >= PipeRoom /\ Len(dispatch[w].queue) >= PipeRoom
      BY <3>1, FullPipe
    <3>3. /\ results[w].queue \in Seq(BatchPricingResponse)
          /\ dispatch[w].queue \in Seq(BatchPricingRequest)
      BY <3>1 DEF PipeOf
    <3>4. a \in Seq(Nat) /\ h \in Seq(Nat) /\ b \in Seq(Nat)
      BY <2>1, <3>0, <3>3, IdsType, PipelinesType
    <3>5. Len(a) = Len(results[w].queue) /\ Len(b) = Len(dispatch[w].queue)
      BY <3>3, <3>4 DEF ResultIds, BatchIds
    <3>6. h = <<hand[w].batch_id>>
      BY DEF Wedged, HeldIds
    <3>7. Len(h) = 1
      BY <3>6
    <3>8. Pipelines[w] = a \o h \o b
      BY <3>0 DEF Pipelines, Pipeline
    <3> HIDE DEF a, h, b
    <3>9. Len(a \o h \o b) = Len(a) + Len(h) + Len(b)
      BY <3>4
    <3> QED
      <4>1. Len(Pipelines[w]) = Len(results[w].queue) + 1 + Len(dispatch[w].queue)
        BY <3>5, <3>7, <3>8, <3>9
      <4>2. Len(results[w].queue) \in Nat /\ Len(dispatch[w].queue) \in Nat
        BY <3>3
      <4> QED
        <5>1. PipeRoom \in Nat
          BY <2>2
        <5>2. ASSUME NEW x \in Nat, NEW y \in Nat, NEW r \in Nat, x >= r, y >= r
              PROVE  x + 1 + y >= 2 * r + 1
          BY <5>2
        <5> QED
          BY <3>2, <4>1, <4>2, <5>1, <5>2
  <2>4. sent \in Nat /\ collected \in Seq(Nat) /\ Pipelines \in [Workers -> Seq(Nat)]
    BY <2>1, PipelinesType DEF TypeOK, MainType
  <2>5. Cardinality(Running) * l <= sent
    <3>1. Running \in SUBSET Workers
      BY DEF Running
    <3> HIDE DEF l
    <3> QED
      BY <3>1, <2>1, <2>2, <2>3, <2>4, ApartCount
  <2>6. sent < BatchCount(rr)
    BY DEF Wedged
  <2>7. Capacity = Cardinality(Running) * l
    BY DEF Capacity
  <2>8. BatchCount(rr) \in Int /\ Capacity \in Int
    <3>1. Len(rr.pairs) \in Nat
      BY <2>1 DEF TypeOK, MainType, RangePricingRequest
    <3>2. Cardinality(Running) \in Nat
      <4>1. IsFiniteSet(Running)
        BY ServerAssumption, FS_Subset DEF Running
      <4> QED
        BY <4>1, FS_CardinalityType
    <3> QED
      BY <2>2, <3>1, <3>2, SimdLanesAssumption DEF BatchCount, Chunks, Capacity
  <2> QED
    BY <2>4, <2>5, <2>6, <2>7, <2>8
<1> QED
  BY <1>1, Invariance, PTL

-----------------------------------------------------------------------------
(***************************************************************************)
(* When run_server is certain to wedge.                                    *)
(***************************************************************************)

\* Pipelines of at most l chunks each cover at most Cardinality(Workers) * l
\* numbers.
LEMMA CoveredCount ==
    ASSUME NEW P \in [Workers -> Seq(Nat)], NEW n \in Nat, NEW l \in Nat,
           Covered(P, <<>>, n), \A w \in Workers : Len(P[w]) <= l
    PROVE  n <= Cardinality(Workers) * l
<1> DEFINE slots == Workers \X (1 .. l)
           below == 0 .. n - 1
           At(c, s) == s[2] \in DOMAIN P[s[1]] /\ P[s[1]][s[2]] = c
           f == [c \in below |-> CHOOSE s \in slots : At(c, s)]
<1>1. ASSUME NEW c \in below PROVE \E s \in slots : At(c, s)
  <2>1. PICK w \in Workers : \E k \in DOMAIN P[w] : P[w][k] = c
    BY DEF Covered
  <2>2. PICK k \in DOMAIN P[w] : P[w][k] = c
    BY <2>1
  <2>3. k \in 1 .. l
    OBVIOUS
  <2>4. <<w, k>> \in slots /\ At(c, <<w, k>>)
    BY <2>2, <2>3
  <2> HIDE DEF slots, At
  <2> QED
    BY <2>4
<1>2. \A c \in below : f[c] \in slots /\ At(c, f[c])
  <2> HIDE DEF slots, below, At
  <2> QED
    BY <1>1
<1>3. \A c, d \in below : f[c] = f[d] => c = d
  <2> SUFFICES ASSUME NEW c \in below, NEW d \in below, f[c] = f[d] PROVE c = d
    OBVIOUS
  <2>1. At(c, f[c]) /\ At(d, f[d])
    BY <1>2
  <2> HIDE DEF f
  <2> QED
    BY <2>1
<1>4. f \in [below -> slots]
  <2>1. \A c \in below : f[c] \in slots
    BY <1>2
  <2>2. f = [c \in below |-> f[c]]
    OBVIOUS
  <2> HIDE DEF f, slots, below
  <2> QED
    BY <2>1, <2>2
<1> HIDE DEF f
<1>5. f \in Injection(below, slots)
  BY <1>3, <1>4 DEF Injection, IsInjective
<1>6. Cardinality(below) = n
  BY CountBelow
<1>7. IsFiniteSet(1 .. l) /\ Cardinality(1 .. l) = l
  BY FS_Interval
<1>8. IsFiniteSet(slots) /\ Cardinality(slots) = Cardinality(Workers) * Cardinality(1 .. l)
  BY <1>7, FS_Product, ServerAssumption
<1> HIDE DEF slots, below
<1>9. Cardinality(below) <= Cardinality(slots)
  BY <1>5, <1>8, FS_Injection
<1> QED
  BY <1>6, <1>7, <1>8, <1>9

\* A worker's pipes and its hand hold 2 * Hwm + 1 chunks at most.
LEMMA PipelineBound ==
    ASSUME TypeOK, NEW w \in Workers
    PROVE  Len(Pipelines[w]) <= 2 * Hwm + 1
<1> DEFINE a == ResultIds(results[w].queue)
           h == HeldIds(w)
           b == BatchIds(dispatch[w].queue)
<1>1. /\ results[w] \in PipeOf(BatchPricingResponse) /\ WithinMark(results[w])
      /\ dispatch[w] \in PipeOf(BatchPricingRequest) /\ WithinMark(dispatch[w])
  BY DEF TypeOK, PipeType
<1>2. /\ results[w].queue \in Seq(BatchPricingResponse) /\ results[w].unreported \in Nat
      /\ dispatch[w].queue \in Seq(BatchPricingRequest) /\ dispatch[w].unreported \in Nat
  BY <1>1, LwmType DEF PipeOf
<1>3. Len(results[w].queue) <= Hwm /\ Len(dispatch[w].queue) <= Hwm
  BY <1>1, <1>2, HwmAssumption DEF WithinMark
<1>4. a \in Seq(Nat) /\ h \in Seq(Nat) /\ b \in Seq(Nat)
  BY <1>2, IdsType, PipelinesType
<1>5. Len(a) = Len(results[w].queue) /\ Len(b) = Len(dispatch[w].queue)
  BY <1>2, <1>4 DEF ResultIds, BatchIds
<1>6. Len(h) <= 1
  BY DEF HeldIds
<1>7. Pipelines[w] = a \o h \o b
  BY DEF Pipelines, Pipeline
<1> HIDE DEF a, h, b
<1>8. Len(a \o h \o b) = Len(a) + Len(h) + Len(b)
  BY <1>4
<1>9. Len(a) \in Nat /\ Len(h) \in Nat /\ Len(b) \in Nat
  BY <1>4
<1>10. Len(Pipelines[w]) = Len(a) + Len(h) + Len(b)
  BY <1>7, <1>8
<1>11. Len(a) <= Hwm /\ Len(b) <= Hwm
  BY <1>3, <1>5
<1> QED
  BY <1>6, <1>9, <1>10, <1>11, HwmAssumption

\* As long as nothing was collected, all that was sent is in the pipelines.
LEMMA RoomForSent == TypeOK /\ AllCovered /\ ctx = "open" /\ collected = <<>> => sent <= Room
<1> SUFFICES ASSUME TypeOK, AllCovered, ctx = "open", collected = <<>>
             PROVE  sent <= Room
  OBVIOUS
<1> DEFINE l == 2 * Hwm + 1
<1>1. Covered(Pipelines, <<>>, sent)
  BY DEF AllCovered
<1>2. Pipelines \in [Workers -> Seq(Nat)] /\ sent \in Nat
  BY PipelinesType DEF TypeOK, MainType
<1>3. \A w \in Workers : Len(Pipelines[w]) <= l
  BY PipelineBound
<1>4. l \in Nat
  BY HwmAssumption
<1> HIDE DEF l
<1>5. sent <= Cardinality(Workers) * l
  BY <1>1, <1>2, <1>3, <1>4, CoveredCount
<1> QED
  BY <1>5 DEF Room, l

\* Results are collected only once everything is sent, so what was sent has had
\* room at once.
RoomInv ==
    /\ main = "reject" => rr = Malformed
    /\ main = "serving" => sent <= BatchCount(rr)
    /\ main = "serving" /\ collected # <<>> => sent = BatchCount(rr)
    /\ ctx = "open" => sent <= Room
    /\ OnlyFittingAnswered

\* A request has some number of batches.
LEMMA RequestBatches ==
    ASSUME NEW r \in RangePricingRequest
    PROVE  BatchCount(r) \in Nat
<1>1. Len(r.pairs) \in Nat
  BY DEF RangePricingRequest
<1> DEFINE a == Len(r.pairs) + SimdLanes - 1
<1>2. a \in Nat /\ SimdLanes \in Nat \ {0}
  BY <1>1, SimdLanesAssumption
<1>3. BatchCount(r) = a \div SimdLanes
  BY DEF BatchCount, Chunks
<1> HIDE DEF a
<1> QED
  BY <1>2, <1>3

LEMMA InitRoom == Init => RoomInv
<1> SUFFICES ASSUME Init PROVE RoomInv
  OBVIOUS
<1>1. Room \in Nat
  BY HwmAssumption, ServerAssumption, FS_CardinalityType DEF Room
<1> QED
  BY <1>1 DEF Init, RoomInv, OnlyFittingAnswered

\* The rest of a state that the answers so far depend on.
LEMMA SameRoom ==
    ASSUME RoomInv, UNCHANGED <<main, peer, sent, collected, cstate, request>>,
           ctx' = "open" => ctx = "open"
    PROVE  RoomInv'
<1>1. rr' = rr
  BY DEF rr
<1>2. OnlyFittingAnswered'
  BY DEF RoomInv, OnlyFittingAnswered, Room
<1> QED
  BY <1>1, <1>2 DEF RoomInv, Room

LEMMA NextRoom ==
    ASSUME Inv, Inv', AllCovered', RoomInv, [Next]_vars
    PROVE  RoomInv'
<1> DEFINE Fits(r) == BatchCount(r) <= Room
<1>0. ctx' = "open" => ctx = "open"
  BY DEF Next, MainStep, WorkerStep, MonitorStep, ClientStep, Terminated, BindFrontend,
         RecvRequest, SendError, SendReply, Send, DispatchBatch, CollectResult, MainTerm,
         JoinThreads, ConnectPull, ConnectPush, PullBatch, PriceBatch, PushResult, WorkerTerm,
         SocketFails, SendSignal, SigWait, ShutdownContext, ClientSend, ClientRecv, PyClientRecv,
         ClientCrash, DropRequest, vars
<1>1. /\ TypeOK /\ cstate \in [Clients -> {"idle", "sent", "taken", "replied", "done",
                                          "refused", "lost"}]
      /\ request \in [Clients -> Requests \cup {None}]
      /\ main \in {"reject", "serving"} => peer \in Clients /\ cstate[peer] = "taken"
  BY DEF Inv, TypeOK, MainType, ClientType
<1>2. CASE \/ ShutdownContext \/ SigWait \/ SendSignal \/ UNCHANGED vars
           \/ \E w \in Workers : WorkerStep(w)
           \/ \E c \in Clients : ClientCrash(c)
  <2>1. UNCHANGED <<main, peer, sent, collected, cstate, request>>
    BY <1>2 DEF ShutdownContext, SigWait, SendSignal, vars, mainVars, clientVars, WorkerStep,
                ConnectPull, ConnectPush, PullBatch, PriceBatch, PushResult, WorkerTerm,
                SocketFails, ClientCrash
  <2> QED
    BY <1>0, <2>1, SameRoom
<1>3. CASE BindFrontend \/ MainTerm \/ JoinThreads
  <2>1. main' \in {"recv", "join", "exited"} /\ UNCHANGED <<sent, cstate, request>>
    BY <1>3 DEF BindFrontend, MainTerm, JoinThreads, clientVars
  <2>2. OnlyFittingAnswered'
    BY <1>0, <2>1 DEF RoomInv, OnlyFittingAnswered, Room
  <2> QED
    BY <1>0, <2>1, <2>2 DEF RoomInv, Room
<1>4. CASE SendError \/ SendReply
  <2>1. /\ main \in {"reject", "serving"} /\ main' = "recv" /\ sent' = 0 /\ request' = request
        /\ \E s : cstate' = [cstate EXCEPT ![peer] = s]
    BY <1>4, Zenon DEF SendError, SendReply, Send
  <2>2. ctx = "open" /\ rr # Malformed => Fits(rr)
    BY <1>4 DEF SendError, SendReply, RoomInv
  <2>3. ASSUME ctx' = "open", NEW c \in Clients,
               cstate'[c] \in {"replied", "done", "refused"}, request[c] # Malformed
        PROVE  Fits(request[c])
    <3>1. CASE c = peer
      BY <1>0, <2>2, <2>3, <3>1 DEF rr
    <3>2. CASE c # peer
      <4>1. cstate'[c] = cstate[c]
        BY <1>1, <2>1, <3>2
      <4> QED
        BY <1>0, <2>3, <4>1 DEF RoomInv, OnlyFittingAnswered
    <3> QED
      BY <3>1, <3>2
  <2>4. OnlyFittingAnswered'
    BY <2>1, <2>3 DEF OnlyFittingAnswered, Room
  <2>5. Room \in Nat
    BY HwmAssumption, ServerAssumption, FS_CardinalityType DEF Room
  <2> QED
    BY <2>1, <2>4, <2>5 DEF RoomInv, Room
<1>5. ASSUME NEW c \in Clients, RecvRequest(c) PROVE RoomInv'
  <2>1. /\ main = "recv" /\ peer' = c /\ cstate' = [cstate EXCEPT ![c] = "taken"]
        /\ main' = IF request[c] = Malformed THEN "reject" ELSE "serving"
        /\ UNCHANGED <<sent, collected, request>>
    BY <1>5 DEF RecvRequest
  <2>2. collected = <<>> /\ sent = 0
    BY <2>1 DEF Inv, IdleMain
  <2>3. rr' = request[c]
    BY <2>1 DEF rr
  <2>4. OnlyFittingAnswered'
    BY <1>0, <1>1, <2>1 DEF RoomInv, OnlyFittingAnswered, Room
  <2>5. main' = "serving" => sent' <= BatchCount(rr')
    <3>1. ASSUME main' = "serving" PROVE BatchCount(rr') \in Nat
      BY <3>1, RequestBatches DEF Inv, TypeOK, MainType, rr
    <3> QED
      BY <2>1, <2>2, <3>1
  <2> QED
    BY <1>0, <2>1, <2>2, <2>3, <2>4, <2>5 DEF RoomInv, Room
<1>6. ASSUME NEW w \in Workers, DispatchBatch(w) PROVE RoomInv'
  <2>1. /\ main = "serving" /\ sent < BatchCount(rr)
        /\ UNCHANGED <<main, peer, collected, cstate, request>>
    BY <1>6 DEF DispatchBatch, clientVars
  <2>2. collected = <<>>
    <3>1. sent # BatchCount(rr)
      BY <1>1, <2>1 DEF TypeOK, MainType
    <3> QED
      BY <2>1, <3>1 DEF RoomInv
  <2>3. (TypeOK /\ AllCovered /\ ctx = "open" /\ collected = <<>> => sent <= Room)'
    BY RoomForSent, PTL
  <2>4. ctx' = "open" => sent' <= Room'
    BY <2>1, <2>2, <2>3 DEF Inv
  <2>5. OnlyFittingAnswered'
    BY <1>0, <2>1 DEF RoomInv, OnlyFittingAnswered, Room
  <2>6. rr' = rr
    BY <2>1 DEF rr
  <2>7. sent' <= BatchCount(rr)
    <3>1. rr \in RangePricingRequest /\ sent \in Nat
      BY <1>1, <2>1 DEF TypeOK, MainType
    <3>2. BatchCount(rr) \in Nat
      BY <3>1, RequestBatches
    <3>3. sent' = sent + 1
      BY <1>6 DEF DispatchBatch
    <3> QED
      BY <2>1, <3>1, <3>2, <3>3
  <2> QED
    BY <2>1, <2>2, <2>4, <2>5, <2>6, <2>7 DEF RoomInv
<1>7. ASSUME NEW w \in Workers, CollectResult(w) PROVE RoomInv'
  <2>1. /\ main = "serving" /\ sent = BatchCount(rr)
        /\ UNCHANGED <<main, peer, sent, cstate, request>>
    BY <1>7 DEF CollectResult, clientVars
  <2>2. rr' = rr
    BY <2>1 DEF rr
  <2>3. OnlyFittingAnswered'
    BY <1>0, <2>1 DEF RoomInv, OnlyFittingAnswered, Room
  <2> QED
    BY <1>0, <2>1, <2>2, <2>3 DEF RoomInv, Room
<1>8. ASSUME NEW c \in Clients, NEW r \in Requests, ClientSend(c, r) PROVE RoomInv'
  <2>1. /\ cstate[c] = "idle" /\ cstate' = [cstate EXCEPT ![c] = "sent"]
        /\ request' = [request EXCEPT ![c] = r]
        /\ UNCHANGED <<main, peer, sent, collected>>
    BY <1>8 DEF ClientSend, mainVars
  <2>2. main \in {"reject", "serving"} => rr' = rr
    BY <1>1, <2>1 DEF rr
  <2>3. OnlyFittingAnswered'
    BY <1>0, <1>1, <2>1 DEF RoomInv, OnlyFittingAnswered, Room
  <2> QED
    BY <1>0, <2>1, <2>2, <2>3 DEF RoomInv, Room
<1>9. ASSUME NEW c \in Clients, ClientRecv(c) \/ PyClientRecv(c) \/ DropRequest(c)
      PROVE  RoomInv'
  <2>1. /\ UNCHANGED <<main, peer, sent, collected, request>>
        /\ \A d \in Clients : cstate'[d] \in {"replied", "done", "refused"} =>
                              cstate[d] \in {"replied", "done", "refused"}
    BY <1>1, <1>9 DEF ClientRecv, PyClientRecv, DropRequest, mainVars
  <2>2. rr' = rr
    BY <2>1 DEF rr
  <2>3. OnlyFittingAnswered'
    BY <1>0, <2>1 DEF RoomInv, OnlyFittingAnswered, Room
  <2> QED
    BY <1>0, <2>1, <2>2, <2>3 DEF RoomInv, Room
<1> QED
  BY <1>2, <1>3, <1>4, <1>5, <1>6, <1>7, <1>8, <1>9
     DEF Next, MainStep, MonitorStep, ClientStep, Terminated

LEMMA RoomAlways == Spec => []RoomInv
<1>1. Inv /\ Inv' /\ AllCovered' /\ RoomInv /\ [Next]_vars => RoomInv'
  BY NextRoom
<1> QED
  BY <1>1, InitRoom, Invariance, CoveredAlways, PTL DEF Spec

\* No request of more than Cardinality(Workers) * (2 * Hwm + 1) batches is answered
\* before the server is shut down: it stays in the dispatch loop for ever.
THEOREM BeyondRoomUnanswered == Spec => []OnlyFittingAnswered
<1>1. RoomInv => OnlyFittingAnswered
  BY DEF RoomInv
<1> QED
  BY <1>1, RoomAlways, PTL

-----------------------------------------------------------------------------
(***************************************************************************)
(* That wedge and a stranded batch are the only deadlocks.                 *)
(***************************************************************************)

\* An empty pipe has room: its reader has reported all but Lwm - 1 messages.
LEMMA EmptyPipeHasRoom ==
    ASSUME NEW M, NEW p \in PipeOf(M), ~HasMessage(p)
    PROVE  HasRoom(p)
<1>1. Len(p.queue) = 0 /\ p.unreported \in 0 .. Lwm - 1
  BY DEF PipeOf, HasMessage
<1> QED
  BY <1>1, LwmType, HwmAssumption DEF HasRoom

\* Numbers all below n and all covered by col alone are as many as col is long.
LEMMA CoveredByCol ==
    ASSUME NEW P \in [Workers -> Seq(Nat)], NEW col \in Seq(Nat), NEW n \in Nat,
           Covered(P, col, n), \A w \in Workers : P[w] = <<>>
    PROVE  n <= Len(col)
<1> DEFINE below == 0 .. n - 1
           places == 1 .. Len(col)
           f == [c \in below |-> CHOOSE i \in places : col[i] = c]
<1>1. ASSUME NEW c \in below PROVE \E i \in places : col[i] = c
  <2>1. \/ \E i \in DOMAIN col : col[i] = c
        \/ \E w \in Workers : \E k \in DOMAIN P[w] : P[w][k] = c
    BY DEF Covered
  <2>2. \A w \in Workers : DOMAIN P[w] = {}
    OBVIOUS
  <2>3. DOMAIN col = places
    OBVIOUS
  <2> QED
    BY <2>1, <2>2, <2>3, Zenon
<1>2. \A c \in below : f[c] \in places /\ col[f[c]] = c
  <2> HIDE DEF below, places
  <2> QED
    BY <1>1
<1>3. f = [c \in below |-> f[c]]
  OBVIOUS
<1> HIDE DEF f
<1>4. f \in Injection(below, places)
  <2> HIDE DEF below, places
  <2> QED
    BY <1>2, <1>3 DEF Injection, IsInjective
<1>5. Cardinality(below) = n
  BY CountBelow
<1>6. IsFiniteSet(places) /\ Cardinality(places) = Len(col)
  <2>1. \A m \in Nat : IsFiniteSet(1 .. m) /\ Cardinality(1 .. m) = m
    BY FS_Interval
  <2>2. Len(col) \in Nat
    OBVIOUS
  <2> QED
    BY <2>1, <2>2
<1> HIDE DEF below, places
<1>7. Cardinality(below) <= Cardinality(places)
  BY <1>4, <1>6, FS_Injection
<1> QED
  BY <1>5, <1>6, <1>7

\* No more results are counted than chunks were sent.
LEMMA ApartLength ==
    ASSUME NEW P, NEW col \in Seq(Nat), NEW n \in Nat, Apart(P, col, n)
    PROVE  Len(col) <= n
<1> DEFINE places == 1 .. Len(col)
           below == 0 .. n - 1
<1>1. /\ \A i \in places : col[i] \in below
      /\ \A i, j \in places : col[i] = col[j] => i = j
  BY DEF Apart
<1>2. col = [i \in places |-> col[i]]
  OBVIOUS
<1>3. IsFiniteSet(below) /\ Cardinality(below) = n
  BY CountBelow
<1>4. Cardinality(places) = Len(col)
  <2>1. \A m \in Nat : Cardinality(1 .. m) = m
    BY FS_Interval
  <2>2. Len(col) \in Nat
    OBVIOUS
  <2> QED
    BY <2>1, <2>2
<1> HIDE DEF places, below
<1>5. col \in Injection(places, below)
  BY <1>1, <1>2 DEF Injection, IsInjective
<1>6. Cardinality(places) <= Cardinality(below)
  BY <1>3, <1>5, FS_Injection
<1> QED
  BY <1>3, <1>4, <1>6

\* A request's service comes to a stop only in a wedge, which WithinCapacity
\* excludes for the requests that fit, or for a batch left unread by a worker that
\* could not create its push socket.  Otherwise, whichever batches failed and
\* whichever workers have ended, someone has a message to take or room to put one.
THEOREM OnlyDeadlocks == Spec => []OnlyWedgedOrStranded
<1>1. Inv /\ AllCovered /\ RoomInv => OnlyWedgedOrStranded
  <2> SUFFICES ASSUME Inv, AllCovered, RoomInv, ctx = "open", main = "serving", ~Stranded,
                      ~MainCanMove, \A w \in Workers : ~WorkerCanMove(w)
               PROVE  Wedged
    BY DEF OnlyWedgedOrStranded
  <2>1. ASSUME NEW w \in Workers
        PROVE  /\ dispatch[w] \in PipeOf(BatchPricingRequest)
               /\ results[w] \in PipeOf(BatchPricingResponse)
               /\ \/ worker[w] = "pulling" /\ ~HasMessage(dispatch[w])
                  \/ worker[w] = "pushing" /\ ~HasRoom(results[w])
                  \/ worker[w] = "exited" /\ ~HasMessage(dispatch[w])
    <3>1. /\ dispatch[w] \in PipeOf(BatchPricingRequest)
          /\ results[w] \in PipeOf(BatchPricingResponse)
      BY DEF Inv, TypeOK, PipeType
    <3>2. ~WorkerCanMove(w) /\ (worker[w] = "exited" => ~HasMessage(dispatch[w]))
      BY DEF Stranded
    <3> QED
      BY <3>1, <3>2 DEF WorkerCanMove
  <2>2. /\ rr \in RangePricingRequest /\ sent \in Nat /\ sent <= BatchCount(rr)
        /\ collected \in Seq(Nat)
    BY DEF Inv, TypeOK, MainType, RoomInv
  <2>3. BatchCount(rr) \in Nat
    BY <2>2, RequestBatches
  <2>4. CASE sent < BatchCount(rr)
    <3>1. ASSUME NEW w \in Workers, worker[w] # "exited"
          PROVE  worker[w] = "pushing" /\ ~HasRoom(dispatch[w]) /\ ~HasRoom(results[w])
      <4>1. ~Accepts(w)
        BY <2>4 DEF MainCanMove
      <4>2. ~HasRoom(dispatch[w])
        BY <2>1, <3>1, <4>1 DEF Accepts, Connected
      <4>3. HasMessage(dispatch[w])
        BY <2>1, <4>2, EmptyPipeHasRoom
      <4> QED
        BY <2>1, <3>1, <4>2, <4>3
    <3> QED
      BY <2>4, <3>1 DEF Wedged, Running
  <2>5. CASE ~ (sent < BatchCount(rr))
    <3>1. sent = BatchCount(rr)
      BY <2>2, <2>3, <2>5
    <3>2. ~AllCollected /\ \A w \in Workers : ~HasMessage(results[w])
      BY <2>5 DEF MainCanMove
    <3>3. ASSUME NEW w \in Workers PROVE Pipelines[w] = <<>>
      <4>1. HasRoom(results[w])
        BY <2>1, <3>2, EmptyPipeHasRoom
      <4>2. worker[w] \in {"pulling", "exited"} /\ ~HasMessage(dispatch[w]) /\ ~HasMessage(results[w])
        BY <2>1, <3>2, <4>1
      <4>3. results[w].queue = <<>> /\ dispatch[w].queue = <<>> /\ HeldIds(w) = <<>>
        BY <4>2 DEF HasMessage, HeldIds
      <4>4. ResultIds(<<>>) = <<>> /\ BatchIds(<<>>) = <<>>
        BY DEF ResultIds, BatchIds
      <4> QED
        BY <4>3, <4>4 DEF Pipelines, Pipeline
    <3>4. Covered(Pipelines, collected, sent) /\ Apart(Pipelines, collected, sent)
      BY NoChunkTwiceIsApart DEF Inv, AllCovered
    <3>5. Pipelines \in [Workers -> Seq(Nat)]
      BY PipelinesType DEF Inv
    <3>6. sent <= Len(collected)
      BY <2>2, <3>3, <3>4, <3>5, CoveredByCol
    <3>7. Len(collected) <= sent
      BY <2>2, <3>4, ApartLength
    <3>8. Len(collected) = BatchCount(rr)
      BY <2>2, <3>1, <3>6, <3>7
    <3> QED
      BY <3>2, <3>8 DEF AllCollected
  <2> QED
    BY <2>4, <2>5
<1> QED
  BY <1>1, Invariance, CoveredAlways, RoomAlways, PTL
=============================================================================
