----------------------------- MODULE RangeServer -----------------------------
(***************************************************************************)
(* run_server (worker.cpp): the main thread's REP loop, the worker         *)
(* threads, the shutdown monitor, and the clients on the other side of the *)
(* frontend socket.                                                        *)
(*                                                                         *)
(*   client --REQ/REP--> main --PUSH dispatch--> worker                    *)
(*                       main <--PULL results--- worker                    *)
(*                                                                         *)
(* Init is the state in which the threads have been created and the main   *)
(* thread is about to bind the frontend.                                   *)
(***************************************************************************)
EXTENDS Batching, Pricer, Pipe, FiniteSets, Functions, TLC

CONSTANTS
    Workers,    \* the worker threads 0 .. cfg.threads-1
    Clients,    \* client processes; each sends one request
    PyClients,  \* those of range_pricer_client.py; the others are of client.cpp
    Requests,   \* the buffers a client may send
    Malformed,  \* a buffer VerifyRangePricingRequestBuffer refuses
    None,       \* no message
    MayThrow    \* whether process() may also fail for lack of memory

ASSUME ServerAssumption ==
    /\ IsFiniteSet(Workers) /\ Workers # {}
    /\ Requests \subseteq RangePricingRequest \cup {Malformed}
    /\ Malformed \notin RangePricingRequest
    /\ None \notin RangePricingRequest \cup {Malformed}
    /\ None \notin RangePricingResponse
    /\ None \notin BatchPricingRequest \cup BatchPricingResponse
    /\ None \notin Clients /\ PyClients \subseteq Clients
    /\ MayThrow \in BOOLEAN

VARIABLES
    main,         \* where the main thread is
    peer,         \* the client whose request is being served, None between two
    sent,         \* batches of that request handed to dispatch
    collected,    \* the batches whose result was received, in order of receipt;
                  \* Len(collected) is the i of the collecting loop
    all_results,  \* rows collected so far
    dispatch,     \* one pipe per worker: batches sent and not yet pulled
    results,      \* one pipe per worker: responses pushed and not yet received
    worker,       \* where each worker thread is
    hand,         \* the message a worker has pulled or is about to push
    ctx,          \* the ZeroMQ context
    monitor,      \* where the shutdown monitor thread is
    signal,       \* SIGINT or SIGTERM has been sent to the process
    cstate,       \* what has become of each client's request
    alive,        \* the client process still runs
    request,      \* the buffer the client sent
    reply         \* the buffer the client was sent

mainVars   == <<main, peer, sent, collected, all_results>>
pipeVars   == <<dispatch, results>>
workerVars == <<worker, hand>>
exitVars   == <<ctx, monitor, signal>>
clientVars == <<cstate, alive, request, reply>>
vars == <<mainVars, pipeVars, workerVars, exitVars, clientVars>>

\* The request being served.
rr == request[peer]

\* A worker's pipe of dispatch exists from its pull.connect until its exit.
Connected(w) == worker[w] \notin {"spawned", "exited"}

-----------------------------------------------------------------------------
(***************************************************************************)
(* The main thread.                                                        *)
(***************************************************************************)

\* frontend.bind; when it throws, the handler goes on to the joins.
BindFrontend ==
    /\ main = "binding"
    /\ ctx = "open"
    /\ main' \in {"recv", "join"}
    /\ UNCHANGED <<peer, sent, collected, all_results, pipeVars, workerVars,
                   exitVars, clientVars>>

\* frontend.recv and the verification of the buffer.  The request of a client
\* that has died since may still be in the socket's queue.
RecvRequest(c) ==
    /\ main = "recv"
    /\ cstate[c] = "sent"
    /\ cstate' = [cstate EXCEPT ![c] = "taken"]
    /\ peer' = c
    /\ main' = IF request[c] = Malformed THEN "reject" ELSE "serving"
    /\ UNCHANGED <<sent, collected, all_results, pipeVars, workerVars, exitVars, alive, request, reply>>

\* all_results of the next request; wrongly, hoisted out of the loop.
FreshRows_Hoisted == all_results
FreshRows == <<>>

\* frontend.send: the REP socket is free to receive again, and drops a reply
\* whose client is gone.  The request's batches and all_results go out of scope.
Send(response) ==
    /\ cstate' = [cstate EXCEPT ![peer] = IF alive[peer] THEN "replied" ELSE "lost"]
    /\ reply' = [reply EXCEPT ![peer] = IF alive[peer] THEN response ELSE None]
    /\ main' = "recv"
    /\ peer' = None
    /\ sent' = 0
    /\ collected' = <<>>
    /\ all_results' = FreshRows
    /\ UNCHANGED <<pipeVars, workerVars, exitVars, alive, request>>

\* The reply to a malformed request: every field of the response is left out,
\* so request_hash reads as 0 and results as an empty vector.
ErrorResponse == [request_hash |-> 0, results |-> <<>>]

SendError ==
    /\ main = "reject"
    /\ Send(ErrorResponse)

\* A PUSH socket sends to any connected worker whose pipe has room; wrongly,
\* without waiting for room.
Accepts_NoWait(w) == Connected(w)
Accepts(w) == Connected(w) /\ HasRoom(dispatch[w])

\* dispatch.send of the next batch, which blocks while no pipe accepts it.
DispatchBatch(w) ==
    /\ main = "serving"
    /\ sent < BatchCount(rr)
    /\ Accepts(w)
    /\ dispatch' = [dispatch EXCEPT ![w] = Put(@, Batch(rr, sent))]
    /\ sent' = sent + 1
    /\ UNCHANGED <<main, peer, collected, all_results, results, workerVars,
                   exitVars, clientVars>>

\* The rows of a result: none for a zero-length message and for one that does
\* not verify; wrongly, without the verification.
ReadRows_Unverified(msg) == msg.results
ReadRows(msg) == IF Verifies(msg.results) THEN msg.results ELSE <<>>

\* One turn of the collecting loop, which begins once every batch is sent.
CollectResult(w) ==
    /\ main = "serving"
    /\ sent = BatchCount(rr)
    /\ Len(collected) < BatchCount(rr)
    /\ HasMessage(results[w])
    /\ results' = [results EXCEPT ![w] = Take(@)]
    /\ LET result_msg == Head(results[w].queue)
       IN  /\ collected' = Append(collected, result_msg.batch_id)
           /\ all_results' = all_results \o ReadRows(result_msg)
    /\ UNCHANGED <<main, peer, sent, dispatch, workerVars, exitVars, clientVars>>

\* The permutations of a set of places, known to the provers as bijections.
Rearrangements(places) == Permutations(places) \cap Bijection(places, places)

\* Wrongly, the rows in the order in which they were collected.
Sorted_AsCollected(rows) == {rows}

\* std::sort by idx: any arrangement of the rows that is in order, since the
\* sort is not stable.
InOrder(rows) == \A i, j \in DOMAIN rows : i < j => rows[i].idx <= rows[j].idx

Sorted(rows) ==
    {s \in {[k \in DOMAIN rows |-> rows[p[k]]] : p \in Rearrangements(DOMAIN rows)} :
        InOrder(s)}

\* The end of the collecting loop; wrongly, one result early.
AllCollected_OneShort == Len(collected) + 1 >= BatchCount(rr)
AllCollected == Len(collected) = BatchCount(rr)

SendReply ==
    /\ main = "serving"
    /\ sent = BatchCount(rr)
    /\ AllCollected
    /\ \E rows \in Sorted(all_results) :
          Send([request_hash |-> rr.request_hash, results |-> rows])

\* Any socket call may throw ETERM once the context is shut down; a call that
\* does not block may still succeed before the socket notices.
MainTerm ==
    /\ ctx = "shutdown"
    /\ main \in {"binding", "recv", "reject", "serving"}
    /\ main' = "join"
    /\ UNCHANGED <<peer, sent, collected, all_results, pipeVars, workerVars,
                   exitVars, clientVars>>

\* The joins, in turn, of every worker and of the monitor; then the sockets
\* and the context are destroyed and run_server returns.
JoinThreads ==
    /\ main = "join"
    /\ \A w \in Workers : worker[w] = "exited"
    /\ monitor = "exited"
    /\ main' = "exited"
    /\ UNCHANGED <<peer, sent, collected, all_results, pipeVars, workerVars,
                   exitVars, clientVars>>

-----------------------------------------------------------------------------
(***************************************************************************)
(* The worker threads.                                                     *)
(***************************************************************************)

\* Creating a socket throws ETERM once the context is shut down.
ConnectPull(w) ==
    /\ worker[w] = "spawned"
    /\ ctx = "open"
    /\ worker' = [worker EXCEPT ![w] = "connecting"]
    /\ UNCHANGED <<mainVars, pipeVars, hand, exitVars, clientVars>>

ConnectPush(w) ==
    /\ worker[w] = "connecting"
    /\ ctx = "open"
    /\ worker' = [worker EXCEPT ![w] = "pulling"]
    /\ UNCHANGED <<mainVars, pipeVars, hand, exitVars, clientVars>>

PullBatch(w) ==
    /\ worker[w] = "pulling"
    /\ HasMessage(dispatch[w])
    /\ hand' = [hand EXCEPT ![w] = Head(dispatch[w].queue)]
    /\ dispatch' = [dispatch EXCEPT ![w] = Take(@)]
    /\ worker' = [worker EXCEPT ![w] = "pricing"]
    /\ UNCHANGED <<mainVars, results, exitVars, clientVars>>

\* The exception handler has the empty message pushed; wrongly, it goes on to
\* the next batch.
OnFailure_Silent(w) ==
    /\ hand' = [hand EXCEPT ![w] = None]
    /\ worker' = [worker EXCEPT ![w] = "pulling"]

OnFailure(w) ==
    /\ hand' = [hand EXCEPT ![w] = Failed(@)]
    /\ worker' = [worker EXCEPT ![w] = "pushing"]

\* process() and its exception handler; either way one message will be pushed.
\* The verification of the batch cannot fail: the main thread has just built it.
PriceBatch(w) ==
    /\ worker[w] = "pricing"
    /\ \/ /\ ~ParamsRejected(hand[w].request)
          /\ hand' = [hand EXCEPT ![w] = Priced(@)]
          /\ worker' = [worker EXCEPT ![w] = "pushing"]
       \/ /\ ParamsRejected(hand[w].request) \/ MayThrow
          /\ OnFailure(w)
    /\ UNCHANGED <<mainVars, pipeVars, exitVars, clientVars>>

\* The next turn of the loop; wrongly, without the `continue' that follows the
\* push of an empty message.
NextTurn_FallsThrough(w) ==
    IF hand[w].ok THEN /\ hand' = [hand EXCEPT ![w] = None]
                       /\ worker' = [worker EXCEPT ![w] = "pulling"]
                  ELSE UNCHANGED <<hand, worker>>

NextTurn(w) ==
    /\ hand' = [hand EXCEPT ![w] = None]
    /\ worker' = [worker EXCEPT ![w] = "pulling"]

\* push.send blocks while the worker's pipe of results is full.
PushResult(w) ==
    /\ worker[w] = "pushing"
    /\ HasRoom(results[w])
    /\ results' = [results EXCEPT ![w] = Put(@, hand[w])]
    /\ NextTurn(w)
    /\ UNCHANGED <<mainVars, dispatch, exitVars, clientVars>>

\* The socket calls inside the handler of zmq::error_t; wrongly, without send.
SocketCalls_NoSend == {"spawned", "connecting", "pulling"}
SocketCalls == {"spawned", "connecting", "pulling", "pushing"}

\* ETERM out of any socket call ends the thread; a batch being priced is not
\* interrupted.
WorkerTerm(w) ==
    /\ ctx = "shutdown"
    /\ worker[w] \in SocketCalls
    /\ worker' = [worker EXCEPT ![w] = "exited"]
    /\ hand' = [hand EXCEPT ![w] = None]
    /\ UNCHANGED <<mainVars, pipeVars, exitVars, clientVars>>

\* Any other zmq::error_t ends the thread as well, with the context open: pull
\* or push cannot be created or connected (EMFILE, say).  Nobody else is told.
\* A pull that was connected closes, and what is in its pipe is never read: the
\* batches stay in dispatch[w].  Until dispatch learns of it, a batch may still
\* be sent there, which is as if it had been sent just before.
SocketFails(w) ==
    /\ ctx = "open"
    /\ worker[w] \in {"spawned", "connecting"}
    /\ worker' = [worker EXCEPT ![w] = "exited"]
    /\ UNCHANGED <<mainVars, pipeVars, hand, exitVars, clientVars>>

-----------------------------------------------------------------------------
(***************************************************************************)
(* The shutdown monitor and the clients.                                   *)
(***************************************************************************)

SendSignal ==
    /\ ~signal
    /\ signal' = TRUE
    /\ UNCHANGED <<mainVars, pipeVars, workerVars, ctx, monitor, clientVars>>

SigWait ==
    /\ monitor = "sigwait"
    /\ signal
    /\ monitor' = "woken"
    /\ UNCHANGED <<mainVars, pipeVars, workerVars, ctx, signal, clientVars>>

ShutdownContext ==
    /\ monitor = "woken"
    /\ ctx' = "shutdown"
    /\ monitor' = "exited"
    /\ UNCHANGED <<mainVars, pipeVars, workerVars, signal, clientVars>>

ClientSend(c, r) ==
    /\ cstate[c] = "idle"
    /\ cstate' = [cstate EXCEPT ![c] = "sent"]
    /\ request' = [request EXCEPT ![c] = r]
    /\ UNCHANGED <<mainVars, pipeVars, workerVars, exitVars, alive, reply>>

\* client.cpp verifies the reply and ends with an error when that fails.
ClientRecv(c) ==
    /\ c \notin PyClients
    /\ cstate[c] = "replied"
    /\ alive[c]
    /\ cstate' = [cstate EXCEPT ![c] = IF Verifies(reply[c].results)
                                      THEN "done" ELSE "refused"]
    /\ UNCHANGED <<mainVars, pipeVars, workerVars, exitVars, alive, request, reply>>

\* range_pricer_client.py reads the reply without verifying it.
PyClientRecv(c) ==
    /\ c \in PyClients
    /\ cstate[c] = "replied"
    /\ alive[c]
    /\ cstate' = [cstate EXCEPT ![c] = "done"]
    /\ UNCHANGED <<mainVars, pipeVars, workerVars, exitVars, alive, request, reply>>

\* A client may be killed while it waits: it has no timeout of its own.
ClientCrash(c) ==
    /\ cstate[c] \in {"sent", "taken"}
    /\ alive[c]
    /\ alive' = [alive EXCEPT ![c] = FALSE]
    /\ UNCHANGED <<mainVars, pipeVars, workerVars, exitVars, cstate, request, reply>>

\* With the client's connection goes the request the server has not received.
DropRequest(c) ==
    /\ cstate[c] = "sent"
    /\ ~alive[c]
    /\ cstate' = [cstate EXCEPT ![c] = "lost"]
    /\ UNCHANGED <<mainVars, pipeVars, workerVars, exitVars, alive, request, reply>>

\* The process has ended.
Terminated == main = "exited" /\ UNCHANGED vars
-----------------------------------------------------------------------------
Init ==
    /\ main = "binding" /\ peer = None
    /\ sent = 0 /\ collected = <<>> /\ all_results = <<>>
    /\ dispatch = [w \in Workers |-> EmptyPipe]
    /\ results = [w \in Workers |-> EmptyPipe]
    /\ worker = [w \in Workers |-> "spawned"]
    /\ hand = [w \in Workers |-> None]
    /\ ctx = "open" /\ monitor = "sigwait" /\ signal = FALSE
    /\ cstate = [c \in Clients |-> "idle"]
    /\ alive = [c \in Clients |-> TRUE]
    /\ request = [c \in Clients |-> None]
    /\ reply = [c \in Clients |-> None]

MainStep ==
    \/ BindFrontend \/ SendError \/ SendReply \/ MainTerm \/ JoinThreads
    \/ \E c \in Clients : RecvRequest(c)
    \/ \E w \in Workers : DispatchBatch(w) \/ CollectResult(w)

WorkerStep(w) ==
    \/ ConnectPull(w) \/ ConnectPush(w) \/ PullBatch(w) \/ PriceBatch(w)
    \/ PushResult(w) \/ WorkerTerm(w) \/ SocketFails(w)

MonitorStep == SigWait \/ ShutdownContext

ClientStep(c) ==
    \/ \E r \in Requests : ClientSend(c, r)
    \/ ClientRecv(c) \/ PyClientRecv(c) \/ ClientCrash(c) \/ DropRequest(c)

Next ==
    \/ MainStep
    \/ \E w \in Workers : WorkerStep(w)
    \/ MonitorStep
    \/ SendSignal
    \/ \E c \in Clients : ClientStep(c)
    \/ Terminated

Spec == Init /\ [][Next]_vars

\* The operating system runs every thread that can run; nothing is assumed of
\* the clients or of the operator who sends the signal.
Fairness ==
    /\ WF_vars(MainStep)
    /\ \A w \in Workers : WF_vars(WorkerStep(w))
    /\ WF_vars(MonitorStep)

FairSpec == Spec /\ Fairness
-----------------------------------------------------------------------------
(***************************************************************************)
(* Properties.                                                             *)
(***************************************************************************)

MainType ==
    /\ main \in {"binding", "recv", "reject", "serving", "join", "exited"}
    /\ peer \in Clients \cup {None}
    /\ main \in {"reject", "serving"} => peer # None /\ cstate[peer] = "taken"
    /\ main = "serving" => rr \in RangePricingRequest
    /\ sent \in Nat
    /\ collected \in Seq(Nat)
    /\ all_results \in Seq(PricingResponse)

WithinMark(p) == Len(p.queue) + p.unreported <= Hwm

PipeType ==
    /\ dispatch \in [Workers -> PipeOf(BatchPricingRequest)]
    /\ results \in [Workers -> PipeOf(BatchPricingResponse)]
    /\ \A w \in Workers : WithinMark(dispatch[w]) /\ WithinMark(results[w])

WorkerType ==
    /\ worker \in [Workers -> {"spawned", "connecting", "pulling", "pricing",
                               "pushing", "exited"}]
    /\ hand \in [Workers -> BatchPricingRequest \cup BatchPricingResponse \cup {None}]
    /\ \A w \in Workers : /\ worker[w] = "pricing" => hand[w] \in BatchPricingRequest
                          /\ worker[w] = "pushing" => hand[w] \in BatchPricingResponse
                          /\ worker[w] \notin {"pricing", "pushing"} => hand[w] = None

ExitType ==
    /\ ctx \in {"open", "shutdown"}
    /\ monitor \in {"sigwait", "woken", "exited"}
    /\ signal \in BOOLEAN

ClientType ==
    /\ cstate \in [Clients -> {"idle", "sent", "taken", "replied", "done", "refused",
                             "lost"}]
    /\ alive \in [Clients -> BOOLEAN]
    /\ request \in [Clients -> Requests \cup {None}]
    /\ reply \in [Clients -> RangePricingResponse \cup {None}]
    /\ \A c \in Clients : cstate[c] # "idle" => request[c] \in Requests

\* Every variable has its type.  Beyond that: a pipe never holds more than its
\* high-water mark allows (dispatch.send and push.send block), a worker has a
\* message in hand exactly while it prices or pushes one, and while the main
\* thread serves, the request it reads is a verified one and stays so.
TypeOK == MainType /\ PipeType /\ WorkerType /\ ExitType /\ ClientType

\* The chunk numbers of queued batches, of queued results, and of the message
\* a worker has in hand; and all of them along a worker's way, oldest first.
BatchIds(queue)  == [k \in 1 .. Len(queue) |-> queue[k].batch_counter_id]
ResultIds(queue) == [k \in 1 .. Len(queue) |-> queue[k].batch_id]

HeldIds(w) ==
    CASE worker[w] = "pricing" -> <<hand[w].batch_counter_id>>
      [] worker[w] = "pushing" -> <<hand[w].batch_id>>
      [] OTHER                 -> <<>>

Pipeline(w) ==
    ResultIds(results[w].queue) \o HeldIds(w) \o BatchIds(dispatch[w].queue)

\* The collecting loop counts results and matches none of them with its batch.
\* What makes the count right: no chunk is in two places, whether a pipe, a
\* worker's hand or the collected results, so none is priced or counted twice,
\* and nothing is anywhere that the main thread did not send for this request.
NoChunkTwice ==
    /\ \A i, j \in DOMAIN collected : collected[i] = collected[j] => i = j
    /\ \A i \in DOMAIN collected : collected[i] \in 0 .. sent - 1
    /\ \A w \in Workers : \A k \in DOMAIN Pipeline(w) :
          /\ Pipeline(w)[k] \in 0 .. sent - 1
          /\ \A i \in DOMAIN collected : collected[i] # Pipeline(w)[k]
    /\ \A v, w \in Workers : \A j \in DOMAIN Pipeline(v) : \A k \in DOMAIN Pipeline(w) :
          Pipeline(v)[j] = Pipeline(w)[k] => v = w /\ j = k

\* The chunks a worker will still bring back; once it has ended, those that lie
\* unread in its pipe.
OnItsWay(w) == IF worker[w] = "exited" THEN BatchIds(dispatch[w].queue) ELSE Pipeline(w)

\* Until the context is shut down, every chunk that was sent is among the
\* collected results or on its way through a worker: one that fails on a batch
\* still pushes one message for it, without which the collecting loop never ends.
\* The one exception is a batch that was sent to a worker which then could not
\* create its push socket, and no chunk that was once pulled is ever lost.
NoChunkLost ==
    ctx = "open" =>
        \A c \in 0 .. sent - 1 :
            \/ \E i \in DOMAIN collected : collected[i] = c
            \/ \E w \in Workers : \E k \in DOMAIN OnItsWay(w) : OnItsWay(w)[k] = c

\* The server is ready for a request only when no batch and no result of an
\* earlier one is left in a pipe or in a worker: a leftover would be counted,
\* and its rows sent, as a result of the next client's request.
QuiescentBetweenRequests ==
    main \in {"binding", "recv", "reject"} =>
        \A w \in Workers :
            ~HasMessage(dispatch[w]) /\ ~HasMessage(results[w]) /\ hand[w] = None

\* The client of client.cpp calls a reply invalid only when its request asked for
\* more rows than a verifier accepts: no reply has rows of other requests in it.
OnlyHugeRepliesRefused ==
    \A c \in Clients :
        cstate[c] = "refused" =>
            request[c] \in RangePricingRequest /\ Len(request[c].pairs) + 1 > MaxTables

\* A batch has the parameters of the request it was cut from (the schema gives
\* both the same PricingParams, option_type included).
BatchCarriesParams ==
    main = "serving" =>
        \A w \in Workers : \A k \in DOMAIN dispatch[w].queue :
            dispatch[w].queue[k].request = rr.request

\* The workers that have not ended.
Running == {w \in Workers : worker[w] # "exited"}

\* The chunks for which there is room for certain in the pipes and hands of the
\* workers that run.
Capacity == Cardinality(Running) * (2 * PipeRoom + 1)

\* Everyone waits: the main thread in dispatch.send for room in some pipe, and
\* each worker that runs in push.send for the main thread to collect.
Wedged ==
    /\ main = "serving"
    /\ sent < BatchCount(rr)
    /\ \A w \in Running : /\ worker[w] = "pushing"
                          /\ ~HasRoom(dispatch[w])
                          /\ ~HasRoom(results[w])

\* run_server sends every batch before it collects the first result.  A request
\* whose batches fit in the pipes and hands of the workers that run never wedges
\* it, whatever the pipes have not reported yet.
NoWedge ==
    main = "serving" /\ BatchCount(rr) <= Capacity => ~Wedged

\* A batch was sent to a worker that ended before it pulled it: the collecting
\* loop will wait for its result, and no other client is served.
Stranded == \E w \in Workers : worker[w] = "exited" /\ HasMessage(dispatch[w])

\* The main thread, serving a request, has something to do: to send, to collect or
\* to reply.
MainCanMove ==
    IF sent < BatchCount(rr) THEN \E w \in Workers : Accepts(w)
                             ELSE AllCollected \/ \E w \in Workers : HasMessage(results[w])

\* So has a worker thread.
WorkerCanMove(w) ==
    CASE worker[w] = "pulling" -> HasMessage(dispatch[w])
      [] worker[w] = "pushing" -> HasRoom(results[w])
      [] OTHER                 -> worker[w] # "exited"

\* The only deadlocks of a request's service are that wedge, which with no worker
\* left is certain, and a batch stranded with a worker that could not create its
\* push socket: in no other state of the pipes, after whatever failures of batches
\* and of other workers, do the main thread and the workers all wait.
OnlyWedgedOrStranded ==
    ctx = "open" /\ main = "serving" /\ ~Wedged /\ ~Stranded =>
        MainCanMove \/ \E w \in Workers : WorkerCanMove(w)

\* The chunks for which there is room at most.
Room == Cardinality(Workers) * (2 * Hwm + 1)

\* Only requests that fit in the pipes and the workers' hands are ever answered:
\* with more batches the main thread does not get past its last dispatch.send
\* before the server is shut down.
OnlyFittingAnswered ==
    ctx = "open" =>
        \A c \in Clients :
            cstate[c] \in {"replied", "done", "refused"} /\ request[c] # Malformed =>
                BatchCount(request[c]) <= Room

\* A client's request has been dealt with, or will not be: the server is shut
\* down or could not bind its socket.
Settled(c) ==
    \/ cstate[c] \in {"replied", "done", "refused", "lost"}
    \/ main \in {"join", "exited"}

\* A request that was sent is answered, unless its client dies, the server is
\* shut down or could not bind its socket, or a worker could not create its own.
EveryRequestAnswered ==
    \A c \in Clients :
        cstate[c] = "sent" ~> Settled(c) \/ Running # Workers

\* The workers that could create their sockets suffice: a request that was sent
\* is answered, unless its client dies, the server stops, a batch is stranded with
\* a worker that ended, or a request is served that does not fit in the pipes and
\* hands of the workers that run.
FittingRequestsAnswered ==
    \A c \in Clients :
        cstate[c] = "sent" ~>
            Settled(c) \/ Stranded \/ (main = "serving" /\ BatchCount(rr) > Capacity)

\* A signal ends the server, whatever the main thread and the workers are
\* doing or waiting for: every thread leaves its loop and is joined.
ShutdownCompletes == signal ~> main = "exited"
=============================================================================
