# Verification of the distributed range pricer

TLA+ models of the option-pricing server of this repository, the TLC runs that
check them on small instances, and TLAPS proofs of the properties that matter
most for every value of the constants. Paths below are relative to the
repository, and `worker.cpp` means `src/cpp/src/worker.cpp`, and so on.

## 1. The system

A client sends one `RangePricingRequest` (parameters, a hash, and a vector of
alpha/beta pairs, each with an `idx`) over a ZeroMQ REQ socket. The server's
main thread receives it on a REP socket, cuts the pairs into chunks of at most
`simd_lanes`, and pushes one `BatchPricingRequest` per chunk over
`inproc://dispatch`. Worker threads pull batches, price them and push a
`BatchPricingResponse` over `inproc://results`. The main thread counts as many
results as it sent batches, sorts the rows by `idx` and replies. A monitor
thread waits for SIGINT or SIGTERM and shuts the ZeroMQ context down, which
makes every socket call of every thread throw ETERM.

    client --REQ/REP--> main --PUSH dispatch--> worker
                        main <--PULL results--- worker
    signal --sigwait--> monitor --ctx.shutdown--> every socket call

### Inventory

| part | state it keeps | operations | talks to |
|---|---|---|---|
| `run_server`, main thread (`worker.cpp`) | the request, batches sent, results counted, `all_results` | bind, recv and verify, dispatch, collect, sort and reply, error reply, joins | clients (REP), workers (pipes), context |
| `expand_to_batches` (`worker.cpp`) | none | cut the pairs into batches | called by the main thread |
| `worker_thread` (`worker.cpp`) | the message it holds | connect twice, pull, price, push, leave on ETERM or when a socket cannot be created | pipes, `range_pricer::process` |
| `shutdown_monitor` (`worker.cpp`) | none | sigwait, `ctx.shutdown` | the kernel, the context |
| inproc pipes (libzmq) | queued messages, reads not yet reported | send, recv | main thread and workers |
| `range_pricer.cpp` | two result buffers | `process`, `price`, `vectorized_price` | called by workers |
| `main.cpp` | signal mask, threads | logger set-up, flags, flusher, mask, `run_server`, shutdown | spdlog, kernel |
| spdlog registry and flusher (vendored) | default logger, `active_`, mutex | `flush_every`, periodic flush, `shutdown` | every thread that logs |
| `config.cpp`, `logger.cpp` | flags; logger | validate threads; replace the default logger | `main.cpp` |
| spdlog's rotating file sink (vendored) | `fd_`, its buffer, `current_size_`, the files on disk | write, rotate, flush, close, reopen | every thread that logs, the file system |
| `client.cpp`, `range_pricer_client.py` | none | build the grid and hash, send, wait, print | the server |
| `pricing_request.fbs` | none | the message tables | all |

What is hard here, and untested by the repository's tests (which call the
pricer and the request/response path with a handful of pairs):

- results come back in any order and are matched with their batches **by count
  only**, so one message too many or too few shifts every later reply;
- a batch that throws must still produce exactly one message;
- a worker that cannot create its sockets ends alone, possibly with batches in a
  pipe that nobody reads any more;
- both pipes are bounded, and everything is sent before anything is collected;
- a client may die at any moment; the REP socket must still be ready again;
- a signal may arrive while any thread is blocked in any socket call;
- the default logger is destroyed at the end, and the flusher thread is created
  before the signals are blocked;
- the vector loop of the kernel stores whole vectors, with aligned stores, into
  buffers of the size of the batch and of the allocator's alignment;
- the batches are cut in `int` with a flag nothing validates;
- the log is rotated by a remove and a rename per file, any of which may fail or
  be the last thing a killed process does;
- the FlatBuffers verifier gives up beyond a million tables: a batch response or
  a reply beyond it is well-formed and still refused;
- the grid of parameters is built by repeated addition of floats.

`PROJECT.json` lists these hazards at their lines, with the property aimed at
each.

## 2. Modules

| module | models | code |
|---|---|---|
| `Messages` | the schema's tables as sets of records | `pricing_request.fbs` |
| `Batching` | `expand_to_batches` in mathematical integers | `worker.cpp` 53-99 |
| `Pricer` | `range_pricer::process` as operators | `range_pricer.cpp` 112-163 |
| `Pipe` | one direction of an inproc pipe (external) | its use in `worker.cpp` |
| `RangeServer` | main thread, workers, monitor, clients | `worker.cpp`, `client.cpp`, `range_pricer_client.py` |
| `RangeService` | the abstract service: what a client is promised | |
| `ServiceRefinement` | `RangeServer` implements `RangeService` | |
| `ChunkArith` | `expand_to_batches` in C++ `int`s, any `simd_lanes` | `worker.cpp` 53-99, `config.cpp` |
| `Kernel` | `vectorized_price`, store by store | `range_pricer.cpp` 21-62 |
| `ServerProcess` | `main()`, signal masks, the flusher, exit | `main.cpp`, spdlog, `config.cpp`, `logger.cpp` |
| `RotatingLog` | the log file: writes, rotation, flushes, kills, restarts | `rotating_file_sink-inl.h`, `file_helper-inl.h`, `logger-inl.h`, `logger.cpp` |
| `ClientGrid` | `grid_values` of both clients | `client.cpp` 39-45, `range_pricer_client.py` 26-34 |
| `MC...` | the instances TLC checks | |
| `RangeServerProofs`, `ServiceRefinementProofs`, `ChunkArithProofs`, `KernelProofs`, `ServerProcessProofs`, `RotatingLogProofs`, `ClientGridProofs` | the theorems about each | |
| `SequenceLemmas` | induction, and sums and `FlattenSeq` for sequences of any length, for `RotatingLogProofs` and `ClientGridProofs` | |

`RangeServer` composes `Batching`, `Pricer` and `Pipe`. `ServerProcess` looks at
the same process from outside: there `run_server` is reduced to threads that log
and that end once the context is shut down (a worker also before, with a logged
error, for want of a socket); what the reduction relies on, that every thread of `run_server` does end then, is `ShutdownCompletes` of
`RangeServer`. `Batching`, which everything about the server uses, is tied to
the `int`s of the code by `AgreesWithBatching` of `ChunkArith`.

### How the state corresponds to the code

*RangeServer.* `main` is where the main thread is: `binding`, `recv` (blocked in
`frontend.recv`), `reject` (about to send the error reply), `serving`, `join`,
`exited`. Within `serving`, `sent` counts the sends of the dispatch loop and
`Len(collected)` is the index of the collecting loop, so the three phases
(dispatch, collect, reply) are told apart by the code's own counters.
`collected` records *which* chunks were received, which the code does not know;
no action reads more than its length. `all_results` is the code's vector.
`worker[w]` is `spawned`, `connecting` (pull connected, push not), `pulling`,
`pricing`, `pushing` or `exited`; `hand[w]` is its local message. One action is
one blocking call with the local work that follows it. `SendReply` is the sort
and the send together, since no other thread can see the rows in between.

- *Shutdown.* Once `ctx` is shut down any socket call may throw
  (`MainTerm`, `WorkerTerm`) and a call that need not block may still succeed
  first, so both are enabled. A batch being priced is not interrupted.
- *Clients.* Each sends one request, as `client.cpp` does, and may die while it
  waits (`ClientCrash`). Its queued request is then dropped with the connection
  or still received; a reply to it is dropped by the REP socket.
- *Failing sockets.* `SocketFails`: `pull` or `push` cannot be created or
  connected (`worker.cpp` 108-112; `validate_threads` sets no upper bound, so file
  descriptors may run out), and the handler (156-157) ends the thread with the
  context open. No other thread is told. When `pull` was connected, what was sent
  to it is never read; the model keeps these batches in `dispatch[w]` of the worker
  that has `exited`, and sends no more there. In libzmq the dispatch socket learns
  of the closed pipe a little later and may send to it until then, which is the
  same as having sent just before. Later calls of a worker do not fail so:
  `recv` and `send` without timeout on connected inproc sockets throw ETERM, or
  EINTR, which needs a signal handler, and the program installs none.
- *Failures of a batch.* `process` throws for a non-positive maturity or discretization;
  with `MayThrow` any batch may also fail (allocation), which the code's
  `catch (std::exception)` covers.
- *Bind failure.* `BindFrontend` may fail: the handler then goes on to the joins.
- *Sizes.* `Verifies` (in `Messages`) is the verifier's limit on tables, one for
  the message and one for each row, with `MaxTables` for the million of the
  code. Requests and batches have two tables, their pairs being structs, so
  `MaxTables >= 2` is all they need. A batch response beyond the limit
  contributes no rows (`ReadRows`); a reply beyond it is refused by `client.cpp` (`ClientRecv`) and read as it is by the
  Python client (`PyClientRecv`, the clients in `PyClients`).

*Pipe.* libzmq is not in the repository. What is kept is what decides when
`send` blocks. The sender compares what it wrote with what it was *told* has
been read, and the reader reports only after every `Lwm = (Hwm+1) \div 2`
messages. Hence a pipe may look partly full to its sender although it is empty,
and has for certain only room for `PipeRoom = Hwm - Lwm + 1` messages. Neither
end sets a mark, so the real `Hwm` is 1000 + 1000.

*The refinement.* `RangeService` has no batches, pipes, workers or context: a
request is submitted, taken (one at a time), and answered with a reply that
`IsAnswer`. Its definition of an answer is independent of the server's: it picks
the chunks that may be missing (those that threw, all of them for refused
parameters, those that do not verify) and says by which *places of the
request's pairs* the answer goes, where the server appends what comes and sorts.
The mapping keeps the clients' variables and defines
`up <- main \notin {"join", "exited"}`; every step of a worker, a pipe or the
monitor is a stutter. `RangeService` states safety only. What must happen is
`FittingRequestsAnswered`, under the fairness of the threads, and holds within the
capacity of the pipes only (finding 1), so it is not part of the promise.

*ServerProcess.* `pc` is the next statement of `main()` or of `run_server`'s
outline; `blocked` is the set of threads whose mask blocks the signals, inherited
at creation as pthreads does; `flusher` is `looping` (about to take the mutex),
`waiting` (in `wait_for`, mutex released) or `flushing` (mutex held). `created` are
the threads created so far, which need not all run any more. `outcome`
tells a return from `main` from a kill, a refused flag, an abort, and the crash
that `spdlog::info` without a default logger would be. `SpawnFails` and
`ServeThrows` are the exceptions that leave `run_server` (a thread that cannot be
created, a socket of `run_server` itself, `bad_alloc` or `length_error` in the
loop): nothing catches them and the
process aborts with its lines unflushed.

*Kernel.* `stored`, `again` and `scalar` are the places of the buffers written,
written more than once, and written by the scalar tail. `prices` and
`hedge_ratios` are the buffers' addresses, in floats, modulo the vector. A store
of the vector loop needs both aligned (`hn::Store`, external, as on x86); an
allocation is aligned to 16 bytes, `Align = 4` floats, so with 4 lanes or fewer
every address is aligned, and with 8 or 16 every multiple of 4 may come.

*ChunkArith.* One action for the lines before the loop, one per chunk. Sums and
products wrap at the width of `int`; division truncates; `reserve` of a negative
number throws; division by 0 traps (x86) or yields 0 (ARM64).

*RotatingLog.* `files[0]` is `log_file`, `files[i]` its i-th rotation; `buffer`
is what stdio holds. Every call of the sink is one action under its mutex but a
rotation, which is cut at its file operations because a kill or a failure may
come between any two. `Return` goes on to the flush of a warn line, a second
call with its own lock. `history`, every line flushed, and `failed` are history
variables. Lines are not torn, writes are not short.

*ClientGrid.* A number is an integer with a limited number of significant bits,
`Round` is rounding to nearest, ties to even; `float` and `double` are the two
clients' numbers of significands, 2^24 and 2^53 in the code. `Spacing` finds the
distance of neighbouring numbers by halving until the significand suffices, so it
needs no power of two and the provers can unfold it. `MaxPoints` stands for the memory: the loop that does not end
runs into `bad_alloc`.

### Abstractions

- A float is an integer: the server copies floats, compares two of them with 0
  and hands them to the kernel. The price is represented by the exponent of the
  stub model `exp(-r*T)`. Rounding, NaN and infinities are not represented.
- `batch_counter_id` (`request_hash * 1000 + c`) is logged and never read back;
  it is abstracted to `c`.
- `SimdLanes >= 1` is assumed in `Batching`. The code does not validate the flag;
  what other values do is in `ChunkArith`.
- `Workers` is finite and not empty: `validate_threads` refuses fewer than one.
- FlatBuffers verification is a set of buffers it refuses, `Malformed`. The
  main thread's own batches always verify.
- The request hash is any number; the server copies it and reads nothing from it.

## 3. Runs

| run | instance | shows |
|---|---|---|
| `server_safety` | 2 workers, a C++ and a Python client, pipes of 1, 2 lanes, verifier's limit 5; requests of three chunks (6 tables: refused by `client.cpp`), of two chunks with shuffled and repeated `idx`, of no pairs, with refused parameters, malformed | `TypeOK`, `NoChunkTwice`, `NoChunkLost`, `QuiescentBetweenRequests`, `OnlyHugeRepliesRefused`, `OnlyWedgedOrStranded`, `Implements` |
| `server_capacity` | 1 worker, 3 clients, pipes of 3 (reports after 2), requests of 1, 5, 6 and 8 chunks, each chunk but the last beyond the verifier's limit (2 tables) | `NoWedge`, `OnlyFittingAnswered`, `Implements` |
| `server_liveness` | 2 workers, 2 clients, two chunks, failing batches and sockets, crashes, signals | `Implements`, `FittingRequestsAnswered`, `ShutdownCompletes` |
| `server_wedge` | 1 worker, pipes of 1, four chunks | *violates* `EveryRequestAnswered` |
| `server_option_type` | one Put request | *violates* `BatchCarriesParams` |
| `process_lifecycle` | 2 workers, both signals, refused flags, exceptions | `TypeOK`, `NoLogAfterShutdown`, `ExitFlushes`, `SignalEndsProcess` |
| `process_signals` | the same | *violates* `SignalsReachMonitor` |
| `kernel` | 0..33 pairs; 1, 2, 4, 8, 16 lanes; every pair of addresses | `StoresInBounds`, `AllStored`, `TailIsRemainder`, `FaultNeedsWideVector`, `KernelEnds` |
| `kernel_fault` | the same | *violates* `NoFault` |
| `chunk_arithmetic` | `int`s of 7 bits, all of them as `simd_lanes`, 0..48 pairs | `EveryPairSliced`, `AgreesWithBatching`, `SlicesInBounds` |
| `log_rotation` | 2 threads, 3 files of at most 2, lines of 1 and 3, five lines | `DiskIsSuffix`, `SizeBound`, `WarnFlushed` |
| `client_grid` | 4 and 7 significant bits, ranges over several powers of two on both sides of 0, steps -1..9 | `GridEnds`, `GridSize` |

### The properties

- `NoChunkTwice`: no chunk is in two places (pipe, hand, collected), and
  nothing is anywhere that was not sent for the request being served. This is
  what makes counting enough.
- `NoChunkLost`: until shutdown every chunk sent is collected or on its way
  through a worker, whether its batch fails or not. The exception is part of the
  property: batches in the pipe of a worker that ended because it could not create
  its push socket. It can lose nothing else, having pulled and pushed nothing.
- `QuiescentBetweenRequests`: when the server is ready for a request, no batch
  or result of an earlier one is left.
- `Implements`: the server does for every client only what `RangeService`
  promises. A reply carries its own client's hash and, in order of `idx`, each
  row as often as the request asks for it; rows are missing only a chunk at a
  time and only for chunks that threw or do not verify; no request is answered
  twice, and none after the main thread has left its loop. In the three runs
  no batch fails but for refused parameters; every full chunk is too large; any
  batch may fail.
- `OnlyHugeRepliesRefused`: a client refuses a reply only if its own request has
  too many pairs for the verifier.
- `NoWedge`: a request of at most `Capacity` chunks, that is `2 * PipeRoom + 1` for
  each worker that has not ended, never leaves everyone waiting for everyone,
  whatever was served before.
- `OnlyFittingAnswered`: a request of more than `Room` chunks, that is
  `threads * (2 * Hwm + 1)`, is never answered before a shutdown. Between
  `Capacity` and `Room` it depends on the order of steps.
- `OnlyWedgedOrStranded`: there are two states in which the main thread, serving a
  request, and every worker wait: the wedge (`Wedged`; with no worker left it is
  any dispatch), and a batch unread in the pipe of a worker that has ended
  (`Stranded`). `MainCanMove` and `WorkerCanMove` spell out the guards of their
  steps; in the instance of `server_safety` they are `ENABLED` of `MainStep` and
  `WorkerStep`.
- `FittingRequestsAnswered`: a request is answered unless its client dies, the
  server is shut down or could not bind, a batch is `Stranded`, or a request is
  served that is beyond the `Capacity` of the workers that run. So the workers that
  could create their sockets suffice, if only one. Both exceptions are needed: TLC
  refutes the property without either.
- `EveryRequestAnswered`, what the documentation says, excuses the server from
  nothing but a worker that ended; it fails by the wedge (finding 1).
- `ShutdownCompletes`: a signal ends every thread wherever it waits.
- `NoLogAfterShutdown`, `ExitFlushes`: no thread uses the logger after
  `spdlog::shutdown`, and a return from `main` leaves nothing unflushed.
- `SignalEndsProcess`: a signal ends the process, during start-up, service, the
  joins after a failed bind, or the stop of the flusher.
- `StoresInBounds`, `AllStored`, `TailIsRemainder`, `KernelEnds`: the kernel
  writes every element once and nothing else, and the scalar tail, whose `exp` is
  another one than the lanes', gets exactly the remainder.
- `FaultNeedsWideVector`: the aligned store faults only on vectors wider than the
  allocation's alignment, and only in batches of at least one vector.
- `EveryPairSliced`, `AgreesWithBatching`: as long as `simd_lanes` is positive and
  `total + simd_lanes - 1` does not overflow, the batches are a partition, the
  one of `Batching`. `SlicesInBounds`: no value of the flag makes a batch reach
  outside the pairs.
- `DiskIsSuffix`: read in order, the files are the newest end of what was
  flushed, and never without its last line, also after a kill in the middle of a rotation and a restart. (With a
  failing rename the code empties the newest file, so the property is claimed
  while the file system does its part.) `SizeBound`: `current_size_` never falls
  behind the file, failures and restarts included. `WarnFlushed`: no warning is
  only in the buffer once the call that logged it has returned.
- `GridEnds`, `GridSize`: the loop fills the memory only if the step is at most
  half an ulp of the larger end or the range asks for that many points (in the run
  no range does: `MaxPoints` is 250), and yields the points the range asks for, up
  to half an ulp an addition.

### Bounds, and why they are enough

Two workers give every order of two results and a worker that is idle while the
other holds everything. Two clients give a request after a request, which is what
leftovers, stale rows and late pipe reports need. Of two workers one may fail to
create a socket, at either place, and the other go on, or both may. Pipes of one message make every
sender block. Three chunks for two workers and pipes of one put a chunk in every
kind of place. `server_capacity` needs `Hwm = 3`, the smallest mark at which
`PipeRoom` is less than `Hwm` and the report comes after more than one read. Its
requests straddle the guaranteed capacity (5): 1 leaves both pipes' reports
behind, 5 is the largest that must not wedge, 6 the first that may, 8 the first that must (`Room` is 7); a third client lets
what two requests leave behind add up. Workers, or there the clients, are
symmetric in the safety runs; symmetry is not used with liveness. Each client
sends once, so no counter needs a bound of its own. `SYMMETRY` stands beside
`Implements`, which is a safety property and symmetric in the permuted sets.

The kernel's 33 pairs are two vectors of the widest target and one. Seven bits of
`int` hold every case of the sum's sign and overflow for up to 48 pairs. Five lines
of at most two a file fill and rotate all three files and drop the oldest; a line
of 3 is longer than a file. The lengths of `client_grid` cross powers of two,
where the ulp changes inside the loop, and steps reach from below half an ulp to
many.

### Fairness

`RangeServer`: weak fairness of each thread (the main thread, each worker, the
monitor): the operating system runs a thread that can run, and a thread blocked
in a socket call is woken when the call can return. A worker creating its sockets
goes on with them or fails; neither is assumed. Nothing is assumed of clients or
of whoever sends the signal. `ServerProcess`: the same, with `LeaveLoop` and
`WorkerExit` fair only once the context is shut down (a failing bind or socket need
not happen), and strong
fairness of `StopFlusher`: the mutex it needs is free for the second of each
interval during which the flusher waits, so a main thread that waits for it gets
it. `Kernel`: its one thread goes on.

## 4. Where the code and its documentation part

1. *The server can wedge* (`server_wedge`). `run_server` sends every batch before
   it receives a result (`worker.cpp` 222). Beyond the capacity of the pipes each
   worker blocks in `push.send` and the main thread in `dispatch.send`, for ever.
   With 4 threads and 4 lanes this is certain beyond 64016 pairs
   (4 × 4001 batches, `BeyondRoomUnanswered`) and possible from 32049 on
   (4 × 2003 batches are guaranteed, `WithinCapacity`), once reports lag behind.
   A signal still ends the server. The one other deadlock is a batch stranded with
   a worker that could not create its push socket (`OnlyDeadlocks`, and below).
2. *A signal may kill the process* (`process_signals`). The flusher thread is
   created at `main.cpp` 20, before `pthread_sigmask`, and does not block the
   signals; given one, the process dies without shutdown, joins or flush.
3. *A batch of a whole wide vector may fault* (`kernel_fault`). `hn::Store` needs
   an address aligned to the vector; `std::vector<float>` is aligned to 16 bytes.
   With AVX2 or AVX-512, and a batch of at least 8 or 16 pairs, it depends on the
   allocator whether the worker dies of SIGSEGV (`range_pricer.cpp` 47). The test
   of 200 pairs (`range_pricer_test.cpp` 116-128) expects prices. Batches of the
   default 4 pairs never enter the vector loop there, which hides it.
4. *`option_type` is dropped* (`server_option_type`). `expand_to_batches` copies
   five of six parameter fields. The stub model does not read the sixth.

Met on the way, and not runs of their own: a worker that cannot create its push
socket (`worker.cpp` 111) logs an error and ends with batches in its pipe, and the
request they belong to, with all after it, is never answered; the same when no
worker could create its sockets (the exceptions of `FittingRequestsAnswered`); a
`simd_lanes` near `INT_MAX`
overflows the dividend, so that a request gets no batches and an empty reply, or
`reserve` throws (the complement of `Admissible` in `ChunkArith`); with the default
of 4 lanes and AVX2 every pair is priced by the scalar tail, where the
repository's README (line 31) speaks of SIMD-width chunks (`TailIsRemainder` with
`count < N`); a reply of a million rows or more is sent and refused by
`client.cpp`; and the Python client's hash is that of the C++ client only with a
standard library whose `std::hash<float>` is the bit pattern (libc++, not
libstdc++), where a docstring (`range_pricer_client.py` 12) says they match.

## 5. Theorems

All for arbitrary constants under the named assumptions of the modules
(`ServerAssumption`, `HwmAssumption`, `SimdLanesAssumption`,
`MaxTablesAssumption`, `KernelAssumption`, `ProcessAssumption`,
`ChunkArithAssumption`, `RotatingLogAssumption`, `ClientGridAssumption`), which TLC evaluates in the
runs. They are types, and: at least one worker and one lane (`validate_threads`;
other lanes are `ChunkArith`'s subject), marks that are not 0 (libzmq's 1000), a
table limit of at least 2 (a million in the code), at least one rotated file and lines that are not empty (`logger.cpp` passes 5, and a
pattern), an even number of significands (a power of two in IEEE 754).

| module | theorem | states |
|---|---|---|
| `RangeServerProofs` | `TypeCorrect` | `Spec => []TypeOK` |
| | `ChunksApart` | `Spec => []NoChunkTwice` |
| | `NothingLost` | `Spec => []NoChunkLost` |
| | `Quiescence` | `Spec => []QuiescentBetweenRequests` |
| | `WithinCapacity` | `Spec => []NoWedge` |
| | `BeyondRoomUnanswered` | `Spec => []OnlyFittingAnswered` |
| | `OnlyDeadlocks` | `Spec => []OnlyWedgedOrStranded` |
| `ServiceRefinementProofs` | `ServerImplementsService` | `Spec => Implements` |
| | `RefusalsAreHuge` | `Spec => []OnlyHugeRepliesRefused` |
| `ChunkArithProofs` | `PairsSliced` | `Spec => []EveryPairSliced` |
| | `NoStrayReads` | `Spec => []SlicesInBounds` |
| | `IntsSuffice` | `Spec => []AgreesWithBatching` |
| `KernelProofs` | `KernelInBounds` | `Spec => []StoresInBounds` |
| | `KernelComplete` | `Spec => []AllStored` |
| | `KernelTail` | `Spec => []TailIsRemainder` |
| | `FaultsAreWide` | `Spec => []FaultNeedsWideVector` |
| `ServerProcessProofs` | `ProcessTypeCorrect` | `Spec => []TypeOK` |
| | `LoggersJoined` | `Spec => []NoLogAfterShutdown` |
| | `ReturnFlushes` | `Spec => []ExitFlushes` |
| | `OnlyFlusherExposed` | after `pthread_sigmask` only the flusher does not block the signals |
| `RotatingLogProofs` | `OldestLinesGo` | `Spec => []DiskIsSuffix` |
| | `FilesBounded` | `Spec => []SizeBound` |
| | `WarningsReach` | `Spec => []WarnFlushed` |
| `ClientGridProofs` | `PointsCounted` | `Spec => []GridSize` |
| | `MemorySuffices` | `Spec => []GridEnds` |

*The server.* `TypeOK` is inductive by itself. `NoChunkTwice` is not: a reply
resets `sent` to 0, which is harmless only if nothing is left anywhere. The
inductive invariant is `Inv == TypeOK /\ NoChunkTwice /\ IdleMain`, where
`IdleMain` says that between requests `sent` is 0 and nothing is collected.
`NoChunkTwice` is restated as `Apart(P, col, n)` for the *pipelines*: a worker's
results, hand and batches as one sequence of chunk numbers, oldest first. In that
form a pull and a push change nothing, a dispatch appends the unused number `n`
(`ApartSend`), a collect moves the head to `col` (`ApartCollect`), and a worker's
exit deletes one element (`ApartDrop`). The reply needs a pigeonhole
(`ApartFull`): `n` different numbers below `n` are all of them, so when `n`
results were counted every pipeline is empty. `Quiescence` follows: with
`sent = 0` nothing can be in a pipeline. While the context is open the pipelines and `collected` contain every number below
`sent` (`AllCovered`), those of workers that have ended included, whose exit for
want of a socket leaves the pipeline as it is. `NothingLost` follows with
`NothingPushed`: a worker that ended with the context open has pushed nothing and
holds nothing, so its pipeline is what is unread in its pipe. `WithinCapacity`
counts: in a wedged state the pipeline of each worker that runs has at least
`2 * PipeRoom + 1` chunks, all different and below `sent`, so `sent >= Capacity`,
while a wedged main thread has `sent < BatchCount`.

`BeyondRoomUnanswered` counts the other way: as long as nothing is collected the
pipelines contain every number below `sent` (`AllCovered`) and hold at most
`2 * Hwm + 1` each, so `sent <= Room`; and nothing is collected before `sent` is
`BatchCount` (`RoomInv`). `OnlyDeadlocks` uses all of it. If the main thread waits
in `dispatch.send` no pipe of a worker that runs has room, and an empty pipe always
has some (its reader keeps less than `Lwm <= Hwm` reads to itself), so every such
worker waits in `push.send`: a wedge. If it waits for a result, no worker has one
and none waits to push; unless a batch is stranded, all pipelines are empty and
every number below `sent` is collected: then it would not wait. With
`WithinCapacity`, a request of at most `Capacity` chunks, none of them stranded,
never meets a deadlock.

*The refinement.* `ServiceInv` adds to `Inv`: who waits for what (`ClientInv`);
that every message on its way is a chunk of the request served or what `process`
makes of one (`OwnMessages`); and `Accounted`, the heart of it. `all_results` is,
through a bijection with places of the request's pairs, the rows of some of the
chunks collected, and every collected chunk that is not among them threw or does
not verify. A collect extends the bijection by the places of one more chunk, which
are free because the chunk is new (`NoChunkTwice`). At the reply all chunks are
collected, so the places left out are those of whole chunks with a reason, and the
sort is one more bijection: `IsAnswer`. Initial states map to initial states;
`RecvRequest`, `SendReply`, `SendError`, the end of the loop and the steps of the
clients map to the steps of `RangeService`; all others are stutters. With
`ReplySizes` (a reply has at most the rows of its request's pairs)
`RefusalsAreHuge` follows.

*The ints.* `Int32` is the identity within range (`InRange`) and a shift by
`2^w` beyond (`AboveRange`), which decides what the dividend is; the invariant of
the loop says that slices so far partition `0 .. start - 1`. `IntsSuffice` makes
the server's theorems, which use `Batching`, theorems about the code's `int`s.

*The kernel.* `KernelInv` adds the loop invariant `stored = 0 .. i - 1` with
`i <= count`, and `i = count` at the end; for the tail, that `i` is a multiple of
`N` in the vector loop; for the fault, that addresses are multiples of the
allocation's alignment.

*The process.* `Inv` has three parts beside the types: which threads of
`run_server` exist at which statement of `main` (`ServerThreads`), when the logger
exists and lines are unflushed (`LoggerLife`), and how the process may end
(`Endings`).

*The log.* `LogInv` has five parts: types; `Held` (nothing is buffered for a
closed file, one thread at most rotates, with the file closed); `Bounded`
(`current_size_` is at least the size of `log_file` with its buffer);
`Renaming` (a rotation comes to a name that is free, but for the oldest file, and
`log_file` has something in it); and `Kept` (what was flushed is some front, then
the files read in order). `SizeBound` is not inductive without `current_size_`,
and `DiskIsSuffix` not without `Renaming`: a remove must find either the oldest
file or a free name, and leave a file that is not empty behind. The sizes and
`OnDisk` are recursive functions over sequences; `SequenceLemmas` shows by least
counterexample that they are defined and how they change when a part grows, goes
or moves. The induction theorems of the library take an operator, which the
installed provers cannot instantiate; `WFMin` with `NatLessThanWellFounded` takes
none.

*The grids.* The lemmas about numbers: `Spacing` is defined for every natural
number (`HalvesExists`, by least counterexample); a number's significand has the
full length (`SpacingNormal`); of two distances one is the other or a multiple of
twice the other (`SpacingNested`), so distances grow with the numbers. Hence
rounding is wrong by at most half the distance (`RoundError`), does not cross a
number of the client (`RoundBeside`), and does not lead into a finer region
(`RoundCoarser`). The invariant `GridInv` says that `points` additions, each wrong
by at most half of `Coarsest`, have led from `lo` to `x`, but for the one that
passed the limit, whose own error may be larger (`Progress`). For that one only
this is used: a sum that rounds beyond the limit was beyond it. `GridSize` alone is
not inductive, as it says nothing before the loop ends.

The parts of `ServiceInv`, `LogInv` and `GridInv` were model-checked on the
instances of section 3 before they were proved.

*Only model-checked:* liveness (`FittingRequestsAnswered`, `ShutdownCompletes`,
`SignalEndsProcess`, `KernelEnds`), which needs fairness and ENABLED. Of
`FittingRequestsAnswered` the theorems `OnlyDeadlocks` and `WithinCapacity` give the
part that is safety. Every invariant of the runs that pass, and the refinement, is a
theorem.

## 6. Not modelled

Nine tenths of the repository's lines are vendored headers (FlatBuffers, spdlog
with its bundled fmt, zmq.hpp) and generated bindings; of them the parts that
hold state the server depends on are modelled (spdlog's registry, periodic
flusher and rotating sink, the verifier's limit), the rest is formatting,
templates and wrappers. Of the program's own code there remain: log wording,
patterns and time formats; thread affinity; `range_pricer::price`, which only the
tests call and which has no state of its own; the request hash; the notebook;
floating-point values of prices. In `RotatingLog`: short writes (a full disk),
torn lines, and the sink's calls the program does not make (`rotate_now`, the
setters).

## 7. State of the work

Done: all modules of section 2, the runs of section 3 and the theorems of section
5. What could follow needs other provers: the liveness properties, with `ENABLED`
and the fairness of section 3.
