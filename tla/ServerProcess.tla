---------------------------- MODULE ServerProcess ----------------------------
(***************************************************************************)
(* The server process around run_server: main() (main.cpp), the signal     *)
(* masks of its threads, the periodic flusher thread of the vendored       *)
(* spdlog, and the order in which all of it is taken down.                 *)
(*                                                                         *)
(* What run_server does with requests is module RangeServer.  Here its     *)
(* threads only log, and end once the context is shut down or, a worker    *)
(* that cannot create its sockets, before.                                 *)
(***************************************************************************)
EXTENDS FiniteSets, Naturals

CONSTANTS
    Workers,  \* the worker threads
    Signals   \* the signals handled: SIGINT and SIGTERM

ASSUME ProcessAssumption ==
    /\ IsFiniteSet(Workers) /\ Workers # {}
    /\ Workers \cap {"main", "monitor", "flusher"} = {}

Threads == Workers \cup {"main", "monitor", "flusher"}

VARIABLES
    pc,        \* the next thing main() does
    threads,   \* the threads that run
    created,   \* the threads that were created, ended ones included
    blocked,   \* the threads whose mask blocks the signals
    pending,   \* signals sent to the process and not yet taken by a thread
    monitor,   \* where shutdown_monitor is
    flusher,   \* where the periodic_worker's thread is
    active,    \* periodic_worker::active_
    ctx,       \* the ZeroMQ context
    logger,    \* the registry has a default logger
    unflushed, \* a line was logged and not yet flushed
    outcome    \* "running", or how the process ended

threadVars == <<threads, created>>
signalVars == <<blocked, pending, monitor>>
flusherVars == <<flusher, active>>
logVars == <<logger, unflushed>>
vars == <<pc, threads, created, blocked, pending, monitor, flusher, active, ctx, logger,
          unflushed, outcome>>

\* A line below the flush_on level.  spdlog::info dereferences the default
\* logger without a check, so there must be one.
LogLine ==
    \/ logger  /\ unflushed' = TRUE /\ outcome' = outcome
    \/ ~logger /\ outcome' = "crashed" /\ unflushed' = unflushed

\* A line at or above the flush_on level is flushed with all before it.
LogError ==
    \/ logger  /\ unflushed' = FALSE /\ outcome' = outcome
    \/ ~logger /\ outcome' = "crashed" /\ unflushed' = unflushed

\* A new thread inherits the signal mask of main, which creates all of them.
Start(t) ==
    /\ threads' = threads \cup {t}
    /\ created' = created \cup {t}
    /\ blocked' = IF "main" \in blocked THEN blocked \cup {t} ELSE blocked

-----------------------------------------------------------------------------
(***************************************************************************)
(* main().                                                                 *)
(***************************************************************************)

At(here) == outcome = "running" /\ pc = here

\* setup_logger(""): set_default_logger.  The logger it replaces is destroyed,
\* which flushes it.
SetupLogger ==
    /\ At("setup")
    /\ logger' = TRUE /\ unflushed' = FALSE
    /\ pc' = "parse"
    /\ UNCHANGED <<threadVars, signalVars, flusherVars, ctx, outcome>>

\* A flag that does not parse, or that validate_threads refuses, ends the
\* process.
ParseFlags ==
    /\ At("parse")
    /\ \/ pc' = "setup_cfg" /\ outcome' = outcome
       \/ pc' = pc /\ outcome' = "refused"
    /\ UNCHANGED <<threadVars, signalVars, flusherVars, ctx, logVars>>

\* setup_logger(cfg.log_file, ...): a file that cannot be opened throws out of
\* main.
SetupConfigured ==
    /\ At("setup_cfg")
    /\ \/ logger' = TRUE /\ unflushed' = FALSE /\ pc' = "flush_every" /\ outcome' = outcome
       \/ UNCHANGED <<logger, unflushed, pc>> /\ outcome' = "aborted"
    /\ UNCHANGED <<threadVars, signalVars, flusherVars, ctx>>

\* spdlog::flush_every starts the flusher thread.
FlushEvery ==
    /\ At("flush_every")
    /\ Start("flusher")
    /\ flusher' = "looping"
    /\ active' = TRUE
    /\ pc' = "sigmask"
    /\ UNCHANGED <<pending, monitor, ctx, logVars, outcome>>

\* pthread_sigmask changes the mask of the calling thread only; wrongly, of none.
Masked_None == {}
Masked == {"main"}

BlockSignals ==
    /\ At("sigmask")
    /\ blocked' = blocked \cup Masked
    /\ pc' = "spawn"
    /\ UNCHANGED <<threadVars, pending, monitor, flusherVars, ctx, logVars, outcome>>

\* run_server starts the workers in turn, then the monitor, and logs a line.
SpawnWorker(w) ==
    /\ At("spawn")
    /\ w \notin created
    /\ Start(w)
    /\ UNCHANGED <<pc, pending, monitor, flusherVars, ctx, logVars, outcome>>

SpawnMonitor ==
    /\ At("spawn")
    /\ Workers \subseteq created
    /\ Start("monitor")
    /\ monitor' = "sigwait"
    /\ pc' = "serve"
    /\ LogLine
    /\ UNCHANGED <<pending, flusherVars, ctx, logger>>

\* The constructor of std::thread throws when the system has no thread to give.
\* The threads created before are joinable, and their destructors terminate.  The
\* sockets of dispatch and results, created before the threads, throw uncaught.
SpawnFails ==
    /\ At("spawn")
    /\ outcome' = "aborted"
    /\ UNCHANGED <<pc, threadVars, signalVars, flusherVars, ctx, logVars>>

\* The loop of run_server ends with ETERM, or at once when the frontend cannot
\* be bound.
LeaveLoop ==
    /\ At("serve")
    /\ \/ ctx = "shutdown" /\ UNCHANGED <<unflushed, outcome>>
       \/ ctx = "open" /\ LogError
    /\ pc' = "join"
    /\ UNCHANGED <<threadVars, signalVars, flusherVars, ctx, logger>>

\* Only zmq::error_t is caught: std::length_error and std::bad_alloc, of the
\* chunk arithmetic or of a reply too large for the memory, terminate.
ServeThrows ==
    /\ At("serve")
    /\ outcome' = "aborted"
    /\ UNCHANGED <<pc, threadVars, signalVars, flusherVars, ctx, logVars>>

\* t.join() for every worker and for the monitor; wrongly, the workers are
\* detached.  Then "all threads joined" and, back in main(), "shutdown complete".
Joined_NotWorkers == {"monitor"}
Joined == Workers \cup {"monitor"}

JoinThreads ==
    /\ At("join")
    /\ threads \cap Joined = {}
    /\ pc' = "stop_flusher"
    /\ LogLine
    /\ UNCHANGED <<threadVars, signalVars, flusherVars, ctx, logger>>

\* registry::shutdown: ~periodic_worker takes mutex_, which the flusher holds
\* while it flushes, and clears active_; it then notifies and joins.  Wrongly,
\* it joins without clearing active_.
ActiveAfterStop_Set == active
ActiveAfterStop == FALSE

StopFlusher ==
    /\ At("stop_flusher")
    /\ flusher # "flushing"
    /\ active' = ActiveAfterStop
    /\ pc' = "join_flusher"
    /\ UNCHANGED <<threadVars, signalVars, flusher, ctx, logVars, outcome>>

JoinFlusher ==
    /\ At("join_flusher")
    /\ "flusher" \notin threads
    /\ pc' = "drop_all"
    /\ UNCHANGED <<threadVars, signalVars, flusherVars, ctx, logVars, outcome>>

\* drop_all destroys the logger, whose file sink flushes as it closes; wrongly,
\* the loggers outlive the registry's shutdown.
DropLoggers_Kept == UNCHANGED <<logger, unflushed>>
DropLoggers == logger' = FALSE /\ unflushed' = FALSE

DropAll ==
    /\ At("drop_all")
    /\ DropLoggers
    /\ pc' = "return"
    /\ UNCHANGED <<threadVars, signalVars, flusherVars, ctx, outcome>>

Return ==
    /\ At("return")
    /\ outcome' = "exited"
    /\ UNCHANGED <<pc, threadVars, signalVars, flusherVars, ctx, logVars>>

-----------------------------------------------------------------------------
(***************************************************************************)
(* The other threads.                                                      *)
(***************************************************************************)
Runs(t) == outcome = "running" /\ t \in threads

Exit(t) == threads' = threads \ {t} /\ UNCHANGED created

\* A worker logs the rows it prices, or that pricing failed.
WorkerLog(w) ==
    /\ Runs(w)
    /\ LogLine \/ LogError
    /\ UNCHANGED <<pc, threadVars, signalVars, flusherVars, ctx, logger>>

\* ETERM, or, with the context open, another error of a socket: a last line, and
\* the end of the thread.
WorkerExit(w) ==
    /\ Runs(w)
    /\ \/ ctx = "shutdown" /\ LogLine
       \/ ctx = "open" /\ LogError
    /\ Exit(w)
    /\ UNCHANGED <<pc, signalVars, flusherVars, ctx, logger>>

\* sigwait takes a pending signal; the monitor logs it.
SigWait(s) ==
    /\ Runs("monitor")
    /\ monitor = "sigwait"
    /\ s \in pending
    /\ pending' = pending \ {s}
    /\ monitor' = "woken"
    /\ LogLine
    /\ UNCHANGED <<pc, threadVars, blocked, flusherVars, ctx, logger>>

ShutdownContext ==
    /\ Runs("monitor")
    /\ monitor = "woken"
    /\ ctx' = "shutdown"
    /\ monitor' = "exited"
    /\ Exit("monitor")
    /\ UNCHANGED <<pc, blocked, pending, flusherVars, logVars, outcome>>

\* The flusher takes mutex_ and evaluates the predicate, first before it waits
\* and again when it wakes, on the interval's end or by notify_one.
FlusherCheck ==
    /\ Runs("flusher")
    /\ flusher \in {"looping", "waiting"}
    /\ \/ /\ active
          /\ flusher' = IF flusher = "looping" THEN "waiting" ELSE "flushing"
          /\ UNCHANGED threadVars
       \/ /\ ~active
          /\ flusher' = "exited"
          /\ Exit("flusher")
    /\ UNCHANGED <<pc, signalVars, active, ctx, logVars, outcome>>

\* flush_all, with mutex_ held.
FlushAll ==
    /\ Runs("flusher")
    /\ flusher = "flushing"
    /\ unflushed' = FALSE
    /\ flusher' = "looping"
    /\ UNCHANGED <<pc, threadVars, signalVars, active, ctx, logger, outcome>>

\* A signal sent to the process.
SendSignal(s) ==
    /\ outcome = "running"
    /\ s \notin pending
    /\ pending' = pending \cup {s}
    /\ UNCHANGED <<pc, threadVars, blocked, monitor, flusherVars, ctx, logVars, outcome>>

\* Any thread that does not block the signal may be given it.  No handler is
\* installed, and the default action ends the process.
DefaultAction(s, t) ==
    /\ Runs(t)
    /\ s \in pending
    /\ t \notin blocked
    /\ pending' = pending \ {s}
    /\ outcome' = "killed"
    /\ UNCHANGED <<pc, threadVars, blocked, monitor, flusherVars, ctx, logVars>>

Ended == outcome # "running" /\ UNCHANGED vars
-----------------------------------------------------------------------------
Init ==
    /\ pc = "setup" /\ threads = {"main"} /\ created = {"main"} /\ blocked = {} /\ pending = {}
    /\ monitor = "unborn" /\ flusher = "unborn" /\ active = FALSE
    /\ ctx = "open" /\ logger = TRUE /\ unflushed = FALSE /\ outcome = "running"

MainStep ==
    \/ SetupLogger \/ ParseFlags \/ SetupConfigured \/ FlushEvery \/ BlockSignals
    \/ \E w \in Workers : SpawnWorker(w)
    \/ SpawnMonitor \/ JoinThreads \/ StopFlusher \/ JoinFlusher \/ DropAll \/ Return

MonitorStep == (\E s \in Signals : SigWait(s)) \/ ShutdownContext

FlusherStep == FlusherCheck \/ FlushAll

Next ==
    \/ MainStep \/ LeaveLoop \/ SpawnFails \/ ServeThrows
    \/ \E w \in Workers : WorkerLog(w) \/ WorkerExit(w)
    \/ MonitorStep
    \/ FlusherStep
    \/ \E s \in Signals : SendSignal(s)
    \/ \E s \in Signals, t \in Threads : DefaultAction(s, t)
    \/ Ended

Spec == Init /\ [][Next]_vars

\* Every thread that can go on does.  run_server leaves its loop, and a worker
\* its own, once the context is shut down: the socket calls throw ETERM.  The
\* flusher's wait ends with its interval of a second; during that second it does
\* not hold mutex_, so a main thread that waits for it gets it in the end.
Fairness ==
    /\ WF_vars(MainStep)
    /\ SF_vars(StopFlusher)
    /\ WF_vars(ctx = "shutdown" /\ LeaveLoop)
    /\ \A w \in Workers : WF_vars(ctx = "shutdown" /\ WorkerExit(w))
    /\ WF_vars(MonitorStep)
    /\ WF_vars(FlusherStep)

FairSpec == Spec /\ Fairness
-----------------------------------------------------------------------------
(***************************************************************************)
(* Properties.                                                             *)
(***************************************************************************)

\* Every variable has its type; every thread that run_server starts blocks the
\* signals for as long as it runs.
TypeOK ==
    /\ pc \in {"setup", "parse", "setup_cfg", "flush_every", "sigmask", "spawn",
               "serve", "join", "stop_flusher", "join_flusher", "drop_all", "return"}
    /\ threads \subseteq created /\ created \subseteq Threads
    /\ blocked \subseteq Threads /\ pending \subseteq Signals
    /\ threads \cap (Workers \cup {"monitor"}) \subseteq blocked
    /\ monitor \in {"unborn", "sigwait", "woken", "exited"}
    /\ flusher \in {"unborn", "looping", "waiting", "flushing", "exited"}
    /\ active \in BOOLEAN /\ logger \in BOOLEAN /\ unflushed \in BOOLEAN
    /\ ctx \in {"open", "shutdown"}
    /\ outcome \in {"running", "refused", "aborted", "killed", "crashed", "exited"}

\* No thread logs once spdlog::shutdown has destroyed the default logger: all
\* that log have been joined by then.
NoLogAfterShutdown == outcome # "crashed"

\* A process that returns from main() leaves no line unflushed.
ExitFlushes == outcome = "exited" => ~unflushed

\* A signal ends the process, wherever it finds it: starting, serving, waiting
\* in the joins for want of a frontend, or stopping its flusher.
SignalEndsProcess == \A s \in Signals : s \in pending ~> outcome # "running"

\* From pthread_sigmask on, SIGINT and SIGTERM are the monitor's: the process
\* is never ended by their default action.
SignalsReachMonitor ==
    outcome = "killed" =>
        pc \in {"setup", "parse", "setup_cfg", "flush_every", "sigmask"}
=============================================================================
