------------------------- MODULE ServerProcessProofs -------------------------
(***************************************************************************)
(* Theorems about ServerProcess, for any set of workers and of signals.    *)
(*                                                                         *)
(* What takes the process down safely is an order: the threads that log    *)
(* are joined, then the flusher, and only then is the logger destroyed.    *)
(* The inductive invariant says which threads may run at each pc of main().*)
(***************************************************************************)
EXTENDS ServerProcess, TLAPS

\* main() before run_server, and from the joins of its threads on.
Starting == {"setup", "parse", "setup_cfg", "flush_every", "sigmask"}
Stopping == {"stop_flusher", "join_flusher", "drop_all", "return"}

\* run_server's threads exist only between its start and its joins, and main
\* blocks the signals before it creates the first of them.
ServerThreads ==
    /\ pc \in Starting \cup Stopping => threads \cap (Workers \cup {"monitor"}) = {}
    /\ pc \notin Starting => "main" \in blocked

\* The flusher is joined before the logger is destroyed, which is the last
\* thing main() does before it returns.
LoggerLife ==
    /\ pc \in {"drop_all", "return"} => "flusher" \notin threads
    /\ pc # "return" => logger
    /\ pc = "return" => ~unflushed

\* A process only exits by returning from main().
Endings ==
    /\ outcome # "crashed"
    /\ outcome = "exited" => pc = "return"

Inv == TypeOK /\ ServerThreads /\ LoggerLife /\ Endings

USE DEF threadVars, signalVars, flusherVars, logVars, At, Runs, Exit, Start, Masked, Joined,
        ActiveAfterStop, DropLoggers, Starting, Stopping, Threads

\* The process starts with one thread, spdlog's own logger and nothing logged.
LEMMA InitInv == Init => Inv
<1> SUFFICES ASSUME Init PROVE Inv
  OBVIOUS
<1>1. threads \cap (Workers \cup {"monitor"}) = {}
  BY ProcessAssumption DEF Init
<1>2. TypeOK
  BY <1>1 DEF Init, TypeOK
<1> QED
  BY <1>1, <1>2 DEF Init, Inv, ServerThreads, LoggerLife, Endings

\* A thread that logs while the logger exists does not crash the process.
LEMMA Logging ==
    ASSUME Inv, LogLine \/ LogError, pc # "return"
    PROVE  outcome' = outcome /\ unflushed' \in BOOLEAN
BY DEF Inv, LoggerLife, LogLine, LogError

\* A step of main() up to the start of run_server keeps the invariant.
LEMMA StartInv ==
    ASSUME Inv, SetupLogger \/ ParseFlags \/ SetupConfigured \/ FlushEvery \/ BlockSignals
    PROVE  Inv'
<1> USE DEF Inv, TypeOK, ServerThreads, LoggerLife, Endings
<1>1. CASE SetupLogger
  BY <1>1 DEF SetupLogger
<1>2. CASE ParseFlags
  BY <1>2 DEF ParseFlags
<1>3. CASE SetupConfigured
  BY <1>3 DEF SetupConfigured
<1>4. CASE FlushEvery
  BY <1>4, ProcessAssumption DEF FlushEvery
<1>5. CASE BlockSignals
  BY <1>5 DEF BlockSignals
<1> QED
  BY <1>1, <1>2, <1>3, <1>4, <1>5

\* So does a step of run_server, as main() sees it, however it ends.
LEMMA ServeInv ==
    ASSUME Inv, \/ \E w \in Workers : SpawnWorker(w)
                \/ SpawnMonitor \/ SpawnFails \/ LeaveLoop \/ ServeThrows
    PROVE  Inv'
<1> USE DEF Inv, TypeOK, ServerThreads, LoggerLife, Endings
<1>1. ASSUME NEW w \in Workers, SpawnWorker(w) PROVE Inv'
  BY <1>1, ProcessAssumption DEF SpawnWorker
<1>2. CASE SpawnMonitor
  <2>1. outcome' = outcome /\ unflushed' \in BOOLEAN
    BY <1>2, Logging DEF SpawnMonitor
  <2> QED
    BY <1>2, <2>1, ProcessAssumption DEF SpawnMonitor
<1>3. CASE SpawnFails \/ ServeThrows
  BY <1>3 DEF SpawnFails, ServeThrows
<1>4. CASE LeaveLoop
  <2>1. outcome' = outcome /\ unflushed' \in BOOLEAN
    BY <1>4, Logging DEF LeaveLoop
  <2> QED
    BY <1>4, <2>1 DEF LeaveLoop
<1> QED
  BY <1>1, <1>2, <1>3, <1>4

\* And so does every step of the way down: the joins, the registry's shutdown.
LEMMA StopInv ==
    ASSUME Inv, JoinThreads \/ StopFlusher \/ JoinFlusher \/ DropAll \/ Return
    PROVE  Inv'
<1> USE DEF Inv, TypeOK, ServerThreads, LoggerLife, Endings
<1>1. CASE JoinThreads
  <2>1. outcome' = outcome /\ unflushed' \in BOOLEAN
    BY <1>1, Logging DEF JoinThreads
  <2> QED
    BY <1>1, <2>1 DEF JoinThreads
<1>2. CASE StopFlusher
  BY <1>2 DEF StopFlusher
<1>3. CASE JoinFlusher
  BY <1>3 DEF JoinFlusher
<1>4. CASE DropAll
  BY <1>4 DEF DropAll
<1>5. CASE Return
  BY <1>5 DEF Return
<1> QED
  BY <1>1, <1>2, <1>3, <1>4, <1>5

\* The other threads: the workers and the monitor are not there to log once
\* main() has come to the registry's shutdown.
LEMMA ThreadInv ==
    ASSUME Inv, \/ \E w \in Workers : WorkerLog(w) \/ WorkerExit(w)
                \/ MonitorStep \/ FlusherStep
    PROVE  Inv'
<1> USE DEF Inv, TypeOK, ServerThreads, LoggerLife, Endings
<1>1. ASSUME NEW w \in Workers, WorkerLog(w) \/ WorkerExit(w) PROVE Inv'
  <2>1. pc \notin Starting \cup Stopping
    BY <1>1 DEF WorkerLog, WorkerExit
  <2>2. outcome' = outcome /\ unflushed' \in BOOLEAN
    BY <1>1, <2>1, Logging DEF WorkerLog, WorkerExit
  <2> QED
    BY <1>1, <2>1, <2>2 DEF WorkerLog, WorkerExit
<1>2. ASSUME NEW s \in Signals, SigWait(s) PROVE Inv'
  <2>1. pc \notin Starting \cup Stopping
    BY <1>2 DEF SigWait
  <2>2. outcome' = outcome /\ unflushed' \in BOOLEAN
    BY <1>2, <2>1, Logging DEF SigWait
  <2> QED
    BY <1>2, <2>1, <2>2 DEF SigWait
<1>3. CASE ShutdownContext
  BY <1>3 DEF ShutdownContext
<1>4. CASE FlusherCheck
  BY <1>4 DEF FlusherCheck
<1>5. CASE FlushAll
  BY <1>5 DEF FlushAll
<1> QED
  BY <1>1, <1>2, <1>3, <1>4, <1>5 DEF MonitorStep, FlusherStep

\* Every step of every thread, and every signal, keeps the invariant.
LEMMA NextInv == Inv /\ [Next]_vars => Inv'
<1> SUFFICES ASSUME Inv, [Next]_vars PROVE Inv'
  OBVIOUS
<1> USE DEF Inv, TypeOK, ServerThreads, LoggerLife, Endings
<1>1. CASE MainStep \/ LeaveLoop \/ SpawnFails \/ ServeThrows
  BY <1>1, StartInv, ServeInv, StopInv DEF MainStep
<1>2. CASE (\E w \in Workers : WorkerLog(w) \/ WorkerExit(w)) \/ MonitorStep \/ FlusherStep
  BY <1>2, ThreadInv
<1>3. ASSUME NEW s \in Signals, SendSignal(s) PROVE Inv'
  BY <1>3 DEF SendSignal
<1>4. ASSUME NEW s \in Signals, NEW t \in Threads, DefaultAction(s, t) PROVE Inv'
  BY <1>4 DEF DefaultAction
<1>5. CASE UNCHANGED vars
  BY <1>5 DEF vars
<1> QED
  BY <1>1, <1>2, <1>3, <1>4, <1>5 DEF Next, Ended

\* So it holds in every reachable state.
LEMMA Invariance == Spec => []Inv
<1> QED
  BY InitInv, NextInv, PTL DEF Spec

\* Every reachable state is well typed; in particular every worker and the
\* monitor block the signals for as long as they run.
THEOREM ProcessTypeCorrect == Spec => []TypeOK
<1>1. Inv => TypeOK
  BY DEF Inv
<1> QED
  BY <1>1, Invariance, PTL

\* No thread ever logs through the default logger that spdlog::shutdown has
\* destroyed, wherever a signal, an exception or a failed bind finds it.
THEOREM LoggersJoined == Spec => []NoLogAfterShutdown
<1>1. Inv => NoLogAfterShutdown
  BY DEF Inv, Endings, NoLogAfterShutdown
<1> QED
  BY <1>1, Invariance, PTL

\* A process that returns from main() has flushed every line it logged.
THEOREM ReturnFlushes == Spec => []ExitFlushes
<1>1. Inv => ExitFlushes
  BY DEF Inv, LoggerLife, Endings, ExitFlushes
<1> QED
  BY <1>1, Invariance, PTL

\* Once pthread_sigmask has been called, the one thread that a signal's default
\* action can still reach is spdlog's flusher, which main() started before it.
THEOREM OnlyFlusherExposed ==
    Spec => [](pc \notin Starting => threads \ blocked \subseteq {"flusher"})
<1>1. Inv => (pc \notin Starting => threads \ blocked \subseteq {"flusher"})
  BY DEF Inv, TypeOK, ServerThreads
<1> QED
  BY <1>1, Invariance, PTL
=============================================================================
