----------------------------- MODULE RotatingLog -----------------------------
(***************************************************************************)
(* The log file of the server: the rotating_file_sink of the vendored      *)
(* spdlog as setup_logger (logger.cpp) builds it, written by several       *)
(* threads, with kills and restarts of the process at any moment.          *)
(*                                                                         *)
(* A line is its number, its size and whether its level is warn or above.  *)
(* Names of files are numbers: 0 is log_file, i is the i-th rotation.      *)
(* Every call holds the sink's mutex; a rotation is the only one during    *)
(* which another process, or a restart, can see something in between, and  *)
(* is cut into the calls it makes to the file system.                      *)
(***************************************************************************)
EXTENDS Integers, Sequences, SequencesExt

CONSTANTS
    Threads,   \* the threads that log
    MaxSize,   \* max_size_: 10 MB
    MaxFiles,  \* max_files_: 5
    Sizes,     \* sizes of a line
    MaxLines,  \* bound: lines logged
    Absent     \* there is no such file

Lines == [id : 1 .. MaxLines, size : Sizes, warn : BOOLEAN]

ASSUME RotatingLogAssumption ==
    /\ MaxSize \in Nat \ {0} /\ MaxFiles \in Nat \ {0} /\ MaxLines \in Nat
    /\ Sizes \subseteq Nat \ {0}
    /\ Absent \notin Seq(Lines)

VARIABLES
    files,         \* the files on disk, each a sequence of lines
    fd,            \* the sink has log_file open
    buffer,        \* lines fwrite has taken and not yet handed to the system
    current_size,  \* current_size_
    tpc,           \* per thread: "idle", "rotating", or "flushing" its warn line
    line,          \* per thread: the line it logs
    rot,           \* the i of the loop of rotate_
    removed,       \* rename_file_ has removed its target
    count,         \* lines logged so far
    history,       \* every line handed to the system, in order
    failed,        \* a rename or an open has failed
    up             \* the process runs

sinkVars == <<fd, buffer, current_size>>
rotVars == <<rot, removed>>
vars == <<files, sinkVars, tpc, line, rotVars, count, history, failed, up>>

NoLine == [id |-> 0, size |-> 0, warn |-> FALSE]

Exists(i) == files[i] # Absent

SizeOf(lines) ==
    LET upTo[k \in 0 .. Len(lines)] == IF k = 0 THEN 0 ELSE upTo[k - 1] + lines[k].size
    IN  upTo[Len(lines)]

\* base_sink's mutex_.
MutexFree == \A t \in Threads : tpc[t] # "rotating"

\* fflush, and fclose: what is buffered goes to log_file.
Drain ==
    /\ files' = IF fd THEN [files EXCEPT ![0] = @ \o buffer] ELSE files
    /\ history' = history \o buffer
    /\ buffer' = <<>>

\* logger::sink_it_: a line of level warn or above is flushed, in a second call
\* that takes the mutex again; wrongly, only a line above it.
AfterLine_NoFlush(l) == "idle"
AfterLine(l) == IF l.warn THEN "flushing" ELSE "idle"

\* The line is done with: written, or given up by an exception that
\* logger::sink_it_ catches before it goes on to the flush.
Return(t, l) ==
    /\ tpc' = [tpc EXCEPT ![t] = AfterLine(l)]
    /\ line' = [line EXCEPT ![t] = IF AfterLine(l) = "idle" THEN NoLine ELSE l]

-----------------------------------------------------------------------------
(***************************************************************************)
(* rotating_file_sink::sink_it_                                            *)
(***************************************************************************)

\* The next line, of thread t.
NewLine(t, l) ==
    /\ up /\ tpc[t] = "idle" /\ MutexFree
    /\ count < MaxLines
    /\ l.id = count + 1
    /\ count' = count + 1

\* The estimate of the size.
new_size(l) == current_size + l.size

\* The line fits: it is written, or dropped in silence when fd_ is null.
WriteLine(t, l) ==
    /\ NewLine(t, l)
    /\ new_size(l) <= MaxSize
    /\ buffer' = IF fd THEN Append(buffer, l) ELSE buffer
    /\ current_size' = new_size(l)
    /\ Return(t, l)
    /\ UNCHANGED <<files, fd, rotVars, history, failed, up>>

\* It does not, but the file is empty once flushed: nothing to rotate.
WriteLongLine(t, l) ==
    /\ NewLine(t, l)
    /\ new_size(l) > MaxSize
    /\ fd /\ files[0] = <<>> /\ buffer = <<>>
    /\ buffer' = <<l>>
    /\ current_size' = new_size(l)
    /\ Return(t, l)
    /\ UNCHANGED <<files, fd, rotVars, history, failed, up>>

\* size() throws when the file is closed; the line is lost.
SizeThrows(t, l) ==
    /\ NewLine(t, l)
    /\ new_size(l) > MaxSize
    /\ ~fd
    /\ Return(t, l)
    /\ UNCHANGED <<files, sinkVars, rotVars, history, failed, up>>

\* The file is flushed and closed, and the renaming starts at the oldest.
StartRotation(t, l) ==
    /\ NewLine(t, l)
    /\ new_size(l) > MaxSize
    /\ fd /\ (files[0] # <<>> \/ buffer # <<>>)
    /\ Drain
    /\ fd' = FALSE
    /\ rot' = MaxFiles /\ removed' = FALSE
    /\ tpc' = [tpc EXCEPT ![t] = "rotating"]
    /\ line' = [line EXCEPT ![t] = l]
    /\ UNCHANGED <<current_size, failed, up>>

Rotating(t) == up /\ tpc[t] = "rotating"

\* The loop goes on down to i = 1; wrongly, it ends before log_file's turn.
RenamesLeft_NotBase == rot > 1
RenamesLeft == rot > 0

SkipMissing(t) ==
    /\ Rotating(t)
    /\ RenamesLeft
    /\ ~Exists(rot - 1)
    /\ rot' = rot - 1
    /\ UNCHANGED <<files, sinkVars, tpc, line, removed, count, history, failed, up>>

RemoveTarget(t) ==
    /\ Rotating(t)
    /\ RenamesLeft
    /\ Exists(rot - 1) /\ ~removed
    /\ files' = [files EXCEPT ![rot] = Absent]
    /\ removed' = TRUE
    /\ UNCHANGED <<sinkVars, tpc, line, rot, count, history, failed, up>>

RenameFile(t) ==
    /\ Rotating(t)
    /\ removed
    /\ files' = [files EXCEPT ![rot] = files[rot - 1], ![rot - 1] = Absent]
    /\ rot' = rot - 1 /\ removed' = FALSE
    /\ UNCHANGED <<sinkVars, tpc, line, count, history, failed, up>>

\* reopen(true) creates or truncates log_file, and fd_ is open again.
Reopen ==
    /\ files' = [files EXCEPT ![0] = <<>>]
    /\ fd' = TRUE

\* Two attempts to rename have failed: log_file is emptied anyway, and the line
\* is lost to the exception.
RenameFails(t) ==
    /\ failed' = TRUE
    /\ Rotating(t)
    /\ removed
    /\ Reopen
    /\ current_size' = 0
    /\ rot' = 0 /\ removed' = FALSE
    /\ Return(t, line[t])
    /\ UNCHANGED <<buffer, count, history, up>>

\* All renamed: the line is the first of the new file.
FinishRotation(t) ==
    /\ Rotating(t)
    /\ ~RenamesLeft
    /\ Reopen
    /\ buffer' = <<line[t]>>
    /\ current_size' = line[t].size
    /\ Return(t, line[t])
    /\ UNCHANGED <<rotVars, count, history, failed, up>>

\* Every attempt to open log_file fails, be it the truncating or the appending
\* one: fd_ stays null for good, and current_size_ what it was.
ReopenFails(t) ==
    /\ failed' = TRUE
    /\ Rotating(t)
    /\ ~RenamesLeft \/ removed
    /\ \/ files' = [files EXCEPT ![0] = <<>>]
       \/ files' = files
    /\ rot' = 0 /\ removed' = FALSE
    /\ Return(t, line[t])
    /\ UNCHANGED <<sinkVars, count, history, up>>

-----------------------------------------------------------------------------
(***************************************************************************)
(* Flushes, the end of the process and its restart.                        *)
(***************************************************************************)

FlushLine(t) ==
    /\ up /\ tpc[t] = "flushing" /\ MutexFree
    /\ Drain
    /\ tpc' = [tpc EXCEPT ![t] = "idle"]
    /\ line' = [line EXCEPT ![t] = NoLine]
    /\ UNCHANGED <<fd, current_size, rotVars, count, failed, up>>

\* The periodic flusher; also fwrite, when its buffer is full.
PeriodicFlush ==
    /\ up /\ MutexFree
    /\ Drain
    /\ UNCHANGED <<fd, current_size, tpc, line, rotVars, count, failed, up>>

\* What is buffered is lost with the process.
Kill ==
    /\ up
    /\ up' = FALSE /\ fd' = FALSE /\ buffer' = <<>>
    /\ tpc' = [t \in Threads |-> "idle"]
    /\ line' = [t \in Threads |-> NoLine]
    /\ rot' = 0 /\ removed' = FALSE
    /\ UNCHANGED <<files, current_size, count, history, failed>>

\* spdlog::shutdown destroys the sink, whose file_helper closes the file.
Shutdown ==
    /\ up
    /\ \A t \in Threads : tpc[t] = "idle"
    /\ Drain
    /\ up' = FALSE /\ fd' = FALSE
    /\ UNCHANGED <<current_size, tpc, line, rotVars, count, failed>>

\* The constructor of the sink appends to log_file; wrongly, it takes the file to
\* be new.
OpenSize_Zero == 0
OpenSize == IF Exists(0) THEN SizeOf(files[0]) ELSE 0

Restart ==
    /\ ~up
    /\ files' = IF Exists(0) THEN files ELSE [files EXCEPT ![0] = <<>>]
    /\ current_size' = OpenSize
    /\ up' = TRUE /\ fd' = TRUE
    /\ UNCHANGED <<buffer, tpc, line, rotVars, count, history, failed>>

-----------------------------------------------------------------------------
\* The server starts where it never ran.
Init ==
    /\ files = [i \in 0 .. MaxFiles |-> IF i = 0 THEN <<>> ELSE Absent]
    /\ fd = TRUE /\ buffer = <<>> /\ current_size = 0
    /\ tpc = [t \in Threads |-> "idle"]
    /\ line = [t \in Threads |-> NoLine]
    /\ rot = 0 /\ removed = FALSE
    /\ count = 0 /\ history = <<>> /\ failed = FALSE /\ up = TRUE

ThreadStep(t) ==
    \/ \E l \in Lines : \/ WriteLine(t, l) \/ WriteLongLine(t, l)
                        \/ SizeThrows(t, l) \/ StartRotation(t, l)
    \/ SkipMissing(t) \/ RemoveTarget(t) \/ RenameFile(t) \/ RenameFails(t)
    \/ FinishRotation(t) \/ ReopenFails(t) \/ FlushLine(t)

Next ==
    \/ \E t \in Threads : ThreadStep(t)
    \/ PeriodicFlush \/ Kill \/ Shutdown \/ Restart

Spec == Init /\ [][Next]_vars
-----------------------------------------------------------------------------
(***************************************************************************)
(* Properties.                                                             *)
(***************************************************************************)

\* The log as one reads it: the oldest rotation first, log_file last.
OnDisk == FlattenSeq([k \in 1 .. MaxFiles + 1 |->
                         IF Exists(MaxFiles + 1 - k) THEN files[MaxFiles + 1 - k] ELSE <<>>])

\* While the file system does its part, the files together are the newest end of
\* all that was flushed, in order, without a gap and never without its last line:
\* rotate_ gives up the oldest lines only, also when the process is killed between
\* a remove and a rename and the next rotation finds a name missing.
DiskIsSuffix ==
    ~failed => /\ IsSuffix(OnDisk, history)
               /\ history # <<>> => OnDisk # <<>>

\* No file grows beyond max_size_ (the limit of 10 MB), unless by a single line:
\* current_size_ never falls behind the file, also after an exception of the
\* rotation or a restart.
SizeBound ==
    \A i \in 0 .. MaxFiles :
        Exists(i) =>
            LET content == IF i = 0 /\ fd THEN files[0] \o buffer ELSE files[i]
            IN  SizeOf(content) <= MaxSize \/ Len(content) = 1

\* flush_on(warn): no warning is left in the buffer when the call that logged it
\* returns, whatever other threads write or rotate between its two halves; so of
\* the warnings written, a kill loses only those still being logged.  (A warning
\* the sink gives up, for a rename that fails or a file that is not open, was never
\* written.)
WarnFlushed ==
    \A k \in DOMAIN buffer :
        buffer[k].warn => \E t \in Threads : tpc[t] = "flushing" /\ line[t] = buffer[k]
=============================================================================
