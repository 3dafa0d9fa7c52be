-------------------------- MODULE RotatingLogProofs --------------------------
(***************************************************************************)
(* The safety of the server's log, for any number of threads, lines and    *)
(* rotations, any limit and any sizes.                                     *)
(*                                                                         *)
(* The inductive invariant is LogInv: the types; Held, who holds the file  *)
(* and the mutex; Bounded, that current_size_ is not behind log_file;      *)
(* Renaming, how far a rotation has come; and Kept, that the files         *)
(* are what some front leaves of the lines flushed.                        *)
(***************************************************************************)
EXTENDS RotatingLog, SequenceLemmas

\* The types of the sink's state.
TypeInv ==
    /\ files \in [0 .. MaxFiles -> Seq(Lines) \cup {Absent}]
    /\ fd \in BOOLEAN /\ buffer \in Seq(Lines) /\ current_size \in Nat
    /\ tpc \in [Threads -> {"idle", "rotating", "flushing"}]
    /\ line \in [Threads -> Lines \cup {NoLine}]
    /\ rot \in 0 .. MaxFiles /\ removed \in BOOLEAN
    /\ count \in Nat /\ history \in Seq(Lines)
    /\ failed \in BOOLEAN /\ up \in BOOLEAN

\* Who holds what: an open file exists, nothing is buffered for a closed one, a
\* thread in the middle of a call has its line, and one thread at most rotates,
\* with the file closed.
Held ==
    /\ fd => up /\ files[0] \in Seq(Lines)
    /\ ~fd => buffer = <<>>
    /\ \A t \in Threads : tpc[t] # "idle" => up /\ line[t] \in Lines
    /\ \A t \in Threads : tpc[t] = "rotating" => ~fd
    /\ \A s, t \in Threads : tpc[s] = "rotating" /\ tpc[t] = "rotating" => s = t

\* Within max_size_, or a single line.
Fits(lines) == SizeOf(lines) <= MaxSize \/ Len(lines) = 1

\* current_size_ is at least the size of the open file.
Bounded ==
    /\ \A i \in 0 .. MaxFiles : files[i] # Absent => Fits(files[i])
    /\ fd => /\ Fits(files[0] \o buffer)
             /\ current_size >= SizeOf(files[0] \o buffer)

\* A rotation renames the files from the oldest on: the name it has come to is
\* free, and log_file is not empty before its turn.
Renaming ==
    /\ \A i \in 1 .. MaxFiles : files[i] # <<>>
    /\ removed => /\ rot > 0 /\ files[rot] = Absent
                  /\ files[rot - 1] # Absent
                  /\ \E t \in Threads : tpc[t] = "rotating"
    /\ (\E t \in Threads : tpc[t] = "rotating") =>
           /\ files[0] # <<>>
           /\ rot < MaxFiles => files[rot] = Absent

\* The files are the end of what was flushed.
Kept ==
    ~failed => /\ \E u \in Seq(Lines) : history = Cat(u, OnDisk)
               /\ history # <<>> => OnDisk # <<>>

LogInv == TypeInv /\ Held /\ Bounded /\ Renaming /\ Kept

-----------------------------------------------------------------------------
\* Drain moves the buffer to log_file and leaves the other files alone.
LEMMA Drained ==
    ASSUME TypeInv, Held, Drain
    PROVE  /\ files'[0] = IF fd THEN files[0] \o buffer ELSE files[0]
           /\ \A i \in 1 .. MaxFiles : files'[i] = files[i]
           /\ files' \in [0 .. MaxFiles -> Seq(Lines) \cup {Absent}]
           /\ history' \in Seq(Lines) /\ buffer' \in Seq(Lines)
<1>1. 0 \in 0 .. MaxFiles /\ \A i \in 1 .. MaxFiles : i \in 0 .. MaxFiles /\ i # 0
  BY RotatingLogAssumption
<1>2. history' \in Seq(Lines) /\ buffer' \in Seq(Lines)
  BY DEF TypeInv, Drain
<1>3. CASE fd
  <2>1. files[0] \o buffer \in Seq(Lines)
    BY <1>3 DEF TypeInv, Held
  <2>2. files' = [files EXCEPT ![0] = files[0] \o buffer]
    BY <1>3 DEF Drain
  <2> QED
    BY <1>1, <1>2, <1>3, <2>1, <2>2 DEF TypeInv
<1>4. CASE ~fd
  BY <1>1, <1>2, <1>4 DEF TypeInv, Drain
<1> QED
  BY <1>3, <1>4

\* Return concerns thread t alone, and a line of level warn goes on to its flush.
LEMMA Returned ==
    ASSUME TypeInv, NEW t \in Threads, NEW l \in Lines, Return(t, l)
    PROVE  /\ tpc' \in [Threads -> {"idle", "rotating", "flushing"}]
           /\ line' \in [Threads -> Lines \cup {NoLine}]
           /\ tpc'[t] \in {"idle", "flushing"}
           /\ l.warn => tpc'[t] = "flushing"
           /\ tpc'[t] = "flushing" => line'[t] = l
           /\ \A s \in Threads \ {t} : tpc'[s] = tpc[s] /\ line'[s] = line[s]
BY DEF TypeInv, Return, AfterLine

\* A line is not empty.
LEMMA LineSizes ==
    ASSUME NEW l \in Lines
    PROVE  l.size \in Nat \ {0} /\ l.warn \in BOOLEAN
BY RotatingLogAssumption DEF Lines

\* What the assumption says of the constants, in the form the steps use.
LEMMA Constants ==
    /\ MaxFiles \in Nat /\ MaxFiles >= 1 /\ MaxSize \in Nat
    /\ 0 \in 0 .. MaxFiles /\ MaxFiles \in 0 .. MaxFiles
    /\ \A i \in 1 .. MaxFiles : i \in 0 .. MaxFiles /\ i # 0
    /\ <<>> \in Seq(Lines) /\ Absent # <<>>
<1>1. MaxFiles \in Nat /\ MaxFiles >= 1 /\ MaxSize \in Nat
  BY RotatingLogAssumption
<1>2. <<>> \in Seq(Lines)
  OBVIOUS
<1>3. Absent # <<>>
  BY <1>2, RotatingLogAssumption
<1> QED
  BY <1>1, <1>2, <1>3

\* SizeOf is a sum in the sense of Adds.
LEMMA SizeAdds ==
    ASSUME NEW s \in Seq(Lines)
    PROVE  \E f : /\ Adds(f, [k \in 1 .. Len(s) |-> s[k].size], Len(s))
                  /\ SizeOf(s) = f[Len(s)]
<1> DEFINE n == Len(s)
           w == [k \in 1 .. n |-> s[k].size]
           h == CHOOSE f : f = [k \in 0 .. n |-> IF k = 0 THEN 0 ELSE f[k - 1] + s[k].size]
<1>1. n \in Nat /\ w \in [1 .. n -> Nat]
  <2>1. \A k \in 1 .. n : s[k] \in Lines
    OBVIOUS
  <2> QED
    BY <2>1, LineSizes
<1>2. SizeOf(s) = h[n]
  BY DEF SizeOf
<1>3. PICK g : Adds(g, w, n)
  <2> HIDE DEF n, w
  <2> QED
    BY <1>1, AddsExist
<1>4. g = [k \in 0 .. n |-> IF k = 0 THEN 0 ELSE g[k - 1] + s[k].size]
  <2>1. \A k \in 0 .. n : (IF k = 0 THEN 0 ELSE g[k - 1] + w[k])
                             = (IF k = 0 THEN 0 ELSE g[k - 1] + s[k].size)
    BY <1>1
  <2>2. g = [k \in 0 .. n |-> IF k = 0 THEN 0 ELSE g[k - 1] + w[k]]
    BY <1>3 DEF Adds
  <2> HIDE DEF n, w
  <2> QED
    BY <2>1, <2>2
<1>5. h = [k \in 0 .. n |-> IF k = 0 THEN 0 ELSE h[k - 1] + s[k].size]
  BY <1>4
<1> HIDE DEF h
<1>6. h = [k \in 0 .. n |-> IF k = 0 THEN 0 ELSE h[k - 1] + w[k]]
  <2>1. \A k \in 0 .. n : (IF k = 0 THEN 0 ELSE h[k - 1] + w[k])
                             = (IF k = 0 THEN 0 ELSE h[k - 1] + s[k].size)
    BY <1>1
  <2> HIDE DEF n, w
  <2> QED
    BY <1>5, <2>1
<1>7. Adds(h, w, n)
  BY <1>6 DEF Adds
<1> QED
  BY <1>2, <1>7

\* The size of no lines, and of a sequence of lines with one more.
LEMMA SizeFacts ==
    /\ SizeOf(<<>>) = 0
    /\ \A s \in Seq(Lines) : SizeOf(s) \in Nat
    /\ \A s \in Seq(Lines), l \in Lines : SizeOf(Append(s, l)) = SizeOf(s) + l.size
<1> DEFINE w(s) == [k \in 1 .. Len(s) |-> s[k].size]
<1>1. ASSUME NEW s \in Seq(Lines)
      PROVE  Len(s) \in Nat /\ w(s) \in [1 .. Len(s) -> Nat]
  <2>1. \A k \in 1 .. Len(s) : s[k] \in Lines
    OBVIOUS
  <2> QED
    BY <2>1, LineSizes
<1>a. ASSUME NEW s \in Seq(Lines)
      PROVE  \E f : Adds(f, w(s), Len(s)) /\ SizeOf(s) = f[Len(s)]
  BY SizeAdds
<1>2. SizeOf(<<>>) = 0
  <2>1. <<>> \in Seq(Lines) /\ Len(<<>>) = 0
    OBVIOUS
  <2>2. PICK f : Adds(f, w(<<>>), Len(<<>>)) /\ SizeOf(<<>>) = f[Len(<<>>)]
    BY <1>a, <2>1
  <2>3. f[0] = 0
    BY <2>1, <2>2 DEF Adds
  <2> QED
    BY <2>1, <2>2, <2>3
<1>3. ASSUME NEW s \in Seq(Lines) PROVE SizeOf(s) \in Nat
  <2>1. PICK f : Adds(f, w(s), Len(s)) /\ SizeOf(s) = f[Len(s)]
    BY <1>a
  <2>2. Len(s) \in Nat /\ w(s) \in [1 .. Len(s) -> Nat] /\ Len(s) \in 0 .. Len(s)
    BY <1>1
  <2> HIDE DEF w
  <2>3. \A k \in 0 .. Len(s) : f[k] \in Nat
    BY <2>1, <2>2, AddsNat
  <2> QED
    BY <2>1, <2>2, <2>3
<1>4. ASSUME NEW s \in Seq(Lines), NEW l \in Lines
      PROVE  SizeOf(Append(s, l)) = SizeOf(s) + l.size
  <2> DEFINE e == Append(s, l)
             n == Len(s)
  <2>1. e \in Seq(Lines) /\ Len(e) = n + 1 /\ n \in Nat /\ e[n + 1] = l
        /\ \A k \in 1 .. n : e[k] = s[k]
    OBVIOUS
  <2>2. PICK f : Adds(f, w(s), n) /\ SizeOf(s) = f[n]
    BY <1>a
  <2>3. PICK g : Adds(g, w(e), n + 1) /\ SizeOf(e) = g[n + 1]
    <3> HIDE DEF e, n, w
    <3> QED
      BY <1>a, <2>1
  <2>4. w(s) \in [1 .. n -> Nat] /\ w(e) \in [1 .. n + 1 -> Nat]
    <3> HIDE DEF e
    <3> QED
      BY <1>1, <2>1
  <2>5. \A k \in 1 .. n : w(s)[k] = w(e)[k]
    <3> HIDE DEF e, n
    <3>1. Len(s) = n
      BY DEF n
    <3> QED
      BY <2>1, <3>1
  <2>6. w(e)[n + 1] = l.size
    <3> HIDE DEF e, n
    <3> QED
      BY <2>1
  <2> HIDE DEF w, e, n
  <2>7. g[n + 1] = f[n] + w(e)[n + 1]
    BY <2>1, <2>2, <2>3, <2>4, <2>5, AddsOneMore
  <2> QED
    BY <2>2, <2>3, <2>6, <2>7 DEF e
<1> QED
  BY <1>2, <1>3, <1>4

\* Every step keeps the types.
LEMMA TypeStep ==
    ASSUME TypeInv, Held, Renaming, Next
    PROVE  TypeInv'
<1>1. ASSUME NEW t \in Threads, NEW l \in Lines, WriteLine(t, l)
      PROVE  TypeInv'
  <2>1. Append(buffer, l) \in Seq(Lines) /\ current_size + l.size \in Nat
    BY LineSizes DEF TypeInv
  <2>2. Return(t, l)
    BY <1>1 DEF WriteLine
  <2>3. /\ tpc' \in [Threads -> {"idle", "rotating", "flushing"}]
        /\ line' \in [Threads -> Lines \cup {NoLine}]
    BY <2>2, Returned
  <2> QED
    BY <1>1, <2>1, <2>2, <2>3 DEF WriteLine, NewLine, new_size, rotVars, TypeInv
<1>2. ASSUME NEW t \in Threads, NEW l \in Lines, WriteLongLine(t, l)
      PROVE  TypeInv'
  <2>1. <<l>> \in Seq(Lines) /\ current_size + l.size \in Nat
    BY LineSizes DEF TypeInv
  <2>2. Return(t, l)
    BY <1>2 DEF WriteLongLine
  <2>3. /\ tpc' \in [Threads -> {"idle", "rotating", "flushing"}]
        /\ line' \in [Threads -> Lines \cup {NoLine}]
    BY <2>2, Returned
  <2> QED
    BY <1>2, <2>1, <2>2, <2>3 DEF WriteLongLine, NewLine, new_size, rotVars, TypeInv
<1>3. ASSUME NEW t \in Threads, NEW l \in Lines, SizeThrows(t, l)
      PROVE  TypeInv'
  <2>1. Return(t, l)
    BY <1>3 DEF SizeThrows
  <2>3. /\ tpc' \in [Threads -> {"idle", "rotating", "flushing"}]
        /\ line' \in [Threads -> Lines \cup {NoLine}]
    BY <2>1, Returned
  <2> QED
    BY <1>3, <2>1, <2>3 DEF SizeThrows, NewLine, sinkVars, rotVars, TypeInv
<1>4. ASSUME NEW t \in Threads, NEW l \in Lines, StartRotation(t, l)
      PROVE  TypeInv'
  <2>1. Drain
    BY <1>4 DEF StartRotation
  <2>2. /\ files' \in [0 .. MaxFiles -> Seq(Lines) \cup {Absent}]
        /\ history' \in Seq(Lines) /\ buffer' \in Seq(Lines)
    BY <2>1, Drained
  <2>3. /\ tpc' \in [Threads -> {"idle", "rotating", "flushing"}]
        /\ line' \in [Threads -> Lines \cup {NoLine}]
    BY <1>4 DEF StartRotation, TypeInv
  <2>4. removed' \in BOOLEAN /\ fd' \in BOOLEAN
    BY <1>4 DEF StartRotation
  <2>6. count' \in Nat
    BY <1>4 DEF StartRotation, NewLine, TypeInv
  <2>5. rot' \in 0 .. MaxFiles
    BY <1>4, Constants DEF StartRotation
  <2> QED
    BY <1>4, <2>2, <2>3, <2>4, <2>5, <2>6 DEF StartRotation, TypeInv
<1>5. ASSUME NEW t \in Threads, SkipMissing(t)
      PROVE  TypeInv'
  BY <1>5, Constants DEF SkipMissing, RenamesLeft, sinkVars, TypeInv
<1>6. ASSUME NEW t \in Threads, RemoveTarget(t)
      PROVE  TypeInv'
  BY <1>6 DEF RemoveTarget, sinkVars, TypeInv
<1>7. ASSUME NEW t \in Threads, RenameFile(t)
      PROVE  TypeInv'
  <2>1. rot - 1 \in 0 .. MaxFiles /\ rot \in 0 .. MaxFiles
    BY <1>7, Constants DEF RenameFile, Renaming, TypeInv
  <2> QED
    BY <1>7, <2>1 DEF RenameFile, sinkVars, TypeInv
<1>8. ASSUME NEW t \in Threads, RenameFails(t)
      PROVE  TypeInv'
  <2>1. line[t] \in Lines /\ Return(t, line[t])
    BY <1>8 DEF RenameFails, Rotating, Held
  <2>3. /\ tpc' \in [Threads -> {"idle", "rotating", "flushing"}]
        /\ line' \in [Threads -> Lines \cup {NoLine}]
    BY <2>1, Returned
  <2> QED
    BY <1>8, <2>1, <2>3, Constants DEF RenameFails, Reopen, TypeInv
<1>9. ASSUME NEW t \in Threads, FinishRotation(t)
      PROVE  TypeInv'
  <2>1. line[t] \in Lines /\ Return(t, line[t])
    BY <1>9 DEF FinishRotation, Rotating, Held
  <2>2. <<line[t]>> \in Seq(Lines) /\ line[t].size \in Nat
    BY <2>1, LineSizes
  <2>3. /\ tpc' \in [Threads -> {"idle", "rotating", "flushing"}]
        /\ line' \in [Threads -> Lines \cup {NoLine}]
    BY <2>1, Returned
  <2> QED
    BY <1>9, <2>1, <2>2, <2>3, Constants DEF FinishRotation, Reopen, rotVars, TypeInv
<1>10. ASSUME NEW t \in Threads, ReopenFails(t)
      PROVE  TypeInv'
  <2>1. line[t] \in Lines /\ Return(t, line[t])
    BY <1>10 DEF ReopenFails, Rotating, Held
  <2>3. /\ tpc' \in [Threads -> {"idle", "rotating", "flushing"}]
        /\ line' \in [Threads -> Lines \cup {NoLine}]
    BY <2>1, Returned
  <2> QED
    BY <1>10, <2>1, <2>3, Constants DEF ReopenFails, sinkVars, TypeInv
<1>11. ASSUME NEW t \in Threads, FlushLine(t)
      PROVE  TypeInv'
  <2>1. Drain
    BY <1>11 DEF FlushLine
  <2>2. /\ files' \in [0 .. MaxFiles -> Seq(Lines) \cup {Absent}]
        /\ history' \in Seq(Lines) /\ buffer' \in Seq(Lines)
    BY <2>1, Drained
  <2> QED
    BY <1>11, <2>2 DEF FlushLine, rotVars, TypeInv
<1>12. ASSUME PeriodicFlush
      PROVE  TypeInv'
  <2>1. Drain
    BY <1>12 DEF PeriodicFlush
  <2>2. /\ files' \in [0 .. MaxFiles -> Seq(Lines) \cup {Absent}]
        /\ history' \in Seq(Lines) /\ buffer' \in Seq(Lines)
    BY <2>1, Drained
  <2> QED
    BY <1>12, <2>2 DEF PeriodicFlush, rotVars, TypeInv
<1>13. ASSUME Kill
      PROVE  TypeInv'
  BY <1>13, Constants DEF Kill, TypeInv
<1>14. ASSUME Shutdown
      PROVE  TypeInv'
  <2>1. Drain
    BY <1>14 DEF Shutdown
  <2>2. /\ files' \in [0 .. MaxFiles -> Seq(Lines) \cup {Absent}]
        /\ history' \in Seq(Lines) /\ buffer' \in Seq(Lines)
    BY <2>1, Drained
  <2> QED
    BY <1>14, <2>2 DEF Shutdown, rotVars, TypeInv
<1>15. ASSUME Restart
      PROVE  TypeInv'
  BY <1>15, Constants, SizeFacts DEF Restart, OpenSize, Exists, rotVars, TypeInv
<1> QED
  BY <1>1, <1>2, <1>3, <1>4, <1>5, <1>6, <1>7, <1>8, <1>9, <1>10, <1>11, <1>12, <1>13, <1>14, <1>15
  DEF Next, ThreadStep

\* After Return no thread rotates when no other did, and whoever is not idle has
\* its line.
LEMMA ReturnedHeld ==
    ASSUME TypeInv, Held, NEW t \in Threads, NEW l \in Lines, Return(t, l), up, up' = up,
           \A s \in Threads \ {t} : tpc[s] # "rotating"
    PROVE  /\ \A s \in Threads : tpc'[s] # "rotating"
           /\ \A s \in Threads : tpc'[s] # "idle" => up' /\ line'[s] \in Lines
<1>1. /\ tpc'[t] \in {"idle", "flushing"}
      /\ tpc'[t] = "flushing" => line'[t] = l
      /\ \A s \in Threads \ {t} : tpc'[s] = tpc[s] /\ line'[s] = line[s]
  BY Returned
<1> QED
  BY <1>1 DEF Held

\* Every step keeps what Held says.
LEMMA HeldStep ==
    ASSUME TypeInv, Held, Next
    PROVE  Held'
<1>1. ASSUME NEW t \in Threads, NEW l \in Lines, WriteLine(t, l)
      PROVE  Held'
  <2>1. /\ \A s \in Threads : tpc'[s] # "rotating"
        /\ \A s \in Threads : tpc'[s] # "idle" => up' /\ line'[s] \in Lines
    BY <1>1, ReturnedHeld DEF WriteLine, NewLine, MutexFree
  <2> QED
    BY <1>1, <2>1 DEF WriteLine, NewLine, Held
<1>2. ASSUME NEW t \in Threads, NEW l \in Lines, WriteLongLine(t, l)
      PROVE  Held'
  <2>1. /\ \A s \in Threads : tpc'[s] # "rotating"
        /\ \A s \in Threads : tpc'[s] # "idle" => up' /\ line'[s] \in Lines
    BY <1>2, ReturnedHeld DEF WriteLongLine, NewLine, MutexFree
  <2> QED
    BY <1>2, <2>1 DEF WriteLongLine, NewLine, Held
<1>3. ASSUME NEW t \in Threads, NEW l \in Lines, SizeThrows(t, l)
      PROVE  Held'
  <2>1. /\ \A s \in Threads : tpc'[s] # "rotating"
        /\ \A s \in Threads : tpc'[s] # "idle" => up' /\ line'[s] \in Lines
    BY <1>3, ReturnedHeld DEF SizeThrows, NewLine, MutexFree
  <2> QED
    BY <1>3, <2>1 DEF SizeThrows, NewLine, sinkVars, Held
<1>4. ASSUME NEW t \in Threads, NEW l \in Lines, StartRotation(t, l)
      PROVE  Held'
  <2>1. \A s \in Threads \ {t} : tpc'[s] = tpc[s] /\ line'[s] = line[s] /\ tpc[s] # "rotating"
    BY <1>4 DEF StartRotation, NewLine, MutexFree, TypeInv
  <2>2. line'[t] = l /\ up' /\ up /\ ~fd' /\ buffer' = <<>>
    BY <1>4 DEF StartRotation, NewLine, Drain, TypeInv
  <2> QED
    BY <2>1, <2>2 DEF Held
<1>5. ASSUME NEW t \in Threads, SkipMissing(t) \/ RemoveTarget(t) \/ RenameFile(t)
      PROVE  Held'
  <2>1. ~fd
    BY <1>5 DEF SkipMissing, RemoveTarget, RenameFile, Rotating, Held
  <2>2. UNCHANGED <<fd, buffer, tpc, line, up>>
    BY <1>5 DEF SkipMissing, RemoveTarget, RenameFile, sinkVars
  <2> QED
    BY <2>1, <2>2 DEF Held
<1>6. ASSUME NEW t \in Threads, RenameFails(t) \/ FinishRotation(t) \/ ReopenFails(t)
      PROVE  Held'
  <2>1. up /\ up' = up /\ line[t] \in Lines /\ Return(t, line[t])
        /\ \A s \in Threads \ {t} : tpc[s] # "rotating"
    BY <1>6 DEF RenameFails, FinishRotation, ReopenFails, Rotating, Held
  <2>2. /\ \A s \in Threads : tpc'[s] # "rotating"
        /\ \A s \in Threads : tpc'[s] # "idle" => up' /\ line'[s] \in Lines
    BY <2>1, ReturnedHeld
  <2>3. fd' => files'[0] \in Seq(Lines)
    <3>1. CASE ReopenFails(t)
      BY <3>1 DEF ReopenFails, sinkVars, Rotating, Held
    <3>2. CASE RenameFails(t) \/ FinishRotation(t)
      <4>1. files' = [files EXCEPT ![0] = <<>>]
        BY <3>2 DEF RenameFails, FinishRotation, Reopen
      <4> QED
        BY <4>1, Constants DEF TypeInv
    <3> QED
      BY <1>6, <3>1, <3>2
  <2>4. ~fd' => buffer' = <<>>
    BY <1>6 DEF RenameFails, FinishRotation, Reopen, ReopenFails, sinkVars, Held
  <2> QED
    BY <2>1, <2>2, <2>3, <2>4 DEF Held
<1>7. ASSUME NEW t \in Threads, FlushLine(t)
      PROVE  Held'
  <2>1. Drain /\ UNCHANGED <<fd, up>> /\ MutexFree
    BY <1>7 DEF FlushLine
  <2>2. fd => files'[0] \in Seq(Lines)
    <3>1. files'[0] = IF fd THEN files[0] \o buffer ELSE files[0]
      BY <2>1, Drained
    <3> QED
      BY <3>1 DEF TypeInv, Held
  <2>3. /\ tpc'[t] = "idle"
        /\ \A s \in Threads \ {t} : tpc'[s] = tpc[s] /\ line'[s] = line[s]
    BY <1>7 DEF FlushLine, TypeInv
  <2>4. buffer' = <<>>
    BY <2>1 DEF Drain
  <2>5. \A s \in Threads : tpc'[s] # "rotating"
    BY <2>1, <2>3 DEF MutexFree
  <2>6. ASSUME NEW s \in Threads, tpc'[s] # "idle" PROVE up' /\ line'[s] \in Lines
    <3>1. tpc'[s] = tpc[s] /\ line'[s] = line[s]
      BY <2>3, <2>6
    <3>2. up /\ line[s] \in Lines
      BY <2>6, <3>1 DEF Held
    <3> QED
      BY <2>1, <3>1, <3>2
  <2> QED
    BY <2>1, <2>2, <2>4, <2>5, <2>6 DEF Held
<1>8. ASSUME PeriodicFlush
      PROVE  Held'
  <2>1. Drain /\ UNCHANGED <<fd, up, tpc, line>>
    BY <1>8 DEF PeriodicFlush
  <2>2. fd => files'[0] \in Seq(Lines)
    <3>1. files'[0] = IF fd THEN files[0] \o buffer ELSE files[0]
      BY <2>1, Drained
    <3> QED
      BY <3>1 DEF TypeInv, Held
  <2>4. buffer' = <<>>
    BY <2>1 DEF Drain
  <2> QED
    BY <2>1, <2>2, <2>4 DEF Held
<1>9. ASSUME Kill
      PROVE  Held'
  BY <1>9 DEF Kill, Held
<1>10. ASSUME Shutdown
      PROVE  Held'
  BY <1>10 DEF Shutdown, Drain, Held
<1>11. ASSUME Restart
      PROVE  Held'
  <2>1. files'[0] \in Seq(Lines)
    BY <1>11, Constants DEF Restart, Exists, TypeInv
  <2>2. \A t \in Threads : tpc[t] = "idle"
    BY <1>11 DEF Restart, Held
  <2> QED
    BY <1>11, <2>1, <2>2 DEF Restart, Held
<1> QED
  BY <1>1, <1>2, <1>3, <1>4, <1>5, <1>6, <1>7, <1>8, <1>9, <1>10, <1>11 DEF Next, ThreadStep

-----------------------------------------------------------------------------
\* The empty file fits, and so does a single line, which is as large as its size.
LEMMA FitsFacts ==
    /\ Fits(<<>>)
    /\ \A l \in Lines : /\ Fits(<<>> \o <<l>>)
                         /\ SizeOf(<<>> \o <<l>>) = l.size
<1>1. Fits(<<>>)
  BY SizeFacts, Constants DEF Fits
<1>2. ASSUME NEW l \in Lines
      PROVE  Fits(<<>> \o <<l>>) /\ SizeOf(<<>> \o <<l>>) = l.size
  <2>1. <<>> \in Seq(Lines) /\ <<>> \o <<l>> = Append(<<>>, l) /\ Len(<<>> \o <<l>>) = 1
    OBVIOUS
  <2>2. SizeOf(Append(<<>>, l)) = 0 + l.size
    BY <2>1, SizeFacts
  <2> QED
    BY <2>1, <2>2, LineSizes DEF Fits
<1> QED
  BY <1>1, <1>2

\* Drain changes neither the bounds nor what log_file will hold.
LEMMA DrainedBounded ==
    ASSUME TypeInv, Held, Bounded, Drain
    PROVE  /\ \A i \in 0 .. MaxFiles : files'[i] # Absent => Fits(files'[i])
           /\ fd => files'[0] \o buffer' = files[0] \o buffer
<1>1. /\ files'[0] = IF fd THEN files[0] \o buffer ELSE files[0]
      /\ \A i \in 1 .. MaxFiles : files'[i] = files[i]
  BY Drained
<1>2. ASSUME NEW i \in 0 .. MaxFiles, files'[i] # Absent PROVE Fits(files'[i])
  <2>1. CASE i = 0
    <3>1. CASE fd
      <4>1. files'[0] = files[0] \o buffer /\ Fits(files[0] \o buffer)
        BY <1>1, <3>1 DEF Bounded
      <4> QED
        BY <2>1, <4>1
    <3>2. CASE ~fd
      <4>1. files'[0] = files[0]
        BY <1>1, <3>2
      <4> QED
        BY <1>2, <2>1, <4>1 DEF Bounded
    <3> QED
      BY <3>1, <3>2
  <2>2. CASE i # 0
    <3>1. i \in 1 .. MaxFiles
      BY <2>2
    <3> QED
      BY <1>1, <1>2, <3>1 DEF Bounded
  <2> QED
    BY <2>1, <2>2
<1>3. ASSUME fd PROVE files'[0] \o buffer' = files[0] \o buffer
  <2>1. files[0] \o buffer \in Seq(Lines) /\ files'[0] = files[0] \o buffer /\ buffer' = <<>>
    BY <1>1, <1>3 DEF Held, TypeInv, Drain
  <2> QED
    BY <2>1, ConcatEmptySeq
<1> QED
  BY <1>2, <1>3

\* A line appended to the buffer is appended to what log_file will hold.
LEMMA AppendedAtEnd ==
    ASSUME NEW a \in Seq(Lines), NEW b \in Seq(Lines), NEW l \in Lines
    PROVE  a \o Append(b, l) = Append(a \o b, l) /\ a \o b \in Seq(Lines)
<1>1. a \o b \in Seq(Lines) /\ <<l>> \in Seq(Lines)
  OBVIOUS
<1>2. Append(b, l) = b \o <<l>> /\ Append(a \o b, l) = (a \o b) \o <<l>>
  BY <1>1, AppendIsConcat
<1>3. (a \o b) \o <<l>> = a \o (b \o <<l>>)
  BY <1>1, ConcatAssociative
<1> QED
  BY <1>1, <1>2, <1>3

\* Every step keeps the files within bounds, and current_size_ ahead of log_file.
LEMMA BoundedStep ==
    ASSUME TypeInv, Held, Renaming, Bounded, Next
    PROVE  Bounded'
<1>1. ASSUME NEW t \in Threads, NEW l \in Lines, WriteLine(t, l)
      PROVE  Bounded'
  <2>1. UNCHANGED <<files, fd>> /\ current_size' = current_size + l.size
        /\ current_size + l.size <= MaxSize
    BY <1>1 DEF WriteLine, new_size
  <2>2. ASSUME fd
        PROVE  Fits(files[0] \o buffer') /\ current_size' >= SizeOf(files[0] \o buffer')
    <3>1. buffer' = Append(buffer, l)
      BY <1>1, <2>2 DEF WriteLine
    <3>2. files[0] \in Seq(Lines) /\ buffer \in Seq(Lines)
      BY <2>2 DEF TypeInv, Held
    <3>3. files[0] \o buffer' = Append(files[0] \o buffer, l) /\ files[0] \o buffer \in Seq(Lines)
      BY <3>1, <3>2, AppendedAtEnd
    <3>4. SizeOf(files[0] \o buffer') = SizeOf(files[0] \o buffer) + l.size
          /\ SizeOf(files[0] \o buffer) \in Nat
      BY <3>3, SizeFacts
    <3>5. current_size >= SizeOf(files[0] \o buffer)
      BY <2>2 DEF Bounded
    <3>6. SizeOf(files[0] \o buffer') <= current_size'
      BY <2>1, <3>4, <3>5, LineSizes DEF TypeInv
    <3>7. SizeOf(files[0] \o buffer') <= MaxSize
      BY <2>1, <3>4, <3>5, LineSizes, Constants DEF TypeInv
    <3> QED
      BY <2>1, <3>6, <3>7, <3>4, LineSizes DEF Fits, TypeInv
  <2> QED
    BY <2>1, <2>2 DEF Bounded
<1>2. ASSUME NEW t \in Threads, NEW l \in Lines, WriteLongLine(t, l)
      PROVE  Bounded'
  <2>1. UNCHANGED <<files, fd>> /\ files[0] = <<>> /\ buffer' = <<l>>
        /\ current_size' = current_size + l.size
    BY <1>2 DEF WriteLongLine, new_size
  <2>2. Fits(<<>> \o <<l>>) /\ SizeOf(<<>> \o <<l>>) = l.size
    BY FitsFacts
  <2>3. current_size' >= l.size
    BY <2>1, LineSizes DEF TypeInv
  <2> QED
    BY <2>1, <2>2, <2>3 DEF Bounded
<1>3. ASSUME NEW t \in Threads, NEW l \in Lines, SizeThrows(t, l)
      PROVE  Bounded'
  BY <1>3 DEF SizeThrows, sinkVars, Bounded
<1>4. ASSUME NEW t \in Threads, NEW l \in Lines, StartRotation(t, l)
      PROVE  Bounded'
  <2>1. Drain /\ ~fd'
    BY <1>4 DEF StartRotation
  <2>2. \A i \in 0 .. MaxFiles : files'[i] # Absent => Fits(files'[i])
    BY <2>1, DrainedBounded
  <2> QED
    BY <2>1, <2>2 DEF Bounded
<1>5. ASSUME NEW t \in Threads, SkipMissing(t)
      PROVE  Bounded'
  BY <1>5 DEF SkipMissing, sinkVars, Bounded
<1>6. ASSUME NEW t \in Threads, RemoveTarget(t)
      PROVE  Bounded'
  <2>1. files' = [files EXCEPT ![rot] = Absent] /\ ~fd'
    BY <1>6 DEF RemoveTarget, Rotating, sinkVars, Held
  <2>2. \A i \in 0 .. MaxFiles : files'[i] = files[i] \/ files'[i] = Absent
    BY <2>1 DEF TypeInv
  <2> QED
    BY <2>1, <2>2 DEF Bounded
<1>7. ASSUME NEW t \in Threads, RenameFile(t)
      PROVE  Bounded'
  <2>1. files' = [files EXCEPT ![rot] = files[rot - 1], ![rot - 1] = Absent] /\ ~fd'
    BY <1>7 DEF RenameFile, Rotating, sinkVars, Held
  <2>2. rot - 1 \in 0 .. MaxFiles
    BY <1>7, Constants DEF RenameFile, Renaming, TypeInv
  <2>3. \A i \in 0 .. MaxFiles :
            files'[i] = files[i] \/ files'[i] = Absent \/ files'[i] = files[rot - 1]
    BY <2>1 DEF TypeInv
  <2> QED
    BY <2>1, <2>2, <2>3 DEF Bounded
<1>8. ASSUME NEW t \in Threads, RenameFails(t) \/ FinishRotation(t)
      PROVE  Bounded'
  <2>1. files' = [files EXCEPT ![0] = <<>>]
    BY <1>8 DEF RenameFails, FinishRotation, Reopen
  <2>2. files'[0] = <<>> /\ \A i \in 0 .. MaxFiles : files'[i] = files[i] \/ files'[i] = <<>>
    BY <2>1, Constants DEF TypeInv
  <2>3. \A i \in 0 .. MaxFiles : files'[i] # Absent => Fits(files'[i])
    BY <2>2, FitsFacts DEF Bounded
  <2>4. CASE RenameFails(t)
    <3>1. buffer' = <<>> /\ current_size' = 0
      BY <2>4 DEF RenameFails, Rotating, Held
    <3>2. files'[0] \o buffer' = <<>>
      BY <2>2, <3>1
    <3> QED
      BY <2>3, <3>1, <3>2, FitsFacts, SizeFacts DEF Bounded
  <2>5. CASE FinishRotation(t)
    <3>1. buffer' = <<line[t]>> /\ current_size' = line[t].size /\ line[t] \in Lines
      BY <2>5 DEF FinishRotation, Rotating, Held
    <3>2. Fits(<<>> \o <<line[t]>>) /\ SizeOf(<<>> \o <<line[t]>>) = line[t].size
      BY <3>1, FitsFacts
    <3>3. line[t].size \in Nat
      BY <3>1, LineSizes
    <3> QED
      BY <2>2, <2>3, <3>1, <3>2, <3>3 DEF Bounded
  <2> QED
    BY <1>8, <2>4, <2>5
<1>9. ASSUME NEW t \in Threads, ReopenFails(t)
      PROVE  Bounded'
  <2>1. ~fd'
    BY <1>9 DEF ReopenFails, Rotating, sinkVars, Held
  <2>2. \A i \in 0 .. MaxFiles : files'[i] = files[i] \/ files'[i] = <<>>
    BY <1>9, Constants DEF ReopenFails, TypeInv
  <2> QED
    BY <2>1, <2>2, FitsFacts DEF Bounded
<1>10. ASSUME (\E t \in Threads : FlushLine(t)) \/ PeriodicFlush
      PROVE  Bounded'
  <2>1. Drain /\ UNCHANGED <<fd, current_size>>
    BY <1>10 DEF FlushLine, PeriodicFlush
  <2>2. /\ \A i \in 0 .. MaxFiles : files'[i] # Absent => Fits(files'[i])
        /\ fd => files'[0] \o buffer' = files[0] \o buffer
    BY <2>1, DrainedBounded
  <2>3. ASSUME fd PROVE Fits(files'[0] \o buffer') /\ current_size' >= SizeOf(files'[0] \o buffer')
    BY <2>1, <2>2, <2>3 DEF Bounded
  <2> QED
    BY <2>1, <2>2, <2>3 DEF Bounded
<1>11. ASSUME Kill
      PROVE  Bounded'
  BY <1>11 DEF Kill, Bounded
<1>12. ASSUME Shutdown
      PROVE  Bounded'
  <2>1. Drain /\ ~fd'
    BY <1>12 DEF Shutdown
  <2>2. \A i \in 0 .. MaxFiles : files'[i] # Absent => Fits(files'[i])
    BY <2>1, DrainedBounded
  <2> QED
    BY <2>1, <2>2 DEF Bounded
<1>13. ASSUME Restart
      PROVE  Bounded'
  <2>1. buffer' = <<>>
    BY <1>13 DEF Restart, Held
  <2>2. CASE Exists(0)
    <3>1. files' = files /\ current_size' = SizeOf(files[0]) /\ files[0] \in Seq(Lines)
      BY <1>13, <2>2, Constants DEF Restart, OpenSize, Exists, TypeInv
    <3>2. files[0] \o <<>> = files[0] /\ SizeOf(files[0]) \in Nat
      BY <3>1, ConcatEmptySeq, SizeFacts
    <3>3. Fits(files[0])
      BY <2>2, Constants DEF Exists, Bounded
    <3>4. files'[0] \o buffer' = files[0]
      BY <2>1, <3>1, <3>2
    <3> QED
      BY <3>1, <3>2, <3>3, <3>4 DEF Bounded
  <2>3. CASE ~Exists(0)
    <3>1. files' = [files EXCEPT ![0] = <<>>] /\ current_size' = 0
      BY <1>13, <2>3 DEF Restart, OpenSize
    <3>2. files'[0] = <<>> /\ \A i \in 0 .. MaxFiles : files'[i] = files[i] \/ files'[i] = <<>>
      BY <3>1, Constants DEF TypeInv
    <3>3. \A i \in 0 .. MaxFiles : files'[i] # Absent => Fits(files'[i])
      BY <3>2, FitsFacts DEF Bounded
    <3>4. files'[0] \o buffer' = <<>>
      BY <2>1, <3>2
    <3> QED
      BY <3>1, <3>3, <3>4, FitsFacts, SizeFacts DEF Bounded
  <2> QED
    BY <2>2, <2>3
<1> QED
  BY <1>1, <1>2, <1>3, <1>4, <1>5, <1>6, <1>7, <1>8, <1>9, <1>10, <1>11, <1>12, <1>13
  DEF Next, ThreadStep

-----------------------------------------------------------------------------
\* A step that ends no rotation half way and touches log_file only.
LEMMA Quiet ==
    ASSUME Renaming, removed' = FALSE, \A t \in Threads : tpc'[t] # "rotating",
           \A i \in 1 .. MaxFiles : files'[i] = files[i]
    PROVE  Renaming'
BY DEF Renaming

\* Only a rotation removes.
LEMMA NoneRemoved ==
    ASSUME TypeInv, Renaming, \A t \in Threads : tpc[t] # "rotating"
    PROVE  removed = FALSE
BY DEF TypeInv, Renaming

\* Every step keeps the order of the renaming.
LEMMA RenamingStep ==
    ASSUME TypeInv, Held, Renaming, Next
    PROVE  Renaming'
<1>1. ASSUME NEW t \in Threads, NEW l \in Lines,
             WriteLine(t, l) \/ WriteLongLine(t, l) \/ SizeThrows(t, l)
      PROVE  Renaming'
  <2>1. up /\ up' = up /\ Return(t, l) /\ UNCHANGED <<files, removed>>
        /\ \A s \in Threads : tpc[s] # "rotating"
    BY <1>1 DEF WriteLine, WriteLongLine, SizeThrows, NewLine, MutexFree, rotVars
  <2>2. \A s \in Threads : tpc'[s] # "rotating"
    BY <2>1, ReturnedHeld
  <2>3. removed' = FALSE
    BY <2>1, NoneRemoved
  <2> QED
    BY <2>1, <2>2, <2>3, Quiet
<1>2. ASSUME NEW t \in Threads, NEW l \in Lines, StartRotation(t, l)
      PROVE  Renaming'
  <2>1. Drain /\ fd /\ rot' = MaxFiles /\ removed' = FALSE /\ (files[0] # <<>> \/ buffer # <<>>)
    BY <1>2 DEF StartRotation
  <2>2. /\ files'[0] = IF fd THEN files[0] \o buffer ELSE files[0]
        /\ \A i \in 1 .. MaxFiles : files'[i] = files[i]
    BY <2>1, Drained
  <2>3. files[0] \in Seq(Lines) /\ buffer \in Seq(Lines)
    BY <2>1 DEF TypeInv, Held
  <2>4. files[0] \o buffer # <<>>
    BY <2>1, <2>3, ConcatEqualIffEmpty
  <2> QED
    BY <2>1, <2>2, <2>4, Constants DEF Renaming
<1>3. ASSUME NEW t \in Threads, SkipMissing(t)
      PROVE  Renaming'
  <2>1. files[rot - 1] = Absent /\ rot' = rot - 1 /\ UNCHANGED <<files, tpc, removed>>
        /\ tpc[t] = "rotating"
    BY <1>3 DEF SkipMissing, Exists, Rotating
  <2>2. ~removed
    BY <2>1 DEF Renaming
  <2> QED
    BY <2>1, <2>2 DEF Renaming
<1>4. ASSUME NEW t \in Threads, RemoveTarget(t)
      PROVE  Renaming'
  <2>1. files' = [files EXCEPT ![rot] = Absent] /\ UNCHANGED <<rot, tpc>> /\ rot > 0
        /\ files[rot - 1] # Absent /\ tpc[t] = "rotating"
    BY <1>4 DEF RemoveTarget, Exists, Rotating, RenamesLeft
  <2>2. rot \in 0 .. MaxFiles /\ rot # 0 /\ rot - 1 # rot /\ rot - 1 \in 0 .. MaxFiles
    BY <2>1, Constants DEF TypeInv
  <2>3. files'[rot] = Absent /\ \A i \in 0 .. MaxFiles : i # rot => files'[i] = files[i]
    BY <2>1, <2>2 DEF TypeInv
  <2>4. \A i \in 1 .. MaxFiles : files'[i] # <<>>
    BY <2>3, Constants DEF Renaming
  <2>5. files'[0] # <<>>
    BY <2>1, <2>2, <2>3, Constants DEF Renaming
  <2> QED
    BY <2>1, <2>2, <2>3, <2>4, <2>5 DEF Renaming
<1>5. ASSUME NEW t \in Threads, RenameFile(t)
      PROVE  Renaming'
  <2>1. files' = [files EXCEPT ![rot] = files[rot - 1], ![rot - 1] = Absent]
        /\ rot' = rot - 1 /\ removed' = FALSE /\ tpc' = tpc /\ tpc[t] = "rotating" /\ removed
    BY <1>5 DEF RenameFile, Rotating
  <2>2. rot \in 0 .. MaxFiles /\ rot # 0 /\ rot - 1 # rot /\ rot - 1 \in 0 .. MaxFiles
    BY <2>1, Constants DEF TypeInv, Renaming
  <2>3. /\ files'[rot] = files[rot - 1] /\ files'[rot - 1] = Absent
        /\ \A i \in 0 .. MaxFiles : i # rot /\ i # rot - 1 => files'[i] = files[i]
    BY <2>1, <2>2 DEF TypeInv
  <2>4. files[rot - 1] # <<>> /\ files[0] # <<>>
    <3>1. files[0] # <<>>
      BY <2>1 DEF Renaming
    <3>2. CASE rot - 1 = 0
      BY <3>1, <3>2
    <3>3. CASE rot - 1 # 0
      <4>1. rot - 1 \in 1 .. MaxFiles
        BY <2>2, <3>3
      <4> QED
        BY <3>1, <4>1 DEF Renaming
    <3> QED
      BY <3>2, <3>3
  <2>5. \A i \in 0 .. MaxFiles : files[i] # <<>> => files'[i] # <<>>
    BY <2>3, <2>4, Constants
  <2>6. \A i \in 1 .. MaxFiles : files'[i] # <<>>
    BY <2>5, Constants DEF Renaming
  <2>7. files'[0] # <<>>
    BY <2>4, <2>5, Constants
  <2> QED
    BY <2>1, <2>3, <2>6, <2>7 DEF Renaming
<1>6. ASSUME NEW t \in Threads, RenameFails(t) \/ FinishRotation(t) \/ ReopenFails(t)
      PROVE  Renaming'
  <2>1. up /\ up' = up /\ line[t] \in Lines /\ Return(t, line[t])
        /\ \A s \in Threads \ {t} : tpc[s] # "rotating"
    BY <1>6 DEF RenameFails, FinishRotation, ReopenFails, Rotating, Held
  <2>2. \A s \in Threads : tpc'[s] # "rotating"
    BY <2>1, ReturnedHeld
  <2>3. removed' = FALSE
    <3>1. CASE FinishRotation(t)
      <4>1. ~ (rot > 0) /\ removed' = removed
        BY <3>1 DEF FinishRotation, RenamesLeft, rotVars
      <4> QED
        BY <4>1 DEF Renaming, TypeInv
    <3>2. CASE RenameFails(t) \/ ReopenFails(t)
      BY <3>2 DEF RenameFails, ReopenFails
    <3> QED
      BY <1>6, <3>1, <3>2
  <2>4. files' = files \/ files' = [files EXCEPT ![0] = <<>>]
    BY <1>6 DEF RenameFails, FinishRotation, ReopenFails, Reopen
  <2>5. \A i \in 1 .. MaxFiles : files'[i] = files[i]
    BY <2>4, Constants DEF TypeInv
  <2> QED
    BY <2>2, <2>3, <2>5, Quiet
<1>7. ASSUME NEW t \in Threads, FlushLine(t)
      PROVE  Renaming'
  <2>1. Drain /\ removed' = removed /\ tpc' = [tpc EXCEPT ![t] = "idle"]
        /\ \A s \in Threads : tpc[s] # "rotating"
    BY <1>7 DEF FlushLine, MutexFree, rotVars
  <2>2. \A i \in 1 .. MaxFiles : files'[i] = files[i]
    BY <2>1, Drained
  <2>3. \A s \in Threads : tpc'[s] # "rotating"
    BY <2>1 DEF TypeInv
  <2>4. removed' = FALSE
    BY <2>1, NoneRemoved
  <2> QED
    BY <2>2, <2>3, <2>4, Quiet
<1>8. ASSUME PeriodicFlush \/ Shutdown
      PROVE  Renaming'
  <2>1. Drain /\ removed' = removed /\ tpc' = tpc /\ \A s \in Threads : tpc[s] # "rotating"
    BY <1>8 DEF PeriodicFlush, Shutdown, MutexFree, rotVars
  <2>2. \A i \in 1 .. MaxFiles : files'[i] = files[i]
    BY <2>1, Drained
  <2>4. removed' = FALSE
    BY <2>1, NoneRemoved
  <2> QED
    BY <2>1, <2>2, <2>4, Quiet
<1>9. ASSUME Kill
      PROVE  Renaming'
  BY <1>9, Quiet DEF Kill
<1>10. ASSUME Restart
      PROVE  Renaming'
  <2>1. removed' = removed /\ tpc' = tpc /\ \A s \in Threads : tpc[s] # "rotating"
    BY <1>10 DEF Restart, rotVars, Held
  <2>2. \A i \in 1 .. MaxFiles : files'[i] = files[i]
    BY <1>10, Constants DEF Restart, TypeInv
  <2>3. removed' = FALSE
    BY <2>1, NoneRemoved
  <2> QED
    BY <2>1, <2>2, <2>3, Quiet
<1> QED
  BY <1>1, <1>2, <1>3, <1>4, <1>5, <1>6, <1>7, <1>8, <1>9, <1>10 DEF Next, ThreadStep

-----------------------------------------------------------------------------
(***************************************************************************)
(* The files read as one, the oldest first.                                *)
(***************************************************************************)
N == MaxFiles + 1

\* What file i of the directory d adds to the log.
Content(d, i) == IF d[i] # Absent THEN d[i] ELSE <<>>

Parts(d) == [k \in 1 .. MaxFiles + 1 |->
                IF d[MaxFiles + 1 - k] # Absent THEN d[MaxFiles + 1 - k] ELSE <<>>]

\* OnDisk is the parts, joined, before a step and after it.
LEMMA DiskParts ==
    /\ OnDisk = FlattenSeq(Parts(files))
    /\ OnDisk' = FlattenSeq(Parts(files'))
BY DEF OnDisk, Parts, Exists

\* The parts are sequences of lines.
LEMMA PartsType ==
    ASSUME NEW d \in [0 .. MaxFiles -> Seq(Lines) \cup {Absent}]
    PROVE  /\ N \in Nat \ {0} /\ N > 1
           /\ Parts(d) \in [1 .. N -> Seq(Lines)]
           /\ \A i \in 0 .. MaxFiles : N - i \in 1 .. N /\ Parts(d)[N - i] = Content(d, i)
           /\ \A k \in 1 .. N : N - k \in 0 .. MaxFiles /\ Parts(d)[k] = Content(d, N - k)
<1>1. N \in Nat \ {0} /\ N > 1 /\ N = MaxFiles + 1
  BY Constants DEF N
<1>2. \A i \in 0 .. MaxFiles : Content(d, i) \in Seq(Lines)
  BY Constants DEF Content
<1>3. \A k \in 1 .. N : N - k \in 0 .. MaxFiles /\ Parts(d)[k] = Content(d, N - k)
  BY <1>1, Constants DEF Parts, Content
<1>4. Parts(d) \in [1 .. N -> Seq(Lines)]
  <2>1. Parts(d) = [k \in 1 .. N |-> Parts(d)[k]]
    BY <1>1 DEF Parts
  <2> QED
    BY <1>2, <1>3, <2>1
<1>5. ASSUME NEW i \in 0 .. MaxFiles
      PROVE  N - i \in 1 .. N /\ Parts(d)[N - i] = Content(d, i)
  <2>1. N - i \in 1 .. N /\ N - (N - i) = i
    BY <1>1, Constants
  <2> QED
    BY <1>3, <2>1
<1> QED
  BY <1>1, <1>3, <1>4, <1>5

\* The log is a sequence of lines.
LEMMA DiskType ==
    ASSUME TypeInv
    PROVE  OnDisk \in Seq(Lines)
<1>1. N \in Nat \ {0} /\ Parts(files) \in [1 .. N -> Seq(Lines)]
  BY PartsType DEF TypeInv
<1>2. FlattenSeq(Parts(files)) \in Seq(Lines)
  BY <1>1, FlattenType
<1> QED
  BY <1>2, DiskParts

\* A step that changes no file, or turns a missing one into an empty one.
LEMMA DiskSame ==
    ASSUME \A i \in 0 .. MaxFiles : Content(files', i) = Content(files, i)
    PROVE  OnDisk' = OnDisk
<1>1. \A k \in 1 .. N : N - k \in 0 .. MaxFiles
  BY Constants DEF N
<1>2. Parts(files') = Parts(files)
  BY <1>1, Constants DEF Parts, Content, N
<1> QED
  BY <1>2, DiskParts

\* Drain adds the buffer to the log.
LEMMA DiskDrained ==
    ASSUME TypeInv, Held, Drain
    PROVE  OnDisk' = Cat(OnDisk, buffer)
<1>1. /\ files'[0] = IF fd THEN files[0] \o buffer ELSE files[0]
      /\ \A i \in 1 .. MaxFiles : files'[i] = files[i]
      /\ files' \in [0 .. MaxFiles -> Seq(Lines) \cup {Absent}]
  BY Drained
<1>2. buffer \in Seq(Lines) /\ files \in [0 .. MaxFiles -> Seq(Lines) \cup {Absent}]
  BY DEF TypeInv
<1>3. Content(files', 0) = Cat(Content(files, 0), buffer)
  <2>1. CASE fd
    <3>1. files[0] \in Seq(Lines) /\ files'[0] = files[0] \o buffer /\ files'[0] \in Seq(Lines)
      BY <1>1, <1>2, <2>1 DEF Held
    <3>2. files[0] # Absent /\ files'[0] # Absent
      BY <3>1, RotatingLogAssumption
    <3> QED
      BY <3>1, <3>2 DEF Content, Cat
  <2>2. CASE ~fd
    <3>1. files'[0] = files[0] /\ buffer = <<>>
      BY <1>1, <2>2 DEF Held
    <3>2. Content(files, 0) \in Seq(Lines)
      BY <1>2, Constants DEF Content
    <3>3. Cat(Content(files, 0), <<>>) = Content(files, 0)
      BY <3>2, CatNothing
    <3>4. Content(files', 0) = Content(files, 0)
      BY <3>1 DEF Content
    <3> QED
      BY <3>1, <3>3, <3>4
  <2> QED
    BY <2>1, <2>2
<1> DEFINE q == Parts(files)
           r == Parts(files')
<1>4. /\ N \in Nat \ {0} /\ N > 1
      /\ q \in [1 .. N -> Seq(Lines)]
      /\ \A i \in 0 .. MaxFiles : N - i \in 1 .. N /\ q[N - i] = Content(files, i)
      /\ \A k \in 1 .. N : N - k \in 0 .. MaxFiles /\ q[k] = Content(files, N - k)
  BY <1>2, PartsType
<1>5. /\ r \in [1 .. N -> Seq(Lines)]
      /\ \A k \in 1 .. N : N - k \in 0 .. MaxFiles /\ r[k] = Content(files', N - k)
  BY <1>1, PartsType
<1> HIDE DEF q, r
<1>6. \A k \in 1 .. N - 1 : q[k] = r[k]
  <2> SUFFICES ASSUME NEW k \in 1 .. N - 1 PROVE q[k] = r[k]
    OBVIOUS
  <2>1. k \in 1 .. N /\ N - k \in 1 .. MaxFiles
    BY <1>4, Constants DEF N
  <2>2. files'[N - k] = files[N - k]
    BY <1>1, <2>1
  <2> QED
    BY <1>4, <1>5, <2>1, <2>2 DEF Content
<1>7. r[N] = Cat(q[N], buffer)
  <2>1. N \in 1 .. N /\ N - N = 0
    BY <1>4
  <2> QED
    BY <1>3, <1>4, <1>5, <2>1
<1>8. FlattenSeq(r) = Cat(FlattenSeq(q), buffer)
  <2>1. N \in Nat \ {0} /\ N > 1
    BY <1>4
  <2>2. q \in [1 .. N -> Seq(Lines)] /\ r \in [1 .. N -> Seq(Lines)] /\ buffer \in Seq(Lines)
    BY <1>2, <1>4, <1>5
  <2>3. Grows(q, r, N, buffer)
    BY <1>6, <1>7 DEF Grows
  <2> QED
    BY <2>1, <2>2, <2>3, FlattenLast
<1> QED
  BY <1>8, DiskParts DEF q, r

\* A step that touches neither the log nor what was flushed keeps the one an end
\* of the other.
LEMMA KeptSame ==
    ASSUME Kept, OnDisk' = OnDisk, UNCHANGED <<history, failed>>
    PROVE  Kept'
BY DEF Kept

\* So does a flush.
LEMMA KeptDrained ==
    ASSUME TypeInv, Held, Kept, Drain, failed' = failed
    PROVE  Kept'
<1> SUFFICES ASSUME ~failed
             PROVE  /\ \E u \in Seq(Lines) : history' = Cat(u, OnDisk')
                    /\ history' # <<>> => OnDisk' # <<>>
  BY DEF Kept
<1>1. PICK u \in Seq(Lines) : history = Cat(u, OnDisk)
  BY DEF Kept
<1>2. history # <<>> => OnDisk # <<>>
  BY DEF Kept
<1>3. OnDisk \in Seq(Lines) /\ buffer \in Seq(Lines) /\ history \in Seq(Lines)
  BY DiskType DEF TypeInv
<1>4. OnDisk' = Cat(OnDisk, buffer) /\ history' = Cat(history, buffer)
  BY DiskDrained DEF Drain, Cat
<1>5. Cat(Cat(u, OnDisk), buffer) = Cat(u, Cat(OnDisk, buffer))
  BY <1>3, CatAssociates
<1>6. history' = Cat(u, OnDisk')
  BY <1>1, <1>4, <1>5
<1>7. history' # <<>> => OnDisk' # <<>>
  <2>1. Cat(history, buffer) = <<>> <=> history = <<>> /\ buffer = <<>>
    BY <1>3, CatEmpty
  <2>2. Cat(OnDisk, buffer) = <<>> <=> OnDisk = <<>> /\ buffer = <<>>
    BY <1>3, CatEmpty
  <2> QED
    BY <1>2, <1>4, <2>1, <2>2
<1> QED
  BY <1>6, <1>7

\* rename_file_ removes the oldest file, the front of the log, and leaves a file
\* with something in it; any other name it would remove is free already.
LEMMA KeptRemoved ==
    ASSUME TypeInv, Renaming, Kept, NEW t \in Threads, RemoveTarget(t)
    PROVE  Kept'
<1>1. files' = [files EXCEPT ![rot] = Absent] /\ UNCHANGED <<history, failed>> /\ rot > 0
      /\ files[rot - 1] # Absent /\ tpc[t] = "rotating"
  BY DEF RemoveTarget, Exists, Rotating, RenamesLeft
<1>2. rot \in 0 .. MaxFiles /\ rot # 0 /\ rot - 1 # rot /\ rot - 1 \in 0 .. MaxFiles
      /\ files \in [0 .. MaxFiles -> Seq(Lines) \cup {Absent}]
  BY <1>1, Constants DEF TypeInv
<1>3. files'[rot] = Absent /\ (\A i \in 0 .. MaxFiles : i # rot => files'[i] = files[i])
      /\ files' \in [0 .. MaxFiles -> Seq(Lines) \cup {Absent}]
  BY <1>1, <1>2
<1>4. CASE rot < MaxFiles
  <2>1. files[rot] = Absent
    BY <1>1, <1>4 DEF Renaming
  <2>2. \A i \in 0 .. MaxFiles : files'[i] = files[i]
    BY <1>3, <2>1
  <2>3. OnDisk' = OnDisk
    BY <2>2, DiskSame DEF Content
  <2> QED
    BY <1>1, <2>3, KeptSame
<1>5. CASE rot = MaxFiles
  <2> DEFINE q == Parts(files)
             r == Parts(files')
  <2>1. /\ N \in Nat \ {0} /\ N > 1 /\ q \in [1 .. N -> Seq(Lines)]
        /\ \A k \in 1 .. N : N - k \in 0 .. MaxFiles /\ q[k] = Content(files, N - k)
    BY <1>2, PartsType
  <2>2. /\ r \in [1 .. N -> Seq(Lines)]
        /\ \A k \in 1 .. N : N - k \in 0 .. MaxFiles /\ r[k] = Content(files', N - k)
    BY <1>3, PartsType
  <2> HIDE DEF q, r
  <2>3. Drops(q, r, N)
    <3>1. 1 \in 1 .. N /\ N - 1 = rot
      BY <1>5, <2>1, Constants DEF N
    <3>2. r[1] = <<>>
      BY <1>3, <2>2, <3>1 DEF Content
    <3>3. ASSUME NEW k \in 2 .. N PROVE q[k] = r[k]
      <4>1. k \in 1 .. N /\ N - k \in 0 .. MaxFiles /\ N - k # rot
        BY <1>5, <2>1, Constants DEF N
      <4>2. files'[N - k] = files[N - k]
        BY <1>3, <4>1
      <4> QED
        BY <2>1, <2>2, <4>1, <4>2 DEF Content
    <3> QED
      BY <3>2, <3>3 DEF Drops
  <2>4. FlattenSeq(q) = Cat(q[1], FlattenSeq(r))
    <3>1. N \in Nat \ {0} /\ N > 1 /\ q \in [1 .. N -> Seq(Lines)] /\ r \in [1 .. N -> Seq(Lines)]
      BY <2>1, <2>2
    <3> QED
      BY <2>3, <3>1, FlattenFirst
  <2>5. FlattenSeq(r) # <<>> /\ FlattenSeq(r) \in Seq(Lines) /\ q[1] \in Seq(Lines)
    <3>1. 2 \in 1 .. N /\ N - 2 = rot - 1 /\ 1 \in 1 .. N
      BY <1>5, <2>1, Constants DEF N
    <3>2. r[2] = files[rot - 1]
      BY <1>1, <1>2, <1>3, <2>2, <3>1 DEF Content
    <3>3. files[rot - 1] # <<>>
      <4>1. CASE rot - 1 = 0
        BY <1>1, <4>1 DEF Renaming
      <4>2. CASE rot - 1 # 0
        <5>1. rot - 1 \in 1 .. MaxFiles
          BY <1>2, <4>2
        <5> QED
          BY <5>1 DEF Renaming
      <4> QED
        BY <4>1, <4>2
    <3>4. N \in Nat \ {0} /\ r \in [1 .. N -> Seq(Lines)]
      BY <2>1, <2>2
    <3>5. FlattenSeq(r) # <<>>
      BY <3>1, <3>2, <3>3, <3>4, FlattenNonEmpty
    <3>6. FlattenSeq(r) \in Seq(Lines)
      BY <3>4, FlattenType
    <3> QED
      BY <2>1, <3>1, <3>5, <3>6
  <2>6. OnDisk = FlattenSeq(q) /\ OnDisk' = FlattenSeq(r)
    BY DiskParts DEF q, r
  <2>7. ASSUME ~failed PROVE \E u \in Seq(Lines) : history = Cat(u, OnDisk')
    <3>1. PICK u \in Seq(Lines) : history = Cat(u, OnDisk)
      BY <2>7 DEF Kept
    <3>2. Cat(Cat(u, q[1]), FlattenSeq(r)) = Cat(u, Cat(q[1], FlattenSeq(r)))
      BY <2>5, CatAssociates
    <3>3. Cat(u, q[1]) \in Seq(Lines)
      BY <2>5, CatType
    <3>4. history = Cat(Cat(u, q[1]), OnDisk')
      BY <2>4, <2>6, <3>1, <3>2
    <3> QED
      BY <3>3, <3>4
  <2> QED
    BY <1>1, <2>5, <2>6, <2>7 DEF Kept
<1> QED
  BY <1>2, <1>4, <1>5, Constants

\* A file is renamed to the free name before it, and the log stays as it is.
LEMMA KeptRenamed ==
    ASSUME TypeInv, Renaming, Kept, NEW t \in Threads, RenameFile(t)
    PROVE  Kept'
<1>1. files' = [files EXCEPT ![rot] = files[rot - 1], ![rot - 1] = Absent]
      /\ UNCHANGED <<history, failed>> /\ removed
  BY DEF RenameFile
<1>2. rot \in 1 .. MaxFiles /\ rot \in 0 .. MaxFiles /\ rot - 1 # rot /\ rot - 1 \in 0 .. MaxFiles
      /\ files \in [0 .. MaxFiles -> Seq(Lines) \cup {Absent}] /\ files[rot] = Absent
  BY <1>1, Constants DEF TypeInv, Renaming
<1>3. /\ files'[rot] = files[rot - 1] /\ files'[rot - 1] = Absent
      /\ \A i \in 0 .. MaxFiles : i # rot /\ i # rot - 1 => files'[i] = files[i]
      /\ files' \in [0 .. MaxFiles -> Seq(Lines) \cup {Absent}]
  BY <1>1, <1>2
<1> DEFINE q == Parts(files)
           r == Parts(files')
           j == N - rot
<1>4. /\ N \in Nat \ {0} /\ q \in [1 .. N -> Seq(Lines)]
      /\ \A k \in 1 .. N : N - k \in 0 .. MaxFiles /\ q[k] = Content(files, N - k)
  BY <1>2, PartsType
<1>5. /\ r \in [1 .. N -> Seq(Lines)]
      /\ \A k \in 1 .. N : N - k \in 0 .. MaxFiles /\ r[k] = Content(files', N - k)
  BY <1>3, PartsType
<1>6. j \in 1 .. N - 1 /\ j \in 1 .. N /\ j + 1 \in 1 .. N /\ N - j = rot /\ N - (j + 1) = rot - 1
  BY <1>2, <1>4, Constants DEF N
<1>7. \A k \in 1 .. N : k # j /\ k # j + 1 => N - k # rot /\ N - k # rot - 1
  BY <1>2, <1>4
<1> HIDE DEF q, r, j
<1>8. Moves(q, r, N, j)
  <2>1. q[j] = Content(files, rot) /\ q[j + 1] = Content(files, rot - 1)
    BY <1>4, <1>6
  <2>2. r[j] = Content(files', rot) /\ r[j + 1] = Content(files', rot - 1)
    BY <1>5, <1>6
  <2>3. q[j] = <<>> /\ r[j] = q[j + 1] /\ r[j + 1] = <<>>
    BY <1>2, <1>3, <2>1, <2>2 DEF Content
  <2>4. ASSUME NEW k \in 1 .. N, k # j, k # j + 1 PROVE q[k] = r[k]
    <3>1. N - k \in 0 .. MaxFiles /\ N - k # rot /\ N - k # rot - 1
      BY <1>4, <1>7, <2>4
    <3>2. files'[N - k] = files[N - k]
      BY <1>3, <3>1
    <3> QED
      BY <1>4, <1>5, <3>2 DEF Content
  <2> QED
    BY <2>3, <2>4 DEF Moves
<1>9. FlattenSeq(q) = FlattenSeq(r)
  <2>1. N \in Nat \ {0} /\ q \in [1 .. N -> Seq(Lines)] /\ r \in [1 .. N -> Seq(Lines)]
        /\ j \in 1 .. N - 1
    BY <1>4, <1>5, <1>6
  <2> QED
    BY <1>8, <2>1, FlattenMove
<1>10. OnDisk' = OnDisk
  BY <1>9, DiskParts DEF q, r
<1> QED
  BY <1>1, <1>10, KeptSame

\* Every step keeps the log an end of what was flushed.
LEMMA KeptStep ==
    ASSUME TypeInv, Held, Renaming, Kept, Next
    PROVE  Kept'
<1>1. ASSUME NEW t \in Threads, NEW l \in Lines,
             WriteLine(t, l) \/ WriteLongLine(t, l) \/ SizeThrows(t, l)
      PROVE  Kept'
  <2>1. UNCHANGED <<files, history, failed>>
    BY <1>1 DEF WriteLine, WriteLongLine, SizeThrows
  <2>2. OnDisk' = OnDisk
    BY <2>1, DiskSame
  <2> QED
    BY <2>1, <2>2, KeptSame
<1>2. ASSUME NEW t \in Threads, NEW l \in Lines, StartRotation(t, l)
      PROVE  Kept'
  BY <1>2, KeptDrained DEF StartRotation
<1>3. ASSUME NEW t \in Threads, SkipMissing(t)
      PROVE  Kept'
  <2>1. UNCHANGED <<files, history, failed>>
    BY <1>3 DEF SkipMissing
  <2>2. OnDisk' = OnDisk
    BY <2>1, DiskSame
  <2> QED
    BY <2>1, <2>2, KeptSame
<1>4. ASSUME NEW t \in Threads, RenameFails(t) \/ ReopenFails(t)
      PROVE  Kept'
  BY <1>4 DEF RenameFails, ReopenFails, Kept
<1>5. ASSUME NEW t \in Threads, FinishRotation(t)
      PROVE  Kept'
  <2>1. files' = [files EXCEPT ![0] = <<>>] /\ UNCHANGED <<history, failed>>
    BY <1>5 DEF FinishRotation, Reopen
  <2>2. files[0] = Absent
    <3>1. ~ (rot > 0) /\ tpc[t] = "rotating"
      BY <1>5 DEF FinishRotation, RenamesLeft, Rotating
    <3>2. rot = 0 /\ rot < MaxFiles
      BY <3>1, Constants DEF TypeInv
    <3> QED
      BY <3>1, <3>2 DEF Renaming
  <2>3. \A i \in 0 .. MaxFiles : Content(files', i) = Content(files, i)
    BY <2>1, <2>2, Constants DEF Content, TypeInv
  <2> QED
    BY <2>1, <2>3, DiskSame, KeptSame
<1>6. ASSUME (\E t \in Threads : FlushLine(t)) \/ PeriodicFlush \/ Shutdown
      PROVE  Kept'
  <2>1. Drain /\ failed' = failed
    BY <1>6 DEF FlushLine, PeriodicFlush, Shutdown
  <2> QED
    BY <2>1, KeptDrained
<1>7. ASSUME Kill
      PROVE  Kept'
  <2>1. UNCHANGED <<files, history, failed>>
    BY <1>7 DEF Kill
  <2>2. OnDisk' = OnDisk
    BY <2>1, DiskSame
  <2> QED
    BY <2>1, <2>2, KeptSame
<1>8. ASSUME Restart
      PROVE  Kept'
  <2>1. UNCHANGED <<history, failed>>
    BY <1>8 DEF Restart
  <2>2. \A i \in 0 .. MaxFiles : Content(files', i) = Content(files, i)
    BY <1>8, Constants DEF Restart, Exists, Content, TypeInv
  <2> QED
    BY <2>1, <2>2, DiskSame, KeptSame
<1> QED
  BY <1>1, <1>2, <1>3, <1>4, <1>5, <1>6, <1>7, <1>8, KeptRemoved, KeptRenamed DEF Next, ThreadStep

-----------------------------------------------------------------------------
\* A thread on its way to flush stays so while others write or give up.
LEMMA StillFlushing ==
    ASSUME TypeInv, NEW t \in Threads, tpc[t] # "flushing", NEW l \in Lines, Return(t, l),
           NEW b, \E s \in Threads : tpc[s] = "flushing" /\ line[s] = b
    PROVE  \E s \in Threads : tpc'[s] = "flushing" /\ line'[s] = b
<1>1. \A s \in Threads \ {t} : tpc'[s] = tpc[s] /\ line'[s] = line[s]
  BY Returned
<1> QED
  BY <1>1

\* Every step keeps a buffered warning with a thread about to flush it.
LEMMA WarnStep ==
    ASSUME TypeInv, Held, WarnFlushed, Next
    PROVE  WarnFlushed'
<1>1. ASSUME NEW t \in Threads, NEW l \in Lines, WriteLine(t, l)
      PROVE  WarnFlushed'
  <2>1. Return(t, l) /\ tpc[t] # "flushing"
    BY <1>1 DEF WriteLine, NewLine
  <2>2. l.warn => tpc'[t] = "flushing" /\ line'[t] = l
    BY <2>1, Returned
  <2> SUFFICES ASSUME NEW k \in DOMAIN buffer', buffer'[k].warn
               PROVE  \E s \in Threads : tpc'[s] = "flushing" /\ line'[s] = buffer'[k]
    BY DEF WarnFlushed
  <2>3. CASE k \in DOMAIN buffer /\ buffer'[k] = buffer[k]
    <3>1. \E s \in Threads : tpc[s] = "flushing" /\ line[s] = buffer[k]
      BY <2>3 DEF WarnFlushed
    <3> QED
      BY <2>1, <2>3, <3>1, StillFlushing
  <2>4. CASE buffer'[k] = l
    BY <2>2, <2>4
  <2>5. \/ k \in DOMAIN buffer /\ buffer'[k] = buffer[k]
        \/ buffer'[k] = l
    <3>1. buffer' = buffer \/ buffer' = Append(buffer, l)
      BY <1>1 DEF WriteLine
    <3>2. buffer \in Seq(Lines)
      BY DEF TypeInv
    <3> QED
      BY <3>1, <3>2
  <2> QED
    BY <2>3, <2>4, <2>5
<1>2. ASSUME NEW t \in Threads, NEW l \in Lines, Return(t, l), buffer' = <<l>>
      PROVE  WarnFlushed'
  <2>1. l.warn => tpc'[t] = "flushing" /\ line'[t] = l
    BY <1>2, Returned
  <2>2. \A k \in DOMAIN buffer' : buffer'[k] = l
    BY <1>2
  <2> QED
    BY <2>1, <2>2 DEF WarnFlushed
<1>3. ASSUME NEW t \in Threads, NEW l \in Lines, SizeThrows(t, l)
      PROVE  WarnFlushed'
  <2>1. buffer = <<>> /\ buffer' = buffer
    BY <1>3 DEF SizeThrows, sinkVars, Held
  <2> QED
    BY <2>1 DEF WarnFlushed
<1>4. ASSUME buffer' = <<>>
      PROVE  WarnFlushed'
  BY <1>4 DEF WarnFlushed
<1>5. ASSUME UNCHANGED <<buffer, tpc, line>>
      PROVE  WarnFlushed'
  BY <1>5 DEF WarnFlushed
<1>6. ASSUME NEW t \in Threads, ThreadStep(t)
      PROVE  WarnFlushed'
  <2>1. ASSUME NEW l \in Lines, WriteLongLine(t, l)
        PROVE  WarnFlushed'
    BY <1>2, <2>1 DEF WriteLongLine
  <2>2. ASSUME NEW l \in Lines, StartRotation(t, l)
        PROVE  WarnFlushed'
    BY <1>4, <2>2 DEF StartRotation, Drain
  <2>3. CASE SkipMissing(t) \/ RemoveTarget(t) \/ RenameFile(t)
    BY <1>5, <2>3 DEF SkipMissing, RemoveTarget, RenameFile, sinkVars
  <2>4. CASE RenameFails(t) \/ ReopenFails(t)
    <3>1. buffer' = buffer /\ buffer = <<>>
      BY <2>4 DEF RenameFails, ReopenFails, Rotating, sinkVars, Held
    <3> QED
      BY <1>4, <3>1
  <2>5. CASE FinishRotation(t)
    <3>1. line[t] \in Lines /\ Return(t, line[t]) /\ buffer' = <<line[t]>>
      BY <2>5 DEF FinishRotation, Rotating, Held
    <3> QED
      BY <1>2, <3>1
  <2>6. CASE FlushLine(t)
    BY <1>4, <2>6 DEF FlushLine, Drain
  <2> QED
    BY <1>1, <1>3, <1>6, <2>1, <2>2, <2>3, <2>4, <2>5, <2>6 DEF ThreadStep
<1>7. CASE PeriodicFlush \/ Kill \/ Shutdown
  BY <1>4, <1>7 DEF PeriodicFlush, Kill, Shutdown, Drain
<1>8. CASE Restart
  BY <1>5, <1>8 DEF Restart
<1> QED
  BY <1>6, <1>7, <1>8 DEF Next

-----------------------------------------------------------------------------
\* The server starts where it never ran: the invariant holds of the empty log.
LEMMA LogInit ==
    ASSUME Init
    PROVE  LogInv /\ WarnFlushed
<1>1. TypeInv
  BY Constants DEF Init, TypeInv
<1>2. Held
  BY Constants DEF Init, Held
<1>3. Bounded
  <2>1. files[0] = <<>> /\ buffer = <<>> /\ current_size = 0
        /\ \A i \in 0 .. MaxFiles : files[i] = <<>> \/ files[i] = Absent
    BY Constants DEF Init
  <2>2. files[0] \o buffer = <<>>
    BY <2>1
  <2> QED
    BY <2>1, <2>2, FitsFacts, SizeFacts DEF Bounded
<1>4. Renaming
  BY Constants DEF Init, Renaming
<1>5. Kept
  <2>1. OnDisk \in Seq(Lines) /\ history = <<>>
    BY <1>1, DiskType DEF Init
  <2>2. OnDisk = <<>>
    <3> DEFINE q == Parts(files)
    <3>1. /\ N \in Nat \ {0} /\ N > 1 /\ q \in [1 .. N -> Seq(Lines)]
          /\ \A k \in 1 .. N : N - k \in 0 .. MaxFiles /\ q[k] = Content(files, N - k)
      BY <1>1, PartsType DEF TypeInv
    <3>2. \A i \in 0 .. MaxFiles : Content(files, i) = <<>>
      BY Constants DEF Init, Content
    <3> HIDE DEF q
    <3>3. \A k \in 1 .. N : q[k] = <<>>
      BY <3>1, <3>2
    <3>4. FlattenSeq(q) = <<>>
      BY <3>1, <3>3, FlattenNothing
    <3> QED
      BY <3>4, DiskParts DEF q
  <2>3. Cat(<<>>, OnDisk) = <<>>
    BY <2>1, <2>2, CatNothing
  <2> QED
    BY <2>1, <2>2, <2>3, Constants DEF Kept
<1>6. WarnFlushed
  BY DEF Init, WarnFlushed
<1> QED
  BY <1>1, <1>2, <1>3, <1>4, <1>5, <1>6 DEF LogInv

\* Every step of the sink keeps the invariant.
LEMMA LogStep ==
    ASSUME LogInv, WarnFlushed, [Next]_vars
    PROVE  LogInv' /\ WarnFlushed'
<1>1. CASE Next
  <2>1. TypeInv' /\ Held' /\ Renaming'
    BY <1>1, TypeStep, HeldStep, RenamingStep DEF LogInv
  <2>2. Bounded' /\ Kept'
    BY <1>1, BoundedStep, KeptStep DEF LogInv
  <2>3. WarnFlushed'
    BY <1>1, WarnStep DEF LogInv
  <2> QED
    BY <2>1, <2>2, <2>3 DEF LogInv
<1>2. CASE UNCHANGED vars
  <2>1. UNCHANGED <<files, fd, buffer, current_size, tpc, line, rot, removed, count, history, failed, up>>
    BY <1>2 DEF vars, sinkVars, rotVars
  <2>2. OnDisk' = OnDisk
    BY <2>1, DiskSame
  <2>3. TypeInv' /\ Held' /\ Renaming' /\ WarnFlushed'
    BY <2>1 DEF LogInv, TypeInv, Held, Renaming, WarnFlushed
  <2>4. Bounded'
    BY <2>1 DEF LogInv, Bounded
  <2>5. Kept'
    BY <2>1, <2>2, KeptSame DEF LogInv
  <2> QED
    BY <2>3, <2>4, <2>5 DEF LogInv
<1> QED
  BY <1>1, <1>2

\* DiskIsSuffix for every number of threads, files and lines and every size:
\* rotate_ and rename_file_ (rotating_file_sink-inl.h) give up the oldest lines
\* only, also across kills in the middle of a rotation.
THEOREM OldestLinesGo == Spec => []DiskIsSuffix
<1>1. LogInv => DiskIsSuffix
  <2> SUFFICES ASSUME LogInv, ~failed
               PROVE  IsSuffix(OnDisk, history) /\ (history # <<>> => OnDisk # <<>>)
    BY DEF DiskIsSuffix
  <2>1. PICK u \in Seq(Lines) : history = Cat(u, OnDisk)
    BY DEF LogInv, Kept
  <2>2. OnDisk \in Seq(Lines)
    BY DiskType DEF LogInv
  <2>3. IsSuffix(OnDisk, Cat(u, OnDisk))
    BY <2>2, EndIsSuffix
  <2> QED
    BY <2>1, <2>3 DEF LogInv, Kept
<1> QED
  BY <1>1, LogInit, LogStep, PTL DEF Spec

\* SizeBound: no file of the log outgrows max_size_ but by a single line, since
\* current_size_ never falls behind log_file.
THEOREM FilesBounded == Spec => []SizeBound
<1>1. LogInv => SizeBound
  <2> SUFFICES ASSUME LogInv, NEW i \in 0 .. MaxFiles, Exists(i)
               PROVE  LET content == IF i = 0 /\ fd THEN files[0] \o buffer ELSE files[i]
                      IN  SizeOf(content) <= MaxSize \/ Len(content) = 1
    BY DEF SizeBound
  <2>1. CASE i = 0 /\ fd
    BY <2>1 DEF LogInv, Bounded, Fits
  <2>2. CASE ~ (i = 0 /\ fd)
    BY <2>2 DEF LogInv, Bounded, Fits, Exists
  <2> QED
    BY <2>1, <2>2
<1> QED
  BY <1>1, LogInit, LogStep, PTL DEF Spec

\* WarnFlushed: a line that flush_on(warn) asks to flush is still buffered only
\* while its own logger::sink_it_ is between the write and the flush.
THEOREM WarningsReach == Spec => []WarnFlushed
BY LogInit, LogStep, PTL DEF Spec
=============================================================================
