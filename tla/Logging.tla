------------------------------ MODULE Logging -------------------------------
(***************************************************************************)
(* The log of the program (src/base/logging.h): the severity filter and    *)
(* the abort of LOG_FATAL, and the file appender, which opens the log file *)
(* again when somebody took it away and renames it when it is old.         *)
(*                                                                         *)
(* Outside the program are the file system, the clock (in seconds, as the  *)
(* name of a backup has it), an operator who takes the file away and may   *)
(* put an empty one in its place, and crashes: every call into the file    *)
(* system is a step of its own.  A file is its index in files, which is    *)
(* never used again: _f keeps the file of _file_node open, so that the     *)
(* system cannot give its inode number to another one.                     *)
(***************************************************************************)
EXTENDS Integers, Sequences, FiniteSets

CONSTANTS
  Threads,        \* threads that log
  RolloverS,      \* _rollover_s; <= 0 when disabled
  SetTo,          \* arguments of set_severity and init_log
  Levels,         \* levels of the LOG_* statements executed
  LocalTime(_),   \* the local time of a second
  Names,          \* the local times a backup may be named for
  OpenFails,      \* fopen may fail
  CreateRaces,    \* a file may be put in place between fopen and stat
  MaxLines, MaxTime, MaxTakes, MaxShort, MaxStarts   \* bounds

DEBUG == 0
FATAL == 3

ASSUME LogAssumption ==
  /\ RolloverS \in Int
  /\ SetTo \subseteq Int
  /\ Levels \subseteq DEBUG..FATAL
  /\ Names \subseteq Nat
  /\ \A s \in 0..MaxTime : LocalTime(s) \in Names
  /\ {OpenFails, CreateRaces} \subseteq BOOLEAN
  /\ {MaxLines, MaxTime, MaxTakes, MaxShort, MaxStarts} \subseteq Nat

VARIABLES
  files,     \* every file there ever was: its lines
  name,      \* the file at _filename; 0 for none
  backups,   \* local time -> the file at _filename.<it>, 0 for none
  taken,     \* files the operator moved or removed
  now,       \* gettimeofday
  severity,  \* _logger._severity
  appender,  \* _logger._appender; "none" while the process does not run,
             \* "opening" inside the open() of init_log
  f,         \* _f, a FILE
  node,      \* _file_node
  fileStat,  \* _file_stat.st_ino
  t0,        \* _t
  thr,       \* every thread: its place in append, the level and the time of
             \* its line, its local now and what it closes the file for
  fault,     \* a null or closed FILE was used
  lines,     \* history: lines written, or of which a piece was
  late,      \* history: lines written to a file since it was taken
  shorts,    \* short writes
  starts     \* history: starts of the process

disk == <<files, name, backups, taken>>
log == <<severity, appender>>
file == <<f, node, fileStat, t0>>
history == <<lines, late, shorts, starts>>
vars == <<disk, now, log, file, thr, fault, history>>

Idle == [pc |-> "idle", level |-> DEBUG, made |-> 0, now |-> 0, for |-> "roll"]
NoFile == [file |-> 0, open |-> FALSE]
Inodes == DOMAIN files

TypeOK ==
  /\ files \in Seq(Seq([n : 1..MaxLines, made : 0..MaxTime, written : 0..MaxTime,
                         start : 1..MaxStarts, whole : BOOLEAN]))
  /\ name \in 0..Len(files)
  /\ backups \in [Names -> 0..Len(files)]
  /\ taken \subseteq Inodes
  /\ now \in 0..MaxTime
  /\ severity \in DEBUG..FATAL
  /\ appender \in {"none", "stdout", "opening", "file"}
  /\ f \in [file : 0..Len(files), open : BOOLEAN]
  /\ {node, fileStat} \subseteq 0..Len(files)
  /\ t0 \in 0..MaxTime
  /\ thr \in [Threads ->
                [pc : {"idle", "check", "fclose", "null", "rename", "open",
                       "stat", "write"},
                 level : DEBUG..FATAL, made : 0..MaxTime, now : 0..MaxTime,
                 for : {"roll", "reopen", "retry"}]]
  /\ fault \in BOOLEAN
  /\ lines \in 0..MaxLines
  /\ late \in [Inodes -> Nat]
  /\ shorts \in 0..MaxShort
  /\ starts \in 0..MaxStarts

Init ==
  /\ files = <<>>
  /\ name = 0
  /\ backups = [s \in Names |-> 0]
  /\ taken = {}
  /\ now = 0
  /\ severity = DEBUG
  /\ appender = "none"
  /\ f = NoFile
  /\ node = 0
  /\ fileStat = 0
  /\ t0 = 0
  /\ thr = [t \in Threads |-> Idle]
  /\ fault = FALSE
  /\ lines = 0
  /\ late = <<>>
  /\ shorts = 0
  /\ starts = 0
-----------------------------------------------------------------------------
\* Thread t goes from one place to another.
Go(t, from, to) == thr[t].pc = from /\ thr' = [thr EXCEPT ![t].pc = to]

\* The static _logger of a new process.
Start ==
  /\ appender = "none"
  /\ starts < MaxStarts
  /\ starts' = starts + 1
  /\ appender' = "stdout"
  /\ severity' = DEBUG
  /\ f' = NoFile
  /\ node' = 0 /\ fileStat' = 0 /\ t0' = 0
  /\ UNCHANGED <<disk, now, thr, fault, lines, late, shorts>>

\* _Logger::set_severity: a value out of range is refused.
SeverityOf(s) == IF s \in DEBUG..FATAL THEN s ELSE severity

SetSeverity(s) ==
  /\ appender \in {"stdout", "file"}
  /\ severity' = SeverityOf(s)
  /\ UNCHANGED <<disk, now, appender, file, thr, fault, history>>

\* External: the file fopen(_filename, "a") gives.
Opened == IF name = 0 THEN Len(files) + 1 ELSE name

\* Mutant: the file is opened with "w".
FopenTruncates ==
  /\ files' = [i \in 1..(IF name = 0 THEN Len(files) + 1 ELSE Len(files)) |->
                 IF i = Opened THEN <<>> ELSE files[i]]
  /\ late' = IF name = 0 THEN Append(late, 0) ELSE late
  /\ name' = Opened
  /\ f' = [file |-> Opened, open |-> TRUE]

Fopen ==
  /\ files' = IF name = 0 THEN Append(files, <<>>) ELSE files
  /\ late' = IF name = 0 THEN Append(late, 0) ELSE late
  /\ name' = Opened
  /\ f' = [file |-> Opened, open |-> TRUE]

FopenFails == f' = NoFile /\ UNCHANGED <<files, late, name>>

\* Whether an fopen succeeds.
Outcomes == IF OpenFails THEN BOOLEAN ELSE {TRUE}

\* init_log, which main calls once, before any thread runs: the severity, then
\* a new appender, its _t and the fopen of its open(), ...
InitLog(s) ==
  /\ appender = "stdout"
  /\ \A t \in Threads : thr[t] = Idle
  /\ \/ /\ s \notin DEBUG..FATAL
        /\ UNCHANGED <<files, name, log, f, t0, late>>
     \/ /\ s \in DEBUG..FATAL
        /\ severity' = s
        /\ t0' = now
        /\ \E ok \in Outcomes :
             /\ IF ok THEN Fopen ELSE FopenFails
             /\ appender' = IF ok THEN "opening" ELSE "stdout"
  /\ UNCHANGED <<backups, taken, now, node, fileStat, thr, fault, lines, shorts, starts>>

\* ... then its stat, which if it fails leaves what the memory of _file_stat
\* held, and set_appender.
InitStat ==
  /\ appender = "opening"
  /\ fileStat' \in IF name = 0 THEN 0..Len(files) ELSE {name}
  /\ node' = fileStat'
  /\ appender' = "file"
  /\ UNCHANGED <<disk, now, severity, f, t0, thr, fault, history>>
-----------------------------------------------------------------------------
Filtered(level) == severity > level

\* LOG_*: nothing for a level below the severity; _LogRecord puts the time into
\* its line; the stdout appender writes and, for LOG_FATAL, the process aborts.
Log(t, level) ==
  /\ appender \in {"stdout", "file"}
  /\ thr[t].pc = "idle"
  /\ \/ Filtered(level) /\ UNCHANGED <<appender, thr>>
     \/ /\ ~Filtered(level)
        /\ appender = "file"
        /\ thr' = [thr EXCEPT ![t] = [@ EXCEPT !.pc = "check", !.level = level, !.made = now]]
        /\ UNCHANGED appender
     \/ /\ ~Filtered(level)
        /\ appender = "stdout"
        /\ appender' = IF level = FATAL THEN "none" ELSE "stdout"
        /\ UNCHANGED thr
  /\ UNCHANGED <<disk, now, severity, file, fault, lines, late, shorts, starts>>

\* Mutants: one second late; the inode is not compared.
DueLate == RolloverS > 0 /\ now - t0 > RolloverS
MovedAway == name = 0

\* do_rollover: the file is old, ...
Due == RolloverS > 0 /\ now - t0 >= RolloverS

\* ... or is not the one at _filename any more (stat).
Moved == name = 0 \/ name # node

\* do_rollover decides.
Check(t) ==
  LET close(why) == thr' = [thr EXCEPT ![t] = [@ EXCEPT !.pc = "fclose", !.now = now,
                                                        !.for = why]]
  IN  /\ thr[t].pc = "check"
      /\ \/ Due /\ close("roll") /\ UNCHANGED fileStat
         \/ /\ ~Due
            /\ fileStat' = IF name = 0 THEN fileStat ELSE name
            /\ \/ Moved /\ close("reopen")
               \/ ~Moved /\ thr' = [thr EXCEPT ![t].pc = "write", ![t].now = now]
      /\ UNCHANGED <<disk, now, log, f, node, t0, fault, history>>

\* close(): fclose of a _f that is not null, ...
Fclose(t) ==
  /\ Go(t, "fclose", "null")
  /\ fault' = (f.file # 0 /\ ~f.open)
  /\ f' = [f EXCEPT !.open = FALSE]
  /\ UNCHANGED <<disk, now, log, node, fileStat, t0, history>>

\* ... and _f = nullptr.
SetNull(t) ==
  /\ Go(t, "null", IF thr[t].for = "roll" THEN "rename" ELSE "open")
  /\ f' = NoFile
  /\ UNCHANGED <<disk, now, log, node, fileStat, t0, fault, history>>

\* Mutant: without the date; a day is three seconds long.
BackupNameClock(s) == LocalTime(s) % 3

\* _t.str(): local time, to the second.
BackupName(s) == LocalTime(s)

\* rename(_filename, _filename.<_t>), which may fail unnoticed.
Rename(t) ==
  /\ Go(t, "rename", "open")
  /\ name' = 0
  /\ backups' = IF name = 0 THEN backups ELSE [backups EXCEPT ![BackupName(t0)] = name]
  /\ UNCHANGED <<files, taken, now, log, file, fault, history>>

\* _t = now, after the open() of do_rollover.
Stamp(t) == t0' = IF thr[t].for = "retry" THEN t0 ELSE thr[t].now

\* ~_LogRecord, after append: LOG_FATAL aborts.
Finish(t) ==
  IF thr[t].level = FATAL
  THEN appender' = "none" /\ thr' = [u \in Threads |-> Idle]
  ELSE appender' = appender /\ thr' = [thr EXCEPT ![t] = Idle]

\* open() returns, to do_rollover or to append.
Opening(t) ==
  /\ Stamp(t)
  /\ IF thr[t].for = "retry"
     THEN Finish(t)
     ELSE appender' = appender /\ thr' = [thr EXCEPT ![t].pc = "write"]

\* open(): fopen, ...
Open(t) ==
  /\ thr[t].pc = "open"
  /\ \E ok \in Outcomes :
       IF ok THEN Fopen /\ Go(t, "open", "stat") /\ UNCHANGED <<appender, t0>>
             ELSE FopenFails /\ Opening(t)
  /\ UNCHANGED <<backups, taken, now, severity, node, fileStat, fault, lines, shorts,
                 starts>>

\* ... then stat and _file_node; a failing stat leaves the last one's result.
Stat(t) ==
  /\ thr[t].pc = "stat"
  /\ fileStat' = IF name = 0 THEN fileStat ELSE name
  /\ node' = fileStat'
  /\ Opening(t)
  /\ UNCHANGED <<disk, now, severity, f, fault, history>>

\* What fwrite and fflush put into the file: the line, which carries the time
\* _LogRecord made it, or a piece of it.
Line(t, whole) ==
  [n |-> lines + 1, made |-> thr[t].made, written |-> now, start |-> starts, whole |-> whole]

Put(t, whole) ==
  /\ lines < MaxLines
  /\ lines' = lines + 1
  /\ files' = [files EXCEPT ![f.file] = Append(@, Line(t, whole))]
  /\ late' = IF f.file \in taken THEN [late EXCEPT ![f.file] = @ + 1] ELSE late

WriteAll(t) ==
  /\ Put(t, TRUE)
  /\ Finish(t)
  /\ UNCHANGED <<f, shorts>>

\* A short write: close(), open(); nobody writes the rest of the line.
WriteShort(t) ==
  /\ shorts < MaxShort
  /\ shorts' = shorts + 1
  /\ Put(t, FALSE)
  /\ thr' = [thr EXCEPT ![t].pc = "fclose", ![t].for = "retry"]
  /\ UNCHANGED <<appender, f>>

\* append, after do_rollover.
Write(t) ==
  /\ thr[t].pc = "write"
  /\ fault' = ~f.open
  /\ IF f.open
     THEN WriteAll(t) \/ WriteShort(t)
     ELSE UNCHANGED <<files, appender, thr, lines, late, shorts, f>>
  /\ UNCHANGED <<name, backups, taken, now, severity, node, fileStat, t0, starts>>
-----------------------------------------------------------------------------
Tick ==
  /\ now < MaxTime
  /\ now' = now + 1
  /\ UNCHANGED <<disk, log, file, thr, fault, history>>

\* The operator moves the log file to a place of its own, or removes it.
Take ==
  /\ name # 0
  /\ Cardinality(taken) < MaxTakes
  /\ taken' = taken \cup {name}
  /\ name' = 0
  /\ UNCHANGED <<files, backups, now, log, file, thr, fault, history>>

\* The operator puts an empty file in its place.
Create ==
  /\ name = 0
  /\ CreateRaces \/ (appender # "opening" /\ \A t \in Threads : thr[t].pc # "stat")
  /\ files' = Append(files, <<>>)
  /\ late' = Append(late, 0)
  /\ name' = Len(files) + 1
  /\ UNCHANGED <<backups, taken, now, log, file, thr, fault, lines, shorts, starts>>

\* The process is killed.
Crash ==
  /\ appender # "none"
  /\ appender' = "none"
  /\ thr' = [t \in Threads |-> Idle]
  /\ UNCHANGED <<disk, now, severity, file, fault, history>>

Step(t) ==
  \/ \E level \in Levels : Log(t, level)
  \/ Check(t) \/ Fclose(t) \/ SetNull(t) \/ Rename(t) \/ Open(t) \/ Stat(t) \/ Write(t)

Next ==
  /\ ~fault
  /\ \/ Start
     \/ \E s \in SetTo : SetSeverity(s) \/ InitLog(s)
     \/ InitStat
     \/ \E t \in Threads : Step(t)
     \/ Tick \/ Take \/ Create \/ Crash

Spec == Init /\ [][Next]_vars
-----------------------------------------------------------------------------
\* The files somebody can still find, or that the operator took.
Findable == {name} \cup {backups[s] : s \in Names} \cup taken

\* Whatever was renamed, opened again or restarted in between, what was
\* written of every line is in a file that is still there: no backup is
\* overwritten by a later one and no file is truncated (do_rollover, open).
\* What is written is the whole line but for a short write.
LinesKept ==
  \A n \in 1..lines : \E i \in Findable \cap Inodes :
    \E k \in DOMAIN files[i] : files[i][k].n = n

\* A file taken away gets at most one more line of each thread: then its
\* appender sees that it is gone, also when another file is in its place
\* (do_rollover, _file_node).
TakenFileLeft == \A i \in Inodes : late[i] <= Cardinality(Threads)

Older(i, j) ==
  \A k \in DOMAIN files[i], l \in DOMAIN files[j] : files[i][k].n < files[j][l].n

\* Backups are in the order of their names and older than the log file, over
\* crashes and restarts too (_t, rename).
BackupsInOrder ==
  \A s \in Names : backups[s] # 0 =>
    /\ name # 0 => Older(backups[s], name)
    /\ \A r \in Names : r > s /\ backups[r] # 0 => Older(backups[s], backups[r])

\* A line that carries a time of RolloverS or more after another line was
\* written is not in the same file, as far as one run of the process goes,
\* although three readings of the clock stand behind it: the one in the line,
\* the one do_rollover compares and the moment of the fwrite (_LogRecord,
\* do_rollover, _t).
SpanBounded ==
  RolloverS > 0 =>
    \A i \in Inodes : \A k, l \in DOMAIN files[i] :
      files[i][k].start = files[i][l].start
        => files[i][l].made - files[i][k].written < RolloverS
=============================================================================
