--------------------------- MODULE LoggingProofs ----------------------------
(***************************************************************************)
(* Proofs about Logging, for any rollover time and any number of lines,    *)
(* crashes and takings, while one thread logs (Alone).  The names of the   *)
(* backups need a local time that only grows as well (ClockGrows).         *)
(***************************************************************************)
EXTENDS Logging, FiniteSetTheorems, SequenceTheorems, TLAPS

-----------------------------------------------------------------------------
\* One thread logs, fopen succeeds, and nobody puts a file in place between
\* fopen and stat.
Alone ==
  /\ \E w : Threads = {w}
  /\ ~OpenFails
  /\ ~CreateRaces

\* Local time only grows (no change to winter time).
ClockGrows == \A s, r \in 0..MaxTime : s < r => LocalTime(s) < LocalTime(r)

\* Where thread t stands, while the process appends to its file.
At(t, places) == appender = "file" /\ thr[t].pc \in places

\* The FILE is open whenever it is used, and a thread is in append only while
\* there is an appender.
HandleInv ==
  /\ appender # "none" => starts > 0
  /\ f.open => f.file # 0
  /\ appender = "opening" => f.open
  /\ \A t \in Threads :
       /\ appender # "file" => thr[t] = Idle
       /\ At(t, {"idle", "check", "fclose", "stat", "write"}) => f.open
       /\ At(t, {"null"}) => f.file # 0
       /\ At(t, {"rename"}) => thr[t].for = "roll"

\* The file at _filename is the newest one, neither taken nor a backup.
NameInv ==
  /\ name # 0 => name = Len(files)
  /\ name \notin taken
  /\ \A s \in Names : backups[s] # 0 => backups[s] # name

\* _file_node tells whether the file at _filename is the open one.
WatchInv ==
  /\ appender = "opening" => name \in {0, f.file}
  /\ \A t \in Threads :
       /\ At(t, {"idle", "check", "write"}) /\ name # 0 => (node = name <=> f.file = name)
       /\ At(t, {"stat"}) => name \in {0, f.file}

\* A file gets its late line only after it was taken, and only one.
LateInv ==
  /\ \A i \in Inodes : late[i] \in {0, 1} /\ (late[i] # 0 => i \in taken)
  /\ \A t \in Threads : At(t, {"stat", "write"}) => late[f.file] = 0

\* _t, the time in the line, the local now of do_rollover, and the clock.
TimeInv ==
  /\ t0 <= now
  /\ \A t \in Threads :
       /\ thr[t].now <= now
       /\ thr[t].made <= now
       /\ At(t, {"fclose", "null", "rename", "open", "stat", "write"})
            => thr[t].made <= thr[t].now
       /\ At(t, {"fclose", "null", "rename", "open", "stat"}) /\ thr[t].for # "retry"
            => t0 <= thr[t].now
       /\ At(t, {"fclose", "null", "rename"}) /\ thr[t].for = "roll" => t0 < thr[t].now
       /\ At(t, {"write"}) => /\ t0 <= thr[t].now
                              /\ RolloverS > 0 => thr[t].now - t0 < RolloverS

\* Second u is over, also for the next file that will be renamed.
Over(u) ==
  /\ u < now
  /\ appender \in {"opening", "file"} => \A t \in Threads :
       IF thr[t].pc \in {"open", "stat"} /\ thr[t].for = "roll"
       THEN u < thr[t].now
       ELSE u < t0

\* Backups are named for past seconds, in the order of their files.
BackupInv ==
  /\ \A s \in Names : backups[s] # 0 => \E u \in 0..MaxTime : s = LocalTime(u) /\ Over(u)
  /\ \A s, r \in Names :
       s < r /\ backups[s] # 0 /\ backups[r] # 0 => backups[s] < backups[r]

\* No file is lost, and every line is in one.
KeptInv ==
  /\ Inodes \subseteq Findable
  /\ \A n \in 1..lines : \E i \in Inodes : \E k \in DOMAIN files[i] : files[i][k].n = n

\* The process has the log file open.
Live == appender \in {"opening", "file"} /\ f.open

\* Lines are numbered in the order of their files.
OrderInv ==
  /\ \A i \in Inodes : \A k \in DOMAIN files[i] : files[i][k].n <= lines
  /\ \A i, j \in Inodes : i < j => Older(i, j)
  /\ Live => \A j \in Inodes : j > f.file => files[j] = <<>>

\* This run of the process wrote nothing to file i; or nothing out of the
\* span that began at _t.
Fresh(i) == \A k \in DOMAIN files[i] : files[i][k].start # starts
InSpan(i) ==
  \A k \in DOMAIN files[i] : files[i][k].start = starts =>
    t0 <= files[i][k].written /\ files[i][k].made - t0 < RolloverS

\* The open file, or the one about to be opened, keeps to the span.
SpanAt(t) ==
  /\ At(t, {"idle", "check", "write"}) => InSpan(f.file)
  /\ At(t, {"fclose", "null"}) /\ thr[t].for = "retry" => InSpan(f.file)
  /\ At(t, {"idle", "check", "write", "fclose", "null"}) => name \in {0, f.file} \/ Fresh(name)
  /\ At(t, {"fclose", "null"}) /\ thr[t].for = "reopen" => name # f.file
  /\ At(t, {"open"}) /\ name # 0
       => IF thr[t].for = "retry" THEN InSpan(name) ELSE Fresh(name)
  /\ At(t, {"stat"})
       => IF thr[t].for = "retry" THEN InSpan(f.file) ELSE Fresh(f.file)

Started == \A i \in Inodes : \A k \in DOMAIN files[i] : files[i][k].start <= starts

SpanInv ==
  /\ SpanBounded
  /\ Started
  /\ appender \in {"stdout", "opening"} => \A i \in Inodes : Fresh(i)
  /\ RolloverS > 0 => \A t \in Threads : SpanAt(t)

-----------------------------------------------------------------------------
AllLines ==
  [n : 1..MaxLines, made : 0..MaxTime, written : 0..MaxTime, start : 1..MaxStarts,
   whole : BOOLEAN]
AllThr ==
  [pc : {"idle", "check", "fclose", "null", "rename", "open", "stat", "write"},
   level : DEBUG..FATAL, made : 0..MaxTime, now : 0..MaxTime,
   for : {"roll", "reopen", "retry"}]

BaseInv == TypeOK /\ HandleInv /\ NameInv /\ ~fault

\* The bounds are numbers.
LEMMA Numbers ==
  /\ MaxLines \in Nat /\ MaxTime \in Nat /\ MaxTakes \in Nat /\ MaxShort \in Nat
  /\ MaxStarts \in Nat /\ RolloverS \in Int
  /\ Names \subseteq Nat
  /\ \A s \in 0..MaxTime : LocalTime(s) \in Names
  /\ Levels \subseteq DEBUG..FATAL
  BY LogAssumption

\* A list of counters is a function, and the other way round.
LEMMA CountersAreSeq ==
  ASSUME NEW n \in Nat, NEW c \in [1..n -> Nat]
  PROVE  c \in Seq(Nat) /\ Len(c) = n
  OBVIOUS

\* What the state is made of.
LEMMA LogShapes ==
  ASSUME TypeOK
  PROVE  /\ files \in Seq(Seq(AllLines)) /\ Len(files) \in Nat /\ Inodes = 1..Len(files)
         /\ \A i \in Inodes : files[i] \in Seq(AllLines) /\ DOMAIN files[i] = 1..Len(files[i])
                              /\ Len(files[i]) \in Nat
         /\ \A i \in Inodes : \A k \in DOMAIN files[i] : files[i][k] \in AllLines
         /\ late \in Seq(Nat) /\ Len(late) = Len(files)
         /\ name \in Nat /\ name <= Len(files)
         /\ f.file \in Nat /\ f.file <= Len(files) /\ f.open \in BOOLEAN
         /\ f = [file |-> f.file, open |-> f.open]
         /\ thr \in [Threads -> AllThr]
         /\ now \in Nat /\ t0 \in Nat /\ lines \in Nat /\ starts \in Nat /\ shorts \in Nat
         /\ now <= MaxTime /\ t0 <= MaxTime
<1>1. files \in Seq(Seq(AllLines))
  BY DEF TypeOK, AllLines
<1>2. Len(files) \in Nat /\ Inodes = 1..Len(files)
  BY <1>1, LenProperties DEF Inodes
<1>3. ASSUME NEW i \in Inodes
      PROVE  /\ files[i] \in Seq(AllLines) /\ DOMAIN files[i] = 1..Len(files[i])
             /\ Len(files[i]) \in Nat
             /\ \A k \in DOMAIN files[i] : files[i][k] \in AllLines
  <2>1. files[i] \in Seq(AllLines)
    BY <1>1, <1>2, ElementOfSeq
  <2>2. DOMAIN files[i] = 1..Len(files[i]) /\ Len(files[i]) \in Nat
    BY <2>1, LenProperties
  <2>. QED
    BY <2>1, <2>2, ElementOfSeq
<1>4. late \in Seq(Nat) /\ Len(late) = Len(files)
  <2>1. late \in [1..Len(files) -> Nat]
    BY <1>2 DEF TypeOK
  <2>. QED
    BY <2>1, <1>2, CountersAreSeq
<1>5. thr \in [Threads -> AllThr]
  BY DEF TypeOK, AllThr
<1>6. f = [file |-> f.file, open |-> f.open] /\ f.file \in 0..Len(files) /\ f.open \in BOOLEAN
  BY DEF TypeOK
<1>7. name \in 0..Len(files)
  BY DEF TypeOK
<1>8. /\ now \in Nat /\ t0 \in Nat /\ lines \in Nat /\ starts \in Nat /\ shorts \in Nat
      /\ now <= MaxTime /\ t0 <= MaxTime
  BY Numbers DEF TypeOK
<1>. QED
  BY <1>1, <1>2, <1>3, <1>4, <1>5, <1>6, <1>7, <1>8

\* A file more, at _filename.
LEMMA NewFile ==
  ASSUME TypeOK, name = 0, files' = Append(files, <<>>), late' = Append(late, 0)
  PROVE  /\ files' \in Seq(Seq(AllLines)) /\ Len(files') = Len(files) + 1
         /\ Inodes' = 1..(Len(files) + 1)
         /\ Inodes' = Inodes \cup {Len(files) + 1}
         /\ late' \in [Inodes' -> Nat]
         /\ \A i \in Inodes : files'[i] = files[i] /\ late'[i] = late[i]
         /\ files'[Len(files) + 1] = <<>> /\ late'[Len(files) + 1] = 0
<1>1. /\ files \in Seq(Seq(AllLines)) /\ Len(files) \in Nat /\ Inodes = 1..Len(files)
      /\ late \in Seq(Nat) /\ Len(late) = Len(files)
  BY LogShapes
<1>2. <<>> \in Seq(AllLines)
  OBVIOUS
<1>3. /\ files' \in Seq(Seq(AllLines)) /\ Len(files') = Len(files) + 1
      /\ \A i \in 1..Len(files) : files'[i] = files[i]
      /\ files'[Len(files) + 1] = <<>>
  BY <1>1, <1>2, AppendProperties
<1>4. /\ late' \in Seq(Nat) /\ Len(late') = Len(files) + 1
      /\ \A i \in 1..Len(files) : late'[i] = late[i]
      /\ late'[Len(files) + 1] = 0
  BY <1>1, AppendProperties
<1>5. Inodes' = 1..(Len(files) + 1)
  BY <1>3, LenProperties DEF Inodes
<1>6. late' \in [1..(Len(files) + 1) -> Nat]
  BY <1>4, LenProperties
<1>7. 1..(Len(files) + 1) = 1..Len(files) \cup {Len(files) + 1}
  BY <1>1
<1>. QED
  BY <1>1, <1>3, <1>4, <1>5, <1>6, <1>7

\* fopen makes a file or finds the one at _filename, which is the newest.
LEMMA FopenStep ==
  ASSUME TypeOK, NameInv, Fopen
  PROVE  /\ files' \in Seq(Seq(AllLines)) /\ Len(files') \in Nat
         /\ Len(files) <= Len(files')
         /\ Inodes' = 1..Len(files') /\ Inodes \subseteq Inodes'
         /\ late' \in [Inodes' -> Nat]
         /\ \A i \in Inodes : files'[i] = files[i] /\ late'[i] = late[i]
         /\ \A i \in Inodes' : i \notin Inodes =>
              i = Len(files') /\ name = 0 /\ files'[i] = <<>> /\ late'[i] = 0
         /\ name' = Len(files') /\ name' \in Inodes' /\ name' # 0
         /\ f' = [file |-> name', open |-> TRUE]
         /\ name # 0 => files' = files /\ late' = late /\ name' = name
         /\ name = 0 => name' \notin Inodes
<1>1. /\ files \in Seq(Seq(AllLines)) /\ Len(files) \in Nat /\ Inodes = 1..Len(files)
      /\ late \in [Inodes -> Nat]
      /\ name \in Nat
  BY LogShapes DEF TypeOK
<1>2. f' = [file |-> name', open |-> TRUE] /\ name' = IF name = 0 THEN Len(files) + 1 ELSE name
  BY DEF Fopen, Opened
<1>3. CASE name = 0
  <2>1. files' = Append(files, <<>>) /\ late' = Append(late, 0)
    BY <1>3 DEF Fopen
  <2>. QED
    BY <1>1, <1>2, <1>3, <2>1, NewFile
<1>4. CASE name # 0
  <2>1. files' = files /\ late' = late /\ name' = name /\ Inodes' = Inodes
    BY <1>4 DEF Fopen, Opened, Inodes
  <2>2. name = Len(files)
    BY <1>4 DEF NameInv
  <2>3. name \in 1..Len(files)
    BY <1>1, <1>4, <2>2
  <2>. QED
    BY <1>1, <1>2, <1>4, <2>1, <2>2, <2>3
<1>. QED
  BY <1>3, <1>4

\* The only thread goes on; its local now and its reason stay, and its line
\* gets its time when it is made.
Moves(t, from, to) ==
  /\ appender = "file" /\ appender' = "file"
  /\ thr[t].pc = from
  /\ thr' \in [Threads -> AllThr]
  /\ thr'[t].pc = to /\ thr'[t].now = thr[t].now /\ thr'[t].for = thr[t].for
  /\ thr'[t].made = IF from = "idle" THEN now ELSE thr[t].made

\* append is over: the thread is idle, or the process aborted.
Ends(t) ==
  /\ appender = "file" /\ appender' \in {"file", "none"}
  /\ thr' \in [Threads -> AllThr]
  /\ thr'[t] = Idle

\* append closes and opens the file after a short write.
Retries(t) ==
  /\ appender = "file" /\ appender' = "file"
  /\ thr' \in [Threads -> AllThr]
  /\ thr'[t].pc = "fclose" /\ thr'[t].for = "retry"
  /\ thr'[t].now = thr[t].now /\ thr'[t].made = thr[t].made

LEMMA GoMoves ==
  ASSUME BaseInv, NEW t \in Threads, NEW from, NEW to,
         Go(t, from, to), from # "idle", appender' = appender,
         to \in {"idle", "check", "fclose", "null", "rename", "open", "stat", "write"}
  PROVE  Moves(t, from, to)
<1>1. thr \in [Threads -> AllThr] /\ HandleInv
  BY LogShapes DEF BaseInv
<1>2. appender = "file"
  BY <1>1 DEF HandleInv, Go, Idle
<1>3. thr' = [thr EXCEPT ![t] = [thr[t] EXCEPT !.pc = to]]
  BY DEF Go
<1>. QED
  BY <1>1, <1>2, <1>3 DEF Moves, Go, AllThr

LEMMA FinishEnds ==
  ASSUME Alone, BaseInv, NEW t \in Threads, Finish(t), thr[t].pc # "idle"
  PROVE  Ends(t)
<1>1. thr \in [Threads -> AllThr] /\ HandleInv
  BY LogShapes DEF BaseInv
<1>2. appender = "file"
  BY <1>1 DEF HandleInv, Idle
<1>3. Idle \in AllThr
  BY Numbers DEF Idle, AllThr, DEBUG, FATAL
<1>. QED
  BY <1>1, <1>2, <1>3 DEF Finish, Ends

\* LOG_*.
LEMMA LogEffect ==
  ASSUME Alone, BaseInv, NEW t \in Threads, NEW level \in Levels, Log(t, level)
  PROVE  /\ \/ thr' = thr /\ appender' = appender
            \/ thr' = thr /\ appender = "stdout" /\ appender' = "none"
            \/ Moves(t, "idle", "check")
         /\ UNCHANGED <<disk, now, severity, file, fault, history>>
<1>1. thr \in [Threads -> AllThr] /\ level \in DEBUG..FATAL
  BY LogShapes, Numbers DEF BaseInv
<1>2. /\ thr[t].pc = "idle" /\ appender # "none"
      /\ \/ thr' = thr /\ appender' = appender
         \/ thr' = thr /\ appender = "stdout" /\ appender' = "none"
         \/ /\ appender = "file" /\ appender' = "file"
            /\ thr' = [thr EXCEPT ![t] = [thr[t] EXCEPT !.pc = "check", !.level = level,
                                                         !.made = now]]
      /\ UNCHANGED <<disk, now, severity, file, fault, lines, late, shorts, starts>>
  BY DEF Log
<1>3. now \in 0..MaxTime
  BY DEF BaseInv, TypeOK
<1>. QED
  BY <1>1, <1>2, <1>3, ZenonT(60) DEF Moves, AllThr, history

\* do_rollover decides.
LEMMA CheckEffect ==
  ASSUME Alone, BaseInv, NEW t \in Threads, Check(t)
  PROVE  /\ appender = "file" /\ thr[t].pc = "check"
         /\ thr' \in [Threads -> AllThr] /\ thr'[t].now = now /\ thr'[t].made = thr[t].made
         /\ \/ Due /\ thr'[t].pc = "fclose" /\ thr'[t].for = "roll"
            \/ ~Due /\ Moved /\ thr'[t].pc = "fclose" /\ thr'[t].for = "reopen"
            \/ ~Due /\ ~Moved /\ thr'[t].pc = "write"
         /\ fileStat' \in {fileStat, name}
         /\ UNCHANGED <<disk, now, log, f, node, t0, fault, history>>
<1>1. thr \in [Threads -> AllThr] /\ HandleInv /\ now \in 0..MaxTime
  BY LogShapes DEF BaseInv, TypeOK
<1>2. appender = "file" /\ thr[t].pc = "check"
  BY <1>1 DEF HandleInv, Check, Idle
<1>3. \/ /\ Due
         /\ thr' = [thr EXCEPT ![t] = [thr[t] EXCEPT !.pc = "fclose", !.now = now, !.for = "roll"]]
      \/ /\ ~Due /\ Moved
         /\ thr' = [thr EXCEPT ![t] = [thr[t] EXCEPT !.pc = "fclose", !.now = now, !.for = "reopen"]]
      \/ /\ ~Due /\ ~Moved
         /\ thr' = [thr EXCEPT ![t] = [thr[t] EXCEPT !.pc = "write", !.now = now]]
  BY DEF Check
<1>4. ASSUME NEW why \in {"roll", "reopen"},
             thr' = [thr EXCEPT ![t] = [thr[t] EXCEPT !.pc = "fclose", !.now = now, !.for = why]]
      PROVE  /\ thr' \in [Threads -> AllThr] /\ thr'[t].now = now /\ thr'[t].made = thr[t].made
             /\ thr'[t].pc = "fclose" /\ thr'[t].for = why
  BY <1>1, <1>4, ZenonT(60) DEF AllThr
<1>5. ASSUME thr' = [thr EXCEPT ![t] = [thr[t] EXCEPT !.pc = "write", !.now = now]]
      PROVE  /\ thr' \in [Threads -> AllThr] /\ thr'[t].now = now /\ thr'[t].made = thr[t].made
             /\ thr'[t].pc = "write"
  BY <1>1, <1>5, ZenonT(60) DEF AllThr
<1>6. fileStat' \in {fileStat, name}
  BY DEF Check
<1>7. UNCHANGED <<disk, now, log, f, node, t0, fault, history>>
  BY DEF Check
<1>. QED
  BY <1>2, <1>3, <1>4, <1>5, <1>6, <1>7

\* open() of a rollover or after a short write: fopen.
LEMMA OpenEffect ==
  ASSUME Alone, BaseInv, NEW t \in Threads, Open(t)
  PROVE  /\ Moves(t, "open", "stat")
         /\ Fopen
         /\ UNCHANGED <<backups, taken, now, severity, node, fileStat, t0, fault, lines, shorts,
                        starts>>
<1>1. /\ Fopen /\ Go(t, "open", "stat") /\ UNCHANGED <<appender, t0>>
      /\ UNCHANGED <<backups, taken, now, severity, node, fileStat, fault, lines, shorts, starts>>
  BY DEF Open, Outcomes, Alone
<1>. QED
  BY <1>1, GoMoves

\* open(): stat, and the return to do_rollover or to append.
LEMMA StatEffect ==
  ASSUME Alone, BaseInv, NEW t \in Threads, Stat(t)
  PROVE  /\ appender = "file" /\ thr[t].pc = "stat"
         /\ node' = IF name = 0 THEN fileStat ELSE name
         /\ fileStat' = node'
         /\ IF thr[t].for = "retry"
            THEN t0' = t0 /\ Ends(t)
            ELSE t0' = thr[t].now /\ Moves(t, "stat", "write")
         /\ UNCHANGED <<disk, now, severity, f, fault, history>>
<1>1. thr[t].pc = "stat" /\ appender = "file"
  BY DEF Stat, BaseInv, HandleInv, Idle
<1>2. CASE thr[t].for = "retry"
  <2>1. Finish(t) /\ t0' = t0
    BY <1>2 DEF Stat, Opening, Stamp
  <2>. QED
    BY <1>1, <1>2, <2>1, FinishEnds DEF Stat
<1>3. CASE thr[t].for # "retry"
  <2>1. Go(t, "stat", "write") /\ appender' = appender /\ t0' = thr[t].now
    BY <1>1, <1>3 DEF Stat, Opening, Stamp, Go
  <2>. QED
    BY <1>1, <1>3, <2>1, GoMoves DEF Stat
<1>. QED
  BY <1>2, <1>3

\* append: the line, or a piece of it, is put into the open file.
LEMMA WriteEffect ==
  ASSUME Alone, BaseInv, NEW t \in Threads, Write(t)
  PROVE  /\ appender = "file" /\ thr[t].pc = "write" /\ f.open /\ f.file \in Inodes
         /\ Ends(t) \/ Retries(t)
         /\ lines' = lines + 1 /\ lines' \in 0..MaxLines /\ shorts' \in 0..MaxShort
         /\ files' \in Seq(Seq(AllLines)) /\ Len(files') = Len(files) /\ Inodes' = Inodes
         /\ \E line \in AllLines :
              /\ line.n = lines + 1 /\ line.made = thr[t].made /\ line.written = now
              /\ line.start = starts
              /\ files'[f.file] = Append(files[f.file], line)
         /\ \A i \in Inodes : i # f.file => files'[i] = files[i]
         /\ late' \in [Inodes -> Nat]
         /\ late' = IF f.file \in taken THEN [late EXCEPT ![f.file] = @ + 1] ELSE late
         /\ UNCHANGED <<f, name, backups, taken, now, severity, node, fileStat, t0, starts, fault>>
<1>1. /\ Len(files) \in Nat /\ Inodes = 1..Len(files) /\ lines \in Nat /\ starts \in Nat
      /\ files \in Seq(Seq(AllLines)) /\ thr \in [Threads -> AllThr]
      /\ \A i \in Inodes : files[i] \in Seq(AllLines)
      /\ f.file \in Nat /\ f.file <= Len(files)
      /\ late \in [Inodes -> Nat] /\ starts <= MaxStarts /\ now \in 0..MaxTime
      /\ shorts \in 0..MaxShort
      /\ HandleInv
  <2>1. TypeOK /\ HandleInv
    BY DEF BaseInv
  <2>2. /\ Len(files) \in Nat /\ Inodes = 1..Len(files) /\ lines \in Nat /\ starts \in Nat
        /\ files \in Seq(Seq(AllLines)) /\ thr \in [Threads -> AllThr]
        /\ \A i \in Inodes : files[i] \in Seq(AllLines)
        /\ f.file \in Nat /\ f.file <= Len(files)
    BY <2>1, LogShapes
  <2>3. /\ late \in [Inodes -> Nat] /\ now \in 0..MaxTime /\ shorts \in 0..MaxShort
        /\ starts \in 0..MaxStarts
    BY <2>1 DEF TypeOK
  <2>. QED
    BY <2>1, <2>2, <2>3, Numbers
<1>2. thr[t].pc = "write" /\ appender = "file"
  BY <1>1 DEF Write, HandleInv, Idle
<1>3. f.open /\ f.file \in Inodes /\ starts > 0
  BY <1>1, <1>2 DEF HandleInv, At
<1>4. PICK whole \in BOOLEAN : Put(t, whole)
  BY <1>3 DEF Write, WriteAll, WriteShort
<1>5. PICK line : line = Line(t, whole)
  OBVIOUS
<1>6. /\ lines < MaxLines /\ lines' = lines + 1
      /\ files' = [files EXCEPT ![f.file] = Append(files[f.file], line)]
      /\ late' = IF f.file \in taken THEN [late EXCEPT ![f.file] = @ + 1] ELSE late
  BY <1>4, <1>5 DEF Put
<1>7. /\ line \in AllLines /\ lines' \in 0..MaxLines
      /\ line.n = lines + 1 /\ line.made = thr[t].made /\ line.written = now
      /\ line.start = starts
  <2>1. lines + 1 \in 1..MaxLines /\ starts \in 1..MaxStarts /\ lines' \in 0..MaxLines
    BY <1>1, <1>3, <1>6, Numbers
  <2>2. thr[t].made \in 0..MaxTime
    BY <1>1 DEF AllThr
  <2>. QED
    BY <1>1, <1>5, <2>1, <2>2 DEF Line, AllLines
<1>8. Append(files[f.file], line) \in Seq(AllLines)
  BY <1>1, <1>3, <1>7, AppendProperties
<1>9. /\ files' \in Seq(Seq(AllLines)) /\ Len(files') = Len(files)
      /\ \A j \in 1..Len(files) :
           files'[j] = IF j = f.file THEN Append(files[f.file], line) ELSE files[j]
  BY <1>1, <1>3, <1>6, <1>8, ExceptSeq, SMTT(40)
<1>10. Inodes' = Inodes
  BY <1>1, <1>9, LenProperties DEF Inodes
<1>11. late' \in [Inodes -> Nat]
  <2>1. late[f.file] + 1 \in Nat
    BY <1>1, <1>3
  <2>2. [late EXCEPT ![f.file] = late[f.file] + 1] \in [Inodes -> Nat]
    BY <1>1, <2>1
  <2>. QED
    BY <1>1, <1>6, <2>2
<1>12. /\ Ends(t) \/ Retries(t)
       /\ shorts' \in 0..MaxShort /\ UNCHANGED f
  <2>1. CASE WriteAll(t)
    BY <1>1, <1>2, <2>1, FinishEnds DEF WriteAll
  <2>2. CASE WriteShort(t)
    <3>1. thr' = [thr EXCEPT ![t] = [thr[t] EXCEPT !.pc = "fclose", !.for = "retry"]]
      BY <2>2 DEF WriteShort
    <3>2. thr' \in [Threads -> AllThr]
      BY <1>1, <3>1, ZenonT(60) DEF AllThr
    <3>3. /\ thr'[t].pc = "fclose" /\ thr'[t].for = "retry"
          /\ thr'[t].now = thr[t].now /\ thr'[t].made = thr[t].made
      BY <1>1, <3>1 DEF AllThr
    <3>4. shorts' \in 0..MaxShort /\ UNCHANGED <<appender, f>>
      BY <1>1, <2>2, Numbers DEF WriteShort
    <3>. QED
      BY <1>2, <3>2, <3>3, <3>4 DEF Retries
  <2>. QED
    BY <1>3, <2>1, <2>2 DEF Write
<1>13. fault' = fault
  <2>1. fault = FALSE /\ f.open = TRUE
    BY <1>3 DEF BaseInv, TypeOK
  <2>2. fault' = ~f.open
    BY DEF Write
  <2>. QED
    BY <2>1, <2>2
<1>14. UNCHANGED <<name, backups, taken, now, severity, node, fileStat, t0, starts, fault>>
  BY <1>13 DEF Write
<1>. QED
  BY <1>1, <1>2, <1>3, <1>6, <1>7, <1>9, <1>10, <1>11, <1>12, <1>14

\* init_log: refused, or the file is open.
LEMMA InitEffect ==
  ASSUME Alone, NEW s \in SetTo, InitLog(s)
  PROVE  /\ appender = "stdout" /\ \A t \in Threads : thr[t] = Idle
         /\ \/ UNCHANGED <<files, name, log, f, t0, late>>
            \/ /\ s \in DEBUG..FATAL /\ severity' = s /\ t0' = now
               /\ Fopen /\ appender' = "opening"
         /\ UNCHANGED <<backups, taken, now, node, fileStat, thr, fault, lines, shorts, starts>>
  BY DEF InitLog, Outcomes, Alone

\* A new process has nothing open.
LEMMA BaseInit == Alone /\ Init => BaseInv
<1> SUFFICES ASSUME Alone, Init PROVE BaseInv
  OBVIOUS
<1>1. files = <<>> /\ Len(files) = 0 /\ Inodes = {}
  BY DEF Init, Inodes
<1>2. TypeOK
  <2>1. /\ files \in Seq(Seq(AllLines)) /\ late \in [Inodes -> Nat] /\ taken \subseteq Inodes
        /\ backups \in [Names -> 0..Len(files)]
    BY <1>1 DEF Init
  <2>2. thr \in [Threads -> AllThr]
    BY Numbers DEF Init, Idle, AllThr, DEBUG, FATAL
  <2>3. /\ now \in 0..MaxTime /\ t0 \in 0..MaxTime /\ lines \in 0..MaxLines
        /\ shorts \in 0..MaxShort /\ starts \in 0..MaxStarts
        /\ name \in 0..Len(files) /\ {node, fileStat} \subseteq 0..Len(files)
        /\ severity \in DEBUG..FATAL
    BY <1>1, Numbers DEF Init, DEBUG, FATAL
  <2>4. f \in [file : 0..Len(files), open : BOOLEAN]
    BY <1>1 DEF Init, NoFile
  <2>. QED
    BY <2>1, <2>2, <2>3, <2>4 DEF TypeOK, Init, AllLines, AllThr
<1>. QED
  BY <1>1, <1>2 DEF BaseInv, Init, HandleInv, NameInv, NoFile, At, Idle

\* The steps that neither open, close nor rename a file, nor write to one.
LEMMA BaseStill ==
  ASSUME Alone, BaseInv, NEW t \in Threads,
         \/ Tick \/ Start \/ Crash \/ Take \/ Create \/ InitStat
         \/ \E s \in SetTo : SetSeverity(s)
         \/ \E level \in Levels : Log(t, level)
         \/ Check(t)
  PROVE  BaseInv'
<1>1. TypeOK /\ HandleInv /\ NameInv /\ ~fault
  BY DEF BaseInv
<1>2. Threads = {t}
  BY DEF Alone
<1>0. /\ Len(files) \in Nat /\ Inodes = 1..Len(files) /\ name \in Nat /\ name <= Len(files)
      /\ thr \in [Threads -> AllThr] /\ starts \in Nat
  BY <1>1, LogShapes, SMTT(40)
<1> USE <1>0, <1>1, <1>2
<1>3. CASE Tick
  <2>1. now' \in 0..MaxTime /\ UNCHANGED <<disk, log, file, thr, fault, history>>
    BY <1>3, Numbers DEF Tick, TypeOK
  <2>. QED
    BY <2>1 DEF BaseInv, TypeOK, HandleInv, NameInv, At, disk, log, file, history, Inodes
<1>4. CASE Start
  <2>1. thr[t] = Idle /\ thr' = thr
    BY <1>4 DEF Start, HandleInv
  <2>2. TypeOK'
    BY <1>4, Numbers DEF Start, TypeOK, disk, NoFile, Inodes, DEBUG, FATAL
  <2>. QED
    BY <1>4, <2>1, <2>2 DEF BaseInv, Start, HandleInv, NameInv, At, disk, NoFile
<1>5. CASE Crash
  <2>1. thr' \in [Threads -> AllThr]
    BY <1>5, Numbers DEF Crash, Idle, AllThr, DEBUG, FATAL
  <2>2. TypeOK'
    BY <1>5, <2>1 DEF Crash, TypeOK, disk, file, history, Inodes, AllThr
  <2>. QED
    BY <1>5, <2>2 DEF BaseInv, Crash, HandleInv, NameInv, At, disk, file, history
<1>6. CASE Take
  <2>1. name \in Inodes
    BY <1>6 DEF Take
  <2>2. /\ taken' = taken \cup {name} /\ name' = 0
        /\ UNCHANGED <<files, backups, now, log, file, thr, fault, history>>
    BY <1>6 DEF Take
  <2>3. taken' \subseteq Inodes /\ Inodes' = Inodes /\ name' \in 0..Len(files)
    BY <2>1, <2>2, SMTT(40) DEF TypeOK, Inodes
  <2>4. TypeOK'
    BY <2>2, <2>3 DEF TypeOK, log, file, history
  <2>5. 0 \notin taken'
    BY <2>3
  <2>. QED
    BY <2>2, <2>4, <2>5 DEF BaseInv, HandleInv, NameInv, At, log, file, history
<1>7. CASE Create
  <2>1. /\ files' \in Seq(Seq(AllLines)) /\ Len(files') = Len(files) + 1
        /\ Inodes' = 1..(Len(files) + 1)
        /\ late' \in [Inodes' -> Nat]
    BY <1>7, NewFile DEF Create
  <2>2. 0..Len(files) \subseteq 0..Len(files') /\ Inodes \subseteq Inodes'
    <3>1. Len(files) <= Len(files')
      BY <2>1
    <3>. QED
      BY <2>1, <3>1
  <2>3. name' = Len(files') /\ name' \in 0..Len(files') /\ name' \notin 0..Len(files)
    BY <1>7, <2>1 DEF Create
  <2>4. backups \in [Names -> 0..Len(files')]
    BY <2>2 DEF TypeOK
  <2>5. TypeOK'
    BY <1>7, <2>1, <2>2, <2>3, <2>4 DEF Create, TypeOK, log, file, AllLines
  <2>6. name' \notin taken /\ \A s \in Names : backups[s] # name'
    <3>1. taken \subseteq 0..Len(files) /\ \A s \in Names : backups[s] \in 0..Len(files)
      BY SMTT(40) DEF TypeOK
    <3>. QED
      BY <2>3, <3>1
  <2>. QED
    BY <1>7, <2>3, <2>5, <2>6 DEF BaseInv, Create, HandleInv, NameInv, At, log, file
<1>8. ASSUME NEW s \in SetTo, SetSeverity(s) PROVE BaseInv'
  <2>1. severity' \in DEBUG..FATAL /\ UNCHANGED <<disk, now, appender, file, thr, fault, history>>
    BY <1>8 DEF SetSeverity, SeverityOf, TypeOK
  <2>. QED
    BY <2>1 DEF BaseInv, TypeOK, HandleInv, NameInv, At, disk, log, file, history, Inodes
<1>9. ASSUME NEW level \in Levels, Log(t, level) PROVE BaseInv'
  <2>1. /\ \/ thr' = thr /\ appender' = appender
           \/ thr' = thr /\ appender = "stdout" /\ appender' = "none"
           \/ Moves(t, "idle", "check")
        /\ UNCHANGED <<disk, now, severity, file, fault, history>>
    BY <1>9, LogEffect
  <2>2. thr' \in [Threads -> AllThr] /\ appender' \in {"none", "stdout", "opening", "file"}
    BY <2>1 DEF Moves, TypeOK
  <2>3. TypeOK'
    BY <2>1, <2>2 DEF TypeOK, disk, file, history, Inodes, AllThr
  <2>4. HandleInv'
    BY <2>1 DEF HandleInv, At, file, history, Moves
  <2>. QED
    BY <2>1, <2>3, <2>4 DEF BaseInv, NameInv, disk
<1>10. CASE Check(t)
  <2>1. /\ thr[t].pc = "check" /\ appender = "file"
        /\ thr' \in [Threads -> AllThr] /\ thr'[t].pc \in {"fclose", "write"}
        /\ fileStat' \in {fileStat, name}
        /\ UNCHANGED <<disk, now, log, f, node, t0, fault, history>>
    BY <1>10, CheckEffect
  <2>2. TypeOK'
    <3>1. fileStat' \in 0..Len(files)
      BY <2>1 DEF TypeOK
    <3>. QED
      BY <2>1, <3>1 DEF TypeOK, disk, log, history, Inodes, AllThr
  <2>3. HandleInv'
    BY <2>1 DEF HandleInv, At, log, history
  <2>. QED
    BY <2>1, <2>2, <2>3 DEF BaseInv, NameInv, disk
<1>11. CASE InitStat
  <2>1. /\ appender = "opening" /\ appender' = "file" /\ node' = fileStat'
        /\ UNCHANGED <<disk, now, severity, f, t0, thr, fault, history>>
    BY <1>11 DEF InitStat
  <2>2. fileStat' \in 0..Len(files)
    BY <1>11 DEF InitStat
  <2>3. TypeOK'
    BY <2>1, <2>2 DEF TypeOK, disk, history, Inodes
  <2>4. thr[t] = Idle /\ f.open
    BY <2>1 DEF HandleInv
  <2>5. HandleInv'
    BY <2>1, <2>4 DEF HandleInv, At, Idle, history
  <2>. QED
    BY <2>1, <2>3, <2>5 DEF BaseInv, NameInv, disk
<1>. QED
  BY <1>3, <1>4, <1>5, <1>6, <1>7, <1>8, <1>9, <1>10, <1>11

\* init_log and the steps of append that do.
LEMMA BaseFile ==
  ASSUME Alone, BaseInv, NEW t \in Threads,
         \/ \E s \in SetTo : InitLog(s)
         \/ Fclose(t) \/ SetNull(t) \/ Rename(t) \/ Open(t) \/ Stat(t) \/ Write(t)
  PROVE  BaseInv'
<1>1. TypeOK /\ HandleInv /\ NameInv /\ ~fault
  BY DEF BaseInv
<1>2. Threads = {t}
  BY DEF Alone
<1>0. /\ Len(files) \in Nat /\ Inodes = 1..Len(files) /\ name \in Nat /\ name <= Len(files)
      /\ thr \in [Threads -> AllThr] /\ starts \in Nat
      /\ f = [file |-> f.file, open |-> f.open] /\ f.file \in 0..Len(files) /\ f.open \in BOOLEAN
  BY <1>1, LogShapes
<1> USE <1>0, <1>1, <1>2
<1>3. ASSUME Fopen, UNCHANGED <<backups, taken>>
      PROVE  /\ NameInv'
             /\ files' \in Seq(Seq(AllLines)) /\ late' \in [Inodes' -> Nat]
             /\ f' \in [file : 0..Len(files'), open : BOOLEAN] /\ f'.open /\ f'.file # 0
             /\ taken' \subseteq Inodes'
             /\ backups' \in [Names -> 0..Len(files')]
             /\ 0..Len(files) \subseteq 0..Len(files')
             /\ name' \in 0..Len(files')
  <2>1. /\ files' \in Seq(Seq(AllLines)) /\ Len(files') \in Nat
        /\ Len(files) <= Len(files')
        /\ Inodes' = 1..Len(files') /\ Inodes \subseteq Inodes'
        /\ late' \in [Inodes' -> Nat]
        /\ name' = Len(files') /\ name' \in Inodes' /\ name' # 0
        /\ f' = [file |-> name', open |-> TRUE]
        /\ name # 0 => name' = name
        /\ name = 0 => name' \notin Inodes
    BY <1>3, FopenStep
  <2>2. taken \subseteq Inodes /\ backups \in [Names -> 0..Len(files)]
    BY DEF TypeOK
  <2>3. 0..Len(files) \subseteq 0..Len(files')
    BY <2>1
  <2>4. name' \notin taken
    BY <2>1, <2>2 DEF NameInv
  <2>5. ASSUME NEW s \in Names, backups[s] # 0 PROVE backups[s] # name'
    <3>1. backups[s] \in Inodes
      BY <2>2, <2>5
    <3>. QED
      BY <2>1, <2>5, <3>1 DEF NameInv
  <2>6. NameInv'
    BY <1>3, <2>1, <2>4, <2>5 DEF NameInv
  <2>. QED
    BY <1>3, <2>1, <2>2, <2>3, <2>6
<1>4. ASSUME NEW s \in SetTo, InitLog(s) PROVE BaseInv'
  <2>1. /\ appender = "stdout" /\ thr[t] = Idle
        /\ UNCHANGED <<backups, taken, now, node, fileStat, thr, fault, lines, shorts, starts>>
    BY <1>4, InitEffect, SMTT(40)
  <2>2. CASE UNCHANGED <<files, name, log, f, t0, late>>
    BY <2>1, <2>2 DEF BaseInv, TypeOK, HandleInv, NameInv, At, log, Inodes
  <2>3. CASE s \in DEBUG..FATAL /\ severity' = s /\ t0' = now /\ Fopen /\ appender' = "opening"
    <3>1. TypeOK'
      BY <1>3, <2>1, <2>3 DEF TypeOK, AllLines
    <3>2. HandleInv'
      BY <1>3, <2>1, <2>3 DEF HandleInv, At, Idle
    <3>. QED
      BY <1>3, <2>1, <2>3, <3>1, <3>2 DEF BaseInv
  <2>. QED
    BY <1>4, <2>2, <2>3, InitEffect
<1>5. CASE Fclose(t)
  <2>1. Moves(t, "fclose", "null")
    BY <1>5, GoMoves DEF Fclose, log
  <2>2. f.open /\ f.file # 0
    BY <2>1 DEF Moves, HandleInv, At
  <2>3. fault' = FALSE
    BY <1>5, <2>2 DEF Fclose
  <2>4. /\ f' = [file |-> f.file, open |-> FALSE]
        /\ UNCHANGED <<disk, now, log, node, fileStat, t0, history>>
    BY <1>5 DEF Fclose
  <2>5. TypeOK'
    BY <2>1, <2>3, <2>4 DEF TypeOK, disk, log, history, Inodes, AllThr, Moves
  <2>6. HandleInv'
    BY <2>1, <2>2, <2>4 DEF HandleInv, At, Moves, history
  <2>. QED
    BY <2>3, <2>4, <2>5, <2>6 DEF BaseInv, NameInv, disk
<1>6. CASE SetNull(t)
  <2>1. PICK to \in {"rename", "open"} :
          /\ to = IF thr[t].for = "roll" THEN "rename" ELSE "open"
          /\ Go(t, "null", to)
    BY <1>6 DEF SetNull
  <2>2. Moves(t, "null", to)
    BY <1>6, <2>1, GoMoves DEF SetNull, log
  <2>3. /\ f' = NoFile
        /\ UNCHANGED <<disk, now, log, node, fileStat, t0, fault, history>>
    BY <1>6 DEF SetNull
  <2>4. TypeOK'
    BY <2>2, <2>3 DEF TypeOK, disk, log, history, Inodes, AllThr, Moves, NoFile
  <2>5. HandleInv'
    BY <2>1, <2>2, <2>3 DEF HandleInv, At, Moves, history, NoFile
  <2>. QED
    BY <2>3, <2>4, <2>5 DEF BaseInv, NameInv, disk
<1>7. CASE Rename(t)
  <2>1. Moves(t, "rename", "open")
    BY <1>7, GoMoves DEF Rename, log
  <2>2. /\ name' = 0
        /\ backups' = IF name = 0 THEN backups ELSE [backups EXCEPT ![BackupName(t0)] = name]
        /\ UNCHANGED <<files, taken, now, log, file, fault, history>>
    BY <1>7 DEF Rename
  <2>3. backups' \in [Names -> 0..Len(files)]
    BY <2>2 DEF TypeOK
  <2>4. TypeOK'
    BY <2>1, <2>2, <2>3 DEF TypeOK, log, file, history, Inodes, AllThr, Moves
  <2>5. HandleInv'
    BY <2>1, <2>2 DEF HandleInv, At, Moves, history, file
  <2>6. NameInv'
    BY <2>2 DEF NameInv, TypeOK
  <2>. QED
    BY <2>2, <2>4, <2>5, <2>6 DEF BaseInv
<1>8. CASE Open(t)
  <2>1. /\ Moves(t, "open", "stat") /\ Fopen
        /\ UNCHANGED <<backups, taken, now, severity, node, fileStat, t0, fault, lines, shorts,
                       starts>>
    BY <1>8, OpenEffect
  <2>2. TypeOK'
    BY <1>3, <2>1 DEF TypeOK, AllLines, AllThr, Moves
  <2>3. HandleInv'
    BY <1>3, <2>1 DEF HandleInv, At, Moves
  <2>. QED
    BY <1>3, <2>1, <2>2, <2>3 DEF BaseInv
<1>9. CASE Stat(t)
  <2>1. /\ appender = "file" /\ thr[t].pc = "stat"
        /\ node' = IF name = 0 THEN fileStat ELSE name
        /\ fileStat' = node'
        /\ IF thr[t].for = "retry"
           THEN t0' = t0 /\ Ends(t)
           ELSE t0' = thr[t].now /\ Moves(t, "stat", "write")
        /\ UNCHANGED <<disk, now, severity, f, fault, history>>
    BY <1>9, StatEffect
  <2>2. t0' \in 0..MaxTime /\ node' \in 0..Len(files) /\ fileStat' \in 0..Len(files)
    <3>1. thr[t].now \in 0..MaxTime
      BY DEF AllThr
    <3>. QED
      BY <2>1, <3>1 DEF TypeOK
  <2>3. thr' \in [Threads -> AllThr] /\ appender' \in {"file", "none"}
    BY <2>1 DEF Ends, Moves
  <2>4. TypeOK'
    BY <2>1, <2>2, <2>3 DEF TypeOK, disk, history, Inodes, AllThr
  <2>5. HandleInv'
    BY <2>1 DEF HandleInv, At, Moves, Ends, history, Idle
  <2>. QED
    BY <2>1, <2>4, <2>5 DEF BaseInv, NameInv, disk
<1>10. CASE Write(t)
  <2>1. /\ appender = "file" /\ thr[t].pc = "write" /\ f.open
        /\ Ends(t) \/ Retries(t)
        /\ lines' \in 0..MaxLines /\ shorts' \in 0..MaxShort
        /\ files' \in Seq(Seq(AllLines)) /\ Len(files') = Len(files) /\ Inodes' = Inodes
        /\ late' \in [Inodes -> Nat]
        /\ UNCHANGED <<f, name, backups, taken, now, severity, node, fileStat, t0, starts, fault>>
    BY <1>10, WriteEffect
  <2>2. thr' \in [Threads -> AllThr] /\ appender' \in {"file", "none"}
    BY <2>1 DEF Ends, Retries
  <2>3. TypeOK'
    BY <2>1, <2>2 DEF TypeOK, AllThr, AllLines
  <2>4. HandleInv'
    BY <2>1 DEF HandleInv, At, Ends, Retries, Idle
  <2>. QED
    BY <2>1, <2>3, <2>4 DEF BaseInv, NameInv
<1>. QED
  BY <1>4, <1>5, <1>6, <1>7, <1>8, <1>9, <1>10

\* The base invariant holds in every state.
LEMMA BaseAlways ==
  ASSUME Alone
  PROVE  Spec => []BaseInv
<1>1. Init => BaseInv
  BY BaseInit
<1>2. BaseInv /\ [Next]_vars => BaseInv'
  <2> SUFFICES ASSUME BaseInv, [Next]_vars PROVE BaseInv'
    OBVIOUS
  <2>1. PICK w : Threads = {w}
    BY DEF Alone
  <2>2. CASE UNCHANGED vars
    BY <2>2 DEF vars, disk, log, file, history, BaseInv, TypeOK, HandleInv, NameInv, At, Inodes
  <2>3. CASE Next
    BY <2>1, <2>3, BaseStill, BaseFile DEF Next, Step
  <2>. QED
    BY <2>2, <2>3
<1>. QED
  BY <1>1, <1>2, PTL DEF Spec

\* Type correctness.
THEOREM LogTypes ==
  ASSUME Alone
  PROVE  Spec => []TypeOK
<1>1. BaseInv => TypeOK
  BY DEF BaseInv
<1>. QED
  BY <1>1, BaseAlways, PTL

-----------------------------------------------------------------------------
\* What the watching of _filename rests on.
TakenInv == WatchInv /\ LateInv

\* The steps outside append.
LEMMA TakenOutside ==
  ASSUME Alone, BaseInv, BaseInv', TakenInv,
         \/ Tick \/ Start \/ Crash \/ Take \/ Create \/ InitStat
         \/ \E s \in SetTo : SetSeverity(s) \/ InitLog(s)
  PROVE  TakenInv'
<1>1. WatchInv /\ LateInv
  BY DEF TakenInv
<1>2. /\ Len(files) \in Nat /\ Inodes = 1..Len(files) /\ name \in Nat /\ name <= Len(files)
      /\ f.file \in Nat /\ f.file <= Len(files)
      /\ node \in 0..Len(files)
      /\ HandleInv
  BY LogShapes DEF BaseInv, TypeOK
<1>3. PICK w : Threads = {w}
  BY DEF Alone
<1> USE <1>1, <1>2, <1>3
<1>4. CASE Tick
  BY <1>4 DEF Tick, TakenInv, WatchInv, LateInv, At, disk, log, file, history, Inodes
<1>5. CASE Start
  BY <1>5 DEF Start, TakenInv, WatchInv, LateInv, At, disk, Inodes
<1>6. CASE Crash
  BY <1>6 DEF Crash, TakenInv, WatchInv, LateInv, At, disk, file, history, Inodes
<1>7. CASE Take
  BY <1>7 DEF Take, TakenInv, WatchInv, LateInv, At, log, file, history, Inodes
<1>8. CASE Create
  <2>1. /\ Inodes' = Inodes \cup {Len(files) + 1}
        /\ \A i \in Inodes : late'[i] = late[i]
        /\ late'[Len(files) + 1] = 0
    BY <1>8, NewFile DEF Create, BaseInv
  <2>2. /\ thr[w].pc # "stat" /\ appender # "opening" /\ name' = Len(files) + 1
        /\ UNCHANGED <<taken, log, file, thr>>
    BY <1>8 DEF Create, Alone
  <2>3. name' # node /\ name' # f.file
    BY <2>2
  <2>4. WatchInv'
    BY <2>2, <2>3 DEF WatchInv, At, log, file
  <2>5. At(w, {"stat", "write"}) => f.file \in Inodes
    BY DEF HandleInv, At
  <2>6. LateInv'
    BY <2>1, <2>2, <2>5 DEF LateInv, At, log, file
  <2>. QED
    BY <2>4, <2>6 DEF TakenInv
<1>9. ASSUME NEW s \in SetTo, SetSeverity(s) PROVE TakenInv'
  BY <1>9 DEF SetSeverity, TakenInv, WatchInv, LateInv, At, disk, file, history, Inodes
<1>10. ASSUME NEW s \in SetTo, InitLog(s) PROVE TakenInv'
  <2>1. thr[w] = Idle /\ appender = "stdout" /\ UNCHANGED <<taken, node, thr>>
    BY <1>10, InitEffect
  <2>2. CASE UNCHANGED <<files, name, log, f, t0, late>>
    BY <2>1, <2>2 DEF TakenInv, WatchInv, LateInv, At, log, Inodes
  <2>3. CASE Fopen /\ appender' = "opening"
    <3>1. /\ f' = [file |-> name', open |-> TRUE]
          /\ \A i \in Inodes : late'[i] = late[i]
          /\ \A i \in Inodes' : i \notin Inodes => late'[i] = 0
      BY <2>3, FopenStep DEF BaseInv
    <3>. QED
      BY <2>1, <2>3, <3>1 DEF TakenInv, WatchInv, LateInv, At, Idle
  <2>. QED
    BY <1>10, <2>2, <2>3, InitEffect
<1>11. CASE InitStat
  <2>1. /\ appender = "opening" /\ appender' = "file"
        /\ UNCHANGED <<disk, now, severity, f, t0, thr, fault, history>>
    BY <1>11 DEF InitStat
  <2>2. thr[w] = Idle
    BY <2>1 DEF HandleInv
  <2>3. name # 0 => node' = name /\ f.file = name
    BY <1>11, <2>1 DEF InitStat, WatchInv
  <2>. QED
    BY <2>1, <2>2, <2>3 DEF TakenInv, WatchInv, LateInv, At, Idle, disk, history, Inodes
<1>. QED
  BY <1>4, <1>5, <1>6, <1>7, <1>8, <1>9, <1>10, <1>11

\* The steps of append.
LEMMA TakenAppend ==
  ASSUME Alone, BaseInv, TakenInv, NEW t \in Threads, Step(t)
  PROVE  TakenInv'
<1>1. WatchInv /\ LateInv
  BY DEF TakenInv
<1>2. /\ Len(files) \in Nat /\ Inodes = 1..Len(files) /\ name \in Nat /\ name <= Len(files)
      /\ f.file \in Nat /\ f.file <= Len(files) /\ f = [file |-> f.file, open |-> f.open]
      /\ late \in [Inodes -> Nat]
      /\ HandleInv /\ NameInv /\ TypeOK
  BY LogShapes DEF BaseInv, TypeOK
<1>3. Threads = {t}
  BY DEF Alone
<1> USE <1>1, <1>2, <1>3
<1>4. ASSUME NEW level \in Levels, Log(t, level) PROVE TakenInv'
  <2>1. /\ \/ thr' = thr /\ appender' = appender
           \/ thr' = thr /\ appender = "stdout" /\ appender' = "none"
           \/ Moves(t, "idle", "check")
        /\ UNCHANGED <<disk, now, severity, file, fault, history>>
    BY <1>4, LogEffect
  <2>. QED
    BY <2>1 DEF TakenInv, WatchInv, LateInv, At, Moves, disk, file, history, Inodes
<1>5. CASE Check(t)
  <2>1. /\ appender = "file" /\ thr[t].pc = "check"
        /\ \/ thr'[t].pc = "fclose"
           \/ ~Moved /\ thr'[t].pc = "write"
        /\ UNCHANGED <<disk, now, log, f, node, t0, fault, history>>
    BY <1>5, CheckEffect
  <2>2. ~Moved => name \in Inodes /\ f.file = name
    BY <2>1 DEF Moved, WatchInv, At
  <2>3. ~Moved => late[f.file] = 0
    BY <2>2 DEF NameInv, LateInv
  <2>. QED
    BY <2>1, <2>3 DEF TakenInv, WatchInv, LateInv, At, disk, log, history, Inodes
<1>6. CASE Fclose(t)
  <2>1. Moves(t, "fclose", "null")
    BY <1>6, GoMoves DEF Fclose, log
  <2>. QED
    BY <1>6, <2>1 DEF Fclose, TakenInv, WatchInv, LateInv, At, Moves, disk, history, Inodes
<1>7. CASE SetNull(t)
  <2>1. PICK to \in {"rename", "open"} : Go(t, "null", to)
    BY <1>7 DEF SetNull
  <2>2. Moves(t, "null", to)
    BY <1>7, <2>1, GoMoves DEF SetNull, log
  <2>. QED
    BY <1>7, <2>2 DEF SetNull, TakenInv, WatchInv, LateInv, At, Moves, disk, history, Inodes
<1>8. CASE Rename(t)
  <2>1. Moves(t, "rename", "open")
    BY <1>8, GoMoves DEF Rename, log
  <2>. QED
    BY <1>8, <2>1 DEF Rename, TakenInv, WatchInv, LateInv, At, Moves, file, history, Inodes
<1>9. CASE Open(t)
  <2>1. Moves(t, "open", "stat") /\ Fopen /\ UNCHANGED taken
    BY <1>9, OpenEffect
  <2>2. /\ f' = [file |-> name', open |-> TRUE] /\ name' \in Inodes'
        /\ \A i \in Inodes : late'[i] = late[i]
        /\ \A i \in Inodes' : i \notin Inodes => late'[i] = 0
        /\ name = 0 => name' \notin Inodes
        /\ name # 0 => name' = name
    BY <2>1, FopenStep
  <2>3. late'[name'] = 0
    BY <2>2 DEF NameInv, LateInv
  <2>. QED
    BY <2>1, <2>2, <2>3 DEF TakenInv, WatchInv, LateInv, At, Moves
<1>10. CASE Stat(t)
  <2>1. /\ appender = "file" /\ thr[t].pc = "stat"
        /\ node' = IF name = 0 THEN fileStat ELSE name
        /\ Ends(t) \/ Moves(t, "stat", "write")
        /\ UNCHANGED <<disk, now, severity, f, fault, history>>
    BY <1>10, StatEffect
  <2>2. name # 0 => f.file = name
    BY <2>1 DEF WatchInv, At
  <2>. QED
    BY <2>1, <2>2 DEF TakenInv, WatchInv, LateInv, At, Moves, Ends, Idle, disk, history, Inodes
<1>11. CASE Write(t)
  <2>1. /\ appender = "file" /\ thr[t].pc = "write" /\ f.file \in Inodes
        /\ Ends(t) \/ Retries(t)
        /\ Inodes' = Inodes
        /\ late' = IF f.file \in taken THEN [late EXCEPT ![f.file] = @ + 1] ELSE late
        /\ UNCHANGED <<f, name, taken, node>>
    BY <1>11, WriteEffect
  <2>2. late[f.file] = 0
    BY <2>1 DEF LateInv, At
  <2>3. WatchInv'
    BY <2>1 DEF WatchInv, At, Ends, Retries, Idle
  <2>4. LateInv'
    BY <2>1, <2>2 DEF LateInv, At, Ends, Retries, Idle
  <2>. QED
    BY <2>3, <2>4 DEF TakenInv
<1>. QED
  BY <1>4, <1>5, <1>6, <1>7, <1>8, <1>9, <1>10, <1>11 DEF Step

LEMMA TakenAlways ==
  ASSUME Alone
  PROVE  Spec => []TakenInv
<1>1. Init => TakenInv
  BY DEF Init, TakenInv, WatchInv, LateInv, At, Inodes
<1>2. BaseInv /\ BaseInv' /\ TakenInv /\ [Next]_vars => TakenInv'
  <2> SUFFICES ASSUME BaseInv, BaseInv', TakenInv, [Next]_vars PROVE TakenInv'
    OBVIOUS
  <2>1. CASE UNCHANGED vars
    BY <2>1 DEF vars, disk, log, file, history, TakenInv, WatchInv, LateInv, At, Inodes
  <2>2. CASE Next
    BY <2>2, TakenOutside, TakenAppend DEF Next
  <2>. QED
    BY <2>1, <2>2
<1>. QED
  BY <1>1, <1>2, BaseAlways, PTL DEF Spec

\* A file taken away gets at most one more line of the thread, also when
\* another file is in its place: do_rollover compares _file_node.
THEOREM TakenAlwaysLeft ==
  ASSUME Alone
  PROVE  Spec => []TakenFileLeft
<1>1. Cardinality(Threads) = 1
  BY FS_Singleton DEF Alone
<1>2. TakenInv => TakenFileLeft
  BY <1>1 DEF TakenInv, LateInv, TakenFileLeft
<1>. QED
  BY <1>2, TakenAlways, PTL
-----------------------------------------------------------------------------
\* The clock only grows, and _t follows it.
LEMMA TimeStep ==
  ASSUME Alone, BaseInv, BaseInv', TimeInv, [Next]_vars
  PROVE  TimeInv'
<1>1. PICK t : Threads = {t}
  BY DEF Alone
<1>2. /\ now \in Nat /\ t0 \in Nat /\ thr[t].now \in Nat /\ thr[t].made \in Nat
      /\ thr \in [Threads -> AllThr]
      /\ thr[t].for \in {"roll", "reopen", "retry"}
      /\ HandleInv /\ RolloverS \in Int
  BY <1>1, LogShapes, Numbers DEF BaseInv, AllThr
<1>3. now' \in Nat /\ t0' \in Nat /\ thr'[t].now \in Nat /\ thr'[t].made \in Nat
  BY <1>1, LogShapes, Numbers DEF BaseInv, TypeOK
<1> USE <1>1, <1>2, <1>3
<1>4. CASE \/ UNCHANGED vars \/ Take \/ Create
           \/ \E s \in SetTo : SetSeverity(s)
  <2>1. UNCHANGED <<now, t0, thr, appender>>
    BY <1>4 DEF vars, Take, Create, SetSeverity, log, file
  <2>. QED
    BY <2>1 DEF TimeInv, At
<1>5. CASE Tick
  <2>1. now' = now + 1 /\ UNCHANGED <<t0, thr, appender>>
    BY <1>5 DEF Tick, log, file
  <2>. QED
    BY <2>1 DEF TimeInv, At
<1>6. CASE Start \/ Crash
  <2>1. /\ appender' \in {"none", "stdout"} /\ now' = now /\ t0' \in {0, t0}
        /\ thr' = thr \/ thr'[t] = Idle
    BY <1>6 DEF Start, Crash, file
  <2>. QED
    BY <2>1 DEF TimeInv, At, Idle
<1>7. ASSUME NEW s \in SetTo, InitLog(s) PROVE TimeInv'
  <2>1. /\ thr[t] = Idle /\ UNCHANGED <<now, thr>>
        /\ t0' \in {t0, now}
    BY <1>7, InitEffect
  <2>. QED
    BY <2>1 DEF TimeInv, At, Idle
<1>8. CASE InitStat
  <2>1. thr[t] = Idle /\ UNCHANGED <<now, t0, thr>>
    BY <1>8 DEF InitStat, HandleInv
  <2>. QED
    BY <2>1 DEF TimeInv, At, Idle
<1>9. ASSUME NEW level \in Levels, Log(t, level) PROVE TimeInv'
  <2>1. /\ \/ thr' = thr /\ appender' = appender
           \/ thr' = thr /\ appender = "stdout" /\ appender' = "none"
           \/ Moves(t, "idle", "check")
        /\ UNCHANGED <<disk, now, severity, file, fault, history>>
    BY <1>9, LogEffect
  <2>. QED
    BY <2>1 DEF TimeInv, At, Moves, file
<1>10. CASE Check(t)
  <2>1. /\ appender = "file" /\ thr[t].pc = "check"
        /\ thr'[t].now = now /\ thr'[t].made = thr[t].made
        /\ \/ Due /\ thr'[t].pc = "fclose" /\ thr'[t].for = "roll"
           \/ ~Due /\ Moved /\ thr'[t].pc = "fclose" /\ thr'[t].for = "reopen"
           \/ ~Due /\ ~Moved /\ thr'[t].pc = "write"
        /\ UNCHANGED <<disk, now, log, f, node, t0, fault, history>>
    BY <1>10, CheckEffect
  <2>. QED
    BY <2>1 DEF TimeInv, At, Due, log
<1>11. CASE Fclose(t)
  <2>1. Moves(t, "fclose", "null")
    BY <1>11, GoMoves DEF Fclose, log
  <2>. QED
    BY <1>11, <2>1 DEF Fclose, TimeInv, At, Moves
<1>12. CASE SetNull(t)
  <2>1. PICK to \in {"rename", "open"} : Go(t, "null", to)
    BY <1>12 DEF SetNull
  <2>2. Moves(t, "null", to)
    BY <1>12, <2>1, GoMoves DEF SetNull, log
  <2>. QED
    BY <1>12, <2>2 DEF SetNull, TimeInv, At, Moves
<1>13. CASE Rename(t)
  <2>1. Moves(t, "rename", "open")
    BY <1>13, GoMoves DEF Rename, log
  <2>. QED
    BY <1>13, <2>1 DEF Rename, TimeInv, At, Moves, file
<1>14. CASE Open(t)
  <2>1. Moves(t, "open", "stat") /\ UNCHANGED <<now, t0>>
    BY <1>14, OpenEffect
  <2>. QED
    BY <2>1 DEF TimeInv, At, Moves
<1>15. CASE Stat(t)
  <2>1. /\ appender = "file" /\ thr[t].pc = "stat"
        /\ IF thr[t].for = "retry"
           THEN t0' = t0 /\ Ends(t)
           ELSE t0' = thr[t].now /\ Moves(t, "stat", "write")
        /\ UNCHANGED now
    BY <1>15, StatEffect
  <2>. QED
    BY <2>1 DEF TimeInv, At, Moves, Ends, Idle
<1>16. CASE Write(t)
  <2>1. appender = "file" /\ thr[t].pc = "write" /\ UNCHANGED <<now, t0>>
    BY <1>16, WriteEffect
  <2>2. CASE Ends(t)
    BY <2>1, <2>2 DEF TimeInv, At, Ends, Idle
  <2>3. CASE Retries(t)
    BY <2>1, <2>3 DEF TimeInv, At, Retries
  <2>. QED
    BY <1>16, <2>2, <2>3, WriteEffect
<1>. QED
  BY <1>4, <1>5, <1>6, <1>7, <1>8, <1>9, <1>10, <1>11, <1>12, <1>13, <1>14, <1>15, <1>16
     DEF Next, Step

LEMMA TimeAlways ==
  ASSUME Alone
  PROVE  Spec => []TimeInv
<1>1. Init => TimeInv
  BY DEF Init, TimeInv, At, Idle
<1>2. BaseInv /\ BaseInv' /\ TimeInv /\ [Next]_vars => TimeInv'
  BY TimeStep
<1>. QED
  BY <1>1, <1>2, BaseAlways, PTL DEF Spec

\* Files that are opened, renamed or taken keep their lines.
LEMMA SpanGrows ==
  ASSUME starts' = starts,
         Inodes \subseteq Inodes',
         \A i \in Inodes : files'[i] = files[i],
         \A i \in Inodes' : i \notin Inodes => files'[i] = <<>>
  PROVE  /\ SpanBounded => SpanBounded'
         /\ Started => Started'
         /\ \A i \in Inodes : Fresh(i) => Fresh(i)'
         /\ \A i \in Inodes : t0' = t0 /\ InSpan(i) => InSpan(i)'
         /\ \A i \in Inodes' : i \notin Inodes => Fresh(i)'
         /\ \A i \in Inodes' : Fresh(i)' => InSpan(i)'
<1>1. ASSUME NEW i \in Inodes', NEW k \in DOMAIN files'[i]
      PROVE  i \in Inodes /\ files'[i] = files[i] /\ k \in DOMAIN files[i]
  <2>1. i \in Inodes
    BY <1>1
  <2>. QED
    BY <2>1
<1>2. SpanBounded => SpanBounded'
  BY <1>1 DEF SpanBounded
<1>3. Started => Started'
  BY <1>1 DEF Started
<1>4. \A i \in Inodes' : i \notin Inodes => Fresh(i)'
  BY DEF Fresh
<1>5. \A i \in Inodes : Fresh(i) => Fresh(i)'
  BY <1>1 DEF Fresh
<1>6. \A i \in Inodes : t0' = t0 /\ InSpan(i) => InSpan(i)'
  BY <1>1 DEF InSpan
<1>7. \A i \in Inodes' : Fresh(i)' => InSpan(i)'
  BY DEF Fresh, InSpan
<1>. QED
  BY <1>2, <1>3, <1>4, <1>5, <1>6, <1>7

\* What the steps need to know of the files.
LEMMA SpanShapes ==
  ASSUME BaseInv
  PROVE  /\ Len(files) \in Nat /\ Inodes = 1..Len(files)
         /\ name \in Nat /\ (name # 0 => name \in Inodes)
         /\ f.file \in Nat /\ (f.file # 0 => f.file \in Inodes)
         /\ \A t \in Threads :
              At(t, {"idle", "check", "fclose", "null", "stat", "write"}) => f.file # 0
         /\ \A i \in Inodes : \A k \in DOMAIN files[i] : files[i][k] \in AllLines
         /\ starts \in Nat /\ t0 \in Nat /\ RolloverS \in Int
<1>1. /\ Len(files) \in Nat /\ Inodes = 1..Len(files) /\ name \in Nat /\ name <= Len(files)
      /\ f.file \in Nat /\ f.file <= Len(files) /\ starts \in Nat /\ t0 \in Nat
      /\ \A i \in Inodes : \A k \in DOMAIN files[i] : files[i][k] \in AllLines
  BY LogShapes DEF BaseInv
<1>2. \A t \in Threads : At(t, {"idle", "check", "fclose", "null", "stat", "write"}) => f.file # 0
  BY DEF BaseInv, HandleInv, At
<1>3. name # 0 => name \in Inodes
  BY <1>1
<1>4. f.file # 0 => f.file \in Inodes
  BY <1>1
<1>. QED
  BY <1>1, <1>2, <1>3, <1>4, Numbers

\* The steps outside append, and the first of append.
LEMMA SpanOutside ==
  ASSUME Alone, BaseInv, SpanInv, NEW t \in Threads,
         \/ UNCHANGED vars
         \/ Tick \/ Start \/ Crash \/ Take \/ Create \/ InitStat
         \/ \E s \in SetTo : SetSeverity(s) \/ InitLog(s)
         \/ \E level \in Levels : Log(t, level)
  PROVE  SpanInv'
<1>1. SpanBounded /\ Started
      /\ (appender \in {"stdout", "opening"} => \A i \in Inodes : Fresh(i))
      /\ (RolloverS > 0 => SpanAt(t))
  BY DEF SpanInv
<1>2. Threads = {t}
  BY DEF Alone
<1>3. /\ Len(files) \in Nat /\ Inodes = 1..Len(files)
      /\ name \in Nat /\ (name # 0 => name \in Inodes)
      /\ f.file \in Nat /\ (f.file # 0 => f.file \in Inodes)
      /\ At(t, {"idle", "check", "fclose", "null", "stat", "write"}) => f.file # 0
      /\ \A i \in Inodes : \A k \in DOMAIN files[i] : files[i][k] \in AllLines
      /\ starts \in Nat
  BY SpanShapes
<1> USE <1>1, <1>2, <1>3
<1>4. CASE UNCHANGED vars \/ Tick \/ \E s \in SetTo : SetSeverity(s)
  <2>1. UNCHANGED <<files, name, appender, f, t0, thr, starts>>
    BY <1>4 DEF vars, Tick, SetSeverity, disk, log, file, history
  <2>. QED
    BY <2>1 DEF SpanInv, SpanBounded, Started, SpanAt, At, Fresh, InSpan, Inodes
<1>5. CASE Start
  <2>1. files' = files /\ starts' = starts + 1 /\ appender' = "stdout" /\ Inodes' = Inodes
    BY <1>5 DEF Start, disk, Inodes
  <2>2. \A i \in Inodes : \A k \in DOMAIN files[i] :
          files[i][k].start \in Int /\ files[i][k].start < starts'
    BY <2>1, Numbers DEF Started, AllLines
  <2>3. Started' /\ \A i \in Inodes : Fresh(i)'
    BY <2>1, <2>2 DEF Started, Fresh
  <2>. QED
    BY <2>1, <2>3 DEF SpanInv, SpanBounded, SpanAt, At
<1>6. CASE Crash
  <2>1. UNCHANGED <<files, starts>> /\ appender' = "none"
    BY <1>6 DEF Crash, disk, history
  <2>. QED
    BY <2>1 DEF SpanInv, SpanBounded, Started, SpanAt, At, Inodes
<1>7. CASE Take
  <2>1. name' = 0 /\ UNCHANGED <<files, appender, f, t0, thr, starts>>
    BY <1>7 DEF Take, log, file, history
  <2>2. /\ SpanBounded' /\ Started'
        /\ appender' \in {"stdout", "opening"} => \A i \in Inodes' : Fresh(i)'
    BY <2>1 DEF SpanBounded, Started, Fresh, Inodes
  <2>3. RolloverS > 0 => SpanAt(t)'
    BY <2>1 DEF SpanAt, At, Fresh, InSpan
  <2>. QED
    BY <2>2, <2>3 DEF SpanInv
<1>8. CASE Create
  <2>1. /\ name' = Len(files) + 1 /\ UNCHANGED <<appender, f, t0, thr, starts>>
        /\ thr[t].pc # "stat"
    BY <1>8 DEF Create, log, file, Alone
  <2>2. /\ Inodes' = Inodes \cup {Len(files) + 1}
        /\ \A i \in Inodes : files'[i] = files[i]
        /\ files'[Len(files) + 1] = <<>>
    BY <1>8, NewFile DEF Create, BaseInv
  <2>3. name' \in Inodes' /\ name' \notin Inodes /\ name' # f.file
    BY <2>1, <2>2
  <2>4. /\ SpanBounded' /\ Started'
        /\ \A i \in Inodes : Fresh(i) => Fresh(i)'
        /\ \A i \in Inodes : InSpan(i) => InSpan(i)'
        /\ \A i \in Inodes' : i \notin Inodes => Fresh(i)'
        /\ \A i \in Inodes' : Fresh(i)' => InSpan(i)'
    BY <2>1, <2>2, SpanGrows
  <2>5. Fresh(name)' /\ InSpan(name)'
    <3>1. PICK new : new = name'
      OBVIOUS
    <3>2. Fresh(new)' /\ InSpan(new)'
      BY <2>3, <2>4, <3>1
    <3>. QED
      BY <3>1, <3>2 DEF Fresh, InSpan
  <2>6. appender' \in {"stdout", "opening"} => \A i \in Inodes' : Fresh(i)'
    BY <2>1, <2>4
  <2>7. RolloverS > 0 => SpanAt(t)'
    BY <2>1, <2>3, <2>4, <2>5 DEF SpanAt, At
  <2>. QED
    BY <2>4, <2>6, <2>7 DEF SpanInv
<1>9. ASSUME NEW s \in SetTo, InitLog(s) PROVE SpanInv'
  <2>1. appender = "stdout" /\ thr[t] = Idle /\ UNCHANGED <<thr, starts>>
    BY <1>9, InitEffect
  <2>2. CASE UNCHANGED <<files, name, log, f, t0, late>>
    BY <2>1, <2>2 DEF SpanInv, SpanBounded, Started, SpanAt, At, Fresh, InSpan, Inodes, log
  <2>3. CASE Fopen /\ appender' = "opening"
    <3>1. /\ Inodes \subseteq Inodes'
          /\ \A i \in Inodes : files'[i] = files[i]
          /\ \A i \in Inodes' : i \notin Inodes => files'[i] = <<>>
      BY <2>3, FopenStep DEF BaseInv
    <3>2. /\ SpanBounded' /\ Started'
          /\ \A i \in Inodes : Fresh(i) => Fresh(i)'
          /\ \A i \in Inodes' : i \notin Inodes => Fresh(i)'
      BY <2>1, <3>1, SpanGrows
    <3>3. \A i \in Inodes' : Fresh(i)'
      BY <2>1, <3>2
    <3>4. SpanAt(t)'
      BY <2>3 DEF SpanAt, At
    <3>. QED
      BY <3>2, <3>3, <3>4 DEF SpanInv
  <2>. QED
    BY <1>9, <2>2, <2>3, InitEffect
<1>10. CASE InitStat
  <2>1. /\ appender = "opening" /\ appender' = "file" /\ UNCHANGED <<files, name, f, thr, starts>>
        /\ thr[t] = Idle /\ f.open
    BY <1>10 DEF InitStat, disk, history, BaseInv, HandleInv
  <2>2. f.file \in Inodes
    BY <2>1 DEF BaseInv, HandleInv
  <2>3. SpanBounded' /\ Started'
    BY <2>1 DEF SpanBounded, Started, Inodes
  <2>4. Fresh(f.file)' /\ (name = 0 \/ Fresh(name)')
    BY <2>1, <2>2 DEF Fresh
  <2>5. InSpan(f.file)'
    BY <2>4 DEF Fresh, InSpan
  <2>6. SpanAt(t)'
    BY <2>1, <2>4, <2>5 DEF SpanAt, At, Idle
  <2>. QED
    BY <2>1, <2>3, <2>6 DEF SpanInv
<1>11. ASSUME NEW level \in Levels, Log(t, level) PROVE SpanInv'
  <2>1. /\ \/ thr' = thr /\ appender' = appender
           \/ thr' = thr /\ appender = "stdout" /\ appender' = "none"
           \/ Moves(t, "idle", "check")
        /\ UNCHANGED <<files, name, f, t0, starts>>
    BY <1>11, LogEffect DEF disk, file, history
  <2>2. /\ SpanBounded' /\ Started'
        /\ appender' \in {"stdout", "opening"} => \A i \in Inodes' : Fresh(i)'
    BY <2>1 DEF SpanBounded, Started, Fresh, Inodes, Moves
  <2>3. RolloverS > 0 => SpanAt(t)'
    BY <2>1 DEF SpanAt, At, Fresh, InSpan, Moves
  <2>. QED
    BY <2>2, <2>3 DEF SpanInv
<1>. QED
  BY <1>4, <1>5, <1>6, <1>7, <1>8, <1>9, <1>10, <1>11

\* do_rollover and open leave every line alone.
LEMMA SpanReopen ==
  ASSUME Alone, BaseInv, NameInv, WatchInv, TimeInv, SpanInv, NEW t \in Threads,
         \/ Check(t) \/ Fclose(t) \/ SetNull(t) \/ Rename(t) \/ Open(t) \/ Stat(t)
  PROVE  SpanInv'
<1>1. SpanBounded /\ Started /\ (RolloverS > 0 => SpanAt(t))
  BY DEF SpanInv
<1>2. Threads = {t}
  BY DEF Alone
<1>3. /\ name \in Nat /\ (name # 0 => name \in Inodes)
      /\ f.file \in Nat /\ (f.file # 0 => f.file \in Inodes)
      /\ At(t, {"idle", "check", "fclose", "null", "stat", "write"}) => f.file # 0
      /\ f = [file |-> f.file, open |-> f.open]
      /\ thr[t].for \in {"roll", "reopen", "retry"}
  BY SpanShapes, LogShapes DEF BaseInv, AllThr
<1>4. /\ starts' = starts
      /\ Inodes \subseteq Inodes'
      /\ \A i \in Inodes : files'[i] = files[i]
      /\ \A i \in Inodes' : i \notin Inodes => files'[i] = <<>>
  <2>1. CASE Open(t)
    BY <2>1, OpenEffect, FopenStep DEF BaseInv
  <2>2. CASE files' = files /\ starts' = starts
    BY <2>2 DEF Inodes
  <2>3. Open(t) \/ (files' = files /\ starts' = starts)
    BY DEF Check, Fclose, SetNull, Rename, Stat, disk, history
  <2>. QED
    BY <2>1, <2>2, <2>3
<1>5. /\ SpanBounded' /\ Started'
      /\ \A i \in Inodes : Fresh(i) => Fresh(i)'
      /\ \A i \in Inodes : t0' = t0 /\ InSpan(i) => InSpan(i)'
      /\ \A i \in Inodes' : i \notin Inodes => Fresh(i)'
      /\ \A i \in Inodes' : Fresh(i)' => InSpan(i)'
  BY <1>1, <1>4, SpanGrows
<1>6. appender' \notin {"stdout", "opening"}
  BY CheckEffect, GoMoves, OpenEffect, StatEffect
     DEF Fclose, SetNull, Rename, Moves, Ends, BaseInv, HandleInv, Go, Idle, log
<1>7. RolloverS > 0 => SpanAt(t)'
  <2> SUFFICES ASSUME RolloverS > 0 PROVE SpanAt(t)'
    OBVIOUS
  <2>1. CASE Check(t)
    <3>1. /\ appender = "file" /\ thr[t].pc = "check" /\ appender' = "file"
          /\ \/ thr'[t].pc = "fclose" /\ thr'[t].for = "roll"
             \/ Moved /\ thr'[t].pc = "fclose" /\ thr'[t].for = "reopen"
             \/ thr'[t].pc = "write"
          /\ UNCHANGED <<files, name, f, t0, starts>>
      BY <2>1, CheckEffect DEF disk, log, history
    <3>2. Moved => name # f.file
      BY <1>3, <3>1 DEF Moved, WatchInv, At
    <3>. QED
      BY <1>1, <3>1, <3>2 DEF SpanAt, At, Fresh, InSpan
  <2>2. CASE Fclose(t)
    <3>1. /\ Moves(t, "fclose", "null") /\ f'.file = f.file
          /\ UNCHANGED <<files, name, t0, starts>>
      BY <1>3, <2>2, GoMoves DEF Fclose, disk, log, history
    <3>. QED
      BY <1>1, <3>1 DEF SpanAt, At, Fresh, InSpan, Moves
  <2>3. CASE SetNull(t)
    <3>1. PICK to \in {"rename", "open"} :
            /\ to = IF thr[t].for = "roll" THEN "rename" ELSE "open"
            /\ Go(t, "null", to)
      BY <2>3 DEF SetNull
    <3>2. Moves(t, "null", to) /\ UNCHANGED <<files, name, t0, starts>>
      BY <2>3, <3>1, GoMoves DEF SetNull, disk, log, history
    <3>3. Fresh(name) => InSpan(name)
      BY DEF Fresh, InSpan
    <3>. QED
      BY <1>1, <1>3, <3>1, <3>2, <3>3 DEF SpanAt, At, Fresh, InSpan, Moves
  <2>4. CASE Rename(t)
    <3>1. Moves(t, "rename", "open") /\ name' = 0
      BY <2>4, GoMoves DEF Rename, log
    <3>. QED
      BY <3>1 DEF SpanAt, At, Moves
  <2>5. CASE Open(t)
    <3>1. /\ Moves(t, "open", "stat") /\ Fopen /\ UNCHANGED t0
      BY <2>5, OpenEffect
    <3>2. /\ name' \in Inodes' /\ f' = [file |-> name', open |-> TRUE]
          /\ name # 0 => name' = name
          /\ name = 0 => name' \notin Inodes
      BY <3>1, FopenStep DEF BaseInv
    <3>3. PICK new : new = name' /\ new = f'.file
      BY <3>2
    <3>4. IF thr[t].for = "retry" THEN InSpan(new)' ELSE Fresh(new)'
      <4>1. CASE name = 0
        BY <1>5, <3>2, <3>3, <4>1
      <4>2. CASE name # 0
        <5>1. new = name /\ new \in Inodes
          BY <1>3, <3>2, <3>3, <4>2
        <5>2. IF thr[t].for = "retry" THEN InSpan(new) ELSE Fresh(new)
          BY <1>1, <3>1, <4>2, <5>1 DEF SpanAt, At, Moves
        <5>. QED
          BY <1>5, <3>1, <5>1, <5>2
      <4>. QED
        BY <4>1, <4>2
    <3>. QED
      BY <3>1, <3>3, <3>4 DEF SpanAt, At, Moves, InSpan, Fresh
  <2>6. CASE Stat(t)
    <3>1. /\ appender = "file" /\ thr[t].pc = "stat"
          /\ IF thr[t].for = "retry"
             THEN t0' = t0 /\ Ends(t)
             ELSE Moves(t, "stat", "write")
          /\ UNCHANGED <<files, name, f, starts>>
      BY <2>6, StatEffect DEF disk, history
    <3>2. name \in {0, f.file}
      BY <3>1 DEF WatchInv, At
    <3>3. InSpan(f.file)'
      <4>1. CASE thr[t].for = "retry"
        BY <1>1, <3>1, <4>1 DEF SpanAt, At, InSpan
      <4>2. CASE thr[t].for # "retry"
        BY <1>1, <3>1, <4>2 DEF SpanAt, At, Fresh, InSpan
      <4>. QED
        BY <4>1, <4>2
    <3>. QED
      BY <3>1, <3>2, <3>3 DEF SpanAt, At, Moves, Ends, Idle
  <2>. QED
    BY <2>1, <2>2, <2>3, <2>4, <2>5, <2>6
<1>. QED
  BY <1>2, <1>5, <1>6, <1>7 DEF SpanInv

\* The line of append is in the span, and so is what the file has of this run.
LEMMA SpanWrite ==
  ASSUME Alone, BaseInv, TimeInv, SpanInv, NEW t \in Threads, Write(t)
  PROVE  SpanInv'
<1>1. SpanBounded /\ Started /\ (RolloverS > 0 => SpanAt(t))
  BY DEF SpanInv
<1>2. Threads = {t}
  BY DEF Alone
<1>3. /\ name \in Nat /\ (name # 0 => name \in Inodes)
      /\ \A i \in Inodes : \A k \in DOMAIN files[i] : files[i][k] \in AllLines
      /\ starts \in Nat /\ t0 \in Nat /\ RolloverS \in Int /\ now \in Nat
      /\ thr[t].now \in Nat /\ thr[t].made \in Nat
  <2>1. thr \in [Threads -> AllThr] /\ now \in Nat
    BY LogShapes DEF BaseInv
  <2>2. thr[t].now \in Nat /\ thr[t].made \in Nat
    BY <2>1, Numbers DEF AllThr
  <2>. QED
    BY <2>1, <2>2, SpanShapes
<1>4. /\ appender = "file" /\ thr[t].pc = "write" /\ f.file \in Inodes
      /\ Ends(t) \/ Retries(t)
      /\ Inodes' = Inodes
      /\ \A i \in Inodes : i # f.file => files'[i] = files[i]
      /\ UNCHANGED <<f, name, t0, starts>>
  BY WriteEffect
<1>5. PICK line \in AllLines :
        /\ line.made = thr[t].made /\ line.written = now /\ line.start = starts
        /\ files'[f.file] = Append(files[f.file], line)
  BY WriteEffect
<1>6. PICK n : n = Len(files[f.file]) + 1
  OBVIOUS
<1>7. /\ DOMAIN files[f.file] = 1..(n - 1) /\ n \in Nat /\ n >= 1
      /\ DOMAIN files'[f.file] = 1..n
      /\ files'[f.file][n] = line
      /\ \A k \in 1..(n - 1) : files'[f.file][k] = files[f.file][k]
  <2>1. /\ files[f.file] \in Seq(AllLines) /\ DOMAIN files[f.file] = 1..Len(files[f.file])
        /\ Len(files[f.file]) \in Nat
    BY <1>4, LogShapes DEF BaseInv
  <2>. QED
    BY <1>6, <1>5, <2>1, AppendProperties, LenProperties
<1>8. /\ \A k \in DOMAIN files[f.file] : k \in DOMAIN files'[f.file] /\ files'[f.file][k] = files[f.file][k]
      /\ \A k \in DOMAIN files'[f.file] : k \in DOMAIN files[f.file] \/ k = n
  BY <1>7
<1>9. Started'
  <2> SUFFICES ASSUME NEW i \in Inodes, NEW k \in DOMAIN files'[i]
               PROVE  files'[i][k].start <= starts
    BY <1>4 DEF Started
  <2>1. CASE i = f.file /\ k = n
    BY <1>3, <1>7, <1>5, <2>1
  <2>2. CASE i = f.file /\ k # n
    BY <1>1, <1>8, <2>2 DEF Started
  <2>3. CASE i # f.file
    BY <1>1, <1>4, <2>3 DEF Started
  <2>. QED
    BY <2>1, <2>2, <2>3
<1>10. ASSUME RolloverS > 0 PROVE InSpan(f.file)'
  <2>1. t0 <= now /\ thr[t].made <= thr[t].now /\ thr[t].now - t0 < RolloverS
    BY <1>4, <1>10 DEF TimeInv, At
  <2>2. InSpan(f.file)
    BY <1>1, <1>4, <1>10 DEF SpanAt, At
  <2>3. t0 <= line.written /\ line.made - t0 < RolloverS
    BY <1>3, <1>5, <2>1
  <2>. QED
    BY <1>4, <1>7, <1>8, <2>2, <2>3 DEF InSpan
<1>11. SpanBounded'
  <2> SUFFICES ASSUME RolloverS > 0, NEW i \in Inodes, NEW k \in DOMAIN files'[i], NEW l \in DOMAIN files'[i],
                      files'[i][k].start = files'[i][l].start
               PROVE  files'[i][l].made - files'[i][k].written < RolloverS
    BY <1>4 DEF SpanBounded
  <2>1. CASE i # f.file
    BY <1>1, <1>4, <2>1 DEF SpanBounded
  <2>2. CASE i = f.file
    <3>1. ASSUME NEW m \in DOMAIN files'[i] PROVE files'[i][m].made \in Int /\ files'[i][m].written \in Int
      <4>1. CASE m = n
        BY <1>3, <1>7, <1>5, <2>2, <4>1, SMTT(40)
      <4>2. CASE m # n
        <5>1. files'[i][m] \in AllLines
          BY <1>3, <1>4, <1>8, <2>2, <4>2
        <5>. QED
          BY <5>1, Numbers DEF AllLines
      <4>. QED
        BY <4>1, <4>2
    <3>2. CASE files'[i][k].start = starts
      <4>1. ASSUME NEW m \in DOMAIN files'[i], files'[i][m].start = starts
            PROVE  t0 <= files'[i][m].written /\ files'[i][m].made - t0 < RolloverS
        BY <1>4, <1>10, <2>2, <4>1 DEF InSpan
      <4>2. /\ t0 <= files'[i][k].written /\ files'[i][l].made - t0 < RolloverS
            /\ files'[i][k].written \in Int /\ files'[i][l].made \in Int
        BY <3>1, <3>2, <4>1
      <4>. QED
        BY <1>3, <4>2
    <3>3. CASE files'[i][k].start # starts
      <4>1. k # n /\ l # n
        BY <1>7, <1>5, <2>2, <3>3
      <4>. QED
        BY <1>1, <1>4, <1>8, <2>2, <4>1 DEF SpanBounded
    <3>. QED
      BY <3>2, <3>3
  <2>. QED
    BY <2>1, <2>2
<1>12. RolloverS > 0 => SpanAt(t)'
  <2> SUFFICES ASSUME RolloverS > 0 PROVE SpanAt(t)'
    OBVIOUS
  <2>1. name \in {0, f.file} \/ Fresh(name)
    BY <1>1, <1>4 DEF SpanAt, At
  <2>2. name \in {0, f.file} \/ Fresh(name)'
    BY <1>3, <1>4, <2>1 DEF Fresh
  <2>. QED
    BY <1>4, <1>10, <2>2 DEF SpanAt, At, Ends, Retries, Idle
<1>. QED
  BY <1>2, <1>4, <1>9, <1>11, <1>12 DEF SpanInv, Ends, Retries

LEMMA SpanAlways ==
  ASSUME Alone
  PROVE  Spec => []SpanInv
<1>1. Init => SpanInv
  BY DEF Init, SpanInv, SpanBounded, Started, Fresh, SpanAt, At, Inodes
<1>2. BaseInv /\ TakenInv /\ TimeInv /\ SpanInv /\ [Next]_vars => SpanInv'
  <2> SUFFICES ASSUME BaseInv, TakenInv, TimeInv, SpanInv, [Next]_vars PROVE SpanInv'
    OBVIOUS
  <2>1. PICK t : Threads = {t}
    BY DEF Alone
  <2>2. WatchInv /\ NameInv
    BY DEF TakenInv, BaseInv
  <2>. QED
    BY <2>1, <2>2, SpanOutside, SpanReopen, SpanWrite DEF Next, Step
<1>. QED
  BY <1>1, <1>2, BaseAlways, TakenAlways, TimeAlways, PTL DEF Spec

\* No line that carries a time of RolloverS or more after another was written
\* goes into the same file as it in one run of the process, whatever files were
\* opened, taken or left by an earlier run, and however long the thread sleeps
\* between do_rollover and fwrite.
THEOREM SpanAlwaysBounded ==
  ASSUME Alone
  PROVE  Spec => []SpanBounded
<1>1. SpanInv => SpanBounded
  BY DEF SpanInv
<1>. QED
  BY <1>1, SpanAlways, PTL
-----------------------------------------------------------------------------
\* A second that is over stays over: _t only grows while the process runs, and
\* a new process takes it from the clock.
LEMMA OverStays ==
  ASSUME Alone, BaseInv, BaseInv', TimeInv, NEW u \in 0..MaxTime, Over(u), [Next]_vars
  PROVE  Over(u)'
<1>1. PICK t : Threads = {t}
  BY DEF Alone
<1>2. /\ now \in Nat /\ t0 \in Nat /\ thr[t].now \in Nat /\ u \in Nat
      /\ HandleInv /\ NameInv
      /\ thr[t].for \in {"roll", "reopen", "retry"}
  BY <1>1, LogShapes, Numbers DEF BaseInv, AllThr
<1>3. now' \in Nat /\ t0' \in Nat /\ thr'[t].now \in Nat
  BY <1>1, LogShapes, Numbers DEF BaseInv, TypeOK
<1> USE <1>1, <1>2, <1>3
<1>4. CASE \/ UNCHANGED vars \/ Take \/ Create
           \/ \E s \in SetTo : SetSeverity(s)
  <2>1. UNCHANGED <<now, t0, thr, appender>>
    BY <1>4 DEF vars, Take, Create, SetSeverity, log, file
  <2>. QED
    BY <2>1 DEF Over
<1>5. CASE Tick
  <2>1. now' = now + 1 /\ UNCHANGED <<t0, thr, appender>>
    BY <1>5 DEF Tick, log, file
  <2>. QED
    BY <2>1 DEF Over
<1>6. CASE Start \/ Crash
  <2>1. appender' \in {"none", "stdout"} /\ UNCHANGED now
    BY <1>6 DEF Start, Crash
  <2>. QED
    BY <2>1 DEF Over
<1>7. ASSUME NEW s \in SetTo, InitLog(s) PROVE Over(u)'
  <2>1. /\ appender = "stdout" /\ thr[t] = Idle /\ UNCHANGED <<now, thr>>
        /\ appender' = appender \/ t0' = now
    BY <1>7, InitEffect DEF log
  <2>. QED
    BY <2>1 DEF Over, Idle
<1>8. CASE InitStat
  <2>1. appender = "opening" /\ UNCHANGED <<now, t0, thr>>
    BY <1>8 DEF InitStat
  <2>. QED
    BY <2>1 DEF Over
<1>9. ASSUME NEW level \in Levels, Log(t, level) PROVE Over(u)'
  <2>1. /\ \/ thr' = thr /\ appender' = appender
           \/ thr' = thr /\ appender = "stdout" /\ appender' = "none"
           \/ Moves(t, "idle", "check")
        /\ UNCHANGED <<now, file>>
    BY <1>9, LogEffect
  <2>. QED
    BY <2>1 DEF Over, Moves, file
<1>10. CASE Check(t)
  <2>1. /\ appender = "file" /\ thr[t].pc = "check"
        /\ thr'[t].pc \in {"fclose", "write"}
        /\ UNCHANGED <<now, t0>>
    BY <1>10, CheckEffect
  <2>. QED
    BY <2>1 DEF Over
<1>11. CASE Fclose(t)
  <2>1. Moves(t, "fclose", "null") /\ UNCHANGED <<now, t0>>
    BY <1>11, GoMoves DEF Fclose, log
  <2>. QED
    BY <2>1 DEF Over, Moves
<1>12. CASE SetNull(t)
  <2>1. PICK to \in {"rename", "open"} :
          /\ to = IF thr[t].for = "roll" THEN "rename" ELSE "open"
          /\ Go(t, "null", to)
    BY <1>12 DEF SetNull
  <2>2. Moves(t, "null", to) /\ UNCHANGED <<now, t0>>
    BY <1>12, <2>1, GoMoves DEF SetNull, log
  <2>. QED
    BY <2>1, <2>2 DEF Over, Moves
<1>13. CASE Rename(t)
  <2>1. Moves(t, "rename", "open") /\ UNCHANGED <<now, t0>>
    BY <1>13, GoMoves DEF Rename, log, file
  <2>2. thr[t].for = "roll" /\ t0 < thr[t].now
    BY <2>1 DEF HandleInv, TimeInv, At, Moves
  <2>. QED
    BY <2>1, <2>2 DEF Over, Moves
<1>14. CASE Open(t)
  <2>1. Moves(t, "open", "stat") /\ UNCHANGED <<now, t0>>
    BY <1>14, OpenEffect
  <2>. QED
    BY <2>1 DEF Over, Moves
<1>15. CASE Stat(t)
  <2>1. /\ appender = "file" /\ thr[t].pc = "stat"
        /\ IF thr[t].for = "retry"
           THEN t0' = t0 /\ Ends(t)
           ELSE t0' = thr[t].now /\ Moves(t, "stat", "write")
        /\ UNCHANGED now
    BY <1>15, StatEffect
  <2>2. thr[t].for # "retry" => t0 <= thr[t].now
    BY <2>1 DEF TimeInv, At
  <2>. QED
    BY <2>1, <2>2 DEF Over, Moves, Ends, Idle
<1>16. CASE Write(t)
  <2>1. /\ appender = "file" /\ thr[t].pc = "write" /\ UNCHANGED <<now, t0>>
        /\ Ends(t) \/ Retries(t)
    BY <1>16, WriteEffect
  <2>. QED
    BY <2>1 DEF Over, Ends, Retries, Idle
<1>. QED
  BY <1>4, <1>5, <1>6, <1>7, <1>8, <1>9, <1>10, <1>11, <1>12, <1>13, <1>14, <1>15, <1>16
     DEF Next, Step

\* rename takes a name no backup has, later than all of theirs.
LEMMA BackupNew ==
  ASSUME Alone, ClockGrows, BaseInv, BaseInv', TimeInv, BackupInv, NEW t \in Threads, Rename(t)
  PROVE  /\ BackupName(t0) \in Names
         /\ backups[BackupName(t0)] = 0
         /\ \A s \in Names : backups[s] # 0 => s < BackupName(t0)
         /\ t0 \in 0..MaxTime /\ Over(t0)'
<1>1. Moves(t, "rename", "open") /\ UNCHANGED <<now, t0>>
  BY GoMoves DEF Rename, log, file
<1>2. /\ Threads = {t} /\ now \in Nat /\ t0 \in Nat /\ thr[t].now \in Nat /\ t0 \in 0..MaxTime
      /\ HandleInv
  BY LogShapes, Numbers DEF BaseInv, AllThr, Alone, TypeOK
<1>3. thr[t].for = "roll" /\ t0 < thr[t].now /\ thr[t].now <= now
  BY <1>1, <1>2 DEF HandleInv, TimeInv, At, Moves
<1>4. Over(t0)'
  BY <1>1, <1>2, <1>3 DEF Over, Moves
<1>5. BackupName(t0) \in Names /\ BackupName(t0) \in Nat
  BY <1>2, Numbers DEF BackupName
<1>6. ASSUME NEW s \in Names, backups[s] # 0 PROVE s < BackupName(t0)
  <2>1. PICK u \in 0..MaxTime : s = LocalTime(u) /\ Over(u)
    BY <1>6 DEF BackupInv
  <2>2. u < t0
    BY <1>1, <1>2, <2>1 DEF Over, Moves
  <2>. QED
    BY <1>2, <2>1, <2>2 DEF ClockGrows, BackupName
<1>. QED
  BY <1>2, <1>4, <1>5, <1>6

\* Only rename changes the backups.
LEMMA BackupsKept ==
  ASSUME BaseInv, [Next]_vars
  PROVE  UNCHANGED backups \/ \E t \in Threads : Rename(t)
  BY DEF vars, Next, Step, Tick, Start, Crash, Take, Create, SetSeverity, InitLog, InitStat, Log,
         Check, Fclose, SetNull, Open, Stat, Write, disk

LEMMA BackupStep ==
  ASSUME Alone, ClockGrows, BaseInv, BaseInv', TimeInv, BackupInv, [Next]_vars
  PROVE  BackupInv'
<1>1. CASE UNCHANGED backups
  BY <1>1, OverStays DEF BackupInv
<1>2. ASSUME NEW t \in Threads, Rename(t) PROVE BackupInv'
  <2>1. PICK new : new = BackupName(t0)
    OBVIOUS
  <2>2. PICK u : u = t0
    OBVIOUS
  <2>3. /\ new \in Names /\ backups[new] = 0
        /\ \A s \in Names : backups[s] # 0 => s < new
        /\ u \in 0..MaxTime /\ Over(u)'
        /\ new = LocalTime(u)
    <3>1. Over(t0)' /\ t0' = t0
      BY <1>2, BackupNew DEF Rename, file
    <3>2. Over(u)'
      BY <2>2, <3>1 DEF Over
    <3>. QED
      BY <1>2, <2>1, <2>2, <3>2, BackupNew DEF BackupName
  <2>4. /\ backups \in [Names -> 0..Len(files)] /\ Len(files) \in Nat /\ Names \subseteq Nat
        /\ NameInv
    BY LogShapes, Numbers DEF BaseInv, TypeOK
  <2>5. backups' = IF name = 0 THEN backups ELSE [backups EXCEPT ![new] = name]
    BY <1>2, <2>1 DEF Rename
  <2>6. CASE name = 0
    BY <1>1, <2>5, <2>6
  <2>7. CASE name # 0
    <3>1. /\ backups'[new] = name
          /\ \A s \in Names : s # new => backups'[s] = backups[s]
      BY <2>3, <2>4, <2>5, <2>7
    <3>2. \A s \in Names : backups[s] # 0 => backups[s] < name
      BY <2>4, <2>7 DEF NameInv
    <3>3. ASSUME NEW s \in Names, backups'[s] # 0
          PROVE  \E v \in 0..MaxTime : s = LocalTime(v) /\ Over(v)'
      <4>1. CASE s = new
        BY <2>3, <4>1
      <4>2. CASE s # new
        <5>1. PICK v \in 0..MaxTime : s = LocalTime(v) /\ Over(v)
          BY <3>1, <3>3, <4>2 DEF BackupInv
        <5>. QED
          BY <5>1, OverStays
      <4>. QED
        BY <4>1, <4>2
    <3>4. ASSUME NEW s \in Names, NEW r \in Names, s < r, backups'[s] # 0, backups'[r] # 0
          PROVE  backups'[s] < backups'[r]
      <4>1. s # new
        <5>1. s = new => backups[r] # 0
          BY <2>4, <3>1, <3>4
        <5>2. s = new => r < s
          BY <2>3, <5>1
        <5>. QED
          BY <2>4, <3>4, <5>2
      <4>. QED
        BY <3>1, <3>2, <3>4, <4>1 DEF BackupInv
    <3>. QED
      BY <3>3, <3>4 DEF BackupInv
  <2>. QED
    BY <2>6, <2>7
<1>. QED
  BY <1>1, <1>2, BackupsKept

LEMMA BackupAlways ==
  ASSUME Alone, ClockGrows
  PROVE  Spec => []BackupInv
<1>1. Init => BackupInv
  BY DEF Init, BackupInv
<1>2. BaseInv /\ BaseInv' /\ TimeInv /\ BackupInv /\ [Next]_vars => BackupInv'
  BY BackupStep
<1>. QED
  BY <1>1, <1>2, BaseAlways, TimeAlways, PTL DEF Spec
-----------------------------------------------------------------------------
\* Files only come and, but for the line of append, keep what they hold.
Grows ==
  /\ lines' = lines
  /\ Inodes \subseteq Inodes'
  /\ \A i \in Inodes : files'[i] = files[i]
  /\ \A i \in Inodes' : i \notin Inodes => i = name' /\ name = 0 /\ files'[i] = <<>>

LEMMA FilesGrow ==
  ASSUME Alone, BaseInv, [Next]_vars
  PROVE  Grows \/ \E t \in Threads : Write(t)
<1>1. TypeOK /\ NameInv /\ HandleInv
  BY DEF BaseInv
<1>2. ASSUME UNCHANGED <<files, lines>> PROVE Grows
  BY <1>2 DEF Grows, Inodes
<1>3. ASSUME Fopen, UNCHANGED lines PROVE Grows
  BY <1>1, <1>3, FopenStep DEF Grows
<1>4. CASE Create
  BY <1>1, <1>4, NewFile DEF Create, Grows
<1>5. ASSUME NEW t \in Threads, Open(t) PROVE Grows
  BY <1>3, <1>5, OpenEffect
<1>6. ASSUME NEW s \in SetTo, InitLog(s) PROVE Grows
  <2>1. UNCHANGED lines /\ (Fopen \/ UNCHANGED files)
    BY <1>6, InitEffect
  <2>. QED
    BY <1>2, <1>3, <2>1
<1>7. ASSUME NEW t \in Threads,
             \/ \E level \in Levels : Log(t, level)
             \/ Check(t) \/ Fclose(t) \/ SetNull(t) \/ Rename(t) \/ Stat(t)
      PROVE  UNCHANGED <<files, lines>>
  BY <1>7 DEF Log, Check, Fclose, SetNull, Rename, Stat, disk, history
<1>8. CASE \/ UNCHANGED vars \/ Tick \/ Start \/ Crash \/ Take \/ InitStat
           \/ \E s \in SetTo : SetSeverity(s)
  <2>1. UNCHANGED <<files, lines>>
    BY <1>8 DEF vars, Tick, Start, Crash, Take, InitStat, SetSeverity, disk, history
  <2>. QED
    BY <1>2, <2>1
<1>. QED
  BY <1>2, <1>4, <1>5, <1>6, <1>7, <1>8 DEF Next, Step

\* No file is lost: rename overwrites none.
LEMMA FilesFound ==
  ASSUME Alone, ClockGrows, BaseInv, BaseInv', TimeInv, BackupInv, KeptInv, [Next]_vars
  PROVE  Inodes' \subseteq Findable'
<1>1. Inodes \subseteq Findable
  BY DEF KeptInv
<1>2. 0 \notin Inodes /\ backups \in [Names -> 0..Len(files)]
  <2>1. Inodes = 1..Len(files) /\ Len(files) \in Nat
    BY LogShapes DEF BaseInv
  <2>2. backups \in [Names -> 0..Len(files)]
    BY DEF BaseInv, TypeOK
  <2>. QED
    BY <2>1, <2>2
<1>3. ASSUME NEW t \in Threads, Rename(t) PROVE Inodes' \subseteq Findable'
  <2>1. PICK new : new = BackupName(t0)
    OBVIOUS
  <2>2. new \in Names /\ backups[new] = 0
    BY <1>3, <2>1, BackupNew
  <2>3. /\ backups' = IF name = 0 THEN backups ELSE [backups EXCEPT ![new] = name]
        /\ Inodes' = Inodes /\ taken' = taken
    BY <1>3, <2>1 DEF Rename, Inodes
  <2>4. ASSUME NEW i \in Inodes PROVE i \in Findable'
    <3>1. CASE i \in taken
      BY <2>3, <3>1 DEF Findable
    <3>2. ASSUME NEW s \in Names, i = backups[s] PROVE i \in Findable'
      <4>1. s # new
        BY <1>2, <2>2, <3>2
      <4>2. backups'[s] = i
        BY <1>2, <2>3, <3>2, <4>1
      <4>. QED
        BY <4>2 DEF Findable
    <3>3. CASE i = name
      <4>1. backups'[new] = i
        BY <1>2, <2>2, <2>3, <3>3
      <4>. QED
        BY <2>2, <4>1 DEF Findable
    <3>. QED
      BY <1>1, <3>1, <3>2, <3>3 DEF Findable
  <2>. QED
    BY <2>3, <2>4
<1>4. CASE UNCHANGED backups /\ ~\E t \in Threads : Rename(t)
  <2>1. name' = name \/ name = 0 \/ Take
    BY <1>4, ZenonT(60) DEF vars, Next, Step, Tick, Start, Crash, Create, SetSeverity, InitLog, InitStat,
                Log, Check, Fclose, SetNull, Open, Stat, Write, disk, Outcomes, Alone, Fopen,
                Opened
  <2>2. taken \subseteq taken' /\ (Take => name \in taken')
    BY DEF vars, Next, Step, Tick, Start, Crash, Take, Create, SetSeverity, InitLog, InitStat,
           Log, Check, Fclose, SetNull, Rename, Open, Stat, Write, disk
  <2>3. ASSUME NEW i \in Inodes PROVE i \in Findable'
    BY <1>1, <1>2, <1>4, <2>1, <2>2 DEF Findable
  <2>4. ASSUME NEW i \in Inodes', i \notin Inodes PROVE i = name'
    <3>1. Grows
      BY <2>4, FilesGrow, WriteEffect
    <3>. QED
      BY <2>4, <3>1 DEF Grows
  <2>. QED
    BY <2>3, <2>4 DEF Findable
<1>. QED
  BY <1>3, <1>4, BackupsKept

\* Every line stays in its file, and a new one is in the open file.
LEMMA LinesFound ==
  ASSUME Alone, BaseInv, [Next]_vars,
         \A n \in 1..lines : \E i \in Inodes : \E k \in DOMAIN files[i] : files[i][k].n = n
  PROVE  \A n \in 1..lines' : \E i \in Inodes' : \E k \in DOMAIN files'[i] : files'[i][k].n = n
<1>1. CASE Grows
  BY <1>1 DEF Grows
<1>2. ASSUME NEW t \in Threads, Write(t), NEW n \in 1..lines'
      PROVE  \E i \in Inodes' : \E k \in DOMAIN files'[i] : files'[i][k].n = n
  <2>1. /\ f.file \in Inodes /\ lines' = lines + 1 /\ Inodes' = Inodes
        /\ \A i \in Inodes : i # f.file => files'[i] = files[i]
    BY <1>2, WriteEffect
  <2>2. PICK line \in AllLines :
          line.n = lines + 1 /\ files'[f.file] = Append(files[f.file], line)
    BY <1>2, WriteEffect
  <2>3. /\ files[f.file] \in Seq(AllLines) /\ lines \in Nat
        /\ DOMAIN files[f.file] = 1..Len(files[f.file]) /\ Len(files[f.file]) \in Nat
    BY <2>1, LogShapes DEF BaseInv
  <2>4. /\ DOMAIN files'[f.file] = 1..(Len(files[f.file]) + 1)
        /\ files'[f.file][Len(files[f.file]) + 1] = line
        /\ \A k \in 1..Len(files[f.file]) : files'[f.file][k] = files[f.file][k]
    BY <2>2, <2>3, AppendProperties, LenProperties
  <2>5. CASE n = lines + 1
    <3>1. Len(files[f.file]) + 1 \in DOMAIN files'[f.file]
      BY <2>3, <2>4
    <3>. QED
      BY <2>2, <2>1, <2>4, <2>5, <3>1
  <2>6. CASE n # lines + 1
    <3>1. n \in 1..lines
      BY <2>1, <2>3, <2>6
    <3>2. PICK i \in Inodes : \E k \in DOMAIN files[i] : files[i][k].n = n
      BY <3>1
    <3>3. PICK k \in DOMAIN files[i] : files[i][k].n = n
      BY <3>2
    <3>4. k \in DOMAIN files'[i] /\ files'[i][k] = files[i][k]
      BY <2>1, <2>3, <2>4, <3>3, SMTT(40)
    <3>. QED
      BY <2>1, <3>3, <3>4
  <2>. QED
    BY <2>5, <2>6
<1>. QED
  BY <1>1, <1>2, FilesGrow

LEMMA KeptAlways ==
  ASSUME Alone, ClockGrows
  PROVE  Spec => []KeptInv
<1>1. Init => KeptInv
  BY DEF Init, KeptInv, Inodes
<1>2. BaseInv /\ BaseInv' /\ TimeInv /\ BackupInv /\ KeptInv /\ [Next]_vars => KeptInv'
  BY FilesFound, LinesFound DEF KeptInv
<1>. QED
  BY <1>1, <1>2, BaseAlways, TimeAlways, BackupAlways, PTL DEF Spec

\* Every line written is in a file that is still there: the names of the
\* backups are seconds _t never returns to, and no file is truncated.
THEOREM LinesAlwaysKept ==
  ASSUME Alone, ClockGrows
  PROVE  Spec => []LinesKept
<1>1. KeptInv => LinesKept
  BY DEF KeptInv, LinesKept
<1>. QED
  BY <1>1, KeptAlways, PTL
-----------------------------------------------------------------------------
\* After a step of append or do_rollover the open file is the one it was, or
\* the newest.
LEMMA HandleKept ==
  ASSUME Alone, BaseInv, [Next]_vars
  PROVE  ~Live' \/ f'.file = Len(files') \/ (Live /\ f' = f)
<1>1. TypeOK /\ NameInv /\ HandleInv
  BY DEF BaseInv
<1>2. ASSUME Fopen PROVE f'.file = Len(files')
  BY <1>1, <1>2, FopenStep
<1>3. CASE \/ UNCHANGED vars \/ Tick \/ Start \/ Crash \/ Take \/ Create \/ InitStat
           \/ \E s \in SetTo : SetSeverity(s)
  <2>1. \/ f' = f /\ (appender' = appender \/ appender = "opening")
        \/ appender' \notin {"opening", "file"}
    BY <1>3 DEF vars, Tick, Start, Crash, Take, Create, InitStat, SetSeverity, file, log
  <2>. QED
    BY <2>1 DEF Live
<1>4. ASSUME NEW s \in SetTo, InitLog(s) PROVE Fopen \/ appender' = "stdout"
  BY <1>4, InitEffect DEF log
<1>5. ASSUME NEW t \in Threads, Open(t) PROVE Fopen
  BY <1>5, OpenEffect
<1>6. ASSUME NEW t \in Threads, Fclose(t) \/ SetNull(t) PROVE ~f'.open
  <2>1. f = [file |-> f.file, open |-> f.open]
    BY <1>1, LogShapes
  <2>. QED
    BY <1>6, <2>1 DEF Fclose, SetNull, NoFile
<1>7. ASSUME NEW t \in Threads, NEW level \in Levels, Log(t, level)
      PROVE  f' = f /\ (appender' = appender \/ appender' = "none")
  BY <1>7, LogEffect DEF Moves, file
<1>8. ASSUME NEW t \in Threads, Check(t) \/ Rename(t) PROVE f' = f /\ appender' = appender
  BY <1>8 DEF Check, Rename, file, log
<1>9. ASSUME NEW t \in Threads, Stat(t) PROVE f' = f /\ appender = "file"
  BY <1>9, StatEffect
<1>10. ASSUME NEW t \in Threads, Write(t) PROVE f' = f /\ appender = "file"
  BY <1>10, WriteEffect
<1>. QED
  BY <1>2, <1>3, <1>4, <1>5, <1>6, <1>7, <1>8, <1>9, <1>10 DEF Next, Step, Live

LEMMA OrderStep ==
  ASSUME Alone, BaseInv, BaseInv', OrderInv, [Next]_vars
  PROVE  OrderInv'
<1>1. /\ \A i \in Inodes : \A k \in DOMAIN files[i] : files[i][k].n <= lines
      /\ \A i, j \in Inodes : i < j => Older(i, j)
      /\ Live => \A j \in Inodes : j > f.file => files[j] = <<>>
  BY DEF OrderInv
<1>2. /\ Len(files) \in Nat /\ Inodes = 1..Len(files) /\ lines \in Nat /\ NameInv /\ TypeOK
      /\ \A i \in Inodes : \A k \in DOMAIN files[i] : files[i][k] \in AllLines
  BY LogShapes DEF BaseInv
<1>3. Len(files') \in Nat /\ Inodes' = 1..Len(files')
  BY LenProperties DEF BaseInv, TypeOK, Inodes
<1>4. CASE Grows
  <2>1. ASSUME NEW i \in Inodes', NEW k \in DOMAIN files'[i]
        PROVE  i \in Inodes /\ files'[i] = files[i] /\ k \in DOMAIN files[i]
    <3>1. i \in Inodes
      BY <1>4, <2>1 DEF Grows
    <3>. QED
      BY <1>4, <2>1, <3>1 DEF Grows
  <2>2. \A i \in Inodes' : \A k \in DOMAIN files'[i] : files'[i][k].n <= lines'
    BY <1>1, <1>4, <2>1 DEF Grows
  <2>3. \A i, j \in Inodes' : i < j => Older(i, j)'
    BY <1>1, <2>1 DEF Older
  <2>4. ASSUME Live', NEW j \in Inodes', j > f'.file
        PROVE  files'[j] = <<>>
    <3>1. f'.file # Len(files')
      BY <1>3, <2>4
    <3>2. Live /\ f' = f
      BY <2>4, <3>1, HandleKept
    <3>. QED
      BY <1>1, <1>4, <2>4, <3>2 DEF Grows
  <2>. QED
    BY <2>2, <2>3, <2>4 DEF OrderInv
<1>5. ASSUME NEW t \in Threads, Write(t) PROVE OrderInv'
  <2>1. /\ f.file \in Inodes /\ lines' = lines + 1 /\ Inodes' = Inodes
        /\ \A i \in Inodes : i # f.file => files'[i] = files[i]
        /\ f' = f /\ Live
    BY <1>5, WriteEffect DEF Live
  <2>2. /\ files[f.file] \in Seq(AllLines)
        /\ DOMAIN files[f.file] = 1..Len(files[f.file]) /\ Len(files[f.file]) \in Nat
    BY <1>2, <2>1, LogShapes
  <2>3. PICK line \in AllLines :
          line.n = lines + 1 /\ files'[f.file] = Append(files[f.file], line)
    BY <1>5, WriteEffect
  <2>4. PICK m : m = Len(files[f.file]) + 1
    OBVIOUS
  <2>5. /\ DOMAIN files'[f.file] = 1..m
        /\ files'[f.file][m] = line
        /\ \A k \in 1..m : k # m => k \in DOMAIN files[f.file] /\ files'[f.file][k] = files[f.file][k]
    BY <2>2, <2>4, <2>3, AppendProperties, LenProperties
  <2>6. ASSUME NEW i \in Inodes, NEW k \in DOMAIN files'[i]
        PROVE  \/ k \in DOMAIN files[i] /\ files'[i][k] = files[i][k]
               \/ i = f.file /\ files'[i][k].n = lines + 1
    BY <2>1, <2>5, <2>3
  <2>7. ASSUME NEW i \in Inodes, NEW k \in DOMAIN files[i]
        PROVE  files[i][k].n \in Nat /\ files[i][k].n <= lines
    <3>1. files[i][k] \in AllLines
      BY <1>2
    <3>. QED
      BY <1>1, <3>1, Numbers, SMTT(40) DEF AllLines
  <2>8. ASSUME NEW i \in Inodes, NEW k \in DOMAIN files'[i] PROVE files'[i][k].n <= lines + 1
    BY <1>2, <2>6, <2>7
  <2>9. ASSUME NEW i \in Inodes, NEW j \in Inodes, i < j,
               NEW k \in DOMAIN files'[i], NEW l \in DOMAIN files'[j]
        PROVE  files'[i][k].n < files'[j][l].n
    <3>1. CASE i = f.file
      <4>1. files[j] = <<>> /\ j # f.file
        BY <1>1, <1>2, <2>1, <2>9, <3>1
      <4>2. files'[j] = <<>>
        BY <2>1, <4>1
      <4>. QED
        BY <2>9, <4>2
    <3>2. CASE i # f.file
      <4>1. k \in DOMAIN files[i] /\ files'[i][k] = files[i][k]
        BY <2>1, <2>9, <3>2
      <4>2. CASE l \in DOMAIN files[j] /\ files'[j][l] = files[j][l]
        BY <1>1, <2>9, <4>1, <4>2 DEF Older
      <4>3. CASE files'[j][l].n = lines + 1
        BY <1>2, <2>7, <4>1, <4>3
      <4>. QED
        BY <2>6, <2>9, <4>2, <4>3
    <3>. QED
      BY <3>1, <3>2
  <2>10. ASSUME NEW j \in Inodes, j > f.file PROVE files'[j] = <<>>
    <3>1. j # f.file
      BY <1>2, <2>1, <2>10
    <3>. QED
      BY <1>1, <2>1, <2>10, <3>1
  <2>. QED
    BY <2>1, <2>8, <2>9, <2>10 DEF OrderInv, Older
<1>. QED
  BY <1>4, <1>5, FilesGrow

LEMMA OrderAlways ==
  ASSUME Alone
  PROVE  Spec => []OrderInv
<1>1. Init => OrderInv
  BY DEF Init, OrderInv, Inodes, Live
<1>2. BaseInv /\ BaseInv' /\ OrderInv /\ [Next]_vars => OrderInv'
  BY OrderStep
<1>. QED
  BY <1>1, <1>2, BaseAlways, PTL DEF Spec

\* Backups are in the order of their names and older than the log file, over
\* crashes and restarts too.
THEOREM BackupsAlwaysInOrder ==
  ASSUME Alone, ClockGrows
  PROVE  Spec => []BackupsInOrder
<1>1. BaseInv /\ BackupInv /\ OrderInv => BackupsInOrder
  <2> SUFFICES ASSUME BaseInv, BackupInv, OrderInv, NEW s \in Names, backups[s] # 0
               PROVE  /\ name # 0 => Older(backups[s], name)
                      /\ \A r \in Names : r > s /\ backups[r] # 0 => Older(backups[s], backups[r])
    BY DEF BackupsInOrder
  <2>1. /\ Len(files) \in Nat /\ Inodes = 1..Len(files) /\ name \in 0..Len(files) /\ NameInv
        /\ backups \in [Names -> 0..Len(files)] /\ Names \subseteq Nat
    BY LogShapes, Numbers DEF BaseInv, TypeOK
  <2>2. backups[s] \in Inodes
    BY <2>1
  <2>3. ASSUME name # 0 PROVE Older(backups[s], name)
    <3>1. name \in Inodes /\ backups[s] < name
      BY <2>1, <2>2, <2>3 DEF NameInv
    <3>. QED
      BY <2>2, <3>1 DEF OrderInv
  <2>4. ASSUME NEW r \in Names, r > s, backups[r] # 0 PROVE Older(backups[s], backups[r])
    <3>1. backups[r] \in Inodes
      BY <2>1, <2>4
    <3>2. s < r
      BY <2>1, <2>4
    <3>3. backups[s] < backups[r]
      BY <2>4, <3>2 DEF BackupInv
    <3>. QED
      BY <2>2, <3>1, <3>3 DEF OrderInv
  <2>. QED
    BY <2>3, <2>4
<1>. QED
  BY <1>1, BaseAlways, BackupAlways, OrderAlways, PTL
=============================================================================
