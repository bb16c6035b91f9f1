------------------------ MODULE ServerProcessProofs -------------------------
(***************************************************************************)
(* Proofs about ServerProcess, for any argument of set_thread_num, any     *)
(* MaxThreadNum, any number of connections and of signals, and whatever    *)
(* thread a signal hits.                                                   *)
(***************************************************************************)
EXTENDS ServerProcess, TLAPS

-----------------------------------------------------------------------------
Starting == {"configure", "start_subs", "start_main"}
Ending == {"stop", "join", "join_main", "done"}
Loops == 0..(threadNum - 1)

\* How far main is in start() and stop(), in terms of TCPServer's members.
StageInv ==
  /\ pc = "configure" => threadNum = 0
  /\ pc \in {"configure", "start_subs"} => nextEl = -1
  /\ pc \in Starting => reactor[Acceptor] = "none"
  /\ pc \notin Ending => stopping = 0 /\ subEls # "deleted"
  /\ pc \notin {"configure", "start_subs", "killed"} \/ reactor[Acceptor] # "none"
       => (nextEl = -1 => threadNum = 0)
  /\ subEls = "null" <=> nextEl = -1
  /\ nextEl # -1 => nextEl < threadNum
  /\ stopping <= threadNum
  /\ pc = "join" => stopping < threadNum /\ subEls = "alive"
  /\ pc \in {"join_main", "done"} => subEls # "alive"
  /\ pc \notin Starting \cup {"register", "killed"} => registered

\* The sub-reactors, while stop() goes through them one after another.
SubsInv ==
  /\ \A r \in Subs : subEls = "null" \/ r >= threadNum => reactor[r] = "none"
  /\ subEls = "alive" => \A r \in Loops :
       /\ r < stopping => reactor[r] = "joined"
       /\ r > stopping \/ (r = stopping /\ pc # "join") => reactor[r] = "running"
  /\ subEls = "deleted" => \A r \in Loops : reactor[r] = "joined"

\* Loop r was given one connection more than loop 0 in this round.
Ahead(r) ==
  /\ r # 0
  /\ \/ nextEl = 0 /\ acceptPc = "hand_over"
     \/ r < nextEl
     \/ r = nextEl /\ acceptPc = "idle"

\* The main reactor's hand-over, and what it has handed to whom.
AcceptInv ==
  /\ reactor[Acceptor] = "none" =>
       /\ acceptPc = "idle"
       /\ \A r \in Subs \cup {Acceptor} : load[r] = 0
  /\ acceptPc = "hand_over" => target = IF nextEl = -1 THEN Acceptor ELSE nextEl
  /\ \A r \in Subs : r >= threadNum => load[r] = 0
  /\ threadNum > 0 => load[Acceptor] = 0
  /\ \A r \in Loops : load[r] = IF Ahead(r) THEN load[0] + 1 ELSE load[0]

ProcessInv == TypeOK /\ StageInv /\ SubsInv /\ AcceptInv
-----------------------------------------------------------------------------
\* The numbers a run starts from.
LEMMA Numbers ==
  /\ MaxThreadNum \in Nat /\ MaxConns \in Nat /\ MaxSignals \in Nat
  /\ ThreadNums \subseteq Int
  /\ Acceptor = -2 /\ Main = -1 /\ Nobody = -3
  /\ Acceptor \notin Subs
  /\ Subs \subseteq Nat
  /\ Main \in Threads /\ Acceptor \in Threads /\ Subs \subseteq Threads
<1>1. MaxThreadNum \in Nat /\ MaxConns \in Nat /\ MaxSignals \in Nat
  BY ProcessAssumption
<1>2. ThreadNums \subseteq Int
  BY ProcessAssumption
<1>3. Acceptor \notin Subs /\ Subs \subseteq Nat
  BY <1>1 DEF Acceptor, Subs
<1>. QED
  BY <1>1, <1>2, <1>3 DEF Acceptor, Main, Nobody, Threads

\* The remainder _get_next_el takes is one step round the loops.
LEMMA RoundRobinStep ==
  ASSUME NEW k \in Nat, NEW n \in 0..(k - 1)
  PROVE  (n + 1) % k = IF n + 1 = k THEN 0 ELSE n + 1
  OBVIOUS

\* Before set_thread_num nothing is there.
LEMMA ProcessInit == Init => ProcessInv
<1> SUFFICES ASSUME Init PROVE ProcessInv
  OBVIOUS
<1> USE Numbers DEF Init
<1>1. TypeOK
  <2>1. /\ threadNum \in 0..MaxThreadNum /\ nextEl \in -1..(MaxThreadNum - 1)
        /\ stopping \in 0..MaxThreadNum /\ backlog \in Nat /\ connects \in 0..MaxConns
        /\ signals \in 0..MaxSignals
    OBVIOUS
  <2>2. /\ reactor \in [Subs \cup {Acceptor} ->
                          {"none", "running", "stopped", "ended", "joined"}]
        /\ load \in [Subs \cup {Acceptor} -> Nat]
        /\ handler \in [Threads -> {"none", "lock", "set"}]
    OBVIOUS
  <2>. QED
    BY <2>1, <2>2 DEF TypeOK
<1>2. StageInv
  BY DEF StageInv, Starting, Ending
<1>3. SubsInv
  BY DEF SubsInv, Loops
<1>4. AcceptInv
  BY DEF AcceptInv, Loops
<1>. QED
  BY <1>1, <1>2, <1>3, <1>4 DEF ProcessInv

\* What the proofs use of the types of TCPServer's side.
LEMMA ServerTypes ==
  ASSUME TypeOK
  PROVE  /\ threadNum \in Nat /\ threadNum <= MaxThreadNum
         /\ nextEl \in Int /\ nextEl >= -1 /\ nextEl < MaxThreadNum
         /\ stopping \in Nat
         /\ backlog \in Nat
         /\ Loops \subseteq Subs
         /\ \A r \in Loops : r \in Int /\ 0 <= r /\ r < threadNum
         /\ \A r \in Subs : r \in Nat /\ load[r] \in Nat
         /\ load[Acceptor] \in Nat
         /\ \A r \in Subs : r < threadNum => r \in Loops
  BY Numbers DEF TypeOK, Loops, Subs

\* The signal handler and main's waiting leave TCPServer alone.
LEMMA StatusStep ==
  ASSUME ProcessInv,
         \/ RegisterSignals \/ IsClose \/ WaitForSignal \/ WakeUp \/ Killed
         \/ \E t \in Threads : Signal(t) \/ HandlerLock(t) \/ SetClose(t)
  PROVE  ProcessInv'
<1>1. UNCHANGED <<threadNum, subEls, nextEl, reactor, stopping,
                  backlog, acceptPc, target, load, connects, fault>>
  BY DEF RegisterSignals, IsClose, WaitForSignal, WakeUp, Killed, Signal, HandlerLock,
         SetClose, Lock, Unlock, server, accept
<1>2. TypeOK /\ StageInv
  BY DEF ProcessInv
<1>3. \/ pc' = pc
      \/ pc = "register" /\ pc' = "is_close" /\ registered'
      \/ /\ pc \in {"is_close", "test", "wait", "locked", "asleep", "woken", "held"}
         /\ pc' \in {"is_close", "test", "wait", "locked", "asleep", "woken", "held", "stop"}
         /\ registered' = registered
      \/ pc \in Starting \cup {"register", "killed"} /\ pc' = "killed"
  <2>1. CASE RegisterSignals
    BY <2>1 DEF RegisterSignals, MainStep
  <2>2. CASE IsClose
    BY <2>2 DEF IsClose, Lock, Unlock, MainStep
  <2>3. CASE WaitForSignal
    BY <2>3 DEF WaitForSignal, Lock, Unlock, MainStep
  <2>4. CASE WakeUp
    BY <2>4 DEF WakeUp, MainStep, status
  <2>5. CASE Killed
    BY <1>2, <2>5 DEF Killed, StageInv
  <2>6. CASE \E t \in Threads : Signal(t) \/ HandlerLock(t) \/ SetClose(t)
    BY <2>6 DEF Signal, HandlerLock, SetClose
  <2>. QED
    BY <2>1, <2>2, <2>3, <2>4, <2>5, <2>6
<1>4. registered => registered'
  BY DEF RegisterSignals, IsClose, WaitForSignal, WakeUp, Killed, Signal, HandlerLock,
         SetClose, Lock, Unlock, status
<1>5. TypeOK'
  <2>1. /\ registered' \in BOOLEAN /\ exit' \in BOOLEAN /\ notified' \in BOOLEAN
        /\ mtx' \in Threads \cup {Nobody}
        /\ handler' \in [Threads -> {"none", "lock", "set"}]
        /\ signals' \in 0..MaxSignals
    <3>1. CASE RegisterSignals
      BY <1>2, <3>1 DEF RegisterSignals, TypeOK
    <3>2. CASE IsClose
      BY <1>2, <3>2, Numbers DEF IsClose, Lock, Unlock, TypeOK
    <3>3. CASE WaitForSignal
      BY <1>2, <3>3, Numbers DEF WaitForSignal, Lock, Unlock, TypeOK
    <3>4. CASE WakeUp
      BY <1>2, <3>4 DEF WakeUp, TypeOK, status
    <3>5. CASE Killed
      <4>1. signals' \in 0..MaxSignals
        BY <1>2, <3>5, Numbers DEF Killed, TypeOK
      <4>. QED
        BY <1>2, <3>5, <4>1 DEF Killed, TypeOK
    <3>6. ASSUME NEW t \in Threads, Signal(t)
          PROVE  /\ UNCHANGED <<registered, exit, notified, mtx>>
                 /\ handler' \in [Threads -> {"none", "lock", "set"}]
                 /\ signals' \in 0..MaxSignals
      <4>1. signals' \in 0..MaxSignals
        BY <1>2, <3>6, Numbers DEF Signal, TypeOK
      <4>. QED
        BY <1>2, <3>6, <4>1 DEF Signal, TypeOK
    <3>7. ASSUME NEW t \in Threads, HandlerLock(t) \/ SetClose(t)
          PROVE  /\ registered' = registered /\ signals' = signals
                 /\ exit' \in BOOLEAN /\ notified' \in BOOLEAN
                 /\ mtx' \in Threads \cup {Nobody}
                 /\ handler' \in [Threads -> {"none", "lock", "set"}]
      BY <1>2, <3>7 DEF HandlerLock, SetClose, TypeOK
    <3>8. CASE \E t \in Threads : Signal(t) \/ HandlerLock(t) \/ SetClose(t)
      BY <1>2, <3>6, <3>7, <3>8 DEF TypeOK
    <3>. QED
      BY <3>1, <3>2, <3>3, <3>4, <3>5, <3>8
  <2>2. pc' \in {"configure", "start_subs", "start_main", "register", "is_close",
                 "test", "wait", "locked", "asleep", "woken", "held", "stop", "join",
                 "join_main", "done", "killed"}
    BY <1>2, <1>3 DEF TypeOK
  <2>. QED
    BY <1>1, <1>2, <2>1, <2>2 DEF TypeOK
<1>6. StageInv'
  BY <1>1, <1>2, <1>3, <1>4 DEF StageInv, Starting, Ending
<1>7. SubsInv'
  <2>1. pc' # "join" \/ pc' = pc
    BY <1>3
  <2>2. pc = "join" => pc' = "join"
    BY <1>3 DEF Starting
  <2>. QED
    BY <1>1, <2>1, <2>2 DEF ProcessInv, SubsInv, Loops
<1>8. AcceptInv'
  BY <1>1 DEF ProcessInv, AcceptInv, Loops, Ahead
<1>. QED
  BY <1>5, <1>6, <1>7, <1>8 DEF ProcessInv

\* set_thread_num, and start().
LEMMA StartStep ==
  ASSUME ProcessInv,
         \/ \E n \in ThreadNums : SetThreadNum(n)
         \/ StartSubs
         \/ StartMain
  PROVE  ProcessInv'
<1>1. TypeOK /\ StageInv /\ SubsInv /\ AcceptInv
  BY DEF ProcessInv
<1>2. UNCHANGED <<stopping, backlog, acceptPc, target, load, connects, registered, exit, mtx,
                  notified, handler, signals, fault>>
  BY DEF SetThreadNum, StartSubs, StartMain, server, accept, status
<1>3. pc \in Starting /\ reactor[Acceptor] = "none" /\ subEls # "deleted" /\ stopping = 0
  BY <1>1 DEF SetThreadNum, StartSubs, StartMain, MainStep, StageInv, Starting, Ending
<1>4. /\ acceptPc = "idle"
      /\ \A r \in Subs \cup {Acceptor} : load[r] = 0
  BY <1>1, <1>3 DEF AcceptInv
<1>5. ASSUME NEW n \in ThreadNums, SetThreadNum(n) PROVE ProcessInv'
  <2>1. /\ pc = "configure" /\ pc' = "start_subs" /\ threadNum' = Clamp(n)
        /\ UNCHANGED <<subEls, nextEl, reactor>>
    BY <1>5 DEF SetThreadNum, MainStep
  <2>2. threadNum' \in 0..MaxThreadNum
    BY <2>1, Numbers DEF Clamp
  <2>3. nextEl = -1 /\ subEls = "null"
    BY <1>1, <2>1 DEF StageInv
  <2>4. TypeOK'
    BY <1>1, <1>2, <2>1, <2>2 DEF TypeOK
  <2>5. StageInv'
    BY <1>1, <1>2, <1>3, <2>1, <2>2, <2>3 DEF StageInv, Starting, Ending
  <2>6. SubsInv'
    BY <1>1, <2>1, <2>3 DEF SubsInv
  <2>7. AcceptInv'
    <3>1. ASSUME NEW r \in Loops' PROVE r \in Subs /\ 0 \in Subs
      <4>1. PICK k \in 0..MaxThreadNum : k = threadNum'
        BY <2>2
      <4>2. r \in 0..(k - 1)
        BY <4>1 DEF Loops
      <4>. QED
        BY <4>2, Numbers DEF Subs
    <3>2. \A r \in Loops' : load'[r] = IF Ahead(r)' THEN load'[0] + 1 ELSE load'[0]
      BY <1>2, <1>4, <2>1, <2>3, <3>1 DEF Ahead, Subs
    <3>. QED
      BY <1>2, <1>4, <2>1, <3>2 DEF AcceptInv
  <2>. QED
    BY <2>4, <2>5, <2>6, <2>7 DEF ProcessInv
<1>6. ASSUME StartSubs PROVE ProcessInv'
  <2>1. pc = "start_subs" /\ pc' = "start_main" /\ nextEl = -1 /\ subEls = "null"
    BY <1>1, <1>6 DEF StartSubs, MainStep, StageInv
  <2>2. threadNum' = threadNum
    BY <1>6 DEF StartSubs, server
  <2>3. /\ reactor' \in [Subs \cup {Acceptor} ->
                           {"none", "running", "stopped", "ended", "joined"}]
        /\ reactor'[Acceptor] = "none"
    <3>1. CASE reactor' = reactor
      BY <1>1, <1>3, <3>1 DEF TypeOK
    <3>2. CASE reactor' = [r \in Subs \cup {Acceptor} |->
                             IF r \in 0..(threadNum - 1) THEN "running" ELSE "none"]
      <4>1. Acceptor \notin 0..(threadNum - 1)
        BY <1>1, Numbers, ServerTypes
      <4>. QED
        BY <3>2, <4>1
    <3>. QED
      BY <1>6, <3>1, <3>2 DEF StartSubs, server
  <2>4. CASE threadNum = 0
    <3>1. UNCHANGED <<subEls, nextEl, reactor>>
      BY <1>6, <2>4 DEF StartSubs, server
    <3>2. TypeOK'
      BY <1>1, <1>2, <2>1, <2>2, <3>1 DEF TypeOK
    <3>3. StageInv'
      BY <1>1, <1>2, <2>1, <2>2, <2>4, <3>1 DEF StageInv, Starting, Ending
    <3>4. SubsInv'
      BY <1>1, <2>1, <2>2, <3>1 DEF SubsInv
    <3>5. AcceptInv'
      BY <1>1, <1>2, <2>2, <3>1 DEF AcceptInv, Loops, Ahead
    <3>. QED
      BY <3>2, <3>3, <3>4, <3>5 DEF ProcessInv
  <2>5. CASE threadNum > 0
    <3>1. /\ subEls' = "alive" /\ nextEl' = 0
          /\ reactor' = [r \in Subs \cup {Acceptor} |->
                           IF r \in 0..(threadNum - 1) THEN "running" ELSE "none"]
      BY <1>1, <1>6, <2>5 DEF StartSubs, TypeOK
    <3>2. nextEl' \in -1..(MaxThreadNum - 1) /\ nextEl' < threadNum' /\ nextEl' # -1
      BY <1>1, <2>2, <2>5, <3>1, ServerTypes, Numbers
    <3>3. TypeOK'
      BY <1>1, <1>2, <2>1, <2>2, <2>3, <3>1, <3>2 DEF TypeOK
    <3>4. StageInv'
      BY <1>1, <1>2, <1>3, <2>1, <2>2, <2>3, <2>5, <3>1, <3>2 DEF StageInv, Starting, Ending
    <3>5. SubsInv'
      <4>1. \A r \in Loops : reactor'[r] = "running"
        BY <1>1, <3>1, ServerTypes DEF Loops
      <4>2. \A r \in Subs : r >= threadNum => reactor'[r] = "none"
        BY <1>1, <3>1, ServerTypes DEF Subs
      <4>3. \A r \in Loops : ~(r < stopping)
        BY <1>1, <1>3, ServerTypes
      <4>. QED
        BY <1>2, <2>2, <3>1, <4>1, <4>2, <4>3 DEF SubsInv, Loops
    <3>6. AcceptInv'
      <4>1. \A r \in Loops : ~Ahead(r)'
        BY <1>1, <1>2, <1>4, <3>1, ServerTypes DEF Ahead
      <4>2. \A r \in Loops : load[r] = load[0]
        BY <1>1, <1>4, ServerTypes DEF Loops, Subs
      <4>. QED
        BY <1>1, <1>2, <1>4, <2>2, <4>1, <4>2 DEF AcceptInv, Loops
    <3>. QED
      BY <3>3, <3>4, <3>5, <3>6 DEF ProcessInv
  <2>. QED
    BY <1>1, <2>4, <2>5, ServerTypes
<1>7. ASSUME StartMain PROVE ProcessInv'
  <2>1. /\ pc = "start_main" /\ pc' = "register"
        /\ reactor' = [reactor EXCEPT ![Acceptor] = "running"]
        /\ UNCHANGED <<threadNum, subEls, nextEl>>
    BY <1>7 DEF StartMain, MainStep
  <2>2. /\ reactor' \in [Subs \cup {Acceptor} ->
                           {"none", "running", "stopped", "ended", "joined"}]
        /\ reactor'[Acceptor] = "running"
        /\ \A r \in Subs : reactor'[r] = reactor[r]
    BY <1>1, <2>1, Numbers DEF TypeOK
  <2>3. TypeOK'
    BY <1>1, <1>2, <2>1, <2>2 DEF TypeOK
  <2>4. StageInv'
    BY <1>1, <1>2, <2>1, <2>2 DEF StageInv, Starting, Ending
  <2>5. SubsInv'
    BY <1>1, <1>2, <2>1, <2>2, ServerTypes DEF SubsInv, Loops
  <2>6. AcceptInv'
    BY <1>1, <1>2, <2>1, <2>2 DEF AcceptInv, Loops, Ahead
  <2>. QED
    BY <2>3, <2>4, <2>5, <2>6 DEF ProcessInv
<1>. QED
  BY <1>5, <1>6, <1>7

\* stop(): the sub-reactors are stopped and joined one after another, deleted
\* together, and the main reactor ends last.
LEMMA StopStep ==
  ASSUME ProcessInv,
         StopSub \/ JoinSub \/ DeleteSubs \/ StopMain \/ JoinMain
  PROVE  ProcessInv'
<1>1. TypeOK /\ StageInv /\ SubsInv /\ AcceptInv
  BY DEF ProcessInv
<1>2. UNCHANGED <<threadNum, nextEl, backlog, acceptPc, target, load, connects, registered,
                  exit, mtx, notified, handler, signals, fault>>
  BY DEF StopSub, JoinSub, DeleteSubs, StopMain, JoinMain, accept, status
<1>3. pc \in {"stop", "join", "join_main"} /\ pc' \in Ending /\ registered
  BY <1>1 DEF StopSub, JoinSub, DeleteSubs, StopMain, JoinMain, MainStep, StageInv,
              Starting, Ending
<1>4. nextEl = -1 => threadNum = 0
  BY <1>1, <1>3 DEF StageInv
<1>5. ASSUME reactor' \in [Subs \cup {Acceptor} ->
                             {"none", "running", "stopped", "ended", "joined"}],
             subEls' \in {"null", "alive", "deleted"},
             stopping' \in 0..MaxThreadNum
      PROVE  TypeOK'
  <2>1. pc' \in {"configure", "start_subs", "start_main", "register", "is_close",
                 "test", "wait", "locked", "asleep", "woken", "held", "stop", "join",
                 "join_main", "done", "killed"}
    BY <1>3 DEF Ending
  <2>. QED
    BY <1>1, <1>2, <1>5, <2>1 DEF TypeOK
<1>6. ASSUME reactor'[Acceptor] = "none" => reactor[Acceptor] = "none"
      PROVE  AcceptInv'
  BY <1>1, <1>2, <1>6 DEF AcceptInv, Loops, Ahead
<1>7. ASSUME StopSub PROVE ProcessInv'
  <2>1. /\ pc = "stop" /\ pc' = "join" /\ subEls = "alive" /\ stopping < threadNum
        /\ reactor' = [reactor EXCEPT ![stopping] = "stopped"]
        /\ UNCHANGED <<subEls, stopping>>
    BY <1>7 DEF StopSub, MainStep
  <2>2. stopping \in Subs /\ stopping # Acceptor
    BY <1>1, <2>1, ServerTypes, Numbers DEF Subs
  <2>3. /\ reactor' \in [Subs \cup {Acceptor} ->
                           {"none", "running", "stopped", "ended", "joined"}]
        /\ \A r \in Subs \cup {Acceptor} : r # stopping => reactor'[r] = reactor[r]
    BY <1>1, <2>1, <2>2 DEF TypeOK
  <2>4. TypeOK'
    BY <1>1, <1>5, <2>1, <2>3 DEF TypeOK
  <2>5. StageInv'
    BY <1>1, <1>2, <1>4, <2>1, <1>3 DEF StageInv, Starting, Ending
  <2>6. SubsInv'
    <3>1. \A r \in Loops : r < stopping \/ r > stopping => r # stopping
      BY <1>1, ServerTypes
    <3>2. \A r \in Subs : r >= threadNum => r # stopping
      BY <1>1, <2>1, ServerTypes
    <3>. QED
      BY <1>1, <1>2, <2>1, <2>3, <3>1, <3>2, ServerTypes DEF SubsInv, Loops
  <2>7. AcceptInv'
    BY <1>6, <2>2, <2>3
  <2>. QED
    BY <2>4, <2>5, <2>6, <2>7 DEF ProcessInv
<1>8. ASSUME JoinSub PROVE ProcessInv'
  <2>1. /\ pc = "join" /\ pc' = "stop"
        /\ reactor' = [reactor EXCEPT ![stopping] = "joined"]
        /\ stopping' = stopping + 1
        /\ UNCHANGED subEls
    BY <1>8 DEF JoinSub, MainStep
  <2>2. subEls = "alive" /\ stopping < threadNum
    BY <1>1, <2>1 DEF StageInv
  <2>3. stopping \in Subs /\ stopping # Acceptor /\ stopping' \in 0..MaxThreadNum
        /\ stopping' <= threadNum
    BY <1>1, <2>1, <2>2, ServerTypes, Numbers DEF Subs
  <2>4. /\ reactor' \in [Subs \cup {Acceptor} ->
                           {"none", "running", "stopped", "ended", "joined"}]
        /\ \A r \in Subs \cup {Acceptor} : r # stopping => reactor'[r] = reactor[r]
        /\ reactor'[stopping] = "joined"
    BY <1>1, <2>1, <2>3 DEF TypeOK
  <2>5. TypeOK'
    BY <1>1, <1>5, <2>1, <2>3, <2>4 DEF TypeOK
  <2>6. StageInv'
    BY <1>1, <1>2, <1>3, <1>4, <2>1, <2>2, <2>3 DEF StageInv, Starting, Ending
  <2>7. SubsInv'
    <3>1. ASSUME NEW r \in Loops
          PROVE  /\ r < stopping' => reactor'[r] = "joined"
                 /\ r >= stopping' => reactor'[r] = "running"
      <4>1. r \in Subs /\ r \in Nat /\ stopping \in Nat
        BY <1>1, ServerTypes
      <4>2. CASE r < stopping
        <5>1. ~(r >= stopping') /\ r # stopping
          BY <2>1, <4>1, <4>2
        <5>. QED
          BY <1>1, <2>2, <2>4, <4>1, <4>2, <5>1 DEF SubsInv
      <4>3. CASE r = stopping
        <5>1. ~(r >= stopping')
          BY <2>1, <4>1, <4>3
        <5>. QED
          BY <2>4, <4>3, <5>1
      <4>4. CASE r > stopping
        <5>1. ~(r < stopping') /\ r # stopping
          BY <2>1, <4>1, <4>4
        <5>. QED
          BY <1>1, <2>2, <2>4, <4>1, <4>4, <5>1 DEF SubsInv
      <4>. QED
        BY <4>1, <4>2, <4>3, <4>4
    <3>2. \A r \in Subs : r >= threadNum => r # stopping
      BY <1>1, <2>2, ServerTypes
    <3>3. stopping' \in Nat
      BY <1>1, <2>1, ServerTypes
    <3>4. \A r \in Loops' : r \in Loops
      BY <1>2 DEF Loops
    <3>. QED
      BY <1>1, <1>2, <2>1, <2>2, <2>4, <3>1, <3>2, <3>3, <3>4, ServerTypes DEF SubsInv
  <2>8. AcceptInv'
    BY <1>6, <2>3, <2>4
  <2>. QED
    BY <2>5, <2>6, <2>7, <2>8 DEF ProcessInv
<1>9. ASSUME DeleteSubs PROVE ProcessInv'
  <2>1. /\ pc = "stop" /\ pc' = "stop" /\ subEls = "alive" /\ stopping = threadNum
        /\ subEls' = "deleted" /\ UNCHANGED <<reactor, stopping>>
    BY <1>9 DEF DeleteSubs, MainStep
  <2>2. TypeOK'
    BY <1>1, <1>5, <2>1 DEF TypeOK
  <2>3. StageInv'
    BY <1>1, <1>2, <1>3, <2>1 DEF StageInv, Starting, Ending
  <2>4. SubsInv'
    <3>1. \A r \in Loops : r < stopping
      BY <1>1, <2>1, ServerTypes
    <3>. QED
      BY <1>1, <1>2, <2>1, <3>1 DEF SubsInv, Loops
  <2>5. AcceptInv'
    BY <1>6, <2>1
  <2>. QED
    BY <2>2, <2>3, <2>4, <2>5 DEF ProcessInv
<1>10. ASSUME StopMain \/ JoinMain
       PROVE  ProcessInv'
  <2>1. /\ subEls # "alive" /\ UNCHANGED <<subEls, stopping>>
        /\ pc' \in {"join_main", "done"}
        /\ \E s \in {"stopped", "joined"} : reactor' = [reactor EXCEPT ![Acceptor] = s]
    BY <1>1, <1>10 DEF StopMain, JoinMain, MainStep, StageInv
  <2>2. /\ reactor' \in [Subs \cup {Acceptor} ->
                           {"none", "running", "stopped", "ended", "joined"}]
        /\ \A r \in Subs : reactor'[r] = reactor[r]
        /\ reactor'[Acceptor] # "none"
    BY <1>1, <2>1, Numbers DEF TypeOK
  <2>3. TypeOK'
    BY <1>1, <1>5, <2>1, <2>2 DEF TypeOK
  <2>4. StageInv'
    BY <1>1, <1>2, <1>3, <1>4, <2>1 DEF StageInv, Starting, Ending
  <2>5. SubsInv'
    BY <1>1, <1>2, <2>1, <2>2, ServerTypes DEF SubsInv, Loops
  <2>6. AcceptInv'
    BY <1>6, <2>2
  <2>. QED
    BY <2>3, <2>4, <2>5, <2>6 DEF ProcessInv
<1>. QED
  BY <1>7, <1>8, <1>9, <1>10

\* A client connects, or a loop sees its stop.
LEMMA LoopStep ==
  ASSUME ProcessInv,
         ClientConnect \/ \E r \in Subs \cup {Acceptor} : ReactorEnds(r)
  PROVE  ProcessInv'
<1>1. TypeOK /\ StageInv /\ SubsInv /\ AcceptInv
  BY DEF ProcessInv
<1>2. UNCHANGED <<pc, threadNum, subEls, nextEl, stopping, acceptPc, target, load, registered,
                  exit, mtx, notified, handler, signals, fault>>
  BY DEF ClientConnect, ReactorEnds, server, accept, status
<1>3. ASSUME ClientConnect PROVE ProcessInv'
  <2>1. /\ connects < MaxConns
        /\ connects' = connects + 1 /\ backlog' = backlog + 1
        /\ UNCHANGED reactor
    BY <1>3 DEF ClientConnect, server
  <2>2. connects' \in 0..MaxConns /\ backlog' \in Nat
    BY <1>1, <2>1, Numbers DEF TypeOK
  <2>3. TypeOK'
    BY <1>1, <1>2, <2>1, <2>2 DEF TypeOK
  <2>4. StageInv' /\ SubsInv'
    BY <1>1, <1>2, <2>1 DEF StageInv, SubsInv, Loops
  <2>5. AcceptInv'
    BY <1>1, <1>2, <2>1 DEF AcceptInv, Loops, Ahead
  <2>. QED
    BY <2>3, <2>4, <2>5 DEF ProcessInv
<1>4. ASSUME NEW r \in Subs \cup {Acceptor}, ReactorEnds(r)
      PROVE  ProcessInv'
  <2>1. /\ reactor[r] = "stopped" /\ reactor' = [reactor EXCEPT ![r] = "ended"]
        /\ UNCHANGED <<backlog, connects>>
    BY <1>4 DEF ReactorEnds, accept
  <2>2. /\ reactor' \in [Subs \cup {Acceptor} ->
                           {"none", "running", "stopped", "ended", "joined"}]
        /\ \A q \in Subs \cup {Acceptor} :
             reactor[q] \in {"none", "running", "joined"} => reactor'[q] = reactor[q]
        /\ \A q \in Subs \cup {Acceptor} : reactor'[q] = "none" <=> reactor[q] = "none"
    BY <1>1, <2>1 DEF TypeOK
  <2>3. TypeOK'
    BY <1>1, <1>2, <2>1, <2>2 DEF TypeOK
  <2>4. StageInv'
    BY <1>1, <1>2, <2>2 DEF StageInv
  <2>5. SubsInv'
    BY <1>1, <1>2, <2>2, ServerTypes DEF SubsInv, Loops
  <2>6. AcceptInv'
    BY <1>1, <1>2, <2>1, <2>2 DEF AcceptInv, Loops, Ahead
  <2>. QED
    BY <2>3, <2>4, <2>5, <2>6 DEF ProcessInv
<1>. QED
  BY <1>3, <1>4

\* _get_next_el: round the loops, one step at a time.
LEMMA ChooseStep ==
  ASSUME ProcessInv, GetNextEl
  PROVE  ProcessInv'
<1>1. TypeOK /\ StageInv /\ SubsInv /\ AcceptInv
  BY DEF ProcessInv
<1>2. /\ reactor[Acceptor] # "none" /\ acceptPc = "idle" /\ backlog > 0
      /\ backlog' = backlog - 1 /\ acceptPc' = "hand_over"
      /\ nextEl' = IF nextEl = -1 THEN -1 ELSE RoundRobin
      /\ target' = IF nextEl' = -1 THEN Acceptor ELSE nextEl'
      /\ UNCHANGED <<pc, threadNum, subEls, reactor, stopping, load, connects, registered,
                     exit, mtx, notified, handler, signals, fault>>
  BY DEF GetNextEl, Alive, status
<1>3. backlog' \in Nat
  BY <1>1, <1>2, ServerTypes
<1>4. CASE nextEl = -1
  <2>1. nextEl' = -1 /\ threadNum = 0 /\ target' = Acceptor
    BY <1>1, <1>2, <1>4 DEF StageInv
  <2>2. TypeOK'
    BY <1>1, <1>2, <1>3, <1>4, <2>1 DEF TypeOK
  <2>3. StageInv' /\ SubsInv'
    BY <1>1, <1>2, <1>4, <2>1 DEF StageInv, SubsInv, Loops
  <2>4. Loops' = {} /\ ~(threadNum' > 0)
    BY <1>2, <2>1 DEF Loops
  <2>5. AcceptInv'
    BY <1>1, <1>2, <2>1, <2>4 DEF AcceptInv
  <2>. QED
    BY <1>2, <2>2, <2>3, <2>5 DEF ProcessInv
<1>5. CASE nextEl # -1
  <2>1. /\ nextEl \in Nat /\ nextEl < threadNum /\ threadNum \in Nat
        /\ threadNum <= MaxThreadNum /\ threadNum > 0
    BY <1>1, <1>5, ServerTypes DEF StageInv
  <2>2. nextEl' = IF nextEl + 1 = threadNum THEN 0 ELSE nextEl + 1
    <3>1. PICK k \in Nat : k = threadNum
      BY <2>1
    <3>2. PICK n \in 0..(k - 1) : n = nextEl
      BY <2>1, <3>1
    <3>3. (n + 1) % k = IF n + 1 = k THEN 0 ELSE n + 1
      BY RoundRobinStep
    <3>. QED
      BY <1>2, <1>5, <3>1, <3>2, <3>3 DEF RoundRobin
  <2>3. nextEl' \in Nat /\ nextEl' < threadNum /\ nextEl' # -1 /\ target' = nextEl'
    BY <1>2, <2>1, <2>2
  <2>4. nextEl' \in -1..(MaxThreadNum - 1) /\ target' \in Subs
    BY <2>1, <2>3, Numbers DEF Subs
  <2>5. TypeOK'
    BY <1>1, <1>2, <1>3, <2>4 DEF TypeOK
  <2>6. StageInv'
    <3>1. pc \notin {"configure", "start_subs"}
      BY <1>1, <1>5 DEF StageInv
    <3>. QED
      BY <1>1, <1>2, <1>5, <2>3, <3>1 DEF StageInv
  <2>7. SubsInv'
    BY <1>1, <1>2 DEF SubsInv, Loops
  <2>8. ASSUME NEW r \in Loops
        PROVE  Ahead(r)' <=> Ahead(r)
    <3>1. r \in Int /\ 0 <= r /\ r < threadNum
      BY <1>1, ServerTypes
    <3>2. Ahead(r) <=> r # 0 /\ r <= nextEl
      BY <1>2, <2>1, <3>1 DEF Ahead
    <3>3. Ahead(r)' <=> r # 0 /\ (nextEl' = 0 \/ r < nextEl')
      BY <1>2, <3>1 DEF Ahead
    <3>4. CASE nextEl + 1 = threadNum
      BY <2>1, <2>2, <3>1, <3>2, <3>3, <3>4
    <3>5. CASE nextEl + 1 # threadNum
      BY <2>1, <2>2, <3>1, <3>2, <3>3, <3>5
    <3>. QED
      BY <3>4, <3>5
  <2>9. AcceptInv'
    <3>1. \A r \in Loops' : load'[r] = IF Ahead(r)' THEN load'[0] + 1 ELSE load'[0]
      BY <1>1, <1>2, <2>8 DEF AcceptInv, Loops
    <3>. QED
      BY <1>1, <1>2, <2>3, <3>1 DEF AcceptInv
  <2>. QED
    BY <1>2, <2>5, <2>6, <2>7, <2>9 DEF ProcessInv
<1>. QED
  BY <1>4, <1>5

\* new_connection_callback hands the connection to the loop it chose.
LEMMA HandOverStep ==
  ASSUME ProcessInv, HandOver
  PROVE  ProcessInv'
<1>1. TypeOK /\ StageInv /\ SubsInv /\ AcceptInv
  BY DEF ProcessInv
<1>2. /\ reactor[Acceptor] # "none" /\ acceptPc = "hand_over" /\ acceptPc' = "idle"
      /\ load' = [load EXCEPT ![target] = @ + 1]
      /\ fault' \in BOOLEAN
      /\ UNCHANGED <<pc, threadNum, subEls, nextEl, reactor, stopping, backlog, target,
                     connects, registered, exit, mtx, notified, handler, signals>>
  BY DEF HandOver, Alive, server, status
<1>3. target = IF nextEl = -1 THEN Acceptor ELSE nextEl
  BY <1>1, <1>2 DEF AcceptInv
<1>4. /\ load' \in [Subs \cup {Acceptor} -> Nat]
      /\ load'[target] = load[target] + 1
      /\ \A r \in Subs \cup {Acceptor} : r # target => load'[r] = load[r]
  <2>1. load \in [Subs \cup {Acceptor} -> Nat] /\ target \in Subs \cup {Acceptor}
    BY <1>1 DEF TypeOK
  <2>2. load[target] + 1 \in Nat
    BY <2>1
  <2>. QED
    BY <1>2, <2>1, <2>2
<1>5. TypeOK'
  BY <1>1, <1>2, <1>4 DEF TypeOK
<1>6. StageInv' /\ SubsInv'
  BY <1>1, <1>2 DEF StageInv, SubsInv, Loops
<1>7. AcceptInv'
  <2>1. CASE nextEl = -1
    <3>1. threadNum = 0 /\ target = Acceptor /\ Acceptor \notin Subs
      BY <1>1, <1>2, <1>3, <2>1, Numbers DEF StageInv
    <3>2. \A r \in Subs : load'[r] = load[r] /\ load[r] = 0
      BY <1>1, <1>4, <3>1, ServerTypes DEF AcceptInv
    <3>3. Loops' = {} /\ ~(threadNum' > 0)
      BY <1>2, <3>1 DEF Loops
    <3>. QED
      BY <1>2, <3>2, <3>3 DEF AcceptInv
  <2>2. CASE nextEl # -1
    <3>1. /\ nextEl \in Nat /\ nextEl < threadNum /\ threadNum \in Nat
          /\ target = nextEl /\ target \in Loops /\ target \in Subs /\ target # Acceptor
          /\ 0 \in Loops /\ 0 \in Subs
      BY <1>1, <1>3, <2>2, ServerTypes, Numbers DEF StageInv, Loops
    <3>2. \A r \in Subs : r >= threadNum => load'[r] = 0
      <4>1. \A r \in Subs : r >= threadNum => r # target
        BY <1>1, <3>1, ServerTypes
      <4>. QED
        BY <1>1, <1>4, <4>1 DEF AcceptInv
    <3>3. load'[Acceptor] = 0
      <4>1. threadNum > 0
        BY <3>1
      <4>2. load[Acceptor] = 0
        BY <1>1, <4>1 DEF AcceptInv
      <4>. QED
        BY <1>4, <3>1, <4>2
    <3>4. ASSUME NEW r \in Loops
          PROVE  load'[r] = IF Ahead(r)' THEN load'[0] + 1 ELSE load'[0]
      <4>1. r \in Int /\ 0 <= r /\ r < threadNum /\ r \in Subs /\ load[r] \in Nat /\ load[0] \in Nat
        BY <1>1, <3>1, ServerTypes
      <4>2. load[r] = IF Ahead(r) THEN load[0] + 1 ELSE load[0]
        BY <1>1 DEF AcceptInv
      <4>3. Ahead(r) <=> r # 0 /\ (nextEl = 0 \/ r < nextEl)
        BY <1>2, <4>1 DEF Ahead
      <4>4. Ahead(r)' <=> r # 0 /\ r <= nextEl
        BY <1>2, <3>1, <4>1 DEF Ahead
      <4>5. CASE nextEl = 0
        <5>1. load'[0] = load[0] + 1 /\ (r # 0 => load'[r] = load[r])
          BY <1>4, <3>1, <4>1, <4>5
        <5>2. ~Ahead(r)' /\ (Ahead(r) <=> r # 0)
          BY <4>1, <4>3, <4>4, <4>5
        <5>. QED
          BY <4>1, <4>2, <5>1, <5>2
      <4>6. CASE nextEl # 0
        <5>1. load'[0] = load[0]
          BY <1>4, <3>1, <4>6
        <5>2. CASE r = nextEl
          <6>1. load'[r] = load[r] + 1 /\ ~Ahead(r) /\ Ahead(r)'
            BY <1>4, <3>1, <4>1, <4>3, <4>4, <4>6, <5>2
          <6>. QED
            BY <4>1, <4>2, <5>1, <6>1
        <5>3. CASE r # nextEl
          <6>1. load'[r] = load[r] /\ (Ahead(r)' <=> Ahead(r))
            BY <1>4, <3>1, <4>1, <4>3, <4>4, <4>6, <5>3
          <6>. QED
            BY <4>1, <4>2, <5>1, <6>1
        <5>. QED
          BY <5>2, <5>3
      <4>. QED
        BY <4>5, <4>6
    <3>5. Loops' = Loops
      BY <1>2 DEF Loops
    <3>. QED
      BY <1>2, <3>2, <3>3, <3>4, <3>5 DEF AcceptInv
  <2>. QED
    BY <2>1, <2>2
<1>. QED
  BY <1>5, <1>6, <1>7 DEF ProcessInv
-----------------------------------------------------------------------------
\* Every step keeps the invariants.
LEMMA ProcessStep ==
  ASSUME ProcessInv, [Next]_vars
  PROVE  ProcessInv'
<1>1. CASE UNCHANGED vars
  BY <1>1 DEF vars, server, accept, status, ProcessInv, TypeOK, StageInv, SubsInv, AcceptInv,
              Loops, Ahead
<1>. QED
  BY <1>1, StatusStep, StartStep, StopStep, LoopStep, ChooseStep, HandOverStep
     DEF Next, MainThread, Reactors, Handlers

\* The invariant holds in every run.
LEMMA ProcessAlways == Spec => []ProcessInv
<1>1. Init => ProcessInv
  BY ProcessInit
<1>2. ProcessInv /\ [Next]_vars => ProcessInv'
  BY ProcessStep
<1>. QED
  BY <1>1, <1>2, PTL DEF Spec

\* The members of TCPServer and StatusManager stay in their types; in
\* particular _next_el, which indexes _sub_els, stays within the array.
THEOREM ProcessTypes == Spec => []TypeOK
<1>1. ProcessInv => TypeOK
  BY DEF ProcessInv
<1>. QED
  BY <1>1, ProcessAlways, PTL

\* However many connections come, _get_next_el spreads them over the loops
\* with a difference of at most one, and gives none to a loop nobody runs.
THEOREM SpreadEvenly == Spec => []Balanced
<1>1. ASSUME ProcessInv PROVE Balanced
  <2>1. TypeOK /\ AcceptInv
    BY <1>1 DEF ProcessInv
  <2>2. CASE threadNum = 0
    <3>1. load[Acceptor] \in Nat /\ load[Acceptor] <= load[Acceptor] + 1
      BY <2>1, ServerTypes
    <3>2. \A r \in Subs : load[r] = 0
      BY <2>1, <2>2, ServerTypes DEF AcceptInv
    <3>. QED
      BY <2>2, <3>1, <3>2 DEF Balanced
  <2>3. CASE threadNum # 0
    <3>1. threadNum > 0 /\ 0 \in Subs
      BY <2>1, <2>3, ServerTypes, Numbers DEF Subs
    <3>2. ASSUME NEW r \in Loops, NEW s \in Loops PROVE load[r] <= load[s] + 1
      <4>1. load[0] \in Nat
        BY <2>1, <3>1, ServerTypes
      <4>2. load[r] \in {load[0], load[0] + 1} /\ load[s] \in {load[0], load[0] + 1}
        BY <2>1 DEF AcceptInv
      <4>. QED
        BY <4>1, <4>2
    <3>3. ASSUME NEW r \in (Subs \cup {Acceptor}) \ Loops PROVE load[r] = 0
      BY <2>1, <3>1, ServerTypes DEF AcceptInv
    <3>. QED
      BY <2>3, <3>2, <3>3 DEF Balanced, Loops
  <2>. QED
    BY <2>2, <2>3
<1>. QED
  BY <1>1, ProcessAlways, PTL

\* A connection is handed to a loop that is not there only by the main reactor
\* that still runs inside stop().
LEMMA FaultStep ==
  ASSUME ProcessInv, LoopsThere, [Next]_vars
  PROVE  fault' => threadNum' > 0 /\ Stopping'
<1>1. CASE UNCHANGED vars
  BY <1>1 DEF LoopsThere, Stopping, vars, server
<1>2. CASE ~Over /\ HandOver
  <2>1. TypeOK /\ StageInv /\ AcceptInv
    BY DEF ProcessInv
  <2>2. /\ acceptPc = "hand_over" /\ reactor[Acceptor] # "none"
        /\ UNCHANGED <<pc, threadNum>>
        /\ fault' = (target # Acceptor /\ (subEls # "alive" \/ target >= threadNum))
    BY <1>2 DEF HandOver, Alive, server
  <2>3. ASSUME target # Acceptor, subEls # "alive" \/ target >= threadNum
        PROVE  threadNum > 0 /\ Stopping
    <3>1. target = nextEl /\ nextEl # -1
      BY <2>1, <2>2, <2>3 DEF AcceptInv
    <3>2. nextEl < threadNum /\ nextEl \in Nat /\ threadNum \in Nat
      BY <2>1, <3>1, ServerTypes DEF StageInv
    <3>3. subEls = "deleted"
      BY <2>1, <2>3, <3>1, <3>2 DEF StageInv, TypeOK
    <3>4. pc \in Ending /\ pc # "done"
      BY <1>2, <2>1, <3>3 DEF StageInv, Over
    <3>. QED
      BY <3>2, <3>4 DEF Ending, Stopping
  <2>. QED
    BY <2>2, <2>3 DEF Stopping
<1>3. CASE ~Over /\ UNCHANGED fault
  BY <1>3 DEF Over
<1>4. ~HandOver /\ ~UNCHANGED vars => ~Over /\ UNCHANGED fault
  <2>1. ASSUME \/ \E n \in ThreadNums : SetThreadNum(n)
               \/ MainThread
        PROVE  UNCHANGED fault
    BY <2>1 DEF SetThreadNum, MainThread, StartSubs, StartMain, RegisterSignals, IsClose,
                WaitForSignal, Lock, Unlock, WakeUp, StopSub, JoinSub, DeleteSubs, StopMain,
                JoinMain
  <2>2. ASSUME \/ GetNextEl \/ \E r \in Subs \cup {Acceptor} : ReactorEnds(r)
               \/ ClientConnect \/ Killed
               \/ \E t \in Threads : Signal(t) \/ HandlerLock(t) \/ SetClose(t)
        PROVE  UNCHANGED fault
    BY <2>2 DEF GetNextEl, ReactorEnds, ClientConnect, Killed, Signal, HandlerLock, SetClose
  <2>. QED
    BY <2>1, <2>2 DEF Next, Reactors, Handlers
<1>5. HandOver /\ ~UNCHANGED vars => ~Over
  BY DEF Next
<1>. QED
  BY <1>1, <1>2, <1>3, <1>4, <1>5

\* From start() until stop(), and always without sub-reactors, no connection is
\* handed to a loop that is not there; and the array of sub-reactors is deleted
\* only when each of their threads was joined.
THEOREM LoopsAlwaysThere == Spec => []LoopsThere
<1>1. Init => LoopsThere
  BY DEF Init, LoopsThere
<1>2. ProcessInv /\ ProcessInv' /\ LoopsThere /\ [Next]_vars => LoopsThere'
  <2> SUFFICES ASSUME ProcessInv, ProcessInv', LoopsThere, [Next]_vars PROVE LoopsThere'
    OBVIOUS
  <2>1. fault' => threadNum' > 0 /\ Stopping'
    BY FaultStep
  <2>2. (subEls = "deleted" => \A r \in 0..(threadNum - 1) : reactor[r] = "joined")'
    BY DEF ProcessInv, SubsInv, Loops
  <2>. QED
    BY <2>1, <2>2 DEF LoopsThere
<1>. QED
  BY <1>1, <1>2, ProcessAlways, PTL DEF Spec
=============================================================================
