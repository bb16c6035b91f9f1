--------------------------- MODULE PbServerProofs ---------------------------
(***************************************************************************)
(* Proofs about PbServer with one reactor and synchronous services (Solo), *)
(* for any clients, addresses, descriptors, timeouts and requests, and, at *)
(* the end, about its timers with any threads.  What a theorem needs       *)
(* beyond that it says itself.                                             *)
(***************************************************************************)
EXTENDS PbServer, FiniteSetTheorems, SequenceTheorems, WellFoundedInduction, TLAPS

-----------------------------------------------------------------------------
\* One reactor, which accepts too, and services that answer before they
\* return.
Solo == ~SubReactors /\ ~AsyncService

\* The connections close_callback is not working on.
Open == {a \in Addrs : conn[a].live /\ closing # a}

AllCallbacks == {"read", "close", "write"}

\* Objects, descriptors, sockets, interest list and channel map.
ObjectOwn(a) ==
  /\ ~conn[a].live => conn[a] = Dead /\ channels[a] = 0
  /\ conn[a].live => /\ conn[a].sock \in Socks /\ conn[a].fd \in Fds
                     /\ conn[a].ts > 0 /\ channels[a] = conn[a].ts

OpenOwn(a) ==
  /\ sock[conn[a].sock].st = "open"
  /\ fdTable[conn[a].fd] = conn[a].sock
  /\ epoll[conn[a].sock] = [ev |-> conn[a].sevent, conn |-> a]
  /\ conn[a].sevent # "none"

ClosingOwn ==
  closing # NoConn => /\ conn[closing].live
                      /\ sock[conn[closing].sock].st = "closed"
                      /\ fdTable[conn[closing].fd] = NoSock

EpollOwn(s) ==
  IF epoll[s].ev = "none" THEN epoll[s].conn = NoConn
  ELSE epoll[s].conn \in Open /\ conn[epoll[s].conn].sock = s

Distinct(a, b) == conn[a].live /\ conn[b].live /\ a # b => conn[a].sock # conn[b].sock

OwnInv ==
  /\ now > 0
  /\ \A a \in Addrs : ObjectOwn(a)
  /\ \A a, b \in Addrs : Distinct(a, b)
  /\ \A a \in Open : OpenOwn(a)
  /\ ClosingOwn
  /\ \A s \in Socks : EpollOwn(s)

\* Where the reactor is in loop(), and what waits for it.
PlaceInv ==
  /\ fault = "none"
  /\ calls = {}
  /\ loopPc # "events" => ready = {} /\ funcs = <<>>
  /\ loopPc # "funcs" => batch = <<>>
  /\ loopPc # "timers" => exe = {}
  /\ acceptPc = "idle" <=> accepting = NoConn
  /\ acceptPc # "idle" => closing = NoConn /\ loopPc = "events" /\ conn[accepting].live
  /\ acceptPc \in {"close", "write"} => "read" \in conn[accepting].cbs
  /\ acceptPc = "write" => "close" \in conn[accepting].cbs
  /\ \A tm \in timers \cup exe : tm.cts > 0

Queued(a) == \/ \E i \in DOMAIN funcs : funcs[i].conn = a
             \/ \E i \in DOMAIN batch : batch[i].conn = a

\* The masks of every connection, its callbacks and its context; queued
\* functions and events are for connections that are there.
MaskAt(a) ==
  /\ conn[a].event \in {"IN", "OUT"}
  /\ conn[a].sevent = "OUT" => conn[a].event = "OUT"
  /\ conn[a].event # conn[a].sevent => Queued(a)
  /\ IF accepting = a THEN conn[a].event = "IN" ELSE conn[a].cbs = AllCallbacks
  /\ IF conn[a].event = "IN" THEN conn[a].ctx.k \in {"none", "part"}
                             ELSE conn[a].ctx.k \in {"short", "keep"}

FuncAt(q) == q.conn \in Open /\ Valid(q.conn, q.sock)

EventAt(e) ==
  e.conn # Acceptor =>
    /\ e.conn \in Open /\ e.conn # accepting
    /\ conn[e.conn].event = e.ev /\ conn[e.conn].sevent = e.ev
    /\ ~Queued(e.conn)

MaskInv ==
  /\ \A a \in Open : MaskAt(a)
  /\ \A i \in DOMAIN funcs : FuncAt(funcs[i])
  /\ \A i \in DOMAIN batch : FuncAt(batch[i])
  /\ \A e \in ready : EventAt(e)

CoreInv == TypeOK /\ OwnInv /\ PlaceInv /\ MaskInv

-----------------------------------------------------------------------------
AllSocks ==
  [st : {"none", "backlog", "open", "closed"}, in : Seq(Chunks), fin : BOOLEAN,
   full : BOOLEAN, chunks : Nat, reqs : Nat]
AllWbufs == [hdr : Seq(Nat), extra : Nat, sent : BOOLEAN]
AllFuncs == [conn : Addrs, sock : Socks]
AllEvents == [conn : Addrs \cup {Acceptor}, ev : {"IN", "OUT"}]

\* The constants.
LEMMA Constants ==
  /\ Fds \subseteq Nat /\ NoSock \notin Socks /\ NoConn \notin Addrs
  /\ Acceptor \notin Addrs /\ Acceptor # NoConn
  /\ ReadTimeout \in Nat /\ WriteTimeout \in Nat /\ MaxChunks \in Nat /\ MaxTime \in Nat
  /\ Kinds \subseteq {"part", "short", "keep", "bad", "nosvc"}
  BY ServerAssumption

LEMMA DeadType == Dead \in Conns /\ EmptyWbuf \in AllWbufs
  BY Constants DEF Dead, Conns, Masks, EmptyWbuf, AllWbufs

\* Nothing is there at first.
LEMMA CoreInit == Init => CoreInv
<1> SUFFICES ASSUME Init PROVE CoreInv
  OBVIOUS
<1>1. TypeOK
  <2>1. sock \in [Socks -> AllSocks]
    BY DEF Init, AllSocks
  <2>2. conn \in [Addrs -> Conns]
    BY DeadType DEF Init
  <2>3. epoll \in [Socks -> [ev : Masks, conn : Addrs \cup {NoConn}]]
    BY DEF Init, Masks
  <2>4. /\ fdTable \in [Fds -> Socks \cup {NoSock}]
        /\ channels \in [Addrs -> Nat]
        /\ executed \in [Socks -> Seq(Nat)] /\ completed \in [Socks -> Nat]
        /\ replies \in [Socks -> Seq([n : Nat, payload : Nat])]
    BY DEF Init
  <2>5. funcs \in Seq([conn : Addrs, sock : Socks]) /\ batch \in Seq([conn : Addrs, sock : Socks])
    BY DEF Init
  <2>. QED
    BY <2>1, <2>2, <2>3, <2>4, <2>5 DEF TypeOK, Init, AllSocks
<1>2. \A a \in Addrs : conn[a] = Dead /\ ~conn[a].live /\ channels[a] = 0
  BY DEF Init, Dead
<1>3. OwnInv
  BY <1>2 DEF OwnInv, ObjectOwn, Distinct, OpenOwn, ClosingOwn, EpollOwn, Init, Open
<1>4. PlaceInv
  BY DEF PlaceInv, Init
<1>5. MaskInv
  BY <1>2 DEF MaskInv, MaskAt, FuncAt, EventAt, Init, Open
<1>. QED
  BY <1>1, <1>3, <1>4, <1>5 DEF CoreInv

\* Clients send, close and stall: only their sockets change, and none is
\* opened or closed by it.
LEMMA CoreClient ==
  ASSUME CoreInv, Client
  PROVE  /\ CoreInv'
         /\ \A s \in Socks : sock'[s].st = "open" <=> sock[s].st = "open"
<1>1. TypeOK /\ OwnInv /\ PlaceInv /\ MaskInv
  BY DEF CoreInv
<1>2. UNCHANGED <<fdTable, epoll, conn, channels, funcs, timers, loopPc, ready, batch, exe,
                  closing, acceptPc, accepting, calls, now, fault, executed, replies, completed>>
  BY DEF Client, objects, queues, loopVars, acceptVars, history
<1>3. PICK s \in Socks : \/ ClientConnect(s)
                         \/ \E k \in Kinds : ClientSend(s, k)
                         \/ ClientClose(s)
                         \/ ClientStall(s)
  BY DEF Client
<1>4. sock \in [Socks -> AllSocks]
  BY <1>1 DEF TypeOK, AllSocks
<1>5. /\ sock' \in [Socks -> AllSocks]
      /\ \A t \in Socks : sock'[t].st = sock[t].st
                          \/ (sock[t].st = "none" /\ sock'[t].st = "backlog")
  <2>1. CASE ClientConnect(s)
    BY <1>4, <2>1 DEF ClientConnect, AllSocks
  <2>2. ASSUME NEW k \in Kinds, ClientSend(s, k)
        PROVE  /\ sock' \in [Socks -> AllSocks]
               /\ \A t \in Socks : sock'[t].st = sock[t].st
    <3>1. [k |-> k, n |-> sock[s].reqs + 1] \in Chunks
      BY <1>4 DEF Chunks, AllSocks
    <3>2. Append(sock[s].in, [k |-> k, n |-> sock[s].reqs + 1]) \in Seq(Chunks)
      BY <1>4, <3>1 DEF AllSocks
    <3>3. PICK q \in Seq(Chunks), m \in Nat, r \in Nat :
            sock' = [sock EXCEPT ![s] = [sock[s] EXCEPT !.in = q, !.chunks = m, !.reqs = r]]
      <4>1. sock[s].chunks + 1 \in Nat /\ sock[s].reqs \in Nat /\ sock[s].reqs + 1 \in Nat
        BY <1>4 DEF AllSocks
      <4>. QED
        BY <2>2, <3>2, <4>1 DEF ClientSend
    <3>. QED
      BY <1>4, <3>3 DEF AllSocks
  <2>3. CASE ClientClose(s)
    BY <1>4, <2>3 DEF ClientClose, AllSocks
  <2>4. CASE ClientStall(s)
    BY <1>4, <2>4 DEF ClientStall, AllSocks
  <2>. QED
    BY <1>3, <2>1, <2>2, <2>3, <2>4
<1>6. TypeOK'
  BY <1>1, <1>2, <1>5 DEF TypeOK, AllSocks
<1>7. \A t \in Socks : sock[t].st \in {"open", "closed"} => sock'[t].st = sock[t].st
  BY <1>5
<1>8. OwnInv'
  <2>1. Open' = Open
    BY <1>2 DEF Open
  <2>2. \A a \in Open : sock'[conn[a].sock].st = "open"
    BY <1>1, <1>7 DEF OwnInv, ObjectOwn, Distinct, OpenOwn, ClosingOwn, EpollOwn, Open
  <2>3. closing # NoConn => sock'[conn[closing].sock].st = "closed"
    BY <1>1, <1>7 DEF OwnInv, ObjectOwn, Distinct, OpenOwn, ClosingOwn, EpollOwn, TypeOK
  <2>. QED
    BY <1>1, <1>2, <2>1, <2>2, <2>3 DEF OwnInv, ObjectOwn, Distinct, OpenOwn, ClosingOwn, EpollOwn
<1>9. PlaceInv' /\ MaskInv'
  BY <1>1, <1>2 DEF PlaceInv, MaskInv, MaskAt, FuncAt, EventAt, Open, Queued, Valid
<1>. QED
  BY <1>5, <1>6, <1>8, <1>9 DEF CoreInv

\* Steps of the loop that change no connection.
LEMMA CoreLoop ==
  ASSUME Solo, CoreInv, Tick \/ EpollWait \/ SwapFuncs \/ PopTimers \/ LoopAgain
  PROVE  CoreInv'
<1>1. TypeOK /\ OwnInv /\ PlaceInv /\ MaskInv
  BY DEF CoreInv
<1>2. UNCHANGED <<sock, fdTable, epoll, conn, channels, closing, acceptPc, accepting, calls, fault,
                  executed, replies, completed>>
  BY DEF Tick, EpollWait, SwapFuncs, PopTimers, LoopAgain, kernel, objects, acceptVars, history
<1>3. CASE Tick
  <2>1. now' = now + 1 /\ UNCHANGED <<funcs, timers, loopPc, ready, batch, exe>>
    BY <1>3 DEF Tick, queues, loopVars
  <2>2. TypeOK'
    BY <1>1, <1>2, <2>1 DEF TypeOK
  <2>3. OwnInv'
    <3>1. now' > 0
      BY <1>1, <2>1 DEF OwnInv, ObjectOwn, Distinct, OpenOwn, ClosingOwn, EpollOwn, TypeOK
    <3>. QED
      BY <1>1, <1>2, <3>1 DEF OwnInv, ObjectOwn, Distinct, OpenOwn, ClosingOwn, EpollOwn, Open
  <2>4. PlaceInv' /\ MaskInv'
    BY <1>1, <1>2, <2>1 DEF PlaceInv, MaskInv, MaskAt, FuncAt, EventAt, Open, Queued, Valid
  <2>. QED
    BY <2>2, <2>3, <2>4 DEF CoreInv
<1>4. ASSUME UNCHANGED now PROVE OwnInv'
  BY <1>1, <1>2, <1>4 DEF OwnInv, ObjectOwn, Distinct, OpenOwn, ClosingOwn, EpollOwn, Open
<1>5. CASE EpollWait
  <2>1. /\ loopPc = "wait" /\ loopPc' = "events" /\ ready' = Ready
        /\ closing = NoConn /\ acceptPc = "idle" /\ accepting = NoConn
        /\ funcs = <<>> /\ batch = <<>> /\ exe = {}
        /\ UNCHANGED <<funcs, timers, batch, exe, now>>
    BY <1>1, <1>5 DEF EpollWait, ReactorFree, Solo, PlaceInv, queues
  <2>2. ASSUME NEW e \in Ready
        PROVE  /\ e \in AllEvents
               /\ e.conn # Acceptor =>
                    /\ e.conn \in Open
                    /\ conn[e.conn].event = e.ev /\ conn[e.conn].sevent = e.ev
    <3>1. CASE e = [conn |-> Acceptor, ev |-> "IN"]
      BY <3>1 DEF AllEvents
    <3>2. ASSUME NEW s \in Socks, epoll[s].ev \in {"IN", "OUT"},
                 e = [conn |-> epoll[s].conn, ev |-> epoll[s].ev]
          PROVE  /\ e \in AllEvents
                 /\ e.conn \in Open
                 /\ conn[e.conn].event = e.ev /\ conn[e.conn].sevent = e.ev
      <4>1. PICK a : a = epoll[s].conn /\ a \in Open /\ conn[a].sock = s
        BY <1>1, <3>2 DEF OwnInv, ObjectOwn, Distinct, OpenOwn, ClosingOwn, EpollOwn
      <4>2. epoll[s] = [ev |-> conn[a].sevent, conn |-> a]
        BY <1>1, <4>1 DEF OwnInv, ObjectOwn, Distinct, OpenOwn, ClosingOwn, EpollOwn
      <4>3. conn[a].event = conn[a].sevent
        BY <1>1, <2>1, <4>1 DEF MaskInv, MaskAt, FuncAt, EventAt, Queued
      <4>. QED
        BY <3>2, <4>1, <4>2, <4>3 DEF AllEvents, Open
    <3>. QED
      BY <3>1, <3>2 DEF Ready
  <2>3. TypeOK'
    BY <1>1, <1>2, <2>1, <2>2 DEF TypeOK, AllEvents
  <2>4. PlaceInv'
    BY <1>1, <1>2, <2>1 DEF PlaceInv
  <2>5. MaskInv'
    <3>1. Open' = Open
      BY <1>2 DEF Open
    <3>2. \A a \in Open : ~Queued(a)' /\ ~Queued(a)
      BY <2>1 DEF Queued
    <3>3. \A e \in ready' : e.conn # Acceptor =>
            /\ e.conn \in Open /\ e.conn # accepting
            /\ conn[e.conn].event = e.ev /\ conn[e.conn].sevent = e.ev
            /\ ~Queued(e.conn)'
      <4>1. NoConn \notin Open
        BY Constants DEF Open
      <4>. QED
        BY <2>1, <2>2, <3>2, <4>1
    <3>. QED
      BY <1>1, <1>2, <2>1, <3>1, <3>2, <3>3 DEF MaskInv, MaskAt, FuncAt, EventAt, Valid
  <2>. QED
    BY <1>4, <2>1, <2>3, <2>4, <2>5 DEF CoreInv
<1>6. CASE SwapFuncs
  <2>1. /\ loopPc = "events" /\ loopPc' = "funcs" /\ ready = {}
        /\ closing = NoConn /\ acceptPc = "idle"
        /\ batch = <<>> /\ batch' = funcs /\ funcs' = <<>>
        /\ UNCHANGED <<timers, ready, exe, now>>
    BY <1>1, <1>6 DEF SwapFuncs, ReactorFree, Solo, PlaceInv
  <2>2. TypeOK'
    BY <1>1, <1>2, <2>1 DEF TypeOK
  <2>3. PlaceInv'
    BY <1>1, <1>2, <2>1 DEF PlaceInv
  <2>4. \A a \in Addrs : Queued(a)' <=> Queued(a)
    BY <2>1 DEF Queued
  <2>5. MaskInv'
    BY <1>1, <1>2, <2>1, <2>4 DEF MaskInv, MaskAt, FuncAt, EventAt, Open, Valid
  <2>. QED
    BY <1>4, <2>1, <2>2, <2>3, <2>5 DEF CoreInv
<1>7. CASE PopTimers
  <2>1. /\ loopPc = "funcs" /\ loopPc' = "timers" /\ batch = <<>> /\ exe = {}
        /\ exe' \subseteq timers /\ timers' \subseteq timers
        /\ acceptPc = "idle"
        /\ UNCHANGED <<funcs, ready, batch, now>>
    BY <1>1, <1>7 DEF PopTimers, ReactorFree, Solo, PlaceInv
  <2>2. TypeOK'
    BY <1>1, <1>2, <2>1 DEF TypeOK
  <2>3. PlaceInv'
    BY <1>1, <1>2, <2>1 DEF PlaceInv
  <2>4. MaskInv'
    BY <1>1, <1>2, <2>1 DEF MaskInv, MaskAt, FuncAt, EventAt, Open, Valid, Queued
  <2>. QED
    BY <1>4, <2>1, <2>2, <2>3, <2>4 DEF CoreInv
<1>8. CASE LoopAgain
  <2>1. /\ loopPc = "timers" /\ loopPc' = "wait" /\ exe = {} /\ acceptPc = "idle"
        /\ UNCHANGED <<funcs, timers, ready, batch, exe, now>>
    BY <1>1, <1>8 DEF LoopAgain, ReactorFree, Solo, queues
  <2>2. TypeOK'
    BY <1>1, <1>2, <2>1 DEF TypeOK
  <2>3. PlaceInv'
    BY <1>1, <1>2, <2>1 DEF PlaceInv
  <2>4. MaskInv'
    BY <1>1, <1>2, <2>1 DEF MaskInv, MaskAt, FuncAt, EventAt, Open, Valid, Queued
  <2>. QED
    BY <1>4, <2>1, <2>2, <2>3, <2>4 DEF CoreInv
<1>. QED
  BY <1>3, <1>5, <1>6, <1>7, <1>8
-----------------------------------------------------------------------------
\* What is known of a connection that is open.
LEMMA OpenFacts ==
  ASSUME CoreInv, NEW a \in Open
  PROVE  /\ a \in Addrs /\ a # NoConn /\ a # Acceptor /\ conn[a] \in Conns
         /\ conn[a].live /\ closing # a
         /\ conn[a].sock \in Socks /\ conn[a].fd \in Fds /\ conn[a].sock # NoSock
         /\ fdTable[conn[a].fd] = conn[a].sock
         /\ sock[conn[a].sock].st = "open"
         /\ epoll[conn[a].sock] = [ev |-> conn[a].sevent, conn |-> a]
         /\ conn[a].sevent # "none"
         /\ conn[a].ts > 0 /\ channels[a] = conn[a].ts
         /\ \A b \in Open : b # a => conn[b].sock # conn[a].sock /\ conn[b].fd # conn[a].fd
<1>1. TypeOK /\ OwnInv
  BY DEF CoreInv
<1>2. a \in Addrs /\ a # NoConn /\ a # Acceptor /\ conn[a].live /\ closing # a
  BY Constants DEF Open
<1>3. conn[a] \in Conns
  BY <1>1, <1>2 DEF TypeOK
<1>4. ObjectOwn(a) /\ OpenOwn(a)
  BY <1>1, <1>2 DEF OwnInv
<1>5. conn[a].sock \in Socks /\ conn[a].sock # NoSock
  BY <1>2, <1>4, Constants DEF ObjectOwn
<1>6. ASSUME NEW b \in Open, b # a
      PROVE  conn[b].sock # conn[a].sock /\ conn[b].fd # conn[a].fd
  <2>1. b \in Addrs /\ conn[b].live
    BY DEF Open
  <2>2. Distinct(b, a) /\ OpenOwn(b)
    BY <1>1, <1>2, <2>1 DEF OwnInv
  <2>. QED
    BY <1>2, <1>4, <1>6, <2>1, <2>2 DEF Distinct, OpenOwn
<1>. QED
  BY <1>2, <1>3, <1>4, <1>5, <1>6 DEF ObjectOwn, OpenOwn

\* The effect of ::close on a socket.
ShutSock(r) == [r EXCEPT !.st = "closed", !.in = <<>>, !.fin = FALSE, !.full = FALSE]

LEMMA ShutType ==
  ASSUME NEW r \in AllSocks
  PROVE  ShutSock(r) \in AllSocks /\ ShutSock(r).st = "closed"
<1>0. <<>> \in Seq(Chunks)
  OBVIOUS
<1>1. PICK q \in Seq(Chunks) : q = <<>>
  BY <1>0
<1>2. ShutSock(r) = [r EXCEPT !.st = "closed", !.in = q, !.fin = FALSE, !.full = FALSE]
  BY <1>1 DEF ShutSock
<1>. QED
  BY <1>2 DEF AllSocks

\* ::close of descriptor fd, whose socket is s or none.
LEMMA CloseFdEffect ==
  ASSUME TypeOK, NEW fd \in Fds, CloseFd(fd)
  PROVE  /\ fdTable' \in [Fds -> Socks \cup {NoSock}]
         /\ sock' \in [Socks -> AllSocks]
         /\ epoll' \in [Socks -> [ev : Masks, conn : Addrs \cup {NoConn}]]
         /\ fdTable'[fd] = NoSock
         /\ \A g \in Fds : g # fd => fdTable'[g] = fdTable[g]
         /\ \A t \in Socks :
              IF t = fdTable[fd]
              THEN sock'[t] = ShutSock(sock[t]) /\ epoll'[t] = [ev |-> "none", conn |-> NoConn]
              ELSE sock'[t] = sock[t] /\ epoll'[t] = epoll[t]
<1>1. /\ fdTable \in [Fds -> Socks \cup {NoSock}]
      /\ sock \in [Socks -> AllSocks]
      /\ epoll \in [Socks -> [ev : Masks, conn : Addrs \cup {NoConn}]]
  BY DEF TypeOK, AllSocks
<1>2. /\ fdTable' = [fdTable EXCEPT ![fd] = NoSock]
      /\ sock' = [t \in Socks |-> IF t = fdTable[fd] THEN ShutSock(sock[t]) ELSE sock[t]]
      /\ epoll' = [t \in Socks |->
                     IF t = fdTable[fd] THEN [ev |-> "none", conn |-> NoConn] ELSE epoll[t]]
  BY DEF CloseFd, ShutSock
<1>3. fdTable' \in [Fds -> Socks \cup {NoSock}] /\ fdTable'[fd] = NoSock
      /\ \A g \in Fds : g # fd => fdTable'[g] = fdTable[g]
  BY <1>1, <1>2
<1>4. sock' \in [Socks -> AllSocks]
  BY <1>1, <1>2, ShutType
<1>5. epoll' \in [Socks -> [ev : Masks, conn : Addrs \cup {NoConn}]]
  BY <1>1, <1>2 DEF Masks
<1>. QED
  BY <1>2, <1>3, <1>4, <1>5

\* close_callback up to the first ::close, for a connection that nothing else
\* waits for: the rest of the state keeps its invariant.
LEMMA CoreClose ==
  ASSUME Solo, CoreInv, NEW a \in Open, closing = NoConn, acceptPc = "idle",
         ~Queued(a), CloseBegin(a),
         \A e \in ready' : e \in ready /\ e.conn # a,
         exe' \subseteq exe,
         UNCHANGED <<channels, funcs, timers, loopPc, batch, acceptPc, accepting, calls, now>>,
         executed' \in [Socks -> Seq(Nat)], completed' \in [Socks -> Nat],
         replies' \in [Socks -> Seq([n : Nat, payload : Nat])]
  PROVE  CoreInv' /\ Open' = Open \ {a} /\ closing' = a
<1>1. TypeOK /\ OwnInv /\ PlaceInv /\ MaskInv
  BY DEF CoreInv
<1>0. /\ conn[a].sock \in Socks /\ conn[a].fd \in Fds /\ conn[a].sock # NoSock
      /\ fdTable[conn[a].fd] = conn[a].sock
      /\ conn[a].live /\ a \in Addrs /\ a # NoConn
      /\ epoll[conn[a].sock] = [ev |-> conn[a].sevent, conn |-> a]
      /\ conn[a].sevent # "none"
      /\ \A b \in Open : b # a => conn[b].sock # conn[a].sock /\ conn[b].fd # conn[a].fd
  BY OpenFacts
<1>2. PICK s, fd : /\ s = conn[a].sock /\ fd = conn[a].fd
                   /\ s \in Socks /\ fd \in Fds /\ fdTable[fd] = s
                   /\ conn[a].live /\ a \in Addrs /\ a # NoConn
  BY <1>0
<1>3. conn[a] \in Conns
  BY <1>1, <1>2 DEF TypeOK
<1>4. /\ closing' = a
      /\ fault' = CtlFault([conn[a] EXCEPT !.event = "none"])
      /\ conn' = [conn EXCEPT ![a] = [conn[a] EXCEPT !.event = "none", !.sevent = "none"]]
      /\ CloseFd(fd)
  BY <1>2 DEF CloseBegin
<1>5. /\ fdTable' \in [Fds -> Socks \cup {NoSock}]
      /\ sock' \in [Socks -> AllSocks]
      /\ epoll' \in [Socks -> [ev : Masks, conn : Addrs \cup {NoConn}]]
      /\ fdTable'[fd] = NoSock
      /\ \A g \in Fds : g # fd => fdTable'[g] = fdTable[g]
      /\ sock'[s] = ShutSock(sock[s]) /\ epoll'[s] = [ev |-> "none", conn |-> NoConn]
      /\ \A t \in Socks : t # s => sock'[t] = sock[t] /\ epoll'[t] = epoll[t]
  BY <1>1, <1>2, <1>4, CloseFdEffect
<1>6. fault' = "none"
  <2>1. epoll[s].ev # "none" /\ conn[a].sevent # "none" /\ s # NoSock
    BY <1>0, <1>2
  <2>2. PICK c : c = [conn[a] EXCEPT !.event = "none"]
    OBVIOUS
  <2>3. c.sevent = conn[a].sevent /\ c.fd = fd
    BY <1>2, <1>3, <2>2 DEF Conns
  <2>. QED
    BY <1>2, <1>4, <2>1, <2>2, <2>3 DEF CtlFault, SockOf
<1>7. /\ conn' \in [Addrs -> Conns]
      /\ \A b \in Addrs : b # a => conn'[b] = conn[b]
      /\ conn'[a].live /\ conn'[a].sock = s /\ conn'[a].fd = fd /\ conn'[a].ts = conn[a].ts
  <2>1. [conn[a] EXCEPT !.event = "none", !.sevent = "none"] \in Conns
    BY <1>3 DEF Conns, Masks
  <2>2. conn \in [Addrs -> Conns]
    BY <1>1 DEF TypeOK
  <2>. QED
    BY <1>2, <1>3, <1>4, <2>1, <2>2 DEF Conns
<1>8. TypeOK'
  <2>1. ready' \subseteq ready
    OBVIOUS
  <2>. QED
    BY <1>1, <1>2, <1>4, <1>5, <1>6, <1>7, <2>1 DEF TypeOK, AllSocks
<1>9. Open' = Open \ {a}
  BY <1>2, <1>4, <1>7, Constants DEF Open
<1>10. \A b \in Open' : b # a /\ conn'[b] = conn[b] /\ conn[b].sock # s /\ conn[b].fd # fd
                        /\ b \in Open /\ b \in Addrs
  <2>1. ASSUME NEW b \in Open, b # a PROVE conn[b].sock # s /\ conn[b].fd # fd /\ conn'[b] = conn[b]
    <3>1. conn[b].sock # s /\ conn[b].fd # fd /\ b \in Addrs
      BY <1>0, <1>2, <2>1 DEF Open
    <3>. QED
      BY <1>7, <2>1, <3>1
  <2>. QED
    BY <1>9, <2>1 DEF Open
<1>11. OwnInv'
  <2>1. ASSUME NEW b \in Addrs PROVE ObjectOwn(b)'
    <3>1. ObjectOwn(b)
      BY <1>1 DEF OwnInv
    <3>. QED
      BY <1>2, <1>7, <3>1 DEF ObjectOwn
  <2>2. ASSUME NEW b \in Addrs, NEW c \in Addrs PROVE Distinct(b, c)'
    <3>1. Distinct(b, c)
      BY <1>1 DEF OwnInv
    <3>. QED
      BY <1>2, <1>7, <3>1 DEF Distinct
  <2>3. ASSUME NEW b \in Open' PROVE OpenOwn(b)'
    <3>1. OpenOwn(b) /\ conn[b].sock \in Socks /\ conn[b].fd \in Fds
      BY <1>1, <1>10, OpenFacts DEF OwnInv
    <3>. QED
      BY <1>5, <1>10, <3>1 DEF OpenOwn
  <2>4. ClosingOwn'
    <3>1. sock'[s].st = "closed"
      BY <1>1, <1>2, <1>5, ShutType DEF TypeOK, AllSocks
    <3>. QED
      BY <1>4, <1>5, <1>7, <3>1 DEF ClosingOwn
  <2>5. ASSUME NEW t \in Socks PROVE EpollOwn(t)'
    <3>1. CASE t = s
      BY <1>5, <3>1 DEF EpollOwn
    <3>2. CASE t # s
      <4>1. epoll'[t] = epoll[t] /\ EpollOwn(t)
        BY <1>1, <1>5, <3>2 DEF OwnInv
      <4>2. CASE epoll[t].ev # "none"
        <5>1. PICK b : b = epoll[t].conn /\ b \in Open /\ conn[b].sock = t
          BY <4>1, <4>2 DEF EpollOwn
        <5>2. b # a
          BY <1>2, <3>2, <5>1
        <5>. QED
          BY <1>9, <1>10, <4>1, <4>2, <5>1, <5>2 DEF EpollOwn
      <4>3. CASE epoll[t].ev = "none"
        BY <4>1, <4>3 DEF EpollOwn
      <4>. QED
        BY <4>2, <4>3
    <3>. QED
      BY <3>1, <3>2
  <2>. QED
    BY <1>1, <2>1, <2>2, <2>3, <2>4, <2>5 DEF OwnInv
<1>12. PlaceInv'
  <2>1. ready = {} => ready' = {}
    OBVIOUS
  <2>2. exe = {} => exe' = {}
    OBVIOUS
  <2>. QED
    BY <1>1, <1>6, <2>1, <2>2 DEF PlaceInv
<1>13. MaskInv'
  <2>1. \A b : Queued(b)' <=> Queued(b)
    BY DEF Queued
  <2>2. ASSUME NEW q, Queued(q.conn), FuncAt(q) PROVE FuncAt(q)'
    <3>1. q.conn # a /\ q.conn \in Open'
      BY <1>9, <2>2 DEF FuncAt
    <3>. QED
      BY <1>10, <2>2, <3>1 DEF FuncAt, Valid
  <2>3. \A i \in DOMAIN funcs : FuncAt(funcs[i])'
    BY <1>1, <2>2 DEF MaskInv, Queued
  <2>4. \A i \in DOMAIN batch : FuncAt(batch[i])'
    BY <1>1, <2>2 DEF MaskInv, Queued
  <2>5. ASSUME NEW b \in Open' PROVE MaskAt(b)'
    <3>1. MaskAt(b)
      BY <1>1, <1>10 DEF MaskInv
    <3>. QED
      BY <1>10, <2>1, <3>1 DEF MaskAt
  <2>6. ASSUME NEW e \in ready' PROVE EventAt(e)'
    <3>1. EventAt(e) /\ e.conn # a
      BY <1>1 DEF MaskInv
    <3>. QED
      BY <1>9, <1>10, <2>1, <3>1 DEF EventAt
  <2>. QED
    BY <2>3, <2>4, <2>5, <2>6 DEF MaskInv
<1>. QED
  BY <1>4, <1>8, <1>9, <1>11, <1>12, <1>13 DEF CoreInv
\* What setting a timer does to a connection: nothing but timer_id.
LEMMA WithTimerFacts ==
  ASSUME NEW c \in Conns, NEW d
  PROVE  /\ WithTimer(c, d) \in Conns
         /\ WithTimer(c, d).live = c.live /\ WithTimer(c, d).sock = c.sock
         /\ WithTimer(c, d).fd = c.fd /\ WithTimer(c, d).ts = c.ts
         /\ WithTimer(c, d).event = c.event /\ WithTimer(c, d).sevent = c.sevent
         /\ WithTimer(c, d).cbs = c.cbs /\ WithTimer(c, d).ctx = c.ctx
         /\ WithTimer(c, d).rbuf = c.rbuf /\ WithTimer(c, d).wbuf = c.wbuf
         /\ WithTimer(c, d).timerId = IF d = 0 THEN c.timerId ELSE c.timerId + 1
<1>1. c.timerId \in Nat
  BY DEF Conns
<1>2. PICK i \in Nat : i = c.timerId + 1
  BY <1>1
<1>3. WithTimer(c, d) = IF d = 0 THEN c ELSE [c EXCEPT !.timerId = i]
  BY <1>2 DEF WithTimer
<1>. QED
  BY <1>2, <1>3 DEF Conns

\* The timer it sets, for reading or for writing.
ReadTimers(a, c) == NewTimers(a, c, ReadTimeout, TRUE)
WriteTimers(a, c) == NewTimers(a, c, WriteTimeout, FALSE)

LEMMA NewTimersFacts ==
  ASSUME TypeOK, NEW a \in Addrs, NEW c \in Conns, c.sock \in Socks,
         NEW tm, tm \in ReadTimers(a, c) \/ tm \in WriteTimers(a, c)
  PROVE  /\ tm \in TimerRecs
         /\ tm.conn = a /\ tm.sock = c.sock /\ tm.cts = c.ts /\ tm.id = c.timerId + 1
<1>1. c.timerId \in Nat /\ c.ts \in Nat /\ now \in Nat
  BY DEF Conns, TypeOK
<1>2. ASSUME NEW r \in BOOLEAN, NEW d \in Nat, tm \in NewTimers(a, c, d, r)
      PROVE  /\ tm \in TimerRecs
             /\ tm.conn = a /\ tm.sock = c.sock /\ tm.cts = c.ts /\ tm.id = c.timerId + 1
  <2>1. PICK i \in Nat, t \in Nat : i = c.timerId + 1 /\ t = now + d
    BY <1>1
  <2>2. d # 0 /\ tm = [conn |-> a, sock |-> c.sock, cts |-> c.ts, id |-> i, read |-> r, ts |-> t]
    BY <1>2, <2>1 DEF NewTimers
  <2>. QED
    BY <1>1, <2>1, <2>2 DEF TimerRecs
<1>3. \E r \in BOOLEAN, d \in Nat : tm \in NewTimers(a, c, d, r)
  BY Constants DEF ReadTimers, WriteTimers
<1>. QED
  BY <1>2, <1>3

\* One open connection changes, but not what it owns.
Changed(a, c) ==
  /\ conn' = [conn EXCEPT ![a] = c]
  /\ c \in Conns /\ c.live /\ c.sock = conn[a].sock /\ c.fd = conn[a].fd
  /\ c.ts = conn[a].ts /\ c.sevent # "none"

LEMMA ChangedFacts ==
  ASSUME CoreInv, NEW a \in Open, NEW c, Changed(a, c), closing' = closing
  PROVE  /\ conn' \in [Addrs -> Conns] /\ conn'[a] = c
         /\ \A b \in Addrs : b # a => conn'[b] = conn[b]
         /\ \A b \in Addrs : /\ conn'[b].live = conn[b].live /\ conn'[b].sock = conn[b].sock
                             /\ conn'[b].fd = conn[b].fd /\ conn'[b].ts = conn[b].ts
         /\ Open' = Open
<1>1. a \in Addrs /\ conn[a].live
  BY DEF Open
<1>2. conn \in [Addrs -> Conns]
  BY DEF CoreInv, TypeOK
<1>3. /\ conn' \in [Addrs -> Conns] /\ conn'[a] = c
      /\ \A b \in Addrs : b # a => conn'[b] = conn[b]
  BY <1>1, <1>2 DEF Changed
<1>4. conn[a].live = c.live
  BY <1>1, <1>2, <1>3 DEF Changed, Conns
<1>5. \A b \in Addrs : /\ conn'[b].live = conn[b].live /\ conn'[b].sock = conn[b].sock
                       /\ conn'[b].fd = conn[b].fd /\ conn'[b].ts = conn[b].ts
  BY <1>3, <1>4 DEF Changed
<1>6. Open' = Open
  BY <1>5 DEF Open
<1>. QED
  BY <1>3, <1>5, <1>6

\* It still owns them.
LEMMA OwnChange ==
  ASSUME CoreInv, NEW a \in Open, NEW c, Changed(a, c),
         \A t \in Socks : sock'[t].st = sock[t].st,
         epoll'[c.sock] = [ev |-> c.sevent, conn |-> a],
         \A t \in Socks : t # c.sock => epoll'[t] = epoll[t],
         UNCHANGED <<fdTable, channels, closing, now>>
  PROVE  OwnInv'
<1>1. TypeOK /\ OwnInv
  BY DEF CoreInv
<1>2. /\ conn' \in [Addrs -> Conns] /\ conn'[a] = c
      /\ \A b \in Addrs : b # a => conn'[b] = conn[b]
      /\ \A b \in Addrs : /\ conn'[b].live = conn[b].live /\ conn'[b].sock = conn[b].sock
                          /\ conn'[b].fd = conn[b].fd /\ conn'[b].ts = conn[b].ts
      /\ Open' = Open
  BY ChangedFacts
<1>3. /\ a \in Addrs /\ conn[a].live /\ conn[a].sock \in Socks /\ c.sock = conn[a].sock
      /\ c.live /\ c.sevent # "none"
      /\ \A b \in Open : b # a => conn[b].sock # conn[a].sock
  BY OpenFacts DEF Changed
<1>4. ASSUME NEW b \in Addrs PROVE ObjectOwn(b)'
  <2>1. ObjectOwn(b)
    BY <1>1 DEF OwnInv
  <2>2. CASE b = a
    BY <1>2, <1>3, <2>1, <2>2 DEF ObjectOwn
  <2>3. CASE b # a
    BY <1>2, <2>1, <2>3 DEF ObjectOwn
  <2>. QED
    BY <2>2, <2>3
<1>5. ASSUME NEW b \in Addrs, NEW d \in Addrs PROVE Distinct(b, d)'
  <2>1. Distinct(b, d)
    BY <1>1 DEF OwnInv
  <2>. QED
    BY <1>2, <2>1 DEF Distinct
<1>6. ASSUME NEW b \in Open PROVE OpenOwn(b)'
  <2>1. OpenOwn(b) /\ b \in Addrs /\ conn[b].sock \in Socks
    BY <1>1, OpenFacts DEF OwnInv
  <2>2. CASE b = a
    BY <1>2, <1>3, <2>1, <2>2 DEF OpenOwn
  <2>3. CASE b # a
    BY <1>2, <1>3, <2>1, <2>3 DEF OpenOwn
  <2>. QED
    BY <2>2, <2>3
<1>7. ClosingOwn'
  <2>1. closing # NoConn => closing \in Addrs /\ conn[closing].live
    BY <1>1 DEF OwnInv, ClosingOwn, TypeOK
  <2>2. closing # NoConn => conn[closing].sock \in Socks
    BY <1>1, <2>1 DEF OwnInv, ObjectOwn
  <2>. QED
    BY <1>1, <1>2, <2>1, <2>2 DEF OwnInv, ClosingOwn
<1>8. ASSUME NEW t \in Socks PROVE EpollOwn(t)'
  <2>1. EpollOwn(t)
    BY <1>1 DEF OwnInv
  <2>2. CASE t = c.sock
    <3>1. epoll'[t].ev = c.sevent /\ epoll'[t].conn = a
      BY <2>2
    <3>. QED
      BY <1>2, <1>3, <2>2, <3>1 DEF EpollOwn
  <2>3. CASE t # c.sock
    <3>1. epoll'[t] = epoll[t]
      BY <2>3
    <3>2. epoll[t].conn \in Open => epoll[t].conn \in Addrs
      BY DEF Open
    <3>. QED
      BY <1>2, <2>1, <3>1, <3>2 DEF EpollOwn
  <2>. QED
    BY <2>2, <2>3
<1>. QED
  BY <1>1, <1>2, <1>4, <1>5, <1>6, <1>7, <1>8 DEF OwnInv

\* Its mask, and who may still want it.
LEMMA MaskChange ==
  ASSUME CoreInv, NEW a \in Open, NEW c, Changed(a, c), closing' = closing,
         MaskAt(a)',
         \A b \in Open : b # a => (Queued(b)' <=> Queued(b)) /\ (accepting' = b <=> accepting = b),
         \A i \in DOMAIN funcs' : FuncAt(funcs'[i]),
         \A i \in DOMAIN batch' : FuncAt(batch'[i]),
         \A e \in ready' : e \in ready /\ e.conn # a
  PROVE  MaskInv'
<1>1. MaskInv
  BY DEF CoreInv
<1>2. /\ conn'[a] = c
      /\ \A b \in Addrs : b # a => conn'[b] = conn[b]
      /\ \A b \in Addrs : /\ conn'[b].live = conn[b].live /\ conn'[b].sock = conn[b].sock
                          /\ conn'[b].fd = conn[b].fd /\ conn'[b].ts = conn[b].ts
      /\ Open' = Open
  BY ChangedFacts
<1>3. \A b \in Open : b \in Addrs
  BY DEF Open
<1>4. ASSUME NEW b \in Open PROVE MaskAt(b)'
  <2>1. CASE b # a
    <3>1. MaskAt(b) /\ conn'[b] = conn[b]
      BY <1>1, <1>2, <1>3, <2>1 DEF MaskInv
    <3>2. (Queued(b)' <=> Queued(b)) /\ (accepting' = b <=> accepting = b)
      BY <2>1
    <3>. QED
      BY <3>1, <3>2 DEF MaskAt
  <2>. QED
    BY <2>1
<1>5. ASSUME NEW q, FuncAt(q)
      PROVE  q.conn \in Open /\ conn'[q.conn].live /\ conn'[q.conn].sock = q.sock
  BY <1>2, <1>3, <1>5 DEF FuncAt, Valid
<1>6. ASSUME NEW e \in ready' PROVE EventAt(e)'
  <2>1. EventAt(e) /\ e.conn # a
    BY <1>1 DEF MaskInv
  <2>2. CASE e.conn # Acceptor
    <3>1. e.conn \in Open /\ e.conn # accepting /\ ~Queued(e.conn)
      BY <2>1, <2>2 DEF EventAt
    <3>2. (Queued(e.conn)' <=> Queued(e.conn)) /\ accepting' # e.conn
          /\ conn'[e.conn] = conn[e.conn]
      BY <1>2, <1>3, <2>1, <3>1
    <3>. QED
      BY <1>2, <2>1, <2>2, <3>1, <3>2 DEF EventAt
  <2>3. CASE e.conn = Acceptor
    BY <2>3 DEF EventAt
  <2>. QED
    BY <2>2, <2>3
<1>7. (\A i \in DOMAIN funcs : FuncAt(funcs[i]))' /\ (\A i \in DOMAIN batch : FuncAt(batch[i]))'
  BY <1>2, <1>5 DEF FuncAt, Valid
<1>. QED
  BY <1>2, <1>4, <1>6, <1>7 DEF MaskInv
-----------------------------------------------------------------------------
\* The end of close_callback: the object goes, and its second ::close finds
\* no socket.
LEMMA CoreCloseEnd ==
  ASSUME CoreInv, CloseEnd
  PROVE  /\ CoreInv' /\ Open' = Open /\ closing' = NoConn
         /\ UNCHANGED <<sock, fdTable, epoll>>
         /\ \A b \in Addrs : b # closing => conn'[b] = conn[b]
<1>1. TypeOK /\ OwnInv /\ PlaceInv /\ MaskInv
  BY DEF CoreInv
<1>2. PICK a : /\ a = closing /\ a \in Addrs /\ a # NoConn /\ conn[a].live
               /\ fdTable[conn[a].fd] = NoSock
  <2>1. closing # NoConn
    BY DEF CloseEnd
  <2>. QED
    BY <1>1, <2>1 DEF TypeOK, OwnInv, ClosingOwn
<1>3. conn[a].fd \in Fds /\ conn[a].sock \in Socks /\ channels[a] = conn[a].ts
  BY <1>1, <1>2 DEF OwnInv, ObjectOwn
<1>4. /\ channels' = [channels EXCEPT ![a] = 0]
      /\ CloseFd(conn[a].fd)
      /\ conn' = [conn EXCEPT ![a] = Dead]
      /\ closing' = NoConn
      /\ UNCHANGED <<funcs, timers, loopPc, ready, batch, exe, acceptPc, accepting, calls, now,
                     fault, executed, replies, completed>>
  BY <1>2, <1>3 DEF CloseEnd, RemoveChannel, queues, loopVars, acceptVars, history
<1>5. UNCHANGED <<sock, fdTable, epoll>>
  <2>1. /\ fdTable' \in [Fds -> Socks \cup {NoSock}]
        /\ sock' \in [Socks -> AllSocks]
        /\ epoll' \in [Socks -> [ev : Masks, conn : Addrs \cup {NoConn}]]
        /\ fdTable'[conn[a].fd] = NoSock
        /\ \A g \in Fds : g # conn[a].fd => fdTable'[g] = fdTable[g]
        /\ \A t \in Socks :
             IF t = fdTable[conn[a].fd]
             THEN sock'[t] = ShutSock(sock[t]) /\ epoll'[t] = [ev |-> "none", conn |-> NoConn]
             ELSE sock'[t] = sock[t] /\ epoll'[t] = epoll[t]
    BY <1>1, <1>3, <1>4, CloseFdEffect
  <2>2. \A t \in Socks : sock'[t] = sock[t] /\ epoll'[t] = epoll[t]
    BY <1>2, <2>1, Constants
  <2>3. /\ fdTable \in [Fds -> Socks \cup {NoSock}]
        /\ sock \in [Socks -> AllSocks]
        /\ epoll \in [Socks -> [ev : Masks, conn : Addrs \cup {NoConn}]]
    BY <1>1 DEF TypeOK, AllSocks
  <2>4. \A g \in Fds : fdTable'[g] = fdTable[g]
    BY <1>2, <2>1
  <2>. QED
    BY <2>1, <2>2, <2>3, <2>4
<1>6. /\ conn' \in [Addrs -> Conns] /\ conn'[a] = Dead
      /\ \A b \in Addrs : b # a => conn'[b] = conn[b] /\ channels'[b] = channels[b]
      /\ channels' \in [Addrs -> Nat] /\ channels'[a] = 0
  BY <1>1, <1>2, <1>4, DeadType DEF TypeOK
<1>7. ~Dead.live
  BY DEF Dead
<1>8. Open' = Open
  BY <1>2, <1>4, <1>6, <1>7, Constants DEF Open
<1>9. \A b \in Open : b \in Addrs /\ b # a /\ conn'[b] = conn[b]
  BY <1>2, <1>6 DEF Open
<1>10. TypeOK'
  BY <1>1, <1>4, <1>5, <1>6 DEF TypeOK
<1>11. OwnInv'
  <2>1. ASSUME NEW b \in Addrs PROVE ObjectOwn(b)'
    BY <1>1, <1>6, <1>7 DEF OwnInv, ObjectOwn
  <2>2. ASSUME NEW b \in Addrs, NEW d \in Addrs PROVE Distinct(b, d)'
    <3>1. Distinct(b, d)
      BY <1>1 DEF OwnInv
    <3>. QED
      BY <1>6, <1>7, <3>1 DEF Distinct
  <2>3. ASSUME NEW b \in Open PROVE OpenOwn(b)'
    BY <1>1, <1>5, <1>9 DEF OwnInv, OpenOwn
  <2>4. ASSUME NEW t \in Socks PROVE EpollOwn(t)'
    <3>1. EpollOwn(t)
      BY <1>1 DEF OwnInv
    <3>. QED
      BY <1>5, <1>8, <1>9, <3>1 DEF EpollOwn
  <2>5. ClosingOwn' /\ now' > 0
    BY <1>1, <1>4 DEF ClosingOwn, OwnInv
  <2>. QED
    BY <1>8, <2>1, <2>2, <2>3, <2>4, <2>5 DEF OwnInv
<1>12. acceptPc = "idle" /\ accepting = NoConn
  BY <1>1, <1>2 DEF PlaceInv
<1>13. PlaceInv'
  BY <1>1, <1>4, <1>12 DEF PlaceInv
<1>14. MaskInv'
  <2>1. \A b : Queued(b)' <=> Queued(b)
    BY <1>4 DEF Queued
  <2>2. ASSUME NEW b \in Open PROVE MaskAt(b)'
    <3>1. MaskAt(b)
      BY <1>1 DEF MaskInv
    <3>. QED
      BY <1>4, <1>9, <2>1, <3>1 DEF MaskAt
  <2>3. ASSUME NEW q, FuncAt(q) PROVE FuncAt(q)'
    BY <1>8, <1>9, <2>3 DEF FuncAt, Valid
  <2>4. ASSUME NEW e \in ready PROVE EventAt(e)'
    <3>1. EventAt(e)
      BY <1>1 DEF MaskInv
    <3>. QED
      BY <1>4, <1>8, <1>9, <2>1, <3>1 DEF EventAt
  <2>. QED
    BY <1>1, <1>4, <1>8, <2>2, <2>3, <2>4 DEF MaskInv
<1>. QED
  BY <1>2, <1>4, <1>5, <1>6, <1>8, <1>10, <1>11, <1>13, <1>14 DEF CoreInv
-----------------------------------------------------------------------------
\* accept and the first part of new_connection_callback.
LEMMA CoreAccept ==
  ASSUME Solo, CoreInv, NEW s \in Socks, NEW a \in Addrs, Accept(s, a)
  PROVE  /\ CoreInv' /\ Open' = Open \cup {a} /\ a \notin Open
         /\ closing = NoConn /\ closing' = NoConn /\ ~conn[a].live
         /\ sock' = [sock EXCEPT ![s].st = "open"] /\ sock[s].st = "backlog"
         /\ \E fd \in Fds : conn' = [conn EXCEPT ![a] = NewConn(s, fd)]
         /\ \A b \in Open : conn'[b] = conn[b] /\ conn[b].sock # s
<1>1. TypeOK /\ OwnInv /\ PlaceInv /\ MaskInv
  BY DEF CoreInv
<1>2. /\ acceptPc = "idle" /\ accepting = NoConn /\ closing = NoConn /\ loopPc = "events"
      /\ sock[s].st = "backlog" /\ ~conn[a].live
      /\ sock' = [sock EXCEPT ![s].st = "open"]
      /\ epoll' = [epoll EXCEPT ![s] = [ev |-> "IN", conn |-> a]]
      /\ channels' = [channels EXCEPT ![a] = now]
      /\ acceptPc' = "arm" /\ accepting' = a /\ ready' \subseteq ready
      /\ UNCHANGED <<funcs, timers, loopPc, batch, exe, closing, calls, now, fault,
                     executed, replies, completed>>
  BY <1>1 DEF Accept, Solo, Backlogged, PlaceInv, queues, history
<1>3. PICK fd \in Fds : /\ fdTable[fd] = NoSock
                        /\ fdTable' = [fdTable EXCEPT ![fd] = s]
                        /\ conn' = [conn EXCEPT ![a] = NewConn(s, fd)]
  BY DEF Accept
<1>4. PICK c : c = NewConn(s, fd)
  OBVIOUS
<1>5. c = [live |-> TRUE, sock |-> s, fd |-> fd, ts |-> now, timerId |-> 0,
           event |-> "IN", sevent |-> "IN", cbs |-> {}, ctx |-> NoCtx,
           rbuf |-> <<>>, wbuf |-> EmptyWbuf]
  BY <1>4 DEF NewConn, Dead
<1>6. c \in Conns
  BY <1>1, <1>5, Constants, DeadType DEF Conns, Masks, TypeOK, AllWbufs
<1>7. /\ conn' \in [Addrs -> Conns] /\ conn'[a] = c
      /\ \A b \in Addrs : b # a => conn'[b] = conn[b]
  BY <1>1, <1>3, <1>4, <1>6 DEF TypeOK
<1>8. /\ sock' \in [Socks -> AllSocks] /\ sock'[s].st = "open"
      /\ \A t \in Socks : t # s => sock'[t] = sock[t]
  <2>1. sock \in [Socks -> AllSocks]
    BY <1>1 DEF TypeOK, AllSocks
  <2>. QED
    BY <1>2, <2>1 DEF AllSocks
<1>9. /\ epoll' \in [Socks -> [ev : Masks, conn : Addrs \cup {NoConn}]]
      /\ epoll'[s] = [ev |-> "IN", conn |-> a]
      /\ \A t \in Socks : t # s => epoll'[t] = epoll[t]
  BY <1>1, <1>2 DEF TypeOK, Masks
<1>10. /\ fdTable' \in [Fds -> Socks \cup {NoSock}] /\ fdTable'[fd] = s
       /\ \A g \in Fds : g # fd => fdTable'[g] = fdTable[g]
  BY <1>1, <1>3 DEF TypeOK
<1>11. /\ channels' \in [Addrs -> Nat] /\ channels'[a] = now
       /\ \A b \in Addrs : b # a => channels'[b] = channels[b]
  BY <1>1, <1>2 DEF TypeOK
<1>12. Open' = Open \cup {a} /\ a \notin Open
  BY <1>2, <1>5, <1>7, Constants DEF Open
<1>13. ASSUME NEW b \in Open
       PROVE  /\ b \in Addrs /\ b # a /\ b # accepting /\ conn'[b] = conn[b] /\ conn[b].live
              /\ conn[b].sock \in Socks /\ conn[b].fd \in Fds
              /\ conn[b].sock # s /\ conn[b].fd # fd
  <2>1. b \in Addrs /\ conn[b].live /\ b # a
    BY <1>2 DEF Open
  <2>2. /\ sock[conn[b].sock].st = "open" /\ fdTable[conn[b].fd] = conn[b].sock
        /\ conn[b].sock \in Socks /\ conn[b].fd \in Fds /\ conn[b].sock # NoSock /\ b # NoConn
    BY OpenFacts
  <2>. QED
    BY <1>2, <1>3, <1>7, <2>1, <2>2
<1>14. TypeOK'
  BY <1>1, <1>2, <1>7, <1>8, <1>9, <1>10, <1>11 DEF TypeOK, AllSocks
<1>15. OwnInv'
  <2>1. ASSUME NEW b \in Addrs PROVE ObjectOwn(b)'
    <3>1. ObjectOwn(b) /\ now > 0
      BY <1>1 DEF OwnInv
    <3>. QED
      BY <1>5, <1>7, <1>11, <3>1 DEF ObjectOwn
  <2>2. \A b \in Addrs : conn[b].live => b \in Open
    BY <1>2, Constants DEF Open
  <2>3. ASSUME NEW b \in Addrs, NEW d \in Addrs PROVE Distinct(b, d)'
    <3>1. Distinct(b, d)
      BY <1>1 DEF OwnInv
    <3>2. b # a /\ conn'[b].live => conn'[b].sock # s
      BY <1>7, <1>13, <2>2
    <3>3. d # a /\ conn'[d].live => conn'[d].sock # s
      BY <1>7, <1>13, <2>2
    <3>4. conn'[a].sock = s
      BY <1>5, <1>7
    <3>. QED
      BY <1>7, <3>1, <3>2, <3>3, <3>4 DEF Distinct
  <2>4. ASSUME NEW b \in Open' PROVE OpenOwn(b)'
    <3>1. CASE b = a
      BY <1>5, <1>7, <1>8, <1>9, <1>10, <3>1 DEF OpenOwn
    <3>2. CASE b # a
      <4>1. b \in Open /\ OpenOwn(b)
        BY <1>1, <1>12, <3>2 DEF OwnInv
      <4>. QED
        BY <1>8, <1>9, <1>10, <1>13, <4>1 DEF OpenOwn
    <3>. QED
      BY <3>1, <3>2
  <2>5. ASSUME NEW t \in Socks PROVE EpollOwn(t)'
    <3>1. EpollOwn(t)
      BY <1>1 DEF OwnInv
    <3>2. CASE t = s
      BY <1>5, <1>7, <1>9, <1>12, <3>2 DEF EpollOwn
    <3>3. CASE t # s
      BY <1>9, <1>12, <1>13, <3>1, <3>3 DEF EpollOwn
    <3>. QED
      BY <3>2, <3>3
  <2>6. ClosingOwn' /\ now' > 0
    BY <1>1, <1>2 DEF ClosingOwn, OwnInv
  <2>. QED
    BY <2>1, <2>3, <2>4, <2>5, <2>6 DEF OwnInv
<1>16. PlaceInv'
  <2>1. conn'[a].live
    BY <1>5, <1>7
  <2>2. a # NoConn
    BY Constants
  <2>. QED
    BY <1>1, <1>2, <2>1, <2>2 DEF PlaceInv
<1>17. MaskInv'
  <2>1. \A b : Queued(b)' <=> Queued(b)
    BY <1>2 DEF Queued
  <2>2. MaskAt(a)'
    BY <1>2, <1>5, <1>7 DEF MaskAt, NoCtx
  <2>3. ASSUME NEW b \in Open PROVE MaskAt(b)'
    <3>1. MaskAt(b)
      BY <1>1 DEF MaskInv
    <3>. QED
      BY <1>2, <1>13, <2>1, <3>1 DEF MaskAt
  <2>4. ASSUME NEW q, FuncAt(q) PROVE FuncAt(q)'
    BY <1>12, <1>13, <2>4 DEF FuncAt, Valid
  <2>5. ASSUME NEW e \in ready PROVE EventAt(e)'
    <3>1. EventAt(e)
      BY <1>1 DEF MaskInv
    <3>. QED
      BY <1>2, <1>12, <1>13, <2>1, <3>1 DEF EventAt
  <2>. QED
    BY <1>1, <1>2, <1>12, <2>2, <2>3, <2>4, <2>5 DEF MaskInv
<1>. QED
  BY <1>2, <1>3, <1>12, <1>13, <1>14, <1>15, <1>16, <1>17 DEF CoreInv

\* The rest of new_connection_callback.  No other connection changes; this one
\* keeps all but its timer and its callbacks.
LEMMA CoreAcceptRest ==
  ASSUME Solo, CoreInv, AcceptRest
  PROVE  /\ CoreInv' /\ Open' = Open /\ closing' = closing
         /\ accepting \in Open
         /\ \/ conn' = [conn EXCEPT ![accepting] = WithTimer(conn[accepting], ReadTimeout)]
            \/ \E k \in AllCallbacks :
                 conn' = [conn EXCEPT ![accepting] = [conn[accepting] EXCEPT !.cbs = @ \cup {k}]]
<1>1. TypeOK /\ OwnInv /\ PlaceInv /\ MaskInv
  BY DEF CoreInv
<1>2. /\ acceptPc # "idle" /\ accepting # NoConn
      /\ UNCHANGED <<sock, fdTable, epoll, channels, funcs, loopPc, ready, batch, exe,
                     closing, calls, now, executed, replies, completed>>
  BY <1>1 DEF AcceptRest, ArmRead, SetCallback, AcceptStep, kernel, loopVars, history, PlaceInv
<1>3. PICK a : a = accepting /\ a \in Addrs /\ a \in Open
  BY <1>1, <1>2 DEF PlaceInv, TypeOK, Open
<1>4. /\ conn[a] \in Conns /\ conn[a].live /\ conn[a].sevent # "none" /\ MaskAt(a)
      /\ conn[a].sock \in Socks /\ conn[a].fd \in Fds /\ conn[a].ts > 0
      /\ epoll[conn[a].sock] = [ev |-> conn[a].sevent, conn |-> a]
  BY <1>1, <1>3, OpenFacts DEF MaskInv
<1>5. conn[a].event = "IN" /\ conn[a].ctx.k \in {"none", "part"}
  BY <1>3, <1>4 DEF MaskAt
<1>6. PICK c : /\ c \in Conns /\ conn' = [conn EXCEPT ![a] = c] /\ fault' = "none"
               /\ c.live /\ c.sock = conn[a].sock /\ c.fd = conn[a].fd /\ c.ts = conn[a].ts
               /\ c.event = conn[a].event /\ c.sevent = conn[a].sevent /\ c.ctx = conn[a].ctx
               /\ \/ c = WithTimer(conn[a], ReadTimeout)
                  \/ \E k \in AllCallbacks : c = [conn[a] EXCEPT !.cbs = @ \cup {k}]
               /\ \/ acceptPc' = "read"
                  \/ acceptPc = "read" /\ acceptPc' = "close" /\ c.cbs = conn[a].cbs \cup {"read"}
                  \/ acceptPc = "close" /\ acceptPc' = "write" /\ c.cbs = conn[a].cbs \cup {"close"}
                  \/ acceptPc = "write" /\ acceptPc' = "idle" /\ c.cbs = conn[a].cbs \cup {"write"}
               /\ accepting' = IF acceptPc' = "idle" THEN NoConn ELSE a
               /\ \A tm \in timers' : tm \in TimerRecs /\ (tm \in timers \/ tm.cts > 0)
  <2>1. CASE ArmRead
    <3>1. PICK c : c = WithTimer(conn[a], ReadTimeout)
      OBVIOUS
    <3>2. c \in Conns /\ c.live /\ c.sock = conn[a].sock /\ c.fd = conn[a].fd /\ c.ts = conn[a].ts
               /\ c.event = conn[a].event /\ c.sevent = conn[a].sevent /\ c.ctx = conn[a].ctx
      BY <1>4, <3>1, WithTimerFacts
    <3>3. /\ conn' = [conn EXCEPT ![a] = c] /\ fault' = "none" /\ acceptPc' = "read"
          /\ accepting' = a
      BY <1>3, <1>4, <2>1, <3>1 DEF ArmRead, AcceptStep
    <3>4. \A tm \in ReadTimers(a, conn[a]) : tm \in TimerRecs /\ tm.cts > 0
      BY <1>1, <1>3, <1>4, NewTimersFacts
    <3>5. timers' = timers \cup ReadTimers(a, conn[a])
      BY <1>3, <2>1 DEF ArmRead, ReadTimers
    <3>6. \A tm \in timers' : tm \in TimerRecs /\ (tm \in timers \/ tm.cts > 0)
      BY <1>1, <3>4, <3>5 DEF TypeOK
    <3>. QED
      BY <3>1, <3>2, <3>3, <3>6
  <2>2. ASSUME NEW from \in AllCallbacks, NEW to \in {"close", "write", "idle"},
               SetCallback(from, to)
        PROVE  \E c : /\ c = [conn[a] EXCEPT !.cbs = @ \cup {from}]
                      /\ c \in Conns /\ conn' = [conn EXCEPT ![a] = c] /\ fault' = "none"
                      /\ c.live /\ c.sock = conn[a].sock /\ c.fd = conn[a].fd /\ c.ts = conn[a].ts
                      /\ c.event = conn[a].event /\ c.sevent = conn[a].sevent
                      /\ c.ctx = conn[a].ctx
                      /\ acceptPc = from /\ acceptPc' = to /\ c.cbs = conn[a].cbs \cup {from}
                      /\ accepting' = IF acceptPc' = "idle" THEN NoConn ELSE a
                      /\ \A tm \in timers' : tm \in TimerRecs /\ tm \in timers
    <3>1. PICK c : c = [conn[a] EXCEPT !.cbs = @ \cup {from}]
      OBVIOUS
    <3>2. c \in Conns /\ c.live /\ c.sock = conn[a].sock /\ c.fd = conn[a].fd /\ c.ts = conn[a].ts
               /\ c.event = conn[a].event /\ c.sevent = conn[a].sevent /\ c.ctx = conn[a].ctx
               /\ c.cbs = conn[a].cbs \cup {from}
      BY <1>4, <3>1 DEF Conns, AllCallbacks
    <3>3. /\ conn' = [conn EXCEPT ![a] = c] /\ fault' = "none" /\ acceptPc = from /\ acceptPc' = to
          /\ accepting' = (IF acceptPc' = "idle" THEN NoConn ELSE a) /\ timers' = timers
      BY <1>3, <1>4, <2>2, <3>1 DEF SetCallback, AcceptStep
    <3>. QED
      BY <1>1, <3>1, <3>2, <3>3 DEF TypeOK
  <2>3. CASE SetCallback("read", "close")
    BY <2>2, <2>3 DEF AllCallbacks
  <2>4. CASE SetCallback("close", "write")
    BY <2>2, <2>4 DEF AllCallbacks
  <2>5. CASE SetCallback("write", "idle")
    BY <2>2, <2>5 DEF AllCallbacks
  <2>. QED
    BY <2>1, <2>3, <2>4, <2>5 DEF AcceptRest
<1>7. Changed(a, c)
  BY <1>4, <1>6 DEF Changed
<1>8. /\ conn' \in [Addrs -> Conns] /\ conn'[a] = c
      /\ \A b \in Addrs : b # a => conn'[b] = conn[b]
      /\ Open' = Open
  BY <1>2, <1>3, <1>7, ChangedFacts
<1>9. OwnInv'
  <2>1. epoll'[c.sock] = [ev |-> c.sevent, conn |-> a]
    BY <1>2, <1>4, <1>6
  <2>. QED
    BY <1>2, <1>3, <1>7, <2>1, OwnChange
<1>10. TypeOK'
  <2>1. /\ acceptPc' \in {"idle", "arm", "read", "close", "write"}
        /\ accepting' \in Addrs \cup {NoConn} /\ fault' = "none"
    BY <1>3, <1>6
  <2>2. timers' \subseteq TimerRecs
    BY <1>6
  <2>. QED
    BY <1>1, <1>2, <1>8, <2>1, <2>2 DEF TypeOK
<1>11. PlaceInv'
  <2>1. \A tm \in timers' : tm.cts > 0
    BY <1>1, <1>6 DEF PlaceInv
  <2>2. a # NoConn
    BY <1>2, <1>3
  <2>3. acceptPc' \in {"close", "write"} => "read" \in c.cbs
    BY <1>1, <1>3, <1>6 DEF PlaceInv
  <2>4. acceptPc' = "write" => "close" \in c.cbs
    BY <1>6
  <2>. QED
    BY <1>1, <1>2, <1>3, <1>6, <1>8, <2>1, <2>2, <2>3, <2>4 DEF PlaceInv
<1>12. MaskInv'
  <2>1. \A b : Queued(b)' <=> Queued(b)
    BY <1>2 DEF Queued
  <2>2. a # NoConn
    BY <1>2, <1>3
  <2>3. MaskAt(a)'
    <3>1. acceptPc' = "idle" => c.cbs = AllCallbacks
      <4>1. conn[a].cbs \in SUBSET {"read", "close", "write"}
        BY <1>4 DEF Conns
      <4>2. acceptPc' = "idle" => /\ c.cbs = conn[a].cbs \cup {"write"}
                                  /\ "read" \in conn[a].cbs /\ "close" \in conn[a].cbs
        BY <1>1, <1>3, <1>6 DEF PlaceInv
      <4>. QED
        BY <4>1, <4>2 DEF AllCallbacks
    <3>. QED
      BY <1>4, <1>5, <1>6, <1>8, <2>1, <2>2, <3>1 DEF MaskAt
  <2>4. ASSUME NEW b \in Open, b # a
        PROVE  (Queued(b)' <=> Queued(b)) /\ (accepting' = b <=> accepting = b)
    <3>1. b # NoConn
      BY Constants DEF Open
    <3>. QED
      BY <1>3, <1>6, <2>1, <2>4, <3>1
  <2>5. \A e \in ready' : e \in ready /\ e.conn # a
    <3>1. \A e \in ready : EventAt(e)
      BY <1>1 DEF MaskInv
    <3>2. a # Acceptor
      BY <1>3, Constants
    <3>. QED
      BY <1>2, <1>3, <3>1, <3>2 DEF EventAt
  <2>6. (\A i \in DOMAIN funcs' : FuncAt(funcs'[i])) /\ (\A i \in DOMAIN batch' : FuncAt(batch'[i]))
    BY <1>1, <1>2 DEF MaskInv
  <2>. QED
    BY <1>2, <1>3, <1>7, <2>3, <2>4, <2>5, <2>6, MaskChange
<1>. QED
  BY <1>2, <1>3, <1>6, <1>8, <1>9, <1>10, <1>11, <1>12 DEF CoreInv
-----------------------------------------------------------------------------
\* update_channel on behalf of a response: the mask of an open connection
\* reaches the interest list.
LEMMA CtlOpen ==
  ASSUME CoreInv, NEW a \in Open, NEW c, c.fd = conn[a].fd, c.sock = conn[a].sock,
         c.sevent = conn[a].sevent, c.event \in {"IN", "OUT"}
  PROVE  /\ CtlFault(c) = "none"
         /\ Registered(a, c) \in [Socks -> [ev : Masks, conn : Addrs \cup {NoConn}]]
         /\ Registered(a, c)[c.sock] = [ev |-> c.event, conn |-> a]
         /\ \A t \in Socks : t # c.sock => Registered(a, c)[t] = epoll[t]
<1>1. /\ a \in Addrs /\ conn[a].sock \in Socks /\ conn[a].sock # NoSock
      /\ fdTable[conn[a].fd] = conn[a].sock
      /\ epoll[conn[a].sock] = [ev |-> conn[a].sevent, conn |-> a]
      /\ conn[a].sevent # "none"
  BY OpenFacts
<1>2. SockOf(c) = c.sock /\ c.sock \in Socks /\ c.sock # NoSock
  BY <1>1 DEF SockOf
<1>3. epoll[c.sock] = [ev |-> c.sevent, conn |-> a] /\ epoll[c.sock].ev # "none"
  BY <1>1
<1>4. CtlFault(c) = "none"
  BY <1>1, <1>2, <1>3 DEF CtlFault
<1>5. epoll \in [Socks -> [ev : Masks, conn : Addrs \cup {NoConn}]]
  BY DEF CoreInv, TypeOK
<1>6. PICK r : r = [ev |-> c.event, conn |-> a] /\ r \in [ev : Masks, conn : Addrs \cup {NoConn}]
  <2>1. c.event \in Masks
    BY DEF Masks
  <2>2. [ev |-> c.event, conn |-> a] \in [ev : Masks, conn : Addrs \cup {NoConn}]
    BY <1>1, <2>1
  <2>. QED
    BY <2>2
<1>7. Registered(a, c) = [t \in Socks |-> IF t = c.sock /\ c.sevent # c.event THEN r ELSE epoll[t]]
  BY <1>2, <1>6 DEF Registered
<1>8. Registered(a, c)[c.sock] = [ev |-> c.event, conn |-> a]
  <2>1. CASE c.sevent # c.event
    BY <1>2, <1>6, <1>7, <2>1
  <2>2. CASE c.sevent = c.event
    BY <1>2, <1>3, <1>7, <2>2
  <2>. QED
    BY <2>1, <2>2
<1>. QED
  BY <1>4, <1>5, <1>6, <1>7, <1>8

LEMMA CoreRunFunc ==
  ASSUME Solo, CoreInv, RunFunc
  PROVE  /\ CoreInv' /\ Open' = Open /\ closing' = closing
         /\ UNCHANGED <<sock, timers, exe, executed, replies, completed>>
         /\ \E a \in Open : conn' = [conn EXCEPT ![a] = [conn[a] EXCEPT !.sevent = conn[a].event]]
<1>1. TypeOK /\ OwnInv /\ PlaceInv /\ MaskInv
  BY DEF CoreInv
<1>2. batch # <<>> /\ batch \in Seq(AllFuncs) /\ batch' = Tail(batch) /\ loopPc = "funcs"
  BY <1>1 DEF RunFunc, TypeOK, AllFuncs
<1>3. 1 \in DOMAIN batch /\ Head(batch) = batch[1]
  BY <1>2
<1>4. FuncAt(Head(batch))
  BY <1>1, <1>3 DEF MaskInv
<1>5. PICK a : a = Head(batch).conn /\ a \in Open /\ Valid(a, Head(batch).sock)
  BY <1>4 DEF FuncAt
<1>6. PICK c : c = [conn[a] EXCEPT !.sevent = conn[a].event]
  OBVIOUS
<1>7. /\ fault' = CtlFault(conn[a])
      /\ epoll' = Registered(a, conn[a])
      /\ conn' = [conn EXCEPT ![a] = c]
      /\ UNCHANGED <<sock, fdTable, channels, funcs, timers, closing, acceptPc, accepting, calls,
                     executed, replies, completed, loopPc, ready, exe, now>>
  BY <1>5, <1>6 DEF RunFunc, Fail, acceptVars, history
<1>8. /\ a \in Addrs /\ conn[a] \in Conns /\ conn[a].live /\ conn[a].sock \in Socks
      /\ MaskAt(a)
  BY <1>1, <1>5, OpenFacts DEF MaskInv
<1>9. /\ c \in Conns /\ c.live /\ c.sock = conn[a].sock /\ c.fd = conn[a].fd /\ c.ts = conn[a].ts
      /\ c.event = conn[a].event /\ c.sevent = conn[a].event /\ c.ctx = conn[a].ctx
      /\ c.cbs = conn[a].cbs
  BY <1>6, <1>8 DEF Conns
<1>10. conn[a].event \in {"IN", "OUT"}
  BY <1>8 DEF MaskAt
<1>11. Changed(a, c)
  BY <1>7, <1>9, <1>10 DEF Changed
<1>12. /\ fault' = "none"
       /\ epoll' \in [Socks -> [ev : Masks, conn : Addrs \cup {NoConn}]]
       /\ epoll'[conn[a].sock] = [ev |-> conn[a].event, conn |-> a]
       /\ \A t \in Socks : t # conn[a].sock => epoll'[t] = epoll[t]
  BY <1>5, <1>7, <1>10, CtlOpen
<1>13. /\ conn' \in [Addrs -> Conns] /\ conn'[a] = c
       /\ Open' = Open
       /\ \A b \in Addrs : conn'[b].live = conn[b].live
  BY <1>5, <1>7, <1>11, ChangedFacts
<1>14. OwnInv'
  <2>1. epoll'[c.sock] = [ev |-> c.sevent, conn |-> a]
    BY <1>9, <1>12
  <2>2. \A t \in Socks : t # c.sock => epoll'[t] = epoll[t]
    BY <1>9, <1>12
  <2>3. \A t \in Socks : sock'[t].st = sock[t].st
    BY <1>7
  <2>. QED
    BY <1>5, <1>7, <1>11, <2>1, <2>2, <2>3, OwnChange
<1>15. TypeOK'
  <2>1. batch' \in Seq([conn : Addrs, sock : Socks])
    BY <1>2 DEF AllFuncs
  <2>. QED
    BY <1>1, <1>7, <1>12, <1>13, <2>1 DEF TypeOK
<1>16. acceptPc = "idle" /\ accepting = NoConn /\ ready = {}
  BY <1>1, <1>2 DEF PlaceInv
<1>17. PlaceInv'
  BY <1>1, <1>2, <1>7, <1>12, <1>16 DEF PlaceInv
<1>18. MaskInv'
  <2>1. Len(batch) \in Nat \ {0} /\ DOMAIN batch = 1..Len(batch)
    BY <1>2
  <2>2. DOMAIN batch' = 1..(Len(batch) - 1) /\ \A i \in DOMAIN batch' : batch'[i] = batch[i + 1]
    BY <1>2, <2>1
  <2>3. \A i \in DOMAIN batch' : i + 1 \in DOMAIN batch
    BY <2>1, <2>2
  <2>4. ASSUME NEW b \in Open, b # a PROVE Queued(b)' <=> Queued(b)
    <3>1. ASSUME NEW i \in DOMAIN batch, batch[i].conn = b PROVE \E j \in DOMAIN batch' : batch'[j].conn = b
      <4>1. i # 1
        BY <1>3, <1>5, <2>4, <3>1
      <4>2. i - 1 \in DOMAIN batch' /\ batch'[i - 1] = batch[i]
        BY <2>1, <2>2, <4>1
      <4>. QED
        BY <3>1, <4>2
    <3>2. ASSUME NEW i \in DOMAIN batch', batch'[i].conn = b PROVE \E j \in DOMAIN batch : batch[j].conn = b
      BY <2>2, <2>3, <3>2
    <3>. QED
      BY <1>7, <3>1, <3>2 DEF Queued
  <2>5. MaskAt(a)'
    <3>1. a # NoConn
      BY <1>8, Constants
    <3>. QED
      BY <1>7, <1>8, <1>9, <1>13, <1>16, <3>1 DEF MaskAt
  <2>6. \A i \in DOMAIN funcs' : FuncAt(funcs'[i])
    BY <1>1, <1>7 DEF MaskInv
  <2>7. \A i \in DOMAIN batch' : FuncAt(batch'[i])
    BY <1>1, <2>2, <2>3 DEF MaskInv
  <2>8. \A b \in Open : b # a => (Queued(b)' <=> Queued(b)) /\ (accepting' = b <=> accepting = b)
    BY <1>7, <2>4
  <2>9. \A e \in ready' : e \in ready /\ e.conn # a
    BY <1>7, <1>16
  <2>. QED
    BY <1>5, <1>7, <1>11, <2>5, <2>6, <2>7, <2>8, <2>9, MaskChange
<1>. QED
  BY <1>5, <1>6, <1>7, <1>13, <1>14, <1>15, <1>17, <1>18 DEF CoreInv

\* timeout_callback: a timer that is current closes a connection nothing else
\* waits for.
LEMMA CoreRunTimer ==
  ASSUME Solo, CoreInv, NEW tm \in exe, RunTimer(tm)
  PROVE  /\ CoreInv'
         /\ IF TimerIsCurrent(tm)
            THEN tm.conn \in Open /\ CloseBegin(tm.conn) /\ Open' = Open \ {tm.conn}
            ELSE UNCHANGED <<sock, conn, closing>> /\ Open' = Open
<1>1. TypeOK /\ OwnInv /\ PlaceInv /\ MaskInv
  BY DEF CoreInv
<1>2. /\ loopPc = "timers" /\ closing = NoConn /\ acceptPc = "idle" /\ exe' \subseteq exe
      /\ UNCHANGED <<channels, funcs, timers, loopPc, ready, batch, acceptPc, accepting, calls, now,
                     executed, replies, completed>>
  BY DEF RunTimer, ReactorFree, Solo, queues, acceptVars, history
<1>3. ready = {} /\ funcs = <<>> /\ batch = <<>>
  BY <1>1, <1>2 DEF PlaceInv
<1>4. CASE TimerIsCurrent(tm)
  <2>1. tm.conn \in Addrs /\ tm.cts > 0
    BY <1>1 DEF TypeOK, TimerRecs, PlaceInv
  <2>2. channels[tm.conn] > 0
    BY <1>4, <2>1 DEF TimerIsCurrent
  <2>3. conn[tm.conn].live
    BY <1>1, <2>1, <2>2 DEF OwnInv, ObjectOwn
  <2>4. PICK a : a = tm.conn /\ a \in Open
    BY <1>2, <2>1, <2>3, Constants DEF Open
  <2>5. CloseBegin(a)
    BY <1>4, <2>4 DEF RunTimer
  <2>6. ~Queued(a)
    BY <1>3 DEF Queued
  <2>7. /\ executed' \in [Socks -> Seq(Nat)] /\ completed' \in [Socks -> Nat]
        /\ replies' \in [Socks -> Seq([n : Nat, payload : Nat])]
    BY <1>1, <1>2 DEF TypeOK
  <2>8. CoreInv' /\ Open' = Open \ {a}
    BY <1>2, <1>3, <2>4, <2>5, <2>6, <2>7, CoreClose
  <2>. QED
    BY <1>4, <2>4, <2>5, <2>8
<1>5. CASE ~TimerIsCurrent(tm)
  <2>1. UNCHANGED <<sock, fdTable, epoll, conn, closing, fault>>
    BY <1>5 DEF RunTimer, kernel
  <2>2. TypeOK'
    BY <1>1, <1>2, <2>1 DEF TypeOK
  <2>3. OwnInv'
    BY <1>1, <1>2, <2>1 DEF OwnInv, ObjectOwn, Distinct, OpenOwn, ClosingOwn, EpollOwn, Open
  <2>4. PlaceInv'
    BY <1>1, <1>2, <2>1 DEF PlaceInv
  <2>5. MaskInv'
    BY <1>1, <1>2, <2>1 DEF MaskInv, MaskAt, FuncAt, EventAt, Open, Valid, Queued
  <2>6. Open' = Open
    BY <2>1 DEF Open
  <2>. QED
    BY <1>5, <2>1, <2>2, <2>3, <2>4, <2>5, <2>6 DEF CoreInv
<1>. QED
  BY <1>4, <1>5
-----------------------------------------------------------------------------
\* An event is for an open connection that has nothing else to come.
LEMMA EventFacts ==
  ASSUME Solo, CoreInv, NEW a \in Addrs, NEW ev \in {"IN", "OUT"}, TakeEvent(a, ev)
  PROVE  /\ a \in Open /\ ~Queued(a) /\ closing = NoConn
         /\ acceptPc = "idle" /\ accepting = NoConn /\ loopPc = "events"
         /\ batch = <<>> /\ exe = {}
         /\ conn[a] \in Conns /\ conn[a].cbs = AllCallbacks
         /\ conn[a].event = ev /\ conn[a].sevent = ev
         /\ IF ev = "IN" THEN conn[a].ctx.k \in {"none", "part"}
                         ELSE conn[a].ctx.k \in {"short", "keep"}
         /\ SockOf(conn[a]) = conn[a].sock
         /\ \A e \in ready' : e \in ready /\ e.conn # a
         /\ UNCHANGED <<loopPc, batch, exe, acceptPc, accepting, now>>
<1>1. TypeOK /\ PlaceInv /\ MaskInv
  BY DEF CoreInv
<1>2. /\ closing = NoConn /\ acceptPc = "idle" /\ loopPc = "events"
      /\ ready' = ready \ {[conn |-> a, ev |-> ev]}
      /\ [conn |-> a, ev |-> ev] \in ready
      /\ UNCHANGED <<loopPc, batch, exe, acceptPc, accepting, now>>
  BY DEF TakeEvent, ReactorFree, Solo, acceptVars
<1>3. accepting = NoConn /\ batch = <<>> /\ exe = {}
  BY <1>1, <1>2 DEF PlaceInv
<1>4. EventAt([conn |-> a, ev |-> ev])
  BY <1>1, <1>2 DEF MaskInv
<1>5. a # Acceptor /\ a # NoConn
  BY Constants
<1>6. a \in Open /\ conn[a].event = ev /\ conn[a].sevent = ev /\ ~Queued(a)
  BY <1>4, <1>5 DEF EventAt
<1>7. MaskAt(a) /\ conn[a] \in Conns /\ fdTable[conn[a].fd] = conn[a].sock
  BY <1>1, <1>6, OpenFacts DEF MaskInv
<1>8. conn[a].cbs = AllCallbacks
  BY <1>3, <1>5, <1>7 DEF MaskAt
<1>9. IF ev = "IN" THEN conn[a].ctx.k \in {"none", "part"} ELSE conn[a].ctx.k \in {"short", "keep"}
  BY <1>6, <1>7 DEF MaskAt
<1>10. SockOf(conn[a]) = conn[a].sock
  BY <1>7 DEF SockOf
<1>11. ASSUME NEW e \in ready' PROVE e \in ready /\ e.conn # a
  <2>1. e \in ready /\ EventAt(e) /\ e \in AllEvents
    BY <1>1, <1>2 DEF MaskInv, TypeOK, AllEvents
  <2>2. e.conn = a => e.ev = ev
    BY <1>5, <1>6, <2>1 DEF EventAt
  <2>3. e.conn = a => e = [conn |-> a, ev |-> ev]
    BY <2>1, <2>2 DEF AllEvents
  <2>. QED
    BY <1>2, <2>1, <2>3
<1>. QED
  BY <1>2, <1>3, <1>6, <1>7, <1>8, <1>9, <1>10, <1>11

\* A connection an event is for is closed.
LEMMA CoreEventClose ==
  ASSUME Solo, CoreInv, NEW a \in Addrs, NEW ev \in {"IN", "OUT"}, TakeEvent(a, ev),
         CloseBegin(a), UNCHANGED <<channels, funcs, timers, calls>>,
         executed' \in [Socks -> Seq(Nat)], completed' \in [Socks -> Nat],
         replies' \in [Socks -> Seq([n : Nat, payload : Nat])]
  PROVE  CoreInv' /\ Open' = Open \ {a}
<1>1. /\ a \in Open /\ ~Queued(a) /\ closing = NoConn /\ acceptPc = "idle"
      /\ \A e \in ready' : e \in ready /\ e.conn # a
      /\ exe' \subseteq exe
      /\ UNCHANGED <<loopPc, batch, acceptPc, accepting, now>>
  BY EventFacts
<1>. QED
  BY <1>1, CoreClose

\* A connection an event is for goes on, and waits for what it did before.
LEMMA CoreEventStay ==
  ASSUME Solo, CoreInv, NEW a \in Addrs, NEW ev \in {"IN", "OUT"}, TakeEvent(a, ev),
         NEW c, Changed(a, c), c.sevent = ev, c.event = ev, c.cbs = AllCallbacks,
         IF ev = "IN" THEN c.ctx.k \in {"none", "part"} ELSE c.ctx.k \in {"short", "keep"},
         sock' \in [Socks -> AllSocks], \A t \in Socks : sock'[t].st = sock[t].st,
         UNCHANGED <<fdTable, epoll, channels, funcs, timers, closing, calls, fault>>,
         executed' \in [Socks -> Seq(Nat)], completed' \in [Socks -> Nat],
         replies' \in [Socks -> Seq([n : Nat, payload : Nat])]
  PROVE  CoreInv' /\ Open' = Open
<1>1. TypeOK /\ OwnInv /\ PlaceInv /\ MaskInv
  BY DEF CoreInv
<1>2. /\ a \in Open /\ ~Queued(a) /\ closing = NoConn /\ acceptPc = "idle" /\ accepting = NoConn
      /\ loopPc = "events"
      /\ conn[a].event = ev /\ conn[a].sevent = ev
      /\ \A e \in ready' : e \in ready /\ e.conn # a
      /\ UNCHANGED <<loopPc, batch, exe, acceptPc, accepting, now>>
  BY EventFacts
<1>3. /\ conn' \in [Addrs -> Conns] /\ conn'[a] = c /\ Open' = Open
  BY <1>2, ChangedFacts
<1>4. OwnInv'
  <2>1. epoll'[c.sock] = [ev |-> c.sevent, conn |-> a]
    BY <1>2, OpenFacts DEF Changed
  <2>. QED
    BY <1>2, <2>1, OwnChange
<1>5. TypeOK'
  <2>1. ready' \subseteq ready
    BY <1>2
  <2>. QED
    BY <1>1, <1>2, <1>3, <2>1 DEF TypeOK, AllSocks
<1>6. PlaceInv'
  BY <1>1, <1>2 DEF PlaceInv
<1>7. MaskInv'
  <2>1. \A b : Queued(b)' <=> Queued(b)
    BY <1>2 DEF Queued
  <2>2. MaskAt(a)'
    BY <1>2, <1>3, Constants DEF MaskAt
  <2>3. (\A i \in DOMAIN funcs' : FuncAt(funcs'[i])) /\ (\A i \in DOMAIN batch' : FuncAt(batch'[i]))
    BY <1>1, <1>2 DEF MaskInv
  <2>4. \A b \in Open : b # a => (Queued(b)' <=> Queued(b)) /\ (accepting' = b <=> accepting = b)
    BY <1>2, <2>1
  <2>. QED
    BY <1>2, <2>2, <2>3, <2>4, MaskChange
<1>. QED
  BY <1>3, <1>4, <1>5, <1>6, <1>7 DEF CoreInv

\* handle_events(EPOLLIN), at the end of the stream.
LEMMA CoreHandleEof ==
  ASSUME Solo, CoreInv, NEW a \in Addrs, HandleEof(a)
  PROVE  CoreInv' /\ a \in Open /\ Open' = Open \ {a} /\ CloseBegin(a)
<1>1. TakeEvent(a, "IN") /\ UNCHANGED <<channels, funcs, timers, calls, executed, replies, completed>>
  BY DEF HandleEof, queues, history
<1>2. a \in Open /\ conn[a].cbs = AllCallbacks
  BY <1>1, EventFacts
<1>3. CloseBegin(a)
  BY <1>2 DEF HandleEof, AllCallbacks
<1>4. /\ executed' \in [Socks -> Seq(Nat)] /\ completed' \in [Socks -> Nat]
      /\ replies' \in [Socks -> Seq([n : Nat, payload : Nat])]
  BY <1>1 DEF CoreInv, TypeOK
<1>. QED
  BY <1>1, <1>2, <1>3, <1>4, CoreEventClose
-----------------------------------------------------------------------------
\* A connection with another context and another read buffer.
WithRead(c, x, q) == [c EXCEPT !.ctx = x, !.rbuf = q]

\* What parse_request leaves: a context and the rest of the buffer.
LEMMA ParseFacts ==
  ASSUME NEW c \in Conns, c.ctx.k \in {"none", "part"}
  PROVE  \E x \in Chunks \cup {NoCtx}, q \in Seq(Chunks) :
           /\ Parse(c) = WithRead(c, x, q)
           /\ \/ q = <<>> /\ x.k \in {"none", "part"} /\ FirstEnd(c.rbuf) = {}
              \/ \E i \in FirstEnd(c.rbuf) :
                   x = c.rbuf[i] /\ q = SubSeq(c.rbuf, i + 1, Len(c.rbuf))
<1>1. c.ctx \in Chunks \cup {NoCtx} /\ c.rbuf \in Seq(Chunks)
  BY DEF Conns
<1>2. CASE c.rbuf = <<>>
  <2>1. Parse(c) = c
    BY <1>2 DEF Parse
  <2>2. WithRead(c, c.ctx, c.rbuf) = c
    BY DEF WithRead, Conns
  <2>3. FirstEnd(c.rbuf) = {}
    BY <1>2 DEF FirstEnd
  <2>. QED
    BY <1>1, <1>2, <2>1, <2>2, <2>3
<1>3. CASE c.rbuf # <<>> /\ FirstEnd(c.rbuf) = {}
  <2>1. 1 \in DOMAIN c.rbuf /\ c.rbuf[1] \in Chunks
    BY <1>1, <1>3
  <2>2. c.rbuf[1].k = "part"
    BY <1>3, <2>1 DEF FirstEnd
  <2>3. "part" \in Kinds
    BY <2>1, <2>2 DEF Chunks
  <2>4. [k |-> "part", n |-> 0] \in Chunks
    BY <2>3 DEF Chunks
  <2>5. <<>> \in Seq(Chunks)
    OBVIOUS
  <2>6. Parse(c) = WithRead(c, [k |-> "part", n |-> 0], <<>>)
    BY <1>3 DEF Parse, WithRead
  <2>7. [k |-> "part", n |-> 0].k = "part"
    OBVIOUS
  <2>. QED
    BY <1>3, <2>4, <2>5, <2>6, <2>7
<1>4. CASE c.rbuf # <<>> /\ FirstEnd(c.rbuf) # {}
  <2>1. PICK i : i = CHOOSE j \in FirstEnd(c.rbuf) : TRUE
    OBVIOUS
  <2>2. i \in FirstEnd(c.rbuf)
    BY <1>4, <2>1
  <2>3. i \in DOMAIN c.rbuf
    BY <2>2 DEF FirstEnd
  <2>4. c.rbuf[i] \in Chunks
    BY <1>1, <2>3
  <2>5. SubSeq(c.rbuf, i + 1, Len(c.rbuf)) \in Seq(Chunks)
    BY <1>1, <2>3
  <2>6. Parse(c) = WithRead(c, c.rbuf[i], SubSeq(c.rbuf, i + 1, Len(c.rbuf)))
    BY <1>4, <2>1 DEF Parse, WithRead
  <2>. QED
    BY <2>2, <2>4, <2>5, <2>6
<1>. QED
  BY <1>2, <1>3, <1>4

\* The connection after read_fd took k chunks of its socket.
ReadConn(a, k) == [conn[a] EXCEPT !.rbuf = @ \o SubSeq(sock[conn[a].sock].in, 1, k)]

\* The socket after that.
Took(a, k) ==
  sock' = [sock EXCEPT ![conn[a].sock] =
             [sock[conn[a].sock] EXCEPT
                !.in = SubSeq(sock[conn[a].sock].in, k + 1, Len(sock[conn[a].sock].in))]]

LEMMA TookFacts ==
  ASSUME CoreInv, NEW a \in Open, NEW k \in DOMAIN sock[conn[a].sock].in
  PROVE  LET s == conn[a].sock
         IN  /\ s \in Socks /\ sock[s].in \in Seq(Chunks)
             /\ SubSeq(sock[s].in, 1, k) \in Seq(Chunks)
             /\ SubSeq(sock[s].in, k + 1, Len(sock[s].in)) \in Seq(Chunks)
             /\ ReadConn(a, k) \in Conns
             /\ ReadConn(a, k) =
                  WithRead(conn[a], conn[a].ctx, conn[a].rbuf \o SubSeq(sock[s].in, 1, k))
             /\ Took(a, k) =>
                  /\ sock' \in [Socks -> AllSocks]
                  /\ sock'[s].in = SubSeq(sock[s].in, k + 1, Len(sock[s].in))
                  /\ sock'[s].reqs = sock[s].reqs
                  /\ \A t \in Socks : sock'[t].st = sock[t].st
                  /\ \A t \in Socks : t # s => sock'[t] = sock[t]
<1>1. PICK s : s = conn[a].sock /\ s \in Socks /\ a \in Addrs /\ conn[a] \in Conns
  BY OpenFacts
<1>2. sock \in [Socks -> AllSocks]
  BY DEF CoreInv, TypeOK, AllSocks
<1>3. sock[s] \in AllSocks
  BY <1>1, <1>2
<1>4. sock[s].in \in Seq(Chunks) /\ conn[a].rbuf \in Seq(Chunks) /\ conn[a].ctx \in Chunks \cup {NoCtx}
  BY <1>1, <1>3 DEF AllSocks, Conns
<1>5. k \in 1..Len(sock[s].in) /\ Len(sock[s].in) \in Nat
  BY <1>1, <1>4
<1>6. SubSeq(sock[s].in, 1, k) \in Seq(Chunks)
  BY <1>4, <1>5
<1>7. PICK q \in Seq(Chunks) : q = SubSeq(sock[s].in, k + 1, Len(sock[s].in))
  <2>1. SubSeq(sock[s].in, k + 1, Len(sock[s].in)) \in Seq(Chunks)
    BY <1>4, <1>5
  <2>. QED
    BY <2>1
<1>8. conn[a].rbuf \o SubSeq(sock[s].in, 1, k) \in Seq(Chunks)
  BY <1>4, <1>6
<1>9. ReadConn(a, k) = WithRead(conn[a], conn[a].ctx, conn[a].rbuf \o SubSeq(sock[s].in, 1, k))
  BY <1>1 DEF ReadConn, WithRead, Conns
<1>10. ReadConn(a, k) \in Conns
  <2>1. PICK r \in Seq(Chunks) : r = conn[a].rbuf \o SubSeq(sock[s].in, 1, k)
    BY <1>8
  <2>2. ReadConn(a, k) = WithRead(conn[a], conn[a].ctx, r)
    BY <1>9, <2>1
  <2>3. WithRead(conn[a], conn[a].ctx, r) \in Conns
    BY <1>1, <1>4 DEF WithRead, Conns
  <2>. QED
    BY <2>2, <2>3
<1>11. ASSUME Took(a, k)
       PROVE  /\ sock' \in [Socks -> AllSocks] /\ sock'[s].in = q /\ sock'[s].reqs = sock[s].reqs
              /\ \A t \in Socks : sock'[t].st = sock[t].st
              /\ \A t \in Socks : t # s => sock'[t] = sock[t]
  <2>1. sock' = [sock EXCEPT ![s] = [sock[s] EXCEPT !.in = q]]
    BY <1>1, <1>7, <1>11 DEF Took
  <2>2. [sock[s] EXCEPT !.in = q] \in AllSocks
    BY <1>3, <1>7 DEF AllSocks
  <2>3. /\ [sock[s] EXCEPT !.in = q].in = q /\ [sock[s] EXCEPT !.in = q].st = sock[s].st
        /\ [sock[s] EXCEPT !.in = q].reqs = sock[s].reqs
    BY <1>3 DEF AllSocks
  <2>. QED
    BY <1>1, <1>2, <2>1, <2>2, <2>3
<1>. QED
  BY <1>1, <1>4, <1>6, <1>7, <1>9, <1>10, <1>11
\* What data_read_callback does: waits for more, closes, or calls a service
\* and queues its answer.
ReadOn(a, k) ==
  /\ Parse(ReadConn(a, k)).ctx.k \in {"none", "part"}
  /\ Took(a, k)
  /\ conn' = [conn EXCEPT ![a] = Parse(ReadConn(a, k))]
  /\ UNCHANGED <<fdTable, epoll, funcs, timers, closing, calls, fault, executed>>

Refused(a) == CloseBegin(a) /\ UNCHANGED <<funcs, timers, calls, executed>>

Called(a, k) ==
  LET p == Parse(ReadConn(a, k))
  IN  /\ p.ctx.k \notin {"none", "part", "bad", "nosvc"}
      /\ Took(a, k)
      /\ executed' = [executed EXCEPT ![p.sock] = Append(@, p.ctx.n)]
      /\ conn' = [conn EXCEPT ![a] = WithTimer(Pack(p, p.ctx.n), WriteTimeout)]
      /\ funcs' = Append(funcs, [conn |-> a, sock |-> p.sock])
      /\ timers' = timers \cup WriteTimers(a, p)
      /\ UNCHANGED <<fdTable, epoll, closing, calls, fault>>

LEMMA ReadSteps ==
  ASSUME Solo, CoreInv, NEW a \in Addrs, NEW k, HandleRead(a, k)
  PROVE  /\ TakeEvent(a, "IN") /\ k \in DOMAIN sock[conn[a].sock].in
         /\ ReadOn(a, k) \/ Refused(a) \/ Called(a, k)
         /\ UNCHANGED <<channels, replies, completed>>
<1>1. TakeEvent(a, "IN") /\ UNCHANGED <<channels, replies, completed>>
  BY DEF HandleRead
<1>2. /\ a \in Open /\ conn[a].cbs = AllCallbacks /\ SockOf(conn[a]) = conn[a].sock
      /\ conn[a] \in Conns /\ conn[a].ctx.k \in {"none", "part"}
  BY <1>1, EventFacts
<1>3. k \in DOMAIN sock[conn[a].sock].in
  BY <1>2 DEF HandleRead
<1>4. PICK c : c = ReadConn(a, k)
  OBVIOUS
<1>5. c.cbs = AllCallbacks
  BY <1>2, <1>4 DEF ReadConn, Conns
<1>6. c = [conn[a] EXCEPT !.rbuf = @ \o SubSeq(sock[SockOf(conn[a])].in, 1, k)]
  BY <1>2, <1>4 DEF ReadConn
<1>7. Took(a, k) <=> sock' = [sock EXCEPT ![SockOf(conn[a])].in = SubSeq(@, k + 1, Len(@))]
  BY <1>2 DEF Took
<1>8. PICK p : p = Parse(c)
  OBVIOUS
<1>9. \/ /\ p.ctx.k \in {"none", "part"}
         /\ Took(a, k)
         /\ conn' = [conn EXCEPT ![a] = p]
         /\ UNCHANGED <<fdTable, epoll, queues, closing, calls, fault, executed>>
      \/ CloseBegin(a) /\ UNCHANGED <<queues, calls, executed>>
      \/ /\ p.ctx.k \notin {"none", "part", "bad"}
         /\ FindServiceMethod(p.ctx)
         /\ Took(a, k)
         /\ CallMethod(a, p)
         /\ UNCHANGED <<fdTable, epoll, closing, fault>>
  <2>1. "read" \in c.cbs /\ "close" \in c.cbs
    BY <1>5 DEF AllCallbacks
  <2>. QED
    BY <1>6, <1>7, <1>8, <2>1 DEF HandleRead
<1>10. ReadOn(a, k) \/ Refused(a) \/ Called(a, k)
  BY <1>4, <1>8, <1>9 DEF ReadOn, Refused, Called, CallMethod, FindServiceMethod, Solo, queues,
                          WriteTimers
<1>. QED
  BY <1>1, <1>3, <1>10

\* What is parsed.
LEMMA ParsedFacts ==
  ASSUME CoreInv, NEW a \in Open, conn[a].ctx.k \in {"none", "part"},
         NEW k \in DOMAIN sock[conn[a].sock].in, NEW p, p = Parse(ReadConn(a, k))
  PROVE  /\ p \in Conns /\ p.live /\ p.sock = conn[a].sock /\ p.fd = conn[a].fd
         /\ p.ts = conn[a].ts /\ p.timerId = conn[a].timerId /\ p.event = conn[a].event
         /\ p.sevent = conn[a].sevent /\ p.cbs = conn[a].cbs /\ p.wbuf = conn[a].wbuf
         /\ p.ctx \in Chunks \cup {NoCtx}
         /\ p.rbuf \in Seq(Chunks)
<1>1. conn[a] \in Conns /\ conn[a].live
  BY OpenFacts
<1>2. PICK c, q : /\ c = ReadConn(a, k) /\ c \in Conns
                  /\ c = WithRead(conn[a], conn[a].ctx, q) /\ q \in Seq(Chunks)
  <2>1. /\ ReadConn(a, k) \in Conns
        /\ ReadConn(a, k) = WithRead(conn[a], conn[a].ctx,
                              conn[a].rbuf \o SubSeq(sock[conn[a].sock].in, 1, k))
        /\ SubSeq(sock[conn[a].sock].in, 1, k) \in Seq(Chunks)
    BY TookFacts
  <2>2. conn[a].rbuf \o SubSeq(sock[conn[a].sock].in, 1, k) \in Seq(Chunks)
    BY <1>1, <2>1 DEF Conns
  <2>. QED
    BY <2>1, <2>2
<1>3. /\ c.live = conn[a].live /\ c.sock = conn[a].sock /\ c.fd = conn[a].fd /\ c.ts = conn[a].ts
      /\ c.timerId = conn[a].timerId /\ c.event = conn[a].event /\ c.sevent = conn[a].sevent
      /\ c.cbs = conn[a].cbs /\ c.wbuf = conn[a].wbuf /\ c.ctx = conn[a].ctx
  BY <1>1, <1>2 DEF WithRead, Conns
<1>4. PICK x \in Chunks \cup {NoCtx}, r \in Seq(Chunks) : p = WithRead(c, x, r)
  BY <1>2, <1>3, ParseFacts
<1>5. /\ p \in Conns
      /\ p.live = c.live /\ p.sock = c.sock /\ p.fd = c.fd /\ p.ts = c.ts
      /\ p.timerId = c.timerId /\ p.event = c.event /\ p.sevent = c.sevent
      /\ p.cbs = c.cbs /\ p.wbuf = c.wbuf /\ p.ctx = x /\ p.rbuf = r
  BY <1>2, <1>4 DEF WithRead, Conns
<1>. QED
  BY <1>1, <1>3, <1>4, <1>5
\* The answer of response_callback, before add_func.
LEMMA PackFacts ==
  ASSUME NEW c \in Conns, NEW n, n \in Nat, NEW d, NEW r, r = WithTimer(Pack(c, n), d)
  PROVE  /\ r \in Conns /\ r.live = c.live /\ r.sock = c.sock /\ r.fd = c.fd /\ r.ts = c.ts
         /\ r.event = "OUT" /\ r.sevent = c.sevent /\ r.cbs = c.cbs /\ r.ctx = c.ctx
         /\ r.wbuf.hdr = Append(c.wbuf.hdr, n) /\ r.wbuf.extra = n
         /\ r.wbuf.sent = c.wbuf.sent /\ r.rbuf = c.rbuf
         /\ d = 0 => r.timerId = c.timerId
         /\ d # 0 => r.timerId = c.timerId + 1
<1>1. c.wbuf \in AllWbufs
  BY DEF Conns, AllWbufs
<1>2. PICK q \in Seq(Nat) : q = Append(c.wbuf.hdr, n)
  <2>1. Append(c.wbuf.hdr, n) \in Seq(Nat)
    BY <1>1 DEF AllWbufs
  <2>. QED
    BY <2>1
<1>3. PICK w \in AllWbufs : w = [hdr |-> q, extra |-> n, sent |-> c.wbuf.sent]
  <2>1. c.wbuf.sent \in BOOLEAN
    BY <1>1 DEF AllWbufs
  <2>2. [hdr |-> q, extra |-> n, sent |-> c.wbuf.sent] \in AllWbufs
    BY <1>2, <2>1 DEF AllWbufs
  <2>. QED
    BY <2>2
<1>4. PICK p : p = Pack(c, n)
  OBVIOUS
<1>5. p = [c EXCEPT !.wbuf = w, !.event = "OUT"]
  BY <1>2, <1>3, <1>4 DEF Pack
<1>6. /\ p \in Conns /\ p.live = c.live /\ p.sock = c.sock /\ p.fd = c.fd /\ p.ts = c.ts
      /\ p.event = "OUT" /\ p.sevent = c.sevent /\ p.cbs = c.cbs /\ p.ctx = c.ctx
      /\ p.wbuf = w /\ p.timerId = c.timerId /\ p.rbuf = c.rbuf
  BY <1>3, <1>5 DEF Conns, AllWbufs, Masks
<1>7. r = WithTimer(p, d)
  BY <1>4
<1>8. /\ r \in Conns /\ r.live = p.live /\ r.sock = p.sock /\ r.fd = p.fd /\ r.ts = p.ts
      /\ r.event = p.event /\ r.sevent = p.sevent /\ r.cbs = p.cbs /\ r.ctx = p.ctx
      /\ r.wbuf = p.wbuf /\ r.rbuf = p.rbuf
      /\ r.timerId = IF d = 0 THEN p.timerId ELSE p.timerId + 1
  BY <1>6, <1>7, WithTimerFacts
<1>. QED
  BY <1>2, <1>3, <1>4, <1>6, <1>7, <1>8

\* data_read_callback.
LEMMA CoreHandleRead ==
  ASSUME Solo, CoreInv, NEW a \in Addrs, NEW k, HandleRead(a, k)
  PROVE  /\ CoreInv' /\ a \in Open
         /\ IF closing' = closing THEN Open' = Open ELSE Open' = Open \ {a}
<1>1. TypeOK /\ OwnInv /\ PlaceInv /\ MaskInv
  BY DEF CoreInv
<1>2. /\ TakeEvent(a, "IN") /\ k \in DOMAIN sock[conn[a].sock].in
      /\ ReadOn(a, k) \/ Refused(a) \/ Called(a, k)
      /\ UNCHANGED <<channels, replies, completed>>
  BY ReadSteps
<1>3. /\ a \in Open /\ ~Queued(a) /\ closing = NoConn /\ acceptPc = "idle" /\ accepting = NoConn
      /\ loopPc = "events" /\ batch = <<>>
      /\ conn[a].event = "IN" /\ conn[a].sevent = "IN" /\ conn[a].cbs = AllCallbacks
      /\ conn[a].ctx.k \in {"none", "part"}
      /\ \A e \in ready' : e \in ready /\ e.conn # a
      /\ UNCHANGED <<loopPc, batch, exe, acceptPc, accepting, now>>
  BY <1>2, EventFacts
<1>4. /\ a # NoConn /\ conn[a].sock \in Socks
      /\ epoll[conn[a].sock] = [ev |-> conn[a].sevent, conn |-> a] /\ conn[a].ts > 0
  BY <1>3, OpenFacts
<1>5. PICK p : p = Parse(ReadConn(a, k))
  OBVIOUS
<1>6. /\ p \in Conns /\ p.live /\ p.sock = conn[a].sock /\ p.fd = conn[a].fd
      /\ p.ts = conn[a].ts /\ p.timerId = conn[a].timerId /\ p.event = conn[a].event
      /\ p.sevent = conn[a].sevent /\ p.cbs = conn[a].cbs /\ p.wbuf = conn[a].wbuf
      /\ p.ctx \in Chunks \cup {NoCtx}
  BY <1>2, <1>3, <1>5, ParsedFacts
<1>7. /\ replies' \in [Socks -> Seq([n : Nat, payload : Nat])] /\ completed' \in [Socks -> Nat]
  BY <1>1, <1>2 DEF TypeOK
<1>8. Took(a, k) => /\ sock' \in [Socks -> AllSocks]
                    /\ \A t \in Socks : sock'[t].st = sock[t].st
  BY <1>2, <1>3, TookFacts
<1>9. CASE ReadOn(a, k)
  <2>1. /\ p.ctx.k \in {"none", "part"} /\ Took(a, k) /\ conn' = [conn EXCEPT ![a] = p]
        /\ UNCHANGED <<fdTable, epoll, funcs, timers, closing, calls, fault, executed>>
    BY <1>5, <1>9 DEF ReadOn
  <2>2. Changed(a, p)
    BY <1>3, <1>6, <2>1 DEF Changed
  <2>3. executed' \in [Socks -> Seq(Nat)]
    BY <1>1, <2>1 DEF TypeOK
  <2>4. p.sevent = "IN" /\ p.event = "IN" /\ p.cbs = AllCallbacks
    BY <1>3, <1>6
  <2>5. CoreInv' /\ Open' = Open
    BY <1>2, <1>7, <1>8, <2>1, <2>2, <2>3, <2>4, CoreEventStay
  <2>. QED
    BY <1>3, <2>1, <2>5
<1>10. CASE Refused(a)
  <2>1. CloseBegin(a) /\ UNCHANGED <<funcs, timers, calls, executed>>
    BY <1>10 DEF Refused
  <2>2. executed' \in [Socks -> Seq(Nat)]
    BY <1>1, <2>1 DEF TypeOK
  <2>3. CoreInv' /\ Open' = Open \ {a}
    BY <1>2, <1>7, <2>1, <2>2, CoreEventClose
  <2>4. closing' = a
    BY <2>1 DEF CloseBegin
  <2>. QED
    BY <1>3, <1>4, <2>3, <2>4
<1>11. CASE Called(a, k)
  <2>1. /\ p.ctx.k \notin {"none", "part", "bad", "nosvc"} /\ Took(a, k)
        /\ executed' = [executed EXCEPT ![p.sock] = Append(executed[p.sock], p.ctx.n)]
        /\ conn' = [conn EXCEPT ![a] = WithTimer(Pack(p, p.ctx.n), WriteTimeout)]
        /\ funcs' = Append(funcs, [conn |-> a, sock |-> p.sock])
        /\ timers' = timers \cup WriteTimers(a, p)
        /\ UNCHANGED <<fdTable, epoll, closing, calls, fault>>
    BY <1>5, <1>11 DEF Called
  <2>2. p.ctx \in Chunks /\ p.ctx.n \in Nat /\ p.ctx.k \in {"short", "keep"}
    <3>1. p.ctx # NoCtx
      BY <2>1 DEF NoCtx
    <3>2. p.ctx \in Chunks
      BY <1>6, <3>1
    <3>3. p.ctx.n \in Nat /\ p.ctx.k \in Kinds
      BY <3>2 DEF Chunks
    <3>. QED
      BY <2>1, <3>2, <3>3, Constants
  <2>3. PICK c : c = WithTimer(Pack(p, p.ctx.n), WriteTimeout)
    OBVIOUS
  <2>4. /\ c \in Conns /\ c.live = p.live /\ c.sock = p.sock /\ c.fd = p.fd /\ c.ts = p.ts
        /\ c.event = "OUT" /\ c.sevent = p.sevent /\ c.cbs = p.cbs /\ c.ctx = p.ctx
    <3>1. PICK n \in Nat : n = p.ctx.n
      BY <2>2
    <3>2. c = WithTimer(Pack(p, n), WriteTimeout)
      BY <2>3, <3>1
    <3>3. p \in Conns
      BY <1>6
    <3>. QED
      BY <3>2, <3>3, PackFacts
  <2>5. Changed(a, c)
    BY <1>3, <1>6, <2>1, <2>3, <2>4 DEF Changed
  <2>6. /\ conn' \in [Addrs -> Conns] /\ conn'[a] = c /\ Open' = Open
    BY <1>3, <2>1, <2>5, ChangedFacts
  <2>7. OwnInv'
    <3>1. epoll'[c.sock] = [ev |-> c.sevent, conn |-> a]
      BY <1>4, <1>6, <2>1, <2>4
    <3>. QED
      BY <1>2, <1>3, <1>8, <2>1, <2>5, <3>1, OwnChange
  <2>8. \A tm \in timers' : tm \in TimerRecs /\ (tm \in timers \/ tm.cts > 0)
    <3>1. \A tm \in WriteTimers(a, p) : tm \in TimerRecs /\ tm.cts > 0
      BY <1>1, <1>4, <1>6, NewTimersFacts
    <3>. QED
      BY <1>1, <2>1, <3>1 DEF TypeOK
  <2>9. funcs \in Seq(AllFuncs) /\ [conn |-> a, sock |-> p.sock] \in AllFuncs
    BY <1>1, <1>4, <1>6 DEF TypeOK, AllFuncs
  <2>10. /\ funcs' \in Seq(AllFuncs) /\ DOMAIN funcs' = 1..(Len(funcs) + 1) /\ Len(funcs) \in Nat
         /\ \A i \in DOMAIN funcs' :
              IF i = Len(funcs) + 1 THEN funcs'[i] = [conn |-> a, sock |-> p.sock]
              ELSE i \in DOMAIN funcs /\ funcs'[i] = funcs[i]
         /\ \A i \in DOMAIN funcs : i \in DOMAIN funcs' /\ i # Len(funcs) + 1
    BY <2>1, <2>9
  <2>11. executed' \in [Socks -> Seq(Nat)]
    <3>1. executed \in [Socks -> Seq(Nat)] /\ p.sock \in Socks
      BY <1>1, <1>4, <1>6 DEF TypeOK
    <3>2. Append(executed[p.sock], p.ctx.n) \in Seq(Nat)
      BY <2>2, <3>1
    <3>. QED
      BY <2>1, <3>1, <3>2
  <2>12. TypeOK'
    <3>1. ready' \subseteq ready
      BY <1>3
    <3>2. timers' \subseteq TimerRecs
      BY <2>8
    <3>. QED
      BY <1>1, <1>2, <1>3, <1>7, <1>8, <2>1, <2>6, <2>10, <2>11, <3>1, <3>2 DEF TypeOK, AllSocks, AllFuncs
  <2>13. PlaceInv'
    <3>1. \A tm \in timers' \cup exe' : tm.cts > 0
      BY <1>1, <1>3, <2>8 DEF PlaceInv
    <3>. QED
      BY <1>1, <1>3, <2>1, <3>1 DEF PlaceInv
  <2>14. MaskInv'
    <3>1. \E i \in DOMAIN funcs' : funcs'[i].conn = a
      <4>1. Len(funcs) + 1 \in DOMAIN funcs'
        BY <2>10
      <4>. QED
        BY <2>10, <4>1
    <3>2. MaskAt(a)'
      <4>1. Queued(a)'
        BY <3>1 DEF Queued
      <4>. QED
        BY <1>3, <1>4, <1>6, <2>2, <2>4, <2>6, <4>1 DEF MaskAt
    <3>3. ASSUME NEW b \in Open, b # a PROVE Queued(b)' <=> Queued(b)
      <4>1. ASSUME NEW i \in DOMAIN funcs', funcs'[i].conn = b
            PROVE  \E j \in DOMAIN funcs : funcs[j].conn = b
        BY <2>10, <3>3, <4>1
      <4>2. ASSUME NEW i \in DOMAIN funcs, funcs[i].conn = b
            PROVE  \E j \in DOMAIN funcs' : funcs'[j].conn = b
        BY <2>10, <4>2
      <4>. QED
        BY <1>3, <4>1, <4>2 DEF Queued
    <3>4. ASSUME NEW i \in DOMAIN funcs' PROVE FuncAt(funcs'[i])
      <4>1. FuncAt([conn |-> a, sock |-> p.sock])
        BY <1>3, <1>6 DEF FuncAt, Valid, Open
      <4>. QED
        BY <1>1, <2>10, <4>1 DEF MaskInv
    <3>5. \A i \in DOMAIN batch' : FuncAt(batch'[i])
      BY <1>1, <1>3 DEF MaskInv
    <3>6. \A b \in Open : b # a => (Queued(b)' <=> Queued(b)) /\ (accepting' = b <=> accepting = b)
      BY <1>3, <3>3
    <3>. QED
      BY <1>3, <2>1, <2>5, <3>2, <3>4, <3>5, <3>6, MaskChange
  <2>. QED
    BY <1>3, <2>1, <2>6, <2>7, <2>12, <2>13, <2>14 DEF CoreInv
<1>. QED
  BY <1>2, <1>9, <1>10, <1>11
-----------------------------------------------------------------------------
\* write_fd on a buffer, and what the client gets of it.
LEMMA WriteFdFacts ==
  ASSUME NEW w \in AllWbufs, NEW out \in {"none", "hdr", "cut", "all"}
  PROVE  /\ WriteFd(w, out) \in AllWbufs
         /\ WriteFd(w, out).extra = w.extra
         /\ Received(w, out) \in Seq([n : Nat, payload : Nat])
<1>0. PICK e \in Seq(Nat) : e = <<>>
  <2>1. <<>> \in Seq(Nat)
    OBVIOUS
  <2>. QED
    BY <2>1
<1>1. WriteFd(w, out) \in AllWbufs /\ WriteFd(w, out).extra = w.extra
  <2>1. CASE out = "none"
    <3>1. WriteFd(w, out) = w
      BY <2>1 DEF WriteFd
    <3>. QED
      BY <3>1
  <2>2. CASE out = "hdr"
    <3>1. WriteFd(w, out) = [w EXCEPT !.hdr = e]
      BY <1>0, <2>2 DEF WriteFd
    <3>. QED
      BY <3>1 DEF AllWbufs
  <2>3. CASE out = "all"
    <3>1. WriteFd(w, out) = [w EXCEPT !.hdr = e, !.sent = TRUE]
      BY <1>0, <2>3 DEF WriteFd
    <3>. QED
      BY <3>1 DEF AllWbufs
  <2>4. CASE out = "cut"
    <3>1. WriteFd(w, out) = [w EXCEPT !.sent = TRUE]
      BY <2>4 DEF WriteFd
    <3>. QED
      BY <3>1 DEF AllWbufs
  <2>. QED
    BY <2>1, <2>2, <2>3, <2>4
<1>2. Received(w, out) \in Seq([n : Nat, payload : Nat])
  <2>1. CASE out \in {"none", "cut"}
    <3>1. Received(w, out) = <<>>
      BY <2>1 DEF Received
    <3>. QED
      BY <3>1
  <2>2. CASE out \notin {"none", "cut"}
    <3>1. w.hdr \in Seq(Nat) /\ w.extra \in Nat /\ Len(w.hdr) \in Nat /\ DOMAIN w.hdr = 1..Len(w.hdr)
      BY DEF AllWbufs
    <3>2. Received(w, out) =
            [i \in 1..Len(w.hdr) |->
               [n |-> w.hdr[i],
                payload |-> IF out = "all" /\ i = Len(w.hdr) /\ ~w.sent THEN w.extra ELSE 0]]
      BY <2>2, <3>1 DEF Received
    <3>3. \A i \in 1..Len(w.hdr) :
            [n |-> w.hdr[i],
             payload |-> IF out = "all" /\ i = Len(w.hdr) /\ ~w.sent THEN w.extra ELSE 0]
               \in [n : Nat, payload : Nat]
      BY <3>1
    <3>4. Received(w, out) \in [1..Len(w.hdr) -> [n : Nat, payload : Nat]]
      BY <3>2, <3>3
    <3>5. ASSUME NEW S, NEW m \in Nat, NEW f \in [1..m -> S] PROVE f \in Seq(S)
      <4>1. f \in UNION {[1..j -> S] : j \in Nat}
        OBVIOUS
      <4>. QED
        BY <4>1, SeqDef, Zenon
    <3>. QED
      BY <3>1, <3>4, <3>5
  <2>. QED
    BY <2>1, <2>2
<1>. QED
  BY <1>1, <1>2

\* The connection after write_fd, and the one that write_complete_callback
\* makes of it.
Written(a, out) == [conn[a] EXCEPT !.wbuf = WriteFd(@, out)]
NextWait(c) == [Cleared(c) EXCEPT !.event = "IN"]
Rearmed(c) == [NextWait(c) EXCEPT !.sevent = "IN"]

LEMMA WrittenFacts ==
  ASSUME NEW a, conn[a] \in Conns, NEW out \in {"none", "hdr", "cut", "all"}, NEW c, c = Written(a, out)
  PROVE  /\ c \in Conns /\ c.live = conn[a].live /\ c.sock = conn[a].sock /\ c.fd = conn[a].fd
         /\ c.ts = conn[a].ts /\ c.timerId = conn[a].timerId /\ c.event = conn[a].event
         /\ c.sevent = conn[a].sevent /\ c.cbs = conn[a].cbs /\ c.ctx = conn[a].ctx
         /\ c.rbuf = conn[a].rbuf /\ c.wbuf = WriteFd(conn[a].wbuf, out)
<1>1. conn[a].wbuf \in AllWbufs
  BY DEF Conns, AllWbufs
<1>2. PICK w \in AllWbufs : w = WriteFd(conn[a].wbuf, out)
  BY <1>1, WriteFdFacts
<1>3. c = [conn[a] EXCEPT !.wbuf = w]
  BY <1>2 DEF Written
<1>. QED
  BY <1>2, <1>3 DEF Conns, AllWbufs

LEMMA NextWaitFacts ==
  ASSUME NEW c \in Conns, NEW d, d = NextWait(c), NEW e, e = Rearmed(c)
  PROVE  /\ d \in Conns /\ d.live = c.live /\ d.sock = c.sock /\ d.fd = c.fd /\ d.ts = c.ts
         /\ d.timerId = c.timerId /\ d.event = "IN" /\ d.sevent = c.sevent
         /\ d.cbs = c.cbs /\ d.ctx = NoCtx /\ d.rbuf = <<>>
         /\ d.wbuf.hdr = <<>> /\ d.wbuf.extra = c.wbuf.extra /\ ~d.wbuf.sent
         /\ e = [d EXCEPT !.sevent = "IN"]
         /\ e \in Conns /\ e.live = d.live /\ e.sock = d.sock /\ e.fd = d.fd /\ e.ts = d.ts
         /\ e.timerId = d.timerId /\ e.event = d.event /\ e.sevent = "IN"
         /\ e.cbs = d.cbs /\ e.ctx = d.ctx /\ e.rbuf = d.rbuf /\ e.wbuf = d.wbuf
<1>1. c.wbuf \in AllWbufs
  BY DEF Conns, AllWbufs
<1>2. PICK q \in Seq(Nat), r \in Seq(Chunks) : q = <<>> /\ r = <<>>
  <2>1. <<>> \in Seq(Nat) /\ <<>> \in Seq(Chunks)
    OBVIOUS
  <2>. QED
    BY <2>1
<1>3. PICK w : w = [c.wbuf EXCEPT !.hdr = q, !.sent = FALSE]
  OBVIOUS
<1>4. w \in AllWbufs /\ w.hdr = q /\ ~w.sent /\ w.extra = c.wbuf.extra
  BY <1>1, <1>2, <1>3 DEF AllWbufs
<1>5. d = [c EXCEPT !.ctx = NoCtx, !.rbuf = r, !.wbuf = w, !.event = "IN"]
  BY <1>1, <1>2, <1>3 DEF NextWait, Cleared, Conns, AllWbufs
<1>6. /\ d \in Conns /\ d.live = c.live /\ d.sock = c.sock /\ d.fd = c.fd /\ d.ts = c.ts
      /\ d.timerId = c.timerId /\ d.event = "IN" /\ d.sevent = c.sevent
      /\ d.cbs = c.cbs /\ d.ctx = NoCtx /\ d.rbuf = r /\ d.wbuf = w
  BY <1>4, <1>5 DEF Conns, AllWbufs, Masks
<1>7. e = [d EXCEPT !.sevent = "IN"]
  BY DEF Rearmed
<1>8. /\ e \in Conns /\ e.live = d.live /\ e.sock = d.sock /\ e.fd = d.fd /\ e.ts = d.ts
      /\ e.timerId = d.timerId /\ e.event = d.event /\ e.sevent = "IN"
      /\ e.cbs = d.cbs /\ e.ctx = d.ctx /\ e.rbuf = d.rbuf /\ e.wbuf = d.wbuf
  BY <1>6, <1>7 DEF Conns, Masks
<1>. QED
  BY <1>2, <1>4, <1>6, <1>7, <1>8
\* handle_events(EPOLLOUT): some is left to write, or write_complete_callback
\* closes, or waits for the next request.
WriteOn(a, out) ==
  /\ ~WriteDone(Written(a, out).wbuf)
  /\ conn' = [conn EXCEPT ![a] = Written(a, out)]
  /\ UNCHANGED <<sock, fdTable, epoll, timers, closing, fault, completed>>

Answered(a, out) ==
  /\ WriteDone(Written(a, out).wbuf)
  /\ conn[a].ctx.k = "short"
  /\ CloseBegin(a)
  /\ completed' = [completed EXCEPT ![conn[a].sock] = @ + 1]
  /\ UNCHANGED timers

Kept(a, out) ==
  LET c == Written(a, out)
  IN  /\ WriteDone(c.wbuf)
      /\ conn[a].ctx.k = "keep"
      /\ completed' = [completed EXCEPT ![conn[a].sock] = @ + 1]
      /\ fault' = CtlFault(NextWait(c))
      /\ epoll' = Registered(a, NextWait(c))
      /\ conn' = [conn EXCEPT ![a] = WithTimer(Rearmed(c), ReadTimeout)]
      /\ timers' = timers \cup ReadTimers(a, NextWait(c))
      /\ UNCHANGED <<sock, fdTable, closing>>

LEMMA WriteSteps ==
  ASSUME Solo, CoreInv, NEW a \in Addrs, NEW out \in {"none", "hdr", "cut", "all"}, HandleOut(a, out)
  PROVE  /\ TakeEvent(a, "OUT") /\ out \in Outcomes(conn[a].sock)
         /\ WriteOn(a, out) \/ Answered(a, out) \/ Kept(a, out)
         /\ replies' = [replies EXCEPT ![conn[a].sock] = @ \o Received(conn[a].wbuf, out)]
         /\ UNCHANGED <<channels, funcs, calls, executed>>
<1>1. TakeEvent(a, "OUT") /\ UNCHANGED <<channels, funcs, calls, executed>>
  BY DEF HandleOut
<1>2. /\ a \in Open /\ conn[a].cbs = AllCallbacks /\ SockOf(conn[a]) = conn[a].sock
      /\ conn[a] \in Conns /\ conn[a].ctx.k \in {"short", "keep"}
  BY <1>1, EventFacts
<1>3. /\ out \in Outcomes(conn[a].sock)
      /\ replies' = [replies EXCEPT ![conn[a].sock] = @ \o Received(conn[a].wbuf, out)]
  BY <1>2 DEF HandleOut
<1>4. PICK c : c = Written(a, out)
  OBVIOUS
<1>5. c.cbs = AllCallbacks /\ c.sock = conn[a].sock /\ c.ctx = conn[a].ctx
  BY <1>2, <1>4, WrittenFacts
<1>6. IF WriteDone(c.wbuf)
      THEN WriteComplete(a, c)
      ELSE /\ conn' = [conn EXCEPT ![a] = c]
           /\ UNCHANGED <<kernel, timers, closing, fault, completed>>
  BY <1>4, <1>5 DEF HandleOut, Written, AllCallbacks
<1>7. CASE ~WriteDone(c.wbuf)
  BY <1>1, <1>3, <1>4, <1>6, <1>7 DEF WriteOn, kernel
<1>8. CASE WriteDone(c.wbuf)
  <2>1. c.ctx # NoCtx /\ c.ctx.k # "part"
    BY <1>2, <1>5 DEF NoCtx
  <2>2. /\ completed' = [completed EXCEPT ![c.sock] = @ + 1]
        /\ \/ c.ctx.k = "short" /\ CloseBegin(a) /\ UNCHANGED timers
           \/ /\ c.ctx.k = "keep"
              /\ fault' = CtlFault(NextWait(c))
              /\ epoll' = Registered(a, NextWait(c))
              /\ conn' = [conn EXCEPT ![a] = WithTimer(Rearmed(c), ReadTimeout)]
              /\ timers' = timers \cup ReadTimers(a, NextWait(c))
              /\ UNCHANGED <<sock, fdTable, closing>>
    BY <1>6, <1>8, <2>1 DEF WriteComplete, NextWait, Rearmed, ReadTimers
  <2>. QED
    BY <1>1, <1>3, <1>4, <1>5, <1>8, <2>2 DEF Answered, Kept
<1>. QED
  BY <1>7, <1>8

LEMMA CoreHandleOut ==
  ASSUME Solo, CoreInv, NEW a \in Addrs, NEW out \in {"none", "hdr", "cut", "all"}, HandleOut(a, out)
  PROVE  /\ CoreInv' /\ a \in Open
         /\ IF closing' = closing THEN Open' = Open ELSE Open' = Open \ {a}
<1>1. TypeOK /\ OwnInv /\ PlaceInv /\ MaskInv
  BY DEF CoreInv
<1>2. /\ TakeEvent(a, "OUT")
      /\ WriteOn(a, out) \/ Answered(a, out) \/ Kept(a, out)
      /\ replies' = [replies EXCEPT ![conn[a].sock] =
                       replies[conn[a].sock] \o Received(conn[a].wbuf, out)]
      /\ UNCHANGED <<channels, funcs, calls, executed>>
  BY WriteSteps
<1>3. /\ a \in Open /\ ~Queued(a) /\ closing = NoConn /\ acceptPc = "idle" /\ accepting = NoConn
      /\ loopPc = "events" /\ batch = <<>> /\ conn[a] \in Conns
      /\ conn[a].event = "OUT" /\ conn[a].sevent = "OUT" /\ conn[a].cbs = AllCallbacks
      /\ conn[a].ctx.k \in {"short", "keep"}
      /\ \A e \in ready' : e \in ready /\ e.conn # a
      /\ UNCHANGED <<loopPc, batch, exe, acceptPc, accepting, now>>
  BY <1>2, EventFacts
<1>4. a # NoConn /\ conn[a].sock \in Socks /\ conn[a].ts > 0 /\ conn[a].live
  BY <1>3, OpenFacts
<1>5. PICK c : c = Written(a, out)
  OBVIOUS
<1>6. /\ c \in Conns /\ c.live = conn[a].live /\ c.sock = conn[a].sock /\ c.fd = conn[a].fd
      /\ c.ts = conn[a].ts /\ c.timerId = conn[a].timerId /\ c.event = conn[a].event
      /\ c.sevent = conn[a].sevent /\ c.cbs = conn[a].cbs /\ c.ctx = conn[a].ctx
  BY <1>3, <1>5, WrittenFacts
<1>7. /\ executed' \in [Socks -> Seq(Nat)]
      /\ replies' \in [Socks -> Seq([n : Nat, payload : Nat])]
  <2>1. Received(conn[a].wbuf, out) \in Seq([n : Nat, payload : Nat])
    BY <1>3, WriteFdFacts DEF Conns, AllWbufs
  <2>2. replies \in [Socks -> Seq([n : Nat, payload : Nat])]
    BY <1>1 DEF TypeOK
  <2>3. replies[conn[a].sock] \o Received(conn[a].wbuf, out) \in Seq([n : Nat, payload : Nat])
    BY <1>4, <2>1, <2>2
  <2>. QED
    BY <1>1, <1>2, <1>4, <2>2, <2>3 DEF TypeOK
<1>8. ASSUME completed' = [completed EXCEPT ![conn[a].sock] = completed[conn[a].sock] + 1]
      PROVE  completed' \in [Socks -> Nat]
  BY <1>1, <1>4, <1>8 DEF TypeOK
<1>9. CASE WriteOn(a, out)
  <2>1. /\ conn' = [conn EXCEPT ![a] = c]
        /\ UNCHANGED <<sock, fdTable, epoll, timers, closing, fault, completed>>
    BY <1>5, <1>9 DEF WriteOn
  <2>2. Changed(a, c)
    BY <1>3, <1>4, <1>6, <2>1 DEF Changed
  <2>3. completed' \in [Socks -> Nat] /\ sock' \in [Socks -> AllSocks]
        /\ \A t \in Socks : sock'[t].st = sock[t].st
    BY <1>1, <2>1 DEF TypeOK, AllSocks
  <2>4. c.sevent = "OUT" /\ c.event = "OUT" /\ c.cbs = AllCallbacks /\ c.ctx.k \in {"short", "keep"}
    BY <1>3, <1>6
  <2>5. CoreInv' /\ Open' = Open
    BY <1>2, <1>7, <2>1, <2>2, <2>3, <2>4, CoreEventStay
  <2>. QED
    BY <1>3, <2>1, <2>5
<1>10. CASE Answered(a, out)
  <2>1. /\ CloseBegin(a) /\ UNCHANGED timers
        /\ completed' = [completed EXCEPT ![conn[a].sock] = completed[conn[a].sock] + 1]
    BY <1>10 DEF Answered
  <2>2. completed' \in [Socks -> Nat]
    BY <1>8, <2>1
  <2>3. CoreInv' /\ Open' = Open \ {a}
    BY <1>2, <1>7, <2>1, <2>2, CoreEventClose
  <2>4. closing' = a
    BY <2>1 DEF CloseBegin
  <2>. QED
    BY <1>3, <1>4, <2>3, <2>4
<1>11. CASE Kept(a, out)
  <2>1. PICK d, e : d = NextWait(c) /\ e = Rearmed(c)
    OBVIOUS
  <2>2. PICK f : f = WithTimer(e, ReadTimeout)
    OBVIOUS
  <2>3. /\ completed' = [completed EXCEPT ![conn[a].sock] = completed[conn[a].sock] + 1]
        /\ fault' = CtlFault(d) /\ epoll' = Registered(a, d)
        /\ conn' = [conn EXCEPT ![a] = f]
        /\ timers' = timers \cup ReadTimers(a, d)
        /\ UNCHANGED <<sock, fdTable, closing>>
    BY <1>5, <1>11, <2>1, <2>2 DEF Kept
  <2>4. /\ d \in Conns /\ d.live = c.live /\ d.sock = c.sock /\ d.fd = c.fd /\ d.ts = c.ts
        /\ d.event = "IN" /\ d.sevent = c.sevent /\ d.cbs = c.cbs /\ d.ctx = NoCtx
        /\ e \in Conns /\ e.live = d.live /\ e.sock = d.sock /\ e.fd = d.fd /\ e.ts = d.ts
        /\ e.event = d.event /\ e.sevent = "IN" /\ e.cbs = d.cbs /\ e.ctx = d.ctx
    <3>1. c \in Conns
      BY <1>6
    <3>. QED
      BY <2>1, <3>1, NextWaitFacts
  <2>5. /\ f \in Conns /\ f.live = e.live /\ f.sock = e.sock /\ f.fd = e.fd /\ f.ts = e.ts
        /\ f.event = e.event /\ f.sevent = e.sevent /\ f.cbs = e.cbs /\ f.ctx = e.ctx
    <3>1. e \in Conns
      BY <2>4
    <3>. QED
      BY <2>2, <3>1, WithTimerFacts
  <2>6. f.live /\ f.sock = conn[a].sock /\ f.fd = conn[a].fd /\ f.ts = conn[a].ts
        /\ f.event = "IN" /\ f.sevent = "IN" /\ f.cbs = AllCallbacks /\ f.ctx = NoCtx
    BY <1>3, <1>4, <1>6, <2>4, <2>5
  <2>7. Changed(a, f)
    BY <2>3, <2>5, <2>6 DEF Changed
  <2>8. /\ conn' \in [Addrs -> Conns] /\ conn'[a] = f /\ Open' = Open
    BY <1>3, <2>3, <2>7, ChangedFacts
  <2>9. /\ fault' = "none"
        /\ epoll' \in [Socks -> [ev : Masks, conn : Addrs \cup {NoConn}]]
        /\ epoll'[d.sock] = [ev |-> d.event, conn |-> a]
        /\ \A t \in Socks : t # d.sock => epoll'[t] = epoll[t]
    <3>1. d.fd = conn[a].fd /\ d.sock = conn[a].sock /\ d.sevent = conn[a].sevent
          /\ d.event \in {"IN", "OUT"}
      BY <1>6, <2>4
    <3>. QED
      BY <1>3, <2>3, <3>1, CtlOpen
  <2>10. OwnInv'
    <3>1. epoll'[f.sock] = [ev |-> f.sevent, conn |-> a]
      BY <2>4, <2>5, <2>9
    <3>2. \A t \in Socks : t # f.sock => epoll'[t] = epoll[t]
      BY <2>4, <2>5, <2>9
    <3>3. \A t \in Socks : sock'[t].st = sock[t].st
      BY <2>3
    <3>. QED
      BY <1>2, <1>3, <2>3, <2>7, <3>1, <3>2, <3>3, OwnChange
  <2>11. \A tm \in timers' : tm \in TimerRecs /\ (tm \in timers \/ tm.cts > 0)
    <3>1. d \in Conns /\ d.sock \in Socks /\ d.ts > 0
      BY <1>4, <1>6, <2>4
    <3>2. \A tm \in ReadTimers(a, d) : tm \in TimerRecs /\ tm.cts > 0
      BY <1>1, <3>1, NewTimersFacts
    <3>. QED
      BY <1>1, <2>3, <3>2 DEF TypeOK
  <2>12. TypeOK'
    <3>1. ready' \subseteq ready
      BY <1>3
    <3>2. timers' \subseteq TimerRecs
      BY <2>11
    <3>3. completed' \in [Socks -> Nat]
      BY <1>8, <2>3
    <3>. QED
      BY <1>1, <1>2, <1>3, <1>7, <2>3, <2>8, <2>9, <3>1, <3>2, <3>3 DEF TypeOK
  <2>13. PlaceInv'
    <3>1. \A tm \in timers' \cup exe' : tm.cts > 0
      BY <1>1, <1>3, <2>11 DEF PlaceInv
    <3>. QED
      BY <1>1, <1>2, <1>3, <2>3, <2>9, <3>1 DEF PlaceInv
  <2>14. MaskInv'
    <3>1. \A b : Queued(b)' <=> Queued(b)
      BY <1>2, <1>3 DEF Queued
    <3>2. MaskAt(a)'
      BY <1>3, <1>4, <2>6, <2>8 DEF MaskAt, NoCtx
    <3>3. (\A i \in DOMAIN funcs' : FuncAt(funcs'[i])) /\ (\A i \in DOMAIN batch' : FuncAt(batch'[i]))
      BY <1>1, <1>2, <1>3 DEF MaskInv
    <3>4. \A b \in Open : b # a => (Queued(b)' <=> Queued(b)) /\ (accepting' = b <=> accepting = b)
      BY <1>3, <3>1
    <3>. QED
      BY <1>3, <2>3, <2>7, <3>2, <3>3, <3>4, MaskChange
  <2>. QED
    BY <1>3, <2>3, <2>8, <2>10, <2>12, <2>13, <2>14 DEF CoreInv
<1>. QED
  BY <1>2, <1>9, <1>10, <1>11
-----------------------------------------------------------------------------
LEMMA CoreStutter ==
  ASSUME CoreInv, UNCHANGED vars PROVE CoreInv'
<1>1. UNCHANGED <<sock, fdTable, epoll, conn, channels, funcs, timers, loopPc, ready, batch, exe,
                  closing, acceptPc, accepting, calls, now, fault, executed, replies, completed>>
  BY DEF vars, kernel, objects, queues, loopVars, acceptVars, history
<1>. QED
  BY <1>1 DEF CoreInv, TypeOK, OwnInv, ObjectOwn, Distinct, OpenOwn, ClosingOwn, EpollOwn, PlaceInv,
              MaskInv, MaskAt, FuncAt, EventAt, Open, Queued, Valid

\* The steps there are with one reactor and synchronous services.
LEMMA SoloSteps ==
  ASSUME CoreInv, [Next]_vars
  PROVE  \/ \E s \in Socks, a \in Addrs : Accept(s, a)
         \/ AcceptRest
         \/ CloseEnd
         \/ \E a \in Addrs : HandleEof(a)
         \/ \E a \in Addrs : \E k \in 1..MaxChunks : HandleRead(a, k)
         \/ \E a \in Addrs : \E out \in {"none", "hdr", "cut", "all"} : HandleOut(a, out)
         \/ RunFunc
         \/ \E tm \in exe : RunTimer(tm)
         \/ Tick \/ EpollWait \/ SwapFuncs \/ PopTimers \/ LoopAgain
         \/ Client
         \/ UNCHANGED vars
<1>1. calls = {}
  BY DEF CoreInv, PlaceInv
<1>2. ~ \E call \in calls : AsyncPack(call) \/ AsyncArm(call)
  BY <1>1
<1>3. CASE Server
  BY <1>2, <1>3 DEF Server, Reactor
<1>. QED
  BY <1>3 DEF Next

LEMMA CoreNext ==
  ASSUME Solo, CoreInv, [Next]_vars PROVE CoreInv'
<1>1. ASSUME NEW s \in Socks, NEW a \in Addrs, Accept(s, a) PROVE CoreInv'
  BY <1>1, CoreAccept
<1>2. CASE AcceptRest
  BY <1>2, CoreAcceptRest
<1>3. CASE CloseEnd
  BY <1>3, CoreCloseEnd
<1>4. ASSUME NEW a \in Addrs, HandleEof(a) PROVE CoreInv'
  BY <1>4, CoreHandleEof
<1>5. ASSUME NEW a \in Addrs, NEW k, HandleRead(a, k) PROVE CoreInv'
  BY <1>5, CoreHandleRead
<1>6. ASSUME NEW a \in Addrs, NEW out \in {"none", "hdr", "cut", "all"}, HandleOut(a, out) PROVE CoreInv'
  BY <1>6, CoreHandleOut
<1>7. CASE RunFunc
  BY <1>7, CoreRunFunc
<1>8. ASSUME NEW tm \in exe, RunTimer(tm) PROVE CoreInv'
  BY <1>8, CoreRunTimer
<1>9. CASE Tick \/ EpollWait \/ SwapFuncs \/ PopTimers \/ LoopAgain
  BY <1>9, CoreLoop
<1>10. CASE Client
  BY <1>10, CoreClient
<1>11. CASE UNCHANGED vars
  BY <1>11, CoreStutter
<1>. QED
  BY <1>1, <1>2, <1>3, <1>4, <1>5, <1>6, <1>7, <1>8, <1>9, <1>10, <1>11, SoloSteps

LEMMA CoreAlways ==
  ASSUME Solo PROVE Spec => []CoreInv
<1>1. Init => CoreInv
  BY CoreInit
<1>2. CoreInv /\ [Next]_vars => CoreInv'
  BY CoreNext
<1>. QED
  BY <1>1, <1>2, PTL DEF Spec

\* The variables of the server keep their types.
THEOREM ServerTypes ==
  ASSUME Solo PROVE Spec => []TypeOK
<1>1. CoreInv => TypeOK
  BY DEF CoreInv
<1>. QED
  BY <1>1, CoreAlways, PTL

\* With one reactor and synchronous services, no raw pointer the server keeps
\* (in the interest list, in an event, in a queued function, in a timer) is
\* used after its connection was deleted, no context is missing, no callback
\* is empty and no epoll_ctl fails (close_callback, update_channel,
\* write_complete_callback, timeout_callback).
THEOREM NeverFaults ==
  ASSUME Solo PROVE Spec => []NoFault
<1>1. CoreInv => NoFault
  BY DEF CoreInv, PlaceInv, NoFault
<1>. QED
  BY <1>1, CoreAlways, PTL

\* The second ::close of a descriptor, in ~Channel, never closes the
\* descriptor of another connection.
THEOREM FdsAlwaysOwned ==
  ASSUME Solo PROVE Spec => []FdOwned
<1>1. CoreInv => FdOwned
  <2>1. ASSUME CoreInv, NEW a \in Addrs, conn[a].live, closing # a
        PROVE  fdTable[conn[a].fd] = conn[a].sock
    <3>1. a \in Open
      BY <2>1 DEF Open
    <3>. QED
      BY <2>1, <3>1, OpenFacts
  <2>. QED
    BY <2>1 DEF FdOwned
<1>. QED
  BY <1>1, CoreAlways, PTL

\* The channel map, the interest list, the events and the connections agree.
THEOREM ChannelsAlwaysExact ==
  ASSUME Solo PROVE Spec => []ChannelsExact
<1>1. ASSUME CoreInv PROVE ChannelsExact
  <2>1. TypeOK /\ OwnInv /\ MaskInv
    BY <1>1 DEF CoreInv
  <2>2. ASSUME NEW a \in Addrs PROVE channels[a] = IF conn[a].live THEN conn[a].ts ELSE 0
    BY <2>1 DEF OwnInv, ObjectOwn
  <2>3. ASSUME NEW a \in Settled
        PROVE  epoll[conn[a].sock] = [ev |-> conn[a].sevent, conn |-> a]
    <3>1. a \in Open
      BY DEF Settled, Open
    <3>. QED
      BY <1>1, <3>1, OpenFacts
  <2>4. ASSUME NEW s \in Socks, epoll[s].conn # NoConn PROVE Valid(epoll[s].conn, s)
    <3>1. EpollOwn(s)
      BY <2>1 DEF OwnInv
    <3>. QED
      BY <2>4, <3>1 DEF EpollOwn, Valid, Open
  <2>5. ASSUME NEW e \in ready, e.conn # Acceptor PROVE conn[e.conn].live
    <3>1. EventAt(e)
      BY <2>1 DEF MaskInv
    <3>. QED
      BY <2>5, <3>1 DEF EventAt, Open
  <2>. QED
    BY <2>2, <2>3, <2>4, <2>5 DEF ChannelsExact
<1>. QED
  BY <1>1, CoreAlways, PTL
-----------------------------------------------------------------------------
\* What the steps do to the data of the connections: the socket, the buffers
\* and the history.
SameData(a) ==
  /\ conn'[a].sock = conn[a].sock /\ conn'[a].event = conn[a].event
  /\ conn'[a].ctx = conn[a].ctx
  /\ conn'[a].rbuf = conn[a].rbuf /\ conn'[a].wbuf = conn[a].wbuf

\* Steps that do nothing to it.
Quiet ==
  /\ UNCHANGED <<sock, executed, replies, completed>>
  /\ Open' = Open
  /\ \A a \in Open : SameData(a)

\* A connection is closed: nobody else's data changes.
Closes(a) ==
  /\ a \in Open /\ Open' = Open \ {a}
  /\ \A b \in Open' : SameData(b) /\ conn[b].sock # conn[a].sock
  /\ sock'[conn[a].sock].st = "closed" /\ sock'[conn[a].sock].in = <<>>
  /\ sock'[conn[a].sock].reqs = sock[conn[a].sock].reqs
  /\ \A t \in Socks : t # conn[a].sock => sock'[t] = sock[t]

LEMMA ClosesFacts ==
  ASSUME CoreInv, NEW a \in Open, CloseBegin(a), Open' = Open \ {a}
  PROVE  Closes(a)
<1>1. /\ a \in Addrs /\ conn[a].sock \in Socks /\ conn[a].fd \in Fds
      /\ fdTable[conn[a].fd] = conn[a].sock
      /\ \A b \in Open : b # a => conn[b].sock # conn[a].sock
  BY OpenFacts
<1>2. TypeOK /\ CloseFd(conn[a].fd)
  BY DEF CoreInv, CloseBegin
<1>3. /\ sock'[conn[a].sock] = ShutSock(sock[conn[a].sock])
      /\ \A t \in Socks : t # conn[a].sock => sock'[t] = sock[t]
  BY <1>1, <1>2, CloseFdEffect
<1>4. sock[conn[a].sock] \in AllSocks
  BY <1>1, <1>2 DEF TypeOK, AllSocks
<1>5. /\ sock'[conn[a].sock].st = "closed" /\ sock'[conn[a].sock].in = <<>>
      /\ sock'[conn[a].sock].reqs = sock[conn[a].sock].reqs
  BY <1>3, <1>4 DEF ShutSock, AllSocks
<1>6. \A b \in Addrs : b # a => conn'[b] = conn[b]
  BY <1>2 DEF CloseBegin, TypeOK
<1>7. \A b \in Open' : SameData(b) /\ conn[b].sock # conn[a].sock
  BY <1>1, <1>6 DEF SameData, Open
<1>. QED
  BY <1>1, <1>3, <1>5, <1>7 DEF Closes

LEMMA QuietSteps ==
  ASSUME Solo, CoreInv,
         \/ AcceptRest \/ CloseEnd \/ RunFunc \/ UNCHANGED vars
         \/ Tick \/ EpollWait \/ SwapFuncs \/ PopTimers \/ LoopAgain
         \/ \E tm \in exe : RunTimer(tm) /\ ~TimerIsCurrent(tm)
  PROVE  Quiet
<1>0. conn \in [Addrs -> Conns]
  BY DEF CoreInv, TypeOK
<1>1. CASE AcceptRest
  <2>1. PICK a : a = accepting /\ a \in Open /\ Open' = Open
    BY <1>1, CoreAcceptRest
  <2>2. PICK c : conn' = [conn EXCEPT ![a] = c]
                 /\ (c = WithTimer(conn[a], ReadTimeout)
                     \/ \E k \in AllCallbacks : c = [conn[a] EXCEPT !.cbs = @ \cup {k}])
    BY <1>1, <2>1, CoreAcceptRest
  <2>3. conn[a] \in Conns /\ a \in Addrs
    BY <2>1, OpenFacts
  <2>4. /\ c.sock = conn[a].sock /\ c.event = conn[a].event /\ c.ctx = conn[a].ctx
        /\ c.rbuf = conn[a].rbuf /\ c.wbuf = conn[a].wbuf
    <3>1. CASE c = WithTimer(conn[a], ReadTimeout)
      BY <2>3, <3>1, WithTimerFacts
    <3>2. CASE \E k \in AllCallbacks : c = [conn[a] EXCEPT !.cbs = @ \cup {k}]
      BY <2>3, <3>2 DEF Conns
    <3>. QED
      BY <2>2, <3>1, <3>2
  <2>5. \A b \in Open : SameData(b)
    BY <1>0, <2>2, <2>3, <2>4 DEF SameData, Open
  <2>6. UNCHANGED <<sock, executed, replies, completed>>
    BY <1>1 DEF AcceptRest, ArmRead, SetCallback, AcceptStep, kernel, history
  <2>. QED
    BY <2>1, <2>5, <2>6 DEF Quiet
<1>2. CASE CloseEnd
  <2>1. /\ Open' = Open /\ UNCHANGED sock
        /\ \A b \in Addrs : b # closing => conn'[b] = conn[b]
    BY <1>2, CoreCloseEnd
  <2>2. UNCHANGED <<executed, replies, completed>>
    BY <1>2 DEF CloseEnd, history
  <2>. QED
    BY <2>1, <2>2 DEF Quiet, SameData, Open
<1>3. CASE RunFunc
  <2>1. Open' = Open /\ UNCHANGED <<sock, executed, replies, completed>>
    BY <1>3, CoreRunFunc
  <2>2. PICK a \in Open : conn' = [conn EXCEPT ![a] = [conn[a] EXCEPT !.sevent = conn[a].event]]
    BY <1>3, CoreRunFunc
  <2>3. conn[a] \in Conns /\ a \in Addrs
    BY OpenFacts
  <2>4. PICK c : c = [conn[a] EXCEPT !.sevent = conn[a].event]
    OBVIOUS
  <2>5. /\ c.sock = conn[a].sock /\ c.event = conn[a].event /\ c.ctx = conn[a].ctx
        /\ c.rbuf = conn[a].rbuf /\ c.wbuf = conn[a].wbuf
    BY <2>3, <2>4 DEF Conns
  <2>. QED
    BY <1>0, <2>1, <2>2, <2>3, <2>4, <2>5 DEF Quiet, SameData, Open
<1>4. CASE UNCHANGED vars
  BY <1>4 DEF vars, kernel, objects, history, Quiet, SameData, Open
<1>5. CASE Tick \/ EpollWait \/ SwapFuncs \/ PopTimers \/ LoopAgain
  BY <1>5 DEF Tick, EpollWait, SwapFuncs, PopTimers, LoopAgain, kernel, objects, history,
              Quiet, SameData, Open
<1>6. ASSUME NEW tm \in exe, RunTimer(tm), ~TimerIsCurrent(tm) PROVE Quiet
  BY <1>6 DEF RunTimer, kernel, history, Quiet, SameData, Open
<1>. QED
  BY <1>1, <1>2, <1>3, <1>4, <1>5, <1>6

\* Every step: nothing, an accept, a close, a client's, a read or a write.
LEMMA DataSteps ==
  ASSUME Solo, CoreInv, [Next]_vars
  PROVE  \/ Quiet
         \/ \E s \in Socks, a \in Addrs : Accept(s, a)
         \/ Client
         \/ \E a \in Open : Closes(a) /\ UNCHANGED <<executed, replies, completed>>
         \/ \E a \in Addrs : \E k \in 1..MaxChunks : HandleRead(a, k) /\ ~Refused(a)
         \/ \E a \in Addrs : \E out \in {"none", "hdr", "cut", "all"} : HandleOut(a, out)
<1>1. ASSUME NEW a \in Addrs, HandleEof(a)
      PROVE  a \in Open /\ Closes(a) /\ UNCHANGED <<executed, replies, completed>>
  <2>1. a \in Open /\ CloseBegin(a) /\ Open' = Open \ {a}
    BY <1>1, CoreHandleEof
  <2>2. UNCHANGED <<executed, replies, completed>>
    BY <1>1 DEF HandleEof, history
  <2>. QED
    BY <2>1, <2>2, ClosesFacts
<1>2. ASSUME NEW a \in Addrs, NEW k, HandleRead(a, k), Refused(a)
      PROVE  a \in Open /\ Closes(a) /\ UNCHANGED <<executed, replies, completed>>
  <2>1. /\ CloseBegin(a) /\ UNCHANGED <<executed, replies, completed>>
    BY <1>2 DEF Refused, HandleRead
  <2>2. a \in Open /\ closing' = a /\ closing # a
    BY <1>2, <2>1, CoreHandleRead, OpenFacts DEF CloseBegin
  <2>3. Open' = Open \ {a}
    BY <1>2, <2>2, CoreHandleRead
  <2>. QED
    BY <2>1, <2>2, <2>3, ClosesFacts
<1>3. ASSUME NEW tm \in exe, RunTimer(tm), TimerIsCurrent(tm)
      PROVE  tm.conn \in Open /\ Closes(tm.conn) /\ UNCHANGED <<executed, replies, completed>>
  <2>1. tm.conn \in Open /\ CloseBegin(tm.conn) /\ Open' = Open \ {tm.conn}
    BY <1>3, CoreRunTimer
  <2>2. UNCHANGED <<executed, replies, completed>>
    BY <1>3 DEF RunTimer, history
  <2>. QED
    BY <2>1, <2>2, ClosesFacts
<1>. QED
  BY <1>1, <1>2, <1>3, SoloSteps, QuietSteps

\* accept.
LEMMA AcceptData ==
  ASSUME Solo, CoreInv, NEW s \in Socks, NEW a \in Addrs, Accept(s, a)
  PROVE  /\ Open' = Open \cup {a} /\ a \notin Open
         /\ \A b \in Open : SameData(b) /\ conn[b].sock # s
         /\ conn'[a].sock = s /\ conn'[a].event = "IN" /\ conn'[a].rbuf = <<>>
         /\ conn'[a].wbuf = EmptyWbuf
         /\ sock[s].st = "backlog" /\ sock'[s].st = "open"
         /\ sock'[s].in = sock[s].in /\ sock'[s].reqs = sock[s].reqs
         /\ \A t \in Socks : t # s => sock'[t] = sock[t]
         /\ UNCHANGED <<executed, replies, completed>>
<1>1. /\ Open' = Open \cup {a} /\ a \notin Open
      /\ sock' = [sock EXCEPT ![s].st = "open"] /\ sock[s].st = "backlog"
      /\ \E fd \in Fds : conn' = [conn EXCEPT ![a] = NewConn(s, fd)]
      /\ \A b \in Open : conn'[b] = conn[b] /\ conn[b].sock # s
  BY CoreAccept
<1>2. conn \in [Addrs -> Conns] /\ sock \in [Socks -> AllSocks]
  BY DEF CoreInv, TypeOK, AllSocks
<1>3. /\ conn'[a].sock = s /\ conn'[a].event = "IN" /\ conn'[a].rbuf = <<>>
      /\ conn'[a].wbuf = EmptyWbuf
  BY <1>1, <1>2 DEF NewConn, Dead
<1>4. sock[s] \in AllSocks
  BY <1>2
<1>5. /\ sock'[s].st = "open" /\ sock'[s].in = sock[s].in /\ sock'[s].reqs = sock[s].reqs
      /\ \A t \in Socks : t # s => sock'[t] = sock[t]
  BY <1>1, <1>2, <1>4 DEF AllSocks
<1>6. UNCHANGED <<executed, replies, completed>>
  BY DEF Accept, history
<1>. QED
  BY <1>1, <1>3, <1>5, <1>6 DEF SameData

\* Clients.
Sends(s, k) ==
  /\ sock'[s].in = Append(sock[s].in, [k |-> k, n |-> sock[s].reqs + 1])
  /\ sock'[s].reqs = IF k = "part" THEN sock[s].reqs ELSE sock[s].reqs + 1
  /\ sock'[s].st = sock[s].st
  /\ sock[s].st \in {"backlog", "open"}
  /\ Pipelining \/ Len(replies[s]) = sock[s].reqs

LEMMA ClientData ==
  ASSUME CoreInv, Client
  PROVE  /\ Open' = Open /\ UNCHANGED <<conn, executed, replies, completed>>
         /\ \E s \in Socks :
              /\ \A t \in Socks : t # s => sock'[t] = sock[t]
              /\ \/ \E k \in Kinds : Sends(s, k)
                 \/ /\ sock'[s].in = sock[s].in /\ sock'[s].reqs = sock[s].reqs
                    /\ \/ sock'[s].st = sock[s].st
                       \/ sock[s].st = "none" /\ sock'[s].st = "backlog"
<1>1. Open' = Open /\ UNCHANGED <<conn, executed, replies, completed>>
  BY DEF Client, objects, history, Open
<1>2. sock \in [Socks -> AllSocks]
  BY DEF CoreInv, TypeOK, AllSocks
<1>3. PICK s \in Socks : \/ ClientConnect(s)
                         \/ \E k \in Kinds : ClientSend(s, k)
                         \/ ClientClose(s)
                         \/ ClientStall(s)
  BY DEF Client
<1>4. sock[s] \in AllSocks
  BY <1>2
<1>5. CASE ClientConnect(s)
  <2>1. /\ \A t \in Socks : t # s => sock'[t] = sock[t]
        /\ sock'[s].in = sock[s].in /\ sock'[s].reqs = sock[s].reqs
        /\ sock[s].st = "none" /\ sock'[s].st = "backlog"
    BY <1>2, <1>4, <1>5 DEF ClientConnect, AllSocks
  <2>. QED
    BY <1>1, <2>1
<1>6. ASSUME NEW k \in Kinds, ClientSend(s, k)
      PROVE  Sends(s, k) /\ \A t \in Socks : t # s => sock'[t] = sock[t]
  <2>1. PICK q, m, r : /\ q = Append(sock[s].in, [k |-> k, n |-> sock[s].reqs + 1])
                       /\ m = sock[s].chunks + 1
                       /\ r = IF k = "part" THEN sock[s].reqs ELSE sock[s].reqs + 1
    OBVIOUS
  <2>2. sock' = [sock EXCEPT ![s] = [sock[s] EXCEPT !.in = q, !.chunks = m, !.reqs = r]]
    BY <1>6, <2>1 DEF ClientSend
  <2>3. PICK x : x = [sock[s] EXCEPT !.in = q, !.chunks = m, !.reqs = r]
    OBVIOUS
  <2>4. x.in = q /\ x.reqs = r /\ x.st = sock[s].st
    BY <1>4, <2>3 DEF AllSocks
  <2>5. sock'[s] = x /\ \A t \in Socks : t # s => sock'[t] = sock[t]
    BY <1>2, <2>2, <2>3
  <2>6. sock[s].st \in {"backlog", "open"} /\ (Pipelining \/ Len(replies[s]) = sock[s].reqs)
    BY <1>6 DEF ClientSend, Alive
  <2>. QED
    BY <2>1, <2>4, <2>5, <2>6 DEF Sends
<1>7. CASE ClientClose(s) \/ ClientStall(s)
  <2>1. /\ \A t \in Socks : t # s => sock'[t] = sock[t]
        /\ sock'[s].in = sock[s].in /\ sock'[s].reqs = sock[s].reqs /\ sock'[s].st = sock[s].st
    BY <1>2, <1>4, <1>7 DEF ClientClose, ClientStall, AllSocks
  <2>. QED
    BY <1>1, <2>1
<1>8. ASSUME NEW k \in Kinds, ClientSend(s, k)
      PROVE  \E t \in Socks :
               /\ \A u \in Socks : u # t => sock'[u] = sock[u]
               /\ \E j \in Kinds : Sends(t, j)
  BY <1>6, <1>8
<1>. QED
  BY <1>1, <1>3, <1>5, <1>7, <1>8

LEMMA NatLeast ==
  ASSUME NEW T, T \subseteq Nat, T # {}
  PROVE  \E x \in T : \A y \in T : x <= y
<1>. DEFINE R == OpToRel(<, Nat)
<1>1. IsWellFoundedOn(R, Nat)
  BY NatLessThanWellFounded
<1>2. \A x, y \in Nat : ~(<<y, x>> \in R) => x <= y
  BY DEF OpToRel
<1>. HIDE DEF R
<1>3. \E x \in T : \A y \in T : ~(<<y, x>> \in R)
  BY <1>1, WFMin
<1>. QED
  BY <1>2, <1>3

\* data_read_callback, when nothing was left in the read buffer: no request
\* is complete, or the i-th chunk of socket s completed one.
ReadNone(a, k, s) ==
  /\ UNCHANGED executed
  /\ \A i \in 1..k : sock[s].in[i].k = "part"
  /\ conn'[a].event = "IN" /\ conn'[a].rbuf = <<>> /\ conn'[a].wbuf = conn[a].wbuf

ReadCall(a, i, s) ==
  /\ sock[s].in[i].k # "part"
  /\ executed' = [executed EXCEPT ![s] = Append(executed[s], sock[s].in[i].n)]
  /\ conn'[a].event = "OUT"
  /\ conn'[a].wbuf.hdr = Append(conn[a].wbuf.hdr, sock[s].in[i].n)
  /\ conn'[a].wbuf.extra = sock[s].in[i].n
  /\ conn'[a].wbuf.sent = conn[a].wbuf.sent

Reads(a, k, s) ==
  /\ a \in Open /\ Open' = Open /\ s \in Socks
  /\ conn[a].event = "IN" /\ k \in DOMAIN sock[s].in
  /\ \A b \in Open : b # a => SameData(b) /\ conn[b].sock # s
  /\ conn'[a].sock = s
  /\ sock'[s].in = SubSeq(sock[s].in, k + 1, Len(sock[s].in))
  /\ sock'[s].reqs = sock[s].reqs
  /\ \A t \in Socks : sock'[t].st = sock[t].st
  /\ \A t \in Socks : t # s => sock'[t] = sock[t]
  /\ UNCHANGED <<replies, completed>>
  /\ ReadNone(a, k, s) \/ \E i \in 1..k : ReadCall(a, i, s)

LEMMA ReadData ==
  ASSUME Solo, CoreInv, NEW a \in Addrs, NEW k, HandleRead(a, k), ~Refused(a),
         conn[a].rbuf = <<>>, NEW s, s = conn[a].sock
  PROVE  Reads(a, k, s)
<1>1. /\ TakeEvent(a, "IN") /\ k \in DOMAIN sock[s].in
      /\ ReadOn(a, k) \/ Called(a, k)
      /\ UNCHANGED <<channels, replies, completed>>
  BY ReadSteps
<1>2. /\ a \in Open /\ conn[a].event = "IN" /\ conn[a].ctx.k \in {"none", "part"}
      /\ conn[a] \in Conns /\ conn[a].sevent = "IN"
  BY <1>1, EventFacts
<1>3. /\ s \in Socks /\ \A b \in Open : b # a => conn[b].sock # s
  BY <1>2, OpenFacts
<1>4. closing' = closing /\ Took(a, k)
  BY <1>1 DEF ReadOn, Called
<1>5. Open' = Open
  BY <1>4, CoreHandleRead
<1>6. /\ sock[s].in \in Seq(Chunks)
      /\ SubSeq(sock[s].in, 1, k) \in Seq(Chunks)
      /\ ReadConn(a, k) \in Conns
      /\ ReadConn(a, k) =
           WithRead(conn[a], conn[a].ctx, conn[a].rbuf \o SubSeq(sock[s].in, 1, k))
      /\ sock'[s].in = SubSeq(sock[s].in, k + 1, Len(sock[s].in))
      /\ sock'[s].reqs = sock[s].reqs
      /\ \A t \in Socks : sock'[t].st = sock[t].st
      /\ \A t \in Socks : t # s => sock'[t] = sock[t]
  BY <1>1, <1>2, <1>4, TookFacts
<1>7. PICK c, q : c = ReadConn(a, k) /\ q = SubSeq(sock[s].in, 1, k)
  OBVIOUS
<1>8. /\ c \in Conns /\ c.rbuf = q /\ c.ctx = conn[a].ctx /\ q \in Seq(Chunks)
  <2>1. conn[a].rbuf \o q = q
    BY <1>6, <1>7
  <2>2. c = WithRead(conn[a], conn[a].ctx, q)
    BY <1>6, <1>7, <2>1
  <2>. QED
    BY <1>2, <1>6, <1>7, <2>2 DEF WithRead, Conns
<1>9. k \in Nat /\ k <= Len(sock[s].in) /\ Len(sock[s].in) \in Nat /\ k >= 1
      /\ Len(q) = k /\ \A i \in 1..k : q[i] = sock[s].in[i] /\ q[i] \in Chunks
  <2>1. k \in 1..Len(sock[s].in) /\ Len(sock[s].in) \in Nat
    BY <1>1, <1>6
  <2>2. \A i \in 1..k : sock[s].in[i] \in Chunks
    BY <1>6, <2>1
  <2>3. Len(q) = k /\ \A i \in 1..k : q[i] = sock[s].in[i]
    BY <1>6, <1>7, <2>1
  <2>. QED
    BY <2>1, <2>2, <2>3
<1>10. PICK p : p = Parse(c)
  OBVIOUS
<1>11. /\ p \in Conns /\ p.live /\ p.sock = s /\ p.fd = conn[a].fd /\ p.ts = conn[a].ts
       /\ p.timerId = conn[a].timerId /\ p.event = "IN" /\ p.sevent = "IN"
       /\ p.wbuf = conn[a].wbuf
  BY <1>1, <1>2, <1>7, <1>10, ParsedFacts
<1>12. PICK x \in Chunks \cup {NoCtx}, r \in Seq(Chunks) :
         /\ p = WithRead(c, x, r)
         /\ \/ r = <<>> /\ x.k \in {"none", "part"} /\ FirstEnd(q) = {}
            \/ \E i \in FirstEnd(q) : x = q[i]
  <2>1. c \in Conns /\ c.ctx.k \in {"none", "part"}
    BY <1>2, <1>8
  <2>. QED
    BY <1>8, <1>10, <2>1, ParseFacts
<1>13. p.ctx = x /\ p.rbuf = r
  BY <1>8, <1>12 DEF WithRead, Conns
<1>14. ASSUME NEW i \in FirstEnd(q) PROVE i \in 1..k /\ q[i].k # "part" /\ q[i].k # "none"
  <2>1. i \in DOMAIN q /\ q[i].k # "part"
    BY DEF FirstEnd
  <2>2. i \in 1..k
    BY <1>8, <1>9, <2>1
  <2>3. q[i].k \in Kinds
    BY <1>9, <2>2 DEF Chunks
  <2>. QED
    BY <2>1, <2>2, <2>3, Constants
<1>15. conn \in [Addrs -> Conns]
  BY DEF CoreInv, TypeOK
<1>16. CASE ReadOn(a, k)
  <2>1. /\ p.ctx.k \in {"none", "part"} /\ conn' = [conn EXCEPT ![a] = p]
        /\ UNCHANGED executed
    BY <1>7, <1>10, <1>16 DEF ReadOn
  <2>2. r = <<>> /\ FirstEnd(q) = {}
    BY <1>12, <1>13, <1>14, <2>1
  <2>3. \A i \in 1..k : q[i].k = "part"
    <3>. DEFINE Ends == {i \in 1..k : q[i].k # "part"}
    <3>1. SUFFICES ASSUME Ends # {} PROVE FALSE
      OBVIOUS
    <3>2. PICK i \in Ends : \A j \in Ends : i <= j
      <4>1. Ends \subseteq Nat
        BY <1>9
      <4>. HIDE DEF Ends
      <4>. QED
        BY <3>1, <4>1, NatLeast
    <3>3. i \in FirstEnd(q)
      <4>1. i \in DOMAIN q /\ i \in 1..k
        BY <1>8, <1>9
      <4>2. \A j \in 1..(i - 1) : q[j].k = "part"
        BY <1>9, <3>2, <4>1
      <4>. QED
        BY <4>1, <4>2 DEF FirstEnd
    <3>. QED
      BY <2>2, <3>3
  <2>4. conn'[a] = p /\ \A b \in Open : b # a => SameData(b)
    BY <1>2, <1>15, <2>1 DEF SameData, Open
  <2>. QED
    BY <1>1, <1>2, <1>3, <1>5, <1>6, <1>9, <1>11, <1>13, <2>1, <2>2, <2>3, <2>4 DEF ReadNone, Reads
<1>17. CASE Called(a, k)
  <2>1. /\ p.ctx.k \notin {"none", "part", "bad", "nosvc"}
        /\ executed' = [executed EXCEPT ![p.sock] = Append(executed[p.sock], p.ctx.n)]
        /\ conn' = [conn EXCEPT ![a] = WithTimer(Pack(p, p.ctx.n), WriteTimeout)]
    BY <1>7, <1>10, <1>17 DEF Called
  <2>2. PICK i \in FirstEnd(q) : x = q[i]
    BY <1>12, <1>13, <2>1
  <2>3. i \in 1..k /\ sock[s].in[i].k # "part" /\ x = sock[s].in[i] /\ x \in Chunks
    BY <1>9, <1>14, <2>2
  <2>4. PICK n \in Nat : n = p.ctx.n /\ n = sock[s].in[i].n
    BY <1>13, <2>3 DEF Chunks
  <2>5. PICK e : e = WithTimer(Pack(p, n), WriteTimeout)
    OBVIOUS
  <2>6. p \in Conns
    BY <1>11
  <2>7. /\ e.sock = p.sock /\ e.event = "OUT"
        /\ e.wbuf.hdr = Append(p.wbuf.hdr, n) /\ e.wbuf.extra = n /\ e.wbuf.sent = p.wbuf.sent
    BY <2>5, <2>6, PackFacts
  <2>8. conn'[a] = e /\ \A b \in Open : b # a => SameData(b)
    BY <1>2, <1>15, <2>1, <2>4, <2>5 DEF SameData, Open
  <2>9. /\ executed' = [executed EXCEPT ![s] = Append(executed[s], sock[s].in[i].n)]
        /\ conn'[a].event = "OUT" /\ conn'[a].sock = s
        /\ conn'[a].wbuf.hdr = Append(conn[a].wbuf.hdr, sock[s].in[i].n)
        /\ conn'[a].wbuf.extra = sock[s].in[i].n
        /\ conn'[a].wbuf.sent = conn[a].wbuf.sent
    BY <1>11, <2>1, <2>4, <2>7, <2>8
  <2>10. ReadCall(a, i, s)
    BY <2>3, <2>9 DEF ReadCall
  <2>. QED
    BY <1>1, <1>2, <1>3, <1>5, <1>6, <2>3, <2>8, <2>9, <2>10 DEF Reads
<1>. QED
  BY <1>1, <1>16, <1>17

\* handle_events(EPOLLOUT), with something to write: nothing went out, or
\* the response did and write_complete_callback ran.
WroteNone(a, out) ==
  /\ UNCHANGED <<sock, completed>> /\ Open' = Open
  /\ conn'[a].event = "OUT" /\ conn'[a].wbuf = WriteFd(conn[a].wbuf, out)
  /\ WriteFd(conn[a].wbuf, out).hdr # <<>>

WroteNext(a, out) ==
  /\ UNCHANGED sock /\ Open' = Open
  /\ conn'[a].event = "IN" /\ conn'[a].rbuf = <<>>
  /\ conn'[a].wbuf.hdr = <<>> /\ ~conn'[a].wbuf.sent
  /\ WriteFd(conn[a].wbuf, out).hdr = <<>>

WroteLast(a, out) == Closes(a) /\ WriteFd(conn[a].wbuf, out).hdr = <<>>

Wrote(a, out, s) ==
  /\ a \in Open /\ conn[a].event = "OUT" /\ s \in Socks /\ out \in Outcomes(s)
  /\ conn[a].wbuf \in AllWbufs
  /\ replies' = [replies EXCEPT ![s] = replies[s] \o Received(conn[a].wbuf, out)]
  /\ UNCHANGED executed
  /\ \A b \in Open : b # a => SameData(b) /\ conn[b].sock # s
  /\ conn'[a].sock = s
  /\ \/ WroteNone(a, out)
     \/ /\ WroteNext(a, out) \/ WroteLast(a, out)
        /\ completed' = [completed EXCEPT ![s] = completed[s] + 1]

LEMMA WriteData ==
  ASSUME Solo, CoreInv, NEW a \in Addrs, NEW out \in {"none", "hdr", "cut", "all"}, HandleOut(a, out),
         NEW s, s = conn[a].sock
  PROVE  Wrote(a, out, s)
<1>1. /\ TakeEvent(a, "OUT") /\ out \in Outcomes(s)
      /\ WriteOn(a, out) \/ Answered(a, out) \/ Kept(a, out)
      /\ replies' = [replies EXCEPT ![s] = replies[s] \o Received(conn[a].wbuf, out)]
      /\ UNCHANGED <<channels, funcs, calls, executed>>
  BY WriteSteps
<1>2. a \in Open /\ conn[a].event = "OUT" /\ conn[a] \in Conns
  BY <1>1, EventFacts
<1>3. /\ s \in Socks /\ closing # a /\ \A b \in Open : b # a => conn[b].sock # s
  BY <1>2, OpenFacts
<1>4. conn[a].wbuf \in AllWbufs
  BY <1>2 DEF Conns, AllWbufs
<1>5. PICK c : c = Written(a, out)
  OBVIOUS
<1>6. /\ c \in Conns /\ c.sock = s /\ c.event = "OUT" /\ c.wbuf = WriteFd(conn[a].wbuf, out)
  BY <1>2, <1>5, WrittenFacts
<1>7. conn \in [Addrs -> Conns]
  BY DEF CoreInv, TypeOK
<1>8. CASE WriteOn(a, out)
  <2>1. /\ c.wbuf.hdr # <<>> /\ conn' = [conn EXCEPT ![a] = c]
        /\ UNCHANGED <<sock, closing, completed>>
    BY <1>5, <1>8 DEF WriteOn, WriteDone
  <2>2. conn'[a] = c /\ \A b \in Open : b # a => SameData(b)
    BY <1>2, <1>7, <2>1 DEF SameData, Open
  <2>3. Open' = Open
    BY <2>1, CoreHandleOut
  <2>4. WroteNone(a, out) /\ conn'[a].sock = s
    BY <1>6, <2>1, <2>2, <2>3 DEF WroteNone
  <2>. QED
    BY <1>1, <1>2, <1>3, <1>4, <2>2, <2>4 DEF Wrote
<1>9. CASE Answered(a, out)
  <2>1. /\ c.wbuf.hdr = <<>> /\ CloseBegin(a)
        /\ completed' = [completed EXCEPT ![s] = completed[s] + 1]
    BY <1>5, <1>9 DEF Answered, WriteDone
  <2>2. Open' = Open \ {a}
    <3>1. closing' # closing
      BY <1>3, <2>1 DEF CloseBegin
    <3>. QED
      BY <3>1, CoreHandleOut
  <2>3. Closes(a)
    BY <1>2, <2>1, <2>2, ClosesFacts
  <2>4. \A b \in Open : b # a => SameData(b)
    BY <2>2, <2>3 DEF Closes
  <2>5. conn'[a].sock = s
    BY <1>2, <1>7, <2>1 DEF CloseBegin, Conns, Open
  <2>6. WroteLast(a, out)
    BY <1>6, <2>1, <2>3 DEF WroteLast
  <2>. QED
    BY <1>1, <1>2, <1>3, <1>4, <2>1, <2>4, <2>5, <2>6 DEF Wrote
<1>10. CASE Kept(a, out)
  <2>1. PICK d, e : d = NextWait(c) /\ e = Rearmed(c)
    OBVIOUS
  <2>2. PICK f : f = WithTimer(e, ReadTimeout)
    OBVIOUS
  <2>3. /\ c.wbuf.hdr = <<>>
        /\ completed' = [completed EXCEPT ![s] = completed[s] + 1]
        /\ conn' = [conn EXCEPT ![a] = f]
        /\ UNCHANGED <<sock, closing>>
    BY <1>5, <1>10, <2>1, <2>2 DEF Kept, WriteDone
  <2>4. /\ d.sock = c.sock /\ d.event = "IN" /\ d.rbuf = <<>> /\ d.wbuf.hdr = <<>> /\ ~d.wbuf.sent
        /\ e \in Conns /\ e.sock = d.sock /\ e.event = d.event /\ e.rbuf = d.rbuf /\ e.wbuf = d.wbuf
    <3>1. c \in Conns
      BY <1>6
    <3>. QED
      BY <2>1, <3>1, NextWaitFacts
  <2>5. f.sock = e.sock /\ f.event = e.event /\ f.rbuf = e.rbuf /\ f.wbuf = e.wbuf
    <3>1. e \in Conns
      BY <2>4
    <3>. QED
      BY <2>2, <3>1, WithTimerFacts
  <2>6. conn'[a] = f /\ \A b \in Open : b # a => SameData(b)
    BY <1>2, <1>7, <2>3 DEF SameData, Open
  <2>7. Open' = Open
    BY <2>3, CoreHandleOut
  <2>8. WroteNext(a, out) /\ conn'[a].sock = s
    BY <1>6, <2>3, <2>4, <2>5, <2>6, <2>7 DEF WroteNext
  <2>. QED
    BY <1>1, <1>2, <1>3, <1>4, <2>3, <2>6, <2>8 DEF Wrote
<1>. QED
  BY <1>1, <1>8, <1>9, <1>10
-----------------------------------------------------------------------------
\* Chunk c was sent before chunk d.
Before(c, d) == c.n <= d.n /\ (c.k # "part" => c.n < d.n)

\* The requests of a socket with the chunks q still in it, m requests sent and
\* ex handed to a service: numbered in the order they are sent, those in ex
\* before those in q.
SentOK(q, m, ex) ==
  /\ \A i, j \in DOMAIN ex : i < j => ex[i] < ex[j]
  /\ \A i \in DOMAIN ex : ex[i] <= m
  /\ \A i \in DOMAIN q : /\ q[i].n <= m + 1
                         /\ q[i].k # "part" => q[i].n <= m
                         /\ \A j \in DOMAIN ex : ex[j] < q[i].n
  /\ \A i, j \in DOMAIN q : i < j => Before(q[i], q[j])

EmptyRead(a) == conn[a].event = "IN" => conn[a].rbuf = <<>>

SentInv ==
  /\ \A a \in Open : EmptyRead(a)
  /\ \A s \in Socks : SentOK(sock[s].in, sock[s].reqs, executed[s])

LEMMA SentSend ==
  ASSUME NEW q \in Seq(Chunks), NEW m \in Nat, NEW ex \in Seq(Nat), SentOK(q, m, ex),
         NEW k \in Kinds, NEW r \in Nat, r = IF k = "part" THEN m ELSE m + 1
  PROVE  SentOK(Append(q, [k |-> k, n |-> m + 1]), r, ex)
<1>1. PICK c : c = [k |-> k, n |-> m + 1]
  OBVIOUS
<1>2. c.k = k /\ c.n = m + 1 /\ c \in Chunks
  BY <1>1 DEF Chunks
<1>3. PICK p : p = Append(q, c)
  OBVIOUS
<1>4. Len(q) \in Nat /\ DOMAIN q = 1..Len(q) /\ DOMAIN ex = 1..Len(ex) /\ Len(ex) \in Nat
  OBVIOUS
<1>5. DOMAIN p = 1..(Len(q) + 1) /\ p[Len(q) + 1] = c /\ \A i \in DOMAIN q : p[i] = q[i]
  BY <1>2, <1>3
<1>6. \A i \in DOMAIN q : q[i].n \in Nat
  <2>1. \A i \in DOMAIN q : q[i] \in Chunks
    OBVIOUS
  <2>. QED
    BY <2>1 DEF Chunks
<1>7. \A i \in DOMAIN ex : ex[i] \in Nat
  OBVIOUS
<1>8. m <= r /\ r <= m + 1 /\ (k # "part" => r = m + 1)
  OBVIOUS
<1>9. \A i \in DOMAIN p : i \in DOMAIN q \/ i = Len(q) + 1
  BY <1>4, <1>5
<1>10. \A i \in DOMAIN ex : ex[i] <= r
  BY <1>7, <1>8 DEF SentOK
<1>11. ASSUME NEW i \in DOMAIN p
       PROVE  /\ p[i].n <= r + 1
              /\ p[i].k # "part" => p[i].n <= r
              /\ \A j \in DOMAIN ex : ex[j] < p[i].n
  <2>1. CASE i \in DOMAIN q
    <3>1. q[i].n <= m + 1 /\ (q[i].k # "part" => q[i].n <= m) /\ \A j \in DOMAIN ex : ex[j] < q[i].n
      BY <2>1 DEF SentOK
    <3>. QED
      BY <1>5, <1>6, <1>8, <2>1, <3>1
  <2>2. CASE i = Len(q) + 1
    <3>1. \A j \in DOMAIN ex : ex[j] <= m
      BY DEF SentOK
    <3>. QED
      BY <1>2, <1>5, <1>7, <1>8, <2>2, <3>1
  <2>. QED
    BY <1>9, <2>1, <2>2
<1>12. ASSUME NEW i \in DOMAIN p, NEW j \in DOMAIN p, i < j PROVE Before(p[i], p[j])
  <2>1. CASE j \in DOMAIN q
    <3>1. i \in DOMAIN q
      BY <1>4, <1>9, <1>12, <2>1
    <3>2. Before(q[i], q[j])
      BY <1>12, <2>1, <3>1 DEF SentOK
    <3>. QED
      BY <1>5, <2>1, <3>1, <3>2
  <2>2. CASE j = Len(q) + 1
    <3>1. i \in DOMAIN q
      BY <1>4, <1>5, <1>9, <1>12, <2>2
    <3>2. q[i].n <= m + 1 /\ (q[i].k # "part" => q[i].n <= m)
      BY <3>1 DEF SentOK
    <3>. QED
      BY <1>2, <1>5, <1>6, <2>2, <3>1, <3>2 DEF Before
  <2>. QED
    BY <1>9, <2>1, <2>2
<1>13. \A i, j \in DOMAIN ex : i < j => ex[i] < ex[j]
  BY DEF SentOK
<1>14. SentOK(p, r, ex)
  BY <1>10, <1>11, <1>12, <1>13 DEF SentOK
<1>. QED
  BY <1>1, <1>3, <1>14

\* Reading k chunks, of which the i-th completes a request, or none.
LEMMA Rest ==
  ASSUME NEW q \in Seq(Chunks), NEW k \in DOMAIN q, NEW p, p = SubSeq(q, k + 1, Len(q))
  PROVE  /\ p \in Seq(Chunks) /\ k \in 1..Len(q) /\ Len(q) \in Nat /\ Len(p) = Len(q) - k
         /\ DOMAIN p = 1..(Len(q) - k)
         /\ \A i \in DOMAIN p : k + i \in DOMAIN q /\ p[i] = q[k + i]
<1>1. k \in 1..Len(q) /\ Len(q) \in Nat /\ DOMAIN q = 1..Len(q)
  OBVIOUS
<1>2. p \in Seq(Chunks) /\ Len(p) = Len(q) - k
  BY <1>1
<1>3. DOMAIN p = 1..(Len(q) - k)
  BY <1>2
<1>4. \A i \in 1..(Len(q) - k) : p[i] = q[k + i]
  BY <1>1
<1>5. \A i \in 1..(Len(q) - k) : k + i \in DOMAIN q
  BY <1>1
<1>. QED
  BY <1>1, <1>2, <1>3, <1>4, <1>5

LEMMA SentDrop ==
  ASSUME NEW q \in Seq(Chunks), NEW m \in Nat, NEW ex \in Seq(Nat), SentOK(q, m, ex),
         NEW k \in DOMAIN q
  PROVE  SentOK(SubSeq(q, k + 1, Len(q)), m, ex)
<1>1. PICK p : p = SubSeq(q, k + 1, Len(q))
  OBVIOUS
<1>2. /\ k \in 1..Len(q) /\ Len(q) \in Nat
      /\ DOMAIN p = 1..(Len(q) - k)
      /\ \A i \in DOMAIN p : k + i \in DOMAIN q /\ p[i] = q[k + i]
  BY <1>1, Rest
<1>3. \A i, j \in DOMAIN p : i < j => k + i < k + j
  BY <1>2
<1>4. SentOK(p, m, ex)
  BY <1>2, <1>3 DEF SentOK
<1>. QED
  BY <1>1, <1>4

LEMMA SentCall ==
  ASSUME NEW q \in Seq(Chunks), NEW m \in Nat, NEW ex \in Seq(Nat), SentOK(q, m, ex),
         NEW k \in DOMAIN q, NEW i \in 1..k, q[i].k # "part"
  PROVE  SentOK(SubSeq(q, k + 1, Len(q)), m, Append(ex, q[i].n))
<1>1. PICK p : p = SubSeq(q, k + 1, Len(q))
  OBVIOUS
<1>2. /\ k \in 1..Len(q) /\ Len(q) \in Nat
      /\ DOMAIN p = 1..(Len(q) - k)
      /\ \A j \in DOMAIN p : k + j \in DOMAIN q /\ p[j] = q[k + j]
  BY <1>1, Rest
<1>3. i \in DOMAIN q /\ q[i] \in Chunks /\ q[i].n \in Nat
  <2>1. i \in DOMAIN q
    BY <1>2
  <2>2. q[i] \in Chunks
    BY <2>1
  <2>. QED
    BY <2>1, <2>2 DEF Chunks
<1>4. PICK e : e = Append(ex, q[i].n)
  OBVIOUS
<1>5. /\ Len(ex) \in Nat /\ DOMAIN ex = 1..Len(ex)
      /\ DOMAIN e = 1..(Len(ex) + 1) /\ e[Len(ex) + 1] = q[i].n
      /\ \A j \in DOMAIN ex : e[j] = ex[j]
  BY <1>3, <1>4
<1>6. \A j \in DOMAIN e : j \in DOMAIN ex \/ j = Len(ex) + 1
  BY <1>5
<1>7. q[i].n <= m /\ \A j \in DOMAIN ex : ex[j] < q[i].n
  BY <1>3 DEF SentOK
<1>8. SentOK(p, m, ex)
  BY <1>1, SentDrop
<1>9. \A j \in DOMAIN p : q[i].n < p[j].n
  <2>1. ASSUME NEW j \in DOMAIN p PROVE q[i].n < p[j].n
    <3>1. i < k + j /\ k + j \in DOMAIN q /\ p[j] = q[k + j]
      BY <1>2
    <3>2. Before(q[i], q[k + j])
      BY <1>3, <3>1 DEF SentOK
    <3>. QED
      BY <3>1, <3>2 DEF Before
  <2>. QED
    BY <2>1
<1>10. \A j, l \in DOMAIN e : j < l => e[j] < e[l]
  <2>1. ASSUME NEW j \in DOMAIN e, NEW l \in DOMAIN e, j < l PROVE e[j] < e[l]
    <3>1. j \in DOMAIN ex
      BY <1>5, <1>6, <2>1
    <3>2. CASE l \in DOMAIN ex
      BY <1>5, <1>8, <2>1, <3>1, <3>2 DEF SentOK
    <3>3. CASE l = Len(ex) + 1
      BY <1>5, <1>7, <3>1, <3>3
    <3>. QED
      BY <1>6, <3>2, <3>3
  <2>. QED
    BY <2>1
<1>11. \A j \in DOMAIN e : e[j] <= m /\ \A l \in DOMAIN p : e[j] < p[l].n
  <2>1. ASSUME NEW j \in DOMAIN e PROVE e[j] <= m /\ \A l \in DOMAIN p : e[j] < p[l].n
    <3>1. CASE j \in DOMAIN ex
      BY <1>5, <1>8, <3>1 DEF SentOK
    <3>2. CASE j = Len(ex) + 1
      BY <1>5, <1>7, <1>9, <3>2
    <3>. QED
      BY <1>6, <3>1, <3>2
  <2>. QED
    BY <2>1
<1>12. SentOK(p, m, e)
  BY <1>8, <1>10, <1>11 DEF SentOK
<1>. QED
  BY <1>1, <1>4, <1>12

LEMMA SockTypes ==
  ASSUME CoreInv, NEW s \in Socks
  PROVE  /\ sock[s].in \in Seq(Chunks) /\ sock[s].reqs \in Nat /\ executed[s] \in Seq(Nat)
         /\ replies[s] \in Seq([n : Nat, payload : Nat]) /\ completed[s] \in Nat
<1>1. sock \in [Socks -> AllSocks] /\ executed \in [Socks -> Seq(Nat)]
      /\ replies \in [Socks -> Seq([n : Nat, payload : Nat])] /\ completed \in [Socks -> Nat]
  BY DEF CoreInv, TypeOK, AllSocks
<1>2. sock[s] \in AllSocks
  BY <1>1
<1>. QED
  BY <1>1, <1>2 DEF AllSocks

LEMMA SentInit == Init => SentInv
<1>1. ASSUME Init PROVE SentInv
  <2>1. Open = {}
    BY <1>1 DEF Init, Open, Dead
  <2>2. ASSUME NEW s \in Socks PROVE SentOK(sock[s].in, sock[s].reqs, executed[s])
    <3>1. sock[s].in = <<>> /\ executed[s] = <<>>
      BY <1>1 DEF Init
    <3>. QED
      BY <3>1 DEF SentOK
  <2>. QED
    BY <2>1, <2>2 DEF SentInv
<1>. QED
  BY <1>1

LEMMA SentNext ==
  ASSUME Solo, CoreInv, SentInv, [Next]_vars PROVE SentInv'
<1>1. \A s \in Socks : SentOK(sock[s].in, sock[s].reqs, executed[s])
  BY DEF SentInv
<1>2. \A a \in Open : conn[a].event = "IN" => conn[a].rbuf = <<>>
  BY DEF SentInv, EmptyRead
<1>3. ASSUME \A s \in Socks : SentOK(sock'[s].in, sock'[s].reqs, executed'[s]),
             \A a \in Open' : conn'[a].event = "IN" => conn'[a].rbuf = <<>>
      PROVE  SentInv'
  BY <1>3 DEF SentInv, EmptyRead
<1>4. executed \in [Socks -> Seq(Nat)]
  BY DEF CoreInv, TypeOK
<1>5. CASE Quiet
  <2>1. \A s \in Socks : SentOK(sock'[s].in, sock'[s].reqs, executed'[s])
    BY <1>1, <1>5 DEF Quiet
  <2>2. \A a \in Open' : conn'[a].event = "IN" => conn'[a].rbuf = <<>>
    BY <1>2, <1>5 DEF Quiet, SameData
  <2>. QED
    BY <1>3, <2>1, <2>2
<1>6. ASSUME NEW s \in Socks, NEW a \in Addrs, Accept(s, a) PROVE SentInv'
  <2>1. /\ Open' = Open \cup {a} /\ a \notin Open
        /\ \A b \in Open : SameData(b) /\ conn[b].sock # s
        /\ conn'[a].sock = s /\ conn'[a].event = "IN" /\ conn'[a].rbuf = <<>>
        /\ sock'[s].in = sock[s].in /\ sock'[s].reqs = sock[s].reqs
        /\ \A t \in Socks : t # s => sock'[t] = sock[t]
        /\ UNCHANGED <<executed, replies, completed>>
    BY <1>6, AcceptData
  <2>2. \A t \in Socks : sock'[t].in = sock[t].in /\ sock'[t].reqs = sock[t].reqs
    BY <2>1
  <2>3. \A t \in Socks : SentOK(sock'[t].in, sock'[t].reqs, executed'[t])
    BY <1>1, <2>1, <2>2
  <2>4. \A b \in Open' : conn'[b].event = "IN" => conn'[b].rbuf = <<>>
    BY <1>2, <2>1 DEF SameData
  <2>. QED
    BY <1>3, <2>3, <2>4
<1>7. CASE Client
  <2>1. Open' = Open /\ UNCHANGED <<conn, executed, replies, completed>>
    BY <1>7, ClientData
  <2>2. PICK s \in Socks :
          /\ \A t \in Socks : t # s => sock'[t] = sock[t]
          /\ \/ \E k \in Kinds : Sends(s, k)
             \/ sock'[s].in = sock[s].in /\ sock'[s].reqs = sock[s].reqs
    BY <1>7, ClientData
  <2>3. \A a \in Open' : conn'[a].event = "IN" => conn'[a].rbuf = <<>>
    BY <1>2, <2>1
  <2>4. SentOK(sock'[s].in, sock'[s].reqs, executed'[s])
    <3>1. ASSUME NEW k \in Kinds, Sends(s, k) PROVE SentOK(sock'[s].in, sock'[s].reqs, executed'[s])
      <4>1. PICK q \in Seq(Chunks), m \in Nat, ex \in Seq(Nat) :
              q = sock[s].in /\ m = sock[s].reqs /\ ex = executed[s]
        BY SockTypes
      <4>2. PICK r \in Nat : r = IF k = "part" THEN m ELSE m + 1
        OBVIOUS
      <4>3. sock'[s].in = Append(q, [k |-> k, n |-> m + 1]) /\ sock'[s].reqs = r /\ executed'[s] = ex
        BY <2>1, <3>1, <4>1, <4>2 DEF Sends
      <4>4. SentOK(q, m, ex)
        BY <1>1, <4>1
      <4>5. SentOK(Append(q, [k |-> k, n |-> m + 1]), r, ex)
        BY <4>2, <4>4, SentSend
      <4>. QED
        BY <4>3, <4>5
    <3>2. CASE sock'[s].in = sock[s].in /\ sock'[s].reqs = sock[s].reqs
      BY <1>1, <2>1, <3>2
    <3>. QED
      BY <2>2, <3>1, <3>2
  <2>5. \A t \in Socks : SentOK(sock'[t].in, sock'[t].reqs, executed'[t])
    BY <1>1, <2>1, <2>2, <2>4
  <2>. QED
    BY <1>3, <2>3, <2>5
<1>8. ASSUME NEW a \in Open, Closes(a), UNCHANGED executed PROVE SentInv'
  <2>1. /\ Open' = Open \ {a}
        /\ \A b \in Open' : SameData(b)
        /\ sock'[conn[a].sock].in = <<>> /\ sock'[conn[a].sock].reqs = sock[conn[a].sock].reqs
        /\ \A t \in Socks : t # conn[a].sock => sock'[t] = sock[t]
    BY <1>8 DEF Closes
  <2>2. ASSUME NEW t \in Socks PROVE SentOK(sock'[t].in, sock'[t].reqs, executed'[t])
    <3>1. SentOK(sock[t].in, sock[t].reqs, executed[t])
      BY <1>1
    <3>2. CASE t = conn[a].sock
      <4>1. SentOK(<<>>, sock[t].reqs, executed[t])
        BY <3>1 DEF SentOK
      <4>. QED
        BY <1>8, <2>1, <3>2, <4>1
    <3>3. CASE t # conn[a].sock
      BY <1>8, <2>1, <3>1, <3>3
    <3>. QED
      BY <3>2, <3>3
  <2>3. \A b \in Open' : conn'[b].event = "IN" => conn'[b].rbuf = <<>>
    BY <1>2, <2>1 DEF SameData
  <2>. QED
    BY <1>3, <2>2, <2>3
<1>9. ASSUME NEW a \in Addrs, NEW k, HandleRead(a, k), ~Refused(a) PROVE SentInv'
  <2>1. a \in Open /\ conn[a].event = "IN"
    <3>1. TakeEvent(a, "IN")
      BY <1>9 DEF HandleRead
    <3>. QED
      BY <3>1, EventFacts
  <2>2. conn[a].rbuf = <<>>
    BY <1>2, <2>1
  <2>3. PICK s : s = conn[a].sock
    OBVIOUS
  <2>4. /\ Open' = Open /\ s \in Socks /\ k \in DOMAIN sock[s].in
        /\ \A b \in Open : b # a => SameData(b)
        /\ sock'[s].in = SubSeq(sock[s].in, k + 1, Len(sock[s].in))
        /\ sock'[s].reqs = sock[s].reqs
        /\ \A t \in Socks : t # s => sock'[t] = sock[t]
        /\ ReadNone(a, k, s) \/ \E i \in 1..k : ReadCall(a, i, s)
    <3>1. Reads(a, k, s)
      BY <1>9, <2>2, <2>3, ReadData
    <3>. QED
      BY <3>1 DEF Reads
  <2>5. PICK q \in Seq(Chunks), m \in Nat, ex \in Seq(Nat) :
          q = sock[s].in /\ m = sock[s].reqs /\ ex = executed[s]
    BY <2>4, SockTypes
  <2>6. SentOK(q, m, ex) /\ k \in DOMAIN q
    BY <1>1, <2>4, <2>5
  <2>7. SentOK(sock'[s].in, sock'[s].reqs, executed'[s]) /\ \A t \in Socks : t # s => executed'[t] = executed[t]
    <3>1. CASE ReadNone(a, k, s)
      <4>1. SentOK(SubSeq(q, k + 1, Len(q)), m, ex)
        BY <2>6, SentDrop
      <4>. QED
        BY <2>4, <2>5, <3>1, <4>1 DEF ReadNone
    <3>2. ASSUME NEW i \in 1..k, ReadCall(a, i, s)
          PROVE  SentOK(sock'[s].in, sock'[s].reqs, executed'[s]) /\ \A t \in Socks : t # s => executed'[t] = executed[t]
      <4>1. q[i].k # "part"
        BY <2>5, <3>2 DEF ReadCall
      <4>2. SentOK(SubSeq(q, k + 1, Len(q)), m, Append(ex, q[i].n))
        BY <2>6, <4>1, SentCall
      <4>3. executed'[s] = Append(ex, q[i].n) /\ \A t \in Socks : t # s => executed'[t] = executed[t]
        BY <1>4, <2>4, <2>5, <3>2 DEF ReadCall
      <4>. QED
        BY <2>4, <2>5, <4>2, <4>3
    <3>. QED
      BY <2>4, <3>1, <3>2
  <2>8. \A t \in Socks : SentOK(sock'[t].in, sock'[t].reqs, executed'[t])
    BY <1>1, <2>4, <2>7
  <2>9. \A b \in Open' : conn'[b].event = "IN" => conn'[b].rbuf = <<>>
    BY <1>2, <2>4 DEF SameData, ReadNone, ReadCall
  <2>. QED
    BY <1>3, <2>8, <2>9
<1>10. ASSUME NEW a \in Addrs, NEW out \in {"none", "hdr", "cut", "all"}, HandleOut(a, out) PROVE SentInv'
  <2>1. PICK s : s = conn[a].sock
    OBVIOUS
  <2>2. Wrote(a, out, s)
    BY <1>10, <2>1, WriteData
  <2>3. CASE WroteLast(a, out)
    BY <1>8, <2>2, <2>3 DEF Wrote, WroteLast
  <2>4. CASE WroteNone(a, out) \/ WroteNext(a, out)
    <3>1. UNCHANGED sock /\ Open' = Open
      BY <2>4 DEF WroteNone, WroteNext
    <3>2. \A t \in Socks : SentOK(sock'[t].in, sock'[t].reqs, executed'[t])
      BY <1>1, <2>2, <3>1 DEF Wrote
    <3>3. \A b \in Open' : conn'[b].event = "IN" => conn'[b].rbuf = <<>>
      BY <1>2, <2>2, <2>4, <3>1 DEF SameData, Wrote, WroteNone, WroteNext
    <3>. QED
      BY <1>3, <3>2, <3>3
  <2>. QED
    BY <2>2, <2>3, <2>4 DEF Wrote
<1>. QED
  BY <1>5, <1>6, <1>7, <1>8, <1>9, <1>10, DataSteps

LEMMA SentAlways ==
  ASSUME Solo PROVE Spec => [](CoreInv /\ SentInv)
<1>1. Init => CoreInv /\ SentInv
  BY CoreInit, SentInit
<1>2. CoreInv /\ SentInv /\ [Next]_vars => (CoreInv /\ SentInv)'
  BY CoreNext, SentNext
<1>. QED
  BY <1>1, <1>2, PTL DEF Spec

\* With one reactor and synchronous services, whatever clients pipeline, no
\* request is executed twice or before one that was sent earlier
\* (data_read_callback, write_complete_callback).
THEOREM ExecutedAtMostOnce ==
  ASSUME Solo PROVE Spec => []AtMostOnce
<1>1. CoreInv /\ SentInv => AtMostOnce
  BY DEF SentInv, SentOK, AtMostOnce
<1>. QED
  BY <1>1, SentAlways, PTL
-----------------------------------------------------------------------------
AllReplies == [n : Nat, payload : Nat]

\* The replies rs of a socket in state st: each answers its call in ex, one
\* for each of the m runs of write_complete_callback, whole unless the kernel
\* takes a part of a response.
ReplyOK(st, ex, rs, m) ==
  /\ st \in {"none", "backlog"} => ex = <<>> /\ rs = <<>>
  /\ m = Len(rs)
  /\ \A i \in DOMAIN rs : /\ i \in DOMAIN ex /\ rs[i].n = ex[i]
                          /\ ~PartialWrites => rs[i].payload = rs[i].n

\* A connection that waits for a request has answered every call; one that
\* writes has the response of the last call, and only that, in its buffer.
WaitOK(ev, w, ex, rs) ==
  /\ ev = "IN" \/ ~PartialWrites => ~w.sent
  /\ ev = "IN" => w.hdr = <<>> /\ Len(ex) = Len(rs)
  /\ ev = "OUT" => /\ Len(ex) = Len(rs) + 1 /\ Len(w.hdr) = 1
                   /\ w.hdr[1] = ex[Len(ex)] /\ w.extra = ex[Len(ex)]

ReplyInv ==
  /\ \A s \in Socks : ReplyOK(sock[s].st, executed[s], replies[s], completed[s])
  /\ \A a \in Open :
       WaitOK(conn[a].event, conn[a].wbuf, executed[conn[a].sock], replies[conn[a].sock])

\* write_fd with a single response: its header stays, or a reply goes out.
LEMMA WriteOne ==
  ASSUME NEW w \in AllWbufs, Len(w.hdr) = 1, w.extra = w.hdr[1],
         NEW out \in {"none", "hdr", "cut", "all"}, NEW q, q = Received(w, out)
  PROVE  /\ q \in Seq(AllReplies)
         /\ out \in {"none", "cut"} =>
              /\ q = <<>> /\ WriteFd(w, out).hdr = w.hdr
              /\ out = "none" => WriteFd(w, out) = w
         /\ out \notin {"none", "cut"} =>
              /\ WriteFd(w, out).hdr = <<>>
              /\ Len(q) = 1 /\ q[1].n = w.hdr[1]
              /\ out = "all" /\ ~w.sent => q[1].payload = w.hdr[1]
<1>1. q \in Seq(AllReplies)
  BY WriteFdFacts DEF AllReplies
<1>2. CASE out \in {"none", "cut"}
  <2>1. WriteFd(w, out).hdr = w.hdr
    BY <1>2 DEF WriteFd, AllWbufs
  <2>. QED
    BY <1>1, <1>2, <2>1 DEF WriteFd, Received
<1>3. CASE out \notin {"none", "cut"}
  <2>1. WriteFd(w, out).hdr = <<>>
    BY <1>3 DEF WriteFd, AllWbufs
  <2>2. PICK h \in Seq(Nat), x \in Nat : h = w.hdr /\ x = w.extra
    BY DEF AllWbufs
  <2>3. DOMAIN h = {1} /\ Len(h) = 1
    BY <2>2
  <2>4. q = [i \in DOMAIN h |-> [n |-> h[i], payload |-> IF out = "all" /\ i = Len(h) /\ ~w.sent THEN x ELSE 0]]
    BY <1>3, <2>2 DEF Received
  <2>5. DOMAIN q = {1}
    BY <2>3, <2>4
  <2>6. Len(q) = 1
    BY <1>1, <2>5
  <2>7. q[1].n = h[1] /\ (out = "all" /\ ~w.sent => q[1].payload = x)
    BY <2>3, <2>4
  <2>. QED
    BY <1>1, <1>3, <2>1, <2>2, <2>6, <2>7
<1>. QED
  BY <1>2, <1>3

\* A reply to the last call.
LEMMA ReplyOne ==
  ASSUME NEW ex \in Seq(Nat), NEW rs \in Seq(AllReplies), NEW m \in Nat,
         ReplyOK("open", ex, rs, m), Len(ex) = Len(rs) + 1,
         NEW q \in Seq(AllReplies), Len(q) = 1, q[1].n = ex[Len(ex)],
         ~PartialWrites => q[1].payload = q[1].n
  PROVE  ReplyOK("open", ex, rs \o q, m + 1) /\ Len(ex) = Len(rs \o q)
<1>1. PICK p : p = rs \o q
  OBVIOUS
<1>2. Len(rs) \in Nat /\ DOMAIN rs = 1..Len(rs) /\ DOMAIN ex = 1..(Len(rs) + 1)
  OBVIOUS
<1>3. p \in Seq(AllReplies) /\ Len(p) = Len(rs) + 1
  <2>1. /\ p \in Seq(AllReplies) /\ Len(p) = Len(rs) + Len(q)
    BY <1>1, ConcatProperties
  <2>. QED
    BY <2>1
<1>4. DOMAIN p = 1..(Len(rs) + 1)
  BY <1>3
<1>5. \A i \in DOMAIN rs : p[i] = rs[i]
  BY <1>1, <1>2
<1>6. p[Len(rs) + 1] = q[1]
  <2>1. \A i \in 1..(Len(rs) + Len(q)) :
          (rs \o q)[i] = IF i <= Len(rs) THEN rs[i] ELSE q[i - Len(rs)]
    BY ConcatProperties
  <2>2. Len(rs) + 1 \in 1..(Len(rs) + Len(q)) /\ (Len(rs) + 1) - Len(rs) = 1
        /\ ~(Len(rs) + 1 <= Len(rs))
    BY <1>2
  <2>3. p[Len(rs) + 1] = q[(Len(rs) + 1) - Len(rs)]
    BY <1>1, <2>1, <2>2
  <2>. QED
    BY <2>2, <2>3
<1>7. \A i \in DOMAIN p : i \in DOMAIN rs \/ i = Len(rs) + 1
  BY <1>2, <1>4
<1>8. ASSUME NEW i \in DOMAIN p
      PROVE  i \in DOMAIN ex /\ p[i].n = ex[i] /\ (~PartialWrites => p[i].payload = p[i].n)
  <2>1. CASE i \in DOMAIN rs
    BY <1>5, <2>1 DEF ReplyOK
  <2>2. CASE i = Len(rs) + 1
    BY <1>2, <1>6, <2>2
  <2>. QED
    BY <1>7, <2>1, <2>2
<1>9. ReplyOK("open", ex, p, m + 1)
  BY <1>3, <1>8 DEF ReplyOK
<1>. QED
  BY <1>1, <1>3, <1>9

\* A call.
LEMMA ReplyCall ==
  ASSUME NEW ex \in Seq(Nat), NEW rs \in Seq(AllReplies), NEW m \in Nat,
         ReplyOK("open", ex, rs, m), Len(ex) = Len(rs), NEW n \in Nat
  PROVE  /\ ReplyOK("open", Append(ex, n), rs, m)
         /\ Len(Append(ex, n)) = Len(rs) + 1 /\ Append(ex, n)[Len(rs) + 1] = n
<1>1. PICK e : e = Append(ex, n)
  OBVIOUS
<1>2. DOMAIN e = 1..(Len(ex) + 1) /\ \A i \in DOMAIN ex : i \in DOMAIN e /\ e[i] = ex[i]
  BY <1>1
<1>3. Len(e) = Len(rs) + 1 /\ e[Len(rs) + 1] = n
  BY <1>1
<1>4. ReplyOK("open", e, rs, m)
  BY <1>2 DEF ReplyOK
<1>. QED
  BY <1>1, <1>3, <1>4

LEMMA ReplyInit == Init => ReplyInv
<1>1. ASSUME Init PROVE ReplyInv
  <2>1. Open = {}
    BY <1>1 DEF Init, Open, Dead
  <2>2. ASSUME NEW s \in Socks PROVE ReplyOK(sock[s].st, executed[s], replies[s], completed[s])
    <3>1. executed[s] = <<>> /\ replies[s] = <<>> /\ completed[s] = 0
      BY <1>1 DEF Init
    <3>. QED
      BY <3>1 DEF ReplyOK
  <2>. QED
    BY <2>1, <2>2 DEF ReplyInv
<1>. QED
  BY <1>1

LEMMA ReplyNext ==
  ASSUME Solo, CoreInv, SentInv, ReplyInv, [Next]_vars PROVE ReplyInv'
<1>1. \A s \in Socks : ReplyOK(sock[s].st, executed[s], replies[s], completed[s])
  BY DEF ReplyInv
<1>2. \A a \in Open :
        WaitOK(conn[a].event, conn[a].wbuf, executed[conn[a].sock], replies[conn[a].sock])
  BY DEF ReplyInv
<1>3. ASSUME \A s \in Socks : ReplyOK(sock'[s].st, executed'[s], replies'[s], completed'[s]),
             \A a \in Open' :
               WaitOK(conn'[a].event, conn'[a].wbuf, executed'[conn'[a].sock], replies'[conn'[a].sock])
      PROVE  ReplyInv'
  BY <1>3 DEF ReplyInv
<1>4. /\ executed \in [Socks -> Seq(Nat)] /\ completed \in [Socks -> Nat]
      /\ replies \in [Socks -> Seq(AllReplies)]
  BY DEF CoreInv, TypeOK, AllReplies
<1>5. CASE Quiet
  <2>1. \A s \in Socks : ReplyOK(sock'[s].st, executed'[s], replies'[s], completed'[s])
    BY <1>1, <1>5 DEF Quiet
  <2>2. \A a \in Open' :
          WaitOK(conn'[a].event, conn'[a].wbuf, executed'[conn'[a].sock], replies'[conn'[a].sock])
    BY <1>2, <1>5 DEF Quiet, SameData
  <2>. QED
    BY <1>3, <2>1, <2>2
<1>6. ASSUME NEW s \in Socks, NEW a \in Addrs, Accept(s, a) PROVE ReplyInv'
  <2>1. /\ Open' = Open \cup {a} /\ a \notin Open
        /\ \A b \in Open : SameData(b) /\ conn[b].sock # s
        /\ conn'[a].sock = s /\ conn'[a].event = "IN" /\ conn'[a].wbuf = EmptyWbuf
        /\ sock[s].st = "backlog" /\ sock'[s].st = "open"
        /\ \A t \in Socks : t # s => sock'[t] = sock[t]
        /\ UNCHANGED <<executed, replies, completed>>
    BY <1>6, AcceptData
  <2>2. ReplyOK("backlog", executed[s], replies[s], completed[s])
    BY <1>1, <2>1
  <2>3. ReplyOK("open", executed[s], replies[s], completed[s]) /\ Len(executed[s]) = Len(replies[s])
    BY <2>2 DEF ReplyOK
  <2>4. \A t \in Socks : ReplyOK(sock'[t].st, executed'[t], replies'[t], completed'[t])
    BY <1>1, <2>1, <2>3
  <2>5. WaitOK("IN", EmptyWbuf, executed[s], replies[s])
    BY <2>3 DEF WaitOK, EmptyWbuf
  <2>6. \A b \in Open' :
          WaitOK(conn'[b].event, conn'[b].wbuf, executed'[conn'[b].sock], replies'[conn'[b].sock])
    BY <1>2, <2>1, <2>5 DEF SameData
  <2>. QED
    BY <1>3, <2>4, <2>6
<1>7. CASE Client
  <2>1. Open' = Open /\ UNCHANGED <<conn, executed, replies, completed>>
    BY <1>7, ClientData
  <2>2. PICK s \in Socks :
          /\ \A t \in Socks : t # s => sock'[t] = sock[t]
          /\ \/ \E k \in Kinds : Sends(s, k)
             \/ /\ sock'[s].in = sock[s].in /\ sock'[s].reqs = sock[s].reqs
                /\ \/ sock'[s].st = sock[s].st
                   \/ sock[s].st = "none" /\ sock'[s].st = "backlog"
    BY <1>7, ClientData
  <2>3. sock'[s].st = sock[s].st \/ (sock[s].st = "none" /\ sock'[s].st = "backlog")
    <3>1. ASSUME NEW k \in Kinds, Sends(s, k) PROVE sock'[s].st = sock[s].st
      BY <3>1 DEF Sends
    <3>. QED
      BY <2>2, <3>1
  <2>4. ReplyOK(sock'[s].st, executed[s], replies[s], completed[s])
    <3>1. ReplyOK(sock[s].st, executed[s], replies[s], completed[s])
      BY <1>1
    <3>. QED
      BY <2>3, <3>1 DEF ReplyOK
  <2>5. \A t \in Socks : ReplyOK(sock'[t].st, executed'[t], replies'[t], completed'[t])
    BY <1>1, <2>1, <2>2, <2>4
  <2>6. \A a \in Open' :
          WaitOK(conn'[a].event, conn'[a].wbuf, executed'[conn'[a].sock], replies'[conn'[a].sock])
    BY <1>2, <2>1
  <2>. QED
    BY <1>3, <2>5, <2>6
<1>8. ASSUME NEW a \in Open, Closes(a), UNCHANGED <<executed, replies, completed>> PROVE ReplyInv'
  <2>1. /\ Open' = Open \ {a}
        /\ \A b \in Open' : SameData(b)
        /\ sock'[conn[a].sock].st = "closed"
        /\ \A t \in Socks : t # conn[a].sock => sock'[t] = sock[t]
    BY <1>8 DEF Closes
  <2>2. ASSUME NEW t \in Socks PROVE ReplyOK(sock'[t].st, executed'[t], replies'[t], completed'[t])
    <3>1. ReplyOK(sock[t].st, executed[t], replies[t], completed[t])
      BY <1>1
    <3>2. CASE t = conn[a].sock
      <4>1. ReplyOK("closed", executed[t], replies[t], completed[t])
        BY <3>1 DEF ReplyOK
      <4>. QED
        BY <1>8, <2>1, <3>2, <4>1
    <3>3. CASE t # conn[a].sock
      BY <1>8, <2>1, <3>1, <3>3
    <3>. QED
      BY <3>2, <3>3
  <2>3. \A b \in Open' :
          WaitOK(conn'[b].event, conn'[b].wbuf, executed'[conn'[b].sock], replies'[conn'[b].sock])
    BY <1>2, <1>8, <2>1 DEF SameData
  <2>. QED
    BY <1>3, <2>2, <2>3
<1>9. ASSUME NEW a \in Addrs, NEW k, HandleRead(a, k), ~Refused(a) PROVE ReplyInv'
  <2>1. a \in Open /\ conn[a].event = "IN" /\ sock[conn[a].sock].st = "open"
    <3>1. TakeEvent(a, "IN")
      BY <1>9 DEF HandleRead
    <3>2. a \in Open /\ conn[a].event = "IN"
      BY <3>1, EventFacts
    <3>. QED
      BY <3>2, OpenFacts
  <2>2. conn[a].rbuf = <<>>
    BY <2>1 DEF SentInv, EmptyRead
  <2>3. PICK s : s = conn[a].sock
    OBVIOUS
  <2>4. /\ Open' = Open /\ s \in Socks /\ k \in DOMAIN sock[s].in
        /\ \A b \in Open : b # a => SameData(b) /\ conn[b].sock # s
        /\ conn'[a].sock = s
        /\ \A t \in Socks : sock'[t].st = sock[t].st
        /\ UNCHANGED <<replies, completed>>
        /\ ReadNone(a, k, s) \/ \E i \in 1..k : ReadCall(a, i, s)
    <3>1. Reads(a, k, s)
      BY <1>9, <2>2, <2>3, ReadData
    <3>. QED
      BY <3>1 DEF Reads
  <2>5. PICK ex \in Seq(Nat), rs \in Seq(AllReplies), m \in Nat :
          ex = executed[s] /\ rs = replies[s] /\ m = completed[s]
    BY <1>4, <2>4
  <2>6. PICK w : w = conn[a].wbuf
    OBVIOUS
  <2>7. /\ ReplyOK("open", ex, rs, m) /\ WaitOK("IN", w, ex, rs)
    BY <1>1, <1>2, <2>1, <2>3, <2>4, <2>5, <2>6
  <2>8. /\ ReplyOK("open", executed'[s], rs, m)
        /\ WaitOK(conn'[a].event, conn'[a].wbuf, executed'[s], rs)
        /\ \A t \in Socks : t # s => executed'[t] = executed[t]
    <3>1. CASE ReadNone(a, k, s)
      BY <2>5, <2>6, <2>7, <3>1 DEF ReadNone
    <3>2. ASSUME NEW i \in 1..k, ReadCall(a, i, s)
          PROVE  /\ ReplyOK("open", executed'[s], rs, m)
                 /\ WaitOK(conn'[a].event, conn'[a].wbuf, executed'[s], rs)
                 /\ \A t \in Socks : t # s => executed'[t] = executed[t]
      <4>1. PICK n \in Nat : n = sock[s].in[i].n
        <5>1. sock[s].in \in Seq(Chunks)
          BY <2>4, SockTypes
        <5>2. i \in DOMAIN sock[s].in
          BY <2>4, <5>1
        <5>3. sock[s].in[i] \in Chunks
          BY <5>1, <5>2
        <5>. QED
          BY <5>3 DEF Chunks
      <4>2. /\ executed' = [executed EXCEPT ![s] = Append(ex, n)]
            /\ conn'[a].event = "OUT"
            /\ conn'[a].wbuf.hdr = Append(w.hdr, n)
            /\ conn'[a].wbuf.extra = n /\ conn'[a].wbuf.sent = w.sent
        BY <2>5, <2>6, <3>2, <4>1 DEF ReadCall
      <4>3. w.hdr = <<>> /\ Len(ex) = Len(rs) /\ ~w.sent
        BY <2>7 DEF WaitOK
      <4>4. PICK e : e = Append(ex, n)
        OBVIOUS
      <4>5. ReplyOK("open", e, rs, m) /\ Len(e) = Len(rs) + 1 /\ e[Len(rs) + 1] = n
        BY <2>7, <4>3, <4>4, ReplyCall
      <4>6. Len(conn'[a].wbuf.hdr) = 1 /\ conn'[a].wbuf.hdr[1] = n
        BY <4>2, <4>3
      <4>7. WaitOK("OUT", conn'[a].wbuf, e, rs)
        BY <4>2, <4>3, <4>5, <4>6 DEF WaitOK
      <4>8. executed'[s] = e /\ \A t \in Socks : t # s => executed'[t] = executed[t]
        BY <1>4, <2>4, <4>2, <4>4
      <4>. QED
        BY <4>2, <4>5, <4>7, <4>8
    <3>. QED
      BY <2>4, <3>1, <3>2
  <2>9. \A t \in Socks : ReplyOK(sock'[t].st, executed'[t], replies'[t], completed'[t])
    BY <1>1, <2>1, <2>3, <2>4, <2>5, <2>8
  <2>10. \A b \in Open' :
          WaitOK(conn'[b].event, conn'[b].wbuf, executed'[conn'[b].sock], replies'[conn'[b].sock])
    <3>1. ASSUME NEW b \in Open, b # a
          PROVE  WaitOK(conn'[b].event, conn'[b].wbuf, executed'[conn'[b].sock], replies'[conn'[b].sock])
      <4>1. SameData(b) /\ conn[b].sock # s /\ conn[b].sock \in Socks
        BY <2>4, <3>1, OpenFacts
      <4>. QED
        BY <1>2, <2>4, <2>8, <4>1 DEF SameData
    <3>. QED
      BY <2>4, <2>5, <2>8, <3>1
  <2>. QED
    BY <1>3, <2>9, <2>10
<1>10. ASSUME NEW a \in Addrs, NEW out \in {"none", "hdr", "cut", "all"}, HandleOut(a, out) PROVE ReplyInv'
  <2>1. PICK s : s = conn[a].sock
    OBVIOUS
  <2>2. Wrote(a, out, s)
    BY <1>10, <2>1, WriteData
  <2>3. /\ a \in Open /\ conn[a].event = "OUT" /\ s \in Socks /\ out \in Outcomes(s)
        /\ conn[a].wbuf \in AllWbufs /\ conn'[a].sock = s
        /\ replies' = [replies EXCEPT ![s] = replies[s] \o Received(conn[a].wbuf, out)]
        /\ UNCHANGED executed
        /\ \A b \in Open : b # a => SameData(b) /\ conn[b].sock # s
    BY <2>2 DEF Wrote
  <2>4. PICK ex \in Seq(Nat), rs \in Seq(AllReplies), m \in Nat, w \in AllWbufs :
          ex = executed[s] /\ rs = replies[s] /\ m = completed[s] /\ w = conn[a].wbuf
    BY <1>4, <2>3
  <2>5. sock[s].st = "open"
    <3>1. a \in Open
      BY <2>3
    <3>2. sock[conn[a].sock].st = "open"
      BY <3>1, OpenFacts
    <3>. QED
      BY <2>1, <3>2
  <2>6. ReplyOK("open", ex, rs, m) /\ WaitOK("OUT", w, ex, rs)
    BY <1>1, <1>2, <2>1, <2>3, <2>4, <2>5
  <2>7. /\ ~PartialWrites => ~w.sent
        /\ Len(ex) = Len(rs) + 1 /\ Len(w.hdr) = 1
        /\ w.hdr[1] = ex[Len(ex)] /\ w.extra = ex[Len(ex)] /\ w.extra = w.hdr[1]
    BY <2>6 DEF WaitOK
  <2>8. PICK q : q = Received(w, out)
    OBVIOUS
  <2>9. /\ q \in Seq(AllReplies)
        /\ out \in {"none", "cut"} =>
             /\ q = <<>> /\ WriteFd(w, out).hdr = w.hdr
             /\ out = "none" => WriteFd(w, out) = w
        /\ out \notin {"none", "cut"} =>
             /\ WriteFd(w, out).hdr = <<>>
             /\ Len(q) = 1 /\ q[1].n = w.hdr[1]
             /\ out = "all" /\ ~w.sent => q[1].payload = w.hdr[1]
    BY <2>7, <2>8, WriteOne
  <2>10. replies'[s] = rs \o q /\ \A t \in Socks : t # s => replies'[t] = replies[t]
    BY <1>4, <2>3, <2>4, <2>8
  <2>11. ASSUME NEW b \in Open, b # a
         PROVE  WaitOK(conn'[b].event, conn'[b].wbuf, executed'[conn'[b].sock], replies'[conn'[b].sock])
    <3>1. SameData(b) /\ conn[b].sock # s /\ conn[b].sock \in Socks
      BY <2>3, <2>11, OpenFacts
    <3>. QED
      BY <1>2, <2>3, <2>10, <3>1 DEF SameData
  <2>12. CASE out \in {"none", "cut"}
    <3>0. PICK v \in AllWbufs : v = WriteFd(w, out) /\ v.extra = w.extra
      BY WriteFdFacts
    <3>1. v.hdr = w.hdr /\ rs \o q = rs /\ v.hdr # <<>>
      BY <2>7, <2>9, <2>12, <3>0
    <3>2. WroteNone(a, out)
      BY <2>2, <2>4, <3>0, <3>1 DEF Wrote, WroteNext, WroteLast
    <3>3. UNCHANGED <<sock, completed>> /\ Open' = Open /\ conn'[a].event = "OUT" /\ conn'[a].wbuf = v
      BY <2>4, <3>0, <3>2 DEF WroteNone
    <3>6. ~PartialWrites => ~v.sent
      BY <2>3, <2>7, <2>9, <2>12, <3>0 DEF Outcomes
    <3>7. WaitOK("OUT", v, ex, rs)
      BY <2>7, <3>0, <3>1, <3>6 DEF WaitOK
    <3>4. \A t \in Socks : ReplyOK(sock'[t].st, executed'[t], replies'[t], completed'[t])
      BY <1>1, <2>3, <2>4, <2>10, <3>1, <3>3
    <3>5. \A b \in Open' :
            WaitOK(conn'[b].event, conn'[b].wbuf, executed'[conn'[b].sock], replies'[conn'[b].sock])
      BY <2>3, <2>4, <2>10, <2>11, <3>1, <3>3, <3>7
    <3>. QED
      BY <1>3, <3>4, <3>5
  <2>13. CASE out \notin {"none", "cut"}
    <3>1. /\ WriteFd(w, out).hdr = <<>> /\ Len(q) = 1 /\ q[1].n = ex[Len(ex)]
          /\ out = "all" /\ ~w.sent => q[1].payload = q[1].n
      BY <2>7, <2>9, <2>13
    <3>2. ~PartialWrites => out = "all" /\ ~w.sent
      BY <2>3, <2>7, <2>13 DEF Outcomes
    <3>3. ReplyOK("open", ex, rs \o q, m + 1) /\ Len(ex) = Len(rs \o q)
      <4>1. ~PartialWrites => q[1].payload = q[1].n
        BY <3>1, <3>2
      <4>2. ReplyOK("open", ex, rs, m) /\ Len(ex) = Len(rs) + 1 /\ q \in Seq(AllReplies)
        BY <2>6, <2>7, <2>9
      <4>. QED
        BY <3>1, <4>1, <4>2, ReplyOne
    <3>4. /\ WroteNext(a, out) \/ WroteLast(a, out)
          /\ completed' = [completed EXCEPT ![s] = completed[s] + 1]
      BY <2>2, <2>4, <3>1 DEF Wrote, WroteNone
    <3>5. completed'[s] = m + 1 /\ \A t \in Socks : t # s => completed'[t] = completed[t]
      BY <1>4, <2>3, <2>4, <3>4
    <3>6. CASE WroteNext(a, out)
      <4>1. /\ UNCHANGED sock /\ Open' = Open /\ conn'[a].event = "IN"
            /\ conn'[a].wbuf.hdr = <<>> /\ ~conn'[a].wbuf.sent
        BY <3>6 DEF WroteNext
      <4>2. \A t \in Socks : ReplyOK(sock'[t].st, executed'[t], replies'[t], completed'[t])
        BY <1>1, <2>3, <2>4, <2>5, <2>10, <3>3, <3>5, <4>1
      <4>3. WaitOK("IN", conn'[a].wbuf, ex, rs \o q)
        BY <3>3, <4>1 DEF WaitOK
      <4>4. \A b \in Open' :
              WaitOK(conn'[b].event, conn'[b].wbuf, executed'[conn'[b].sock], replies'[conn'[b].sock])
        BY <2>3, <2>4, <2>10, <2>11, <4>1, <4>3
      <4>. QED
        BY <1>3, <4>2, <4>4
    <3>7. CASE WroteLast(a, out)
      <4>1. /\ Open' = Open \ {a} /\ sock'[s].st = "closed"
            /\ \A t \in Socks : t # s => sock'[t] = sock[t]
        BY <2>1, <3>7 DEF WroteLast, Closes
      <4>2. ReplyOK("closed", ex, rs \o q, m + 1)
        BY <3>3 DEF ReplyOK
      <4>3. \A t \in Socks : ReplyOK(sock'[t].st, executed'[t], replies'[t], completed'[t])
        BY <1>1, <2>3, <2>4, <2>10, <3>5, <4>1, <4>2
      <4>4. \A b \in Open' :
              WaitOK(conn'[b].event, conn'[b].wbuf, executed'[conn'[b].sock], replies'[conn'[b].sock])
        BY <2>11, <4>1
      <4>. QED
        BY <1>3, <4>3, <4>4
    <3>. QED
      BY <3>4, <3>6, <3>7
  <2>. QED
    BY <2>12, <2>13
<1>. QED
  BY <1>5, <1>6, <1>7, <1>8, <1>9, <1>10, DataSteps

LEMMA ReplyAlways ==
  ASSUME Solo PROVE Spec => [](CoreInv /\ SentInv /\ ReplyInv)
<1>1. Init => CoreInv /\ SentInv /\ ReplyInv
  BY CoreInit, SentInit, ReplyInit
<1>2. CoreInv /\ SentInv /\ ReplyInv /\ [Next]_vars => (CoreInv /\ SentInv /\ ReplyInv)'
  BY CoreNext, SentNext, ReplyNext
<1>. QED
  BY <1>1, <1>2, PTL DEF Spec

\* With one reactor and synchronous services the i-th response on a connection
\* answers its i-th call, however writes are split and requests pipelined
\* (response_callback, handle_events, write_complete_callback).
THEOREM RepliesAlwaysMatch ==
  ASSUME Solo PROVE Spec => []RepliesMatch
<1>1. CoreInv /\ SentInv /\ ReplyInv => RepliesMatch
  BY DEF ReplyInv, ReplyOK, RepliesMatch
<1>. QED
  BY <1>1, ReplyAlways, PTL

\* When the kernel takes a response whole or not at all,
\* write_complete_callback runs only for responses whose payload went out.
\* The hypothesis is needed: readable() == 0 says nothing of the payload.
THEOREM CompleteIsWritten ==
  ASSUME Solo, ~PartialWrites PROVE Spec => []CompleteMeansWritten
<1>1. CoreInv /\ SentInv /\ ReplyInv => CompleteMeansWritten
  <2>1. ASSUME CoreInv, ReplyInv, NEW s \in Socks, NEW i \in 1..completed[s]
        PROVE  i \in DOMAIN replies[s] /\ replies[s][i].payload = replies[s][i].n
    <3>1. ReplyOK(sock[s].st, executed[s], replies[s], completed[s])
      BY <2>1 DEF ReplyInv
    <3>2. replies[s] \in Seq(AllReplies)
      BY <2>1, SockTypes DEF AllReplies
    <3>3. i \in DOMAIN replies[s]
      BY <3>1, <3>2 DEF ReplyOK
    <3>. QED
      BY <3>1, <3>3 DEF ReplyOK
  <2>. QED
    BY <2>1 DEF CompleteMeansWritten
<1>. QED
  BY <1>1, ReplyAlways, PTL
-----------------------------------------------------------------------------
\* Whether a complete request waits among the chunks q, that only the last may
\* complete.
Waiting(q) == IF q # <<>> /\ q[Len(q)].k # "part" THEN 1 ELSE 0

\* Clients that wait for their answers have one request on its way at most.
OneOK(st, q, m, ex) ==
  /\ \A i \in DOMAIN q : q[i].k # "part" => i = Len(q)
  /\ st # "closed" => m = Len(ex) + Waiting(q)

OneInv ==
  /\ \A s \in Socks : OneOK(sock[s].st, sock[s].in, sock[s].reqs, executed[s])
  /\ \A a \in Open : conn[a].event = "OUT" => sock[conn[a].sock].in = <<>>

\* The next chunk, when everything sent was executed.
LEMMA OneSend ==
  ASSUME NEW q \in Seq(Chunks), NEW m \in Nat, NEW ex \in Seq(Nat), NEW st, st # "closed",
         OneOK(st, q, m, ex), m <= Len(ex),
         NEW k \in Kinds, NEW r \in Nat, r = IF k = "part" THEN m ELSE m + 1
  PROVE  OneOK(st, Append(q, [k |-> k, n |-> m + 1]), r, ex) /\ m = Len(ex)
<1>1. PICK c \in Chunks : c = [k |-> k, n |-> m + 1] /\ c.k = k
  <2>1. [k |-> k, n |-> m + 1] \in Chunks
    BY DEF Chunks
  <2>. QED
    BY <2>1
<1>2. PICK p : p = Append(q, c)
  OBVIOUS
<1>3. Len(q) \in Nat /\ DOMAIN q = 1..Len(q) /\ Len(ex) \in Nat
  OBVIOUS
<1>4. /\ p \in Seq(Chunks) /\ DOMAIN p = 1..(Len(q) + 1) /\ Len(p) = Len(q) + 1
      /\ p[Len(q) + 1] = c /\ \A i \in DOMAIN q : p[i] = q[i]
  BY <1>2
<1>5. Waiting(q) \in {0, 1} /\ m = Len(ex) + Waiting(q)
  BY DEF OneOK, Waiting
<1>6. Waiting(q) = 0 /\ m = Len(ex)
  BY <1>3, <1>5
<1>7. ASSUME NEW i \in DOMAIN q PROVE q[i].k = "part"
  <2>1. q # <<>> /\ Len(q) \in DOMAIN q
    BY <1>3
  <2>2. q[Len(q)].k = "part"
    BY <1>6, <2>1 DEF Waiting
  <2>. QED
    BY <2>2 DEF OneOK
<1>8. \A i \in DOMAIN p : p[i].k # "part" => i = Len(p)
  BY <1>3, <1>4, <1>7
<1>9. Waiting(p) = IF k = "part" THEN 0 ELSE 1
  <2>1. p # <<>> /\ p[Len(p)] = c
    BY <1>3, <1>4
  <2>. QED
    BY <1>1, <2>1 DEF Waiting
<1>10. r = Len(ex) + Waiting(p)
  BY <1>3, <1>6, <1>9
<1>11. OneOK(st, p, r, ex)
  BY <1>8, <1>10 DEF OneOK
<1>. QED
  BY <1>1, <1>2, <1>6, <1>11

\* Reading chunks that complete nothing.
LEMMA OneDrop ==
  ASSUME NEW q \in Seq(Chunks), NEW m \in Nat, NEW ex \in Seq(Nat), NEW st,
         OneOK(st, q, m, ex), NEW k \in DOMAIN q, \A i \in 1..k : q[i].k = "part"
  PROVE  OneOK(st, SubSeq(q, k + 1, Len(q)), m, ex)
<1>1. PICK p : p = SubSeq(q, k + 1, Len(q))
  OBVIOUS
<1>2. /\ p \in Seq(Chunks) /\ k \in 1..Len(q) /\ Len(q) \in Nat /\ Len(p) = Len(q) - k
      /\ DOMAIN p = 1..(Len(q) - k)
      /\ \A i \in DOMAIN p : k + i \in DOMAIN q /\ p[i] = q[k + i]
  BY <1>1, Rest
<1>3. ASSUME NEW i \in DOMAIN p, p[i].k # "part" PROVE i = Len(p)
  <2>1. k + i \in DOMAIN q /\ q[k + i].k # "part"
    BY <1>2, <1>3
  <2>2. k + i = Len(q)
    BY <2>1 DEF OneOK
  <2>. QED
    BY <1>2, <2>2
<1>4. Waiting(p) = Waiting(q)
  <2>1. q # <<>>
    BY <1>2
  <2>2. CASE k = Len(q)
    <3>1. p = <<>> /\ q[Len(q)].k = "part"
      BY <1>2, <2>2
    <3>. QED
      BY <3>1 DEF Waiting
  <2>3. CASE k # Len(q)
    <3>0. PICK l \in Nat, x \in Nat : l = Len(q) /\ x = Len(p)
      BY <1>2
    <3>1. Len(p) \in DOMAIN p /\ k + Len(p) = Len(q)
      <4>1. x = l - k /\ k \in 1..l /\ k # l /\ DOMAIN p = 1..(l - k)
        BY <1>2, <2>3, <3>0
      <4>2. x \in 1..(l - k) /\ k + x = l
        BY <4>1
      <4>. QED
        BY <3>0, <4>1, <4>2
    <3>2. p # <<>> /\ p[Len(p)] = q[Len(q)]
      BY <1>2, <3>1
    <3>. QED
      BY <2>1, <3>2 DEF Waiting
  <2>. QED
    BY <2>2, <2>3
<1>5. OneOK(st, p, m, ex)
  BY <1>3, <1>4 DEF OneOK
<1>. QED
  BY <1>1, <1>5

\* Reading the chunk that completes the request.
LEMMA OneCall ==
  ASSUME NEW q \in Seq(Chunks), NEW m \in Nat, NEW ex \in Seq(Nat), NEW st,
         OneOK(st, q, m, ex), NEW k \in DOMAIN q, NEW i \in 1..k, q[i].k # "part", NEW n \in Nat
  PROVE  OneOK(st, <<>>, m, Append(ex, n)) /\ k = Len(q)
<1>1. k \in 1..Len(q) /\ Len(q) \in Nat /\ i \in DOMAIN q /\ q # <<>>
  OBVIOUS
<1>2. i = Len(q)
  BY <1>1 DEF OneOK
<1>3. Waiting(q) = 1 /\ Waiting(<<>>) = 0 /\ k = Len(q)
  BY <1>1, <1>2 DEF Waiting
<1>4. Len(Append(ex, n)) = Len(ex) + 1 /\ Len(ex) \in Nat
  OBVIOUS
<1>5. st # "closed" => m = Len(Append(ex, n)) + Waiting(<<>>)
  BY <1>3, <1>4 DEF OneOK
<1>6. OneOK(st, <<>>, m, Append(ex, n))
  BY <1>5 DEF OneOK
<1>. QED
  BY <1>3, <1>6

LEMMA OneInit == Init => OneInv
<1>1. ASSUME Init PROVE OneInv
  <2>1. Open = {}
    BY <1>1 DEF Init, Open, Dead
  <2>2. ASSUME NEW s \in Socks PROVE OneOK(sock[s].st, sock[s].in, sock[s].reqs, executed[s])
    <3>1. sock[s].in = <<>> /\ sock[s].reqs = 0 /\ executed[s] = <<>>
      BY <1>1 DEF Init
    <3>. QED
      BY <3>1 DEF OneOK, Waiting
  <2>. QED
    BY <2>1, <2>2 DEF OneInv
<1>. QED
  BY <1>1

LEMMA OneNext ==
  ASSUME Solo, ~Pipelining, CoreInv, SentInv, ReplyInv, OneInv, [Next]_vars PROVE OneInv'
<1>1. \A s \in Socks : OneOK(sock[s].st, sock[s].in, sock[s].reqs, executed[s])
  BY DEF OneInv
<1>2. \A a \in Open : conn[a].event = "OUT" => sock[conn[a].sock].in = <<>>
  BY DEF OneInv
<1>3. ASSUME \A s \in Socks : OneOK(sock'[s].st, sock'[s].in, sock'[s].reqs, executed'[s]),
             \A a \in Open' : conn'[a].event = "OUT" => sock'[conn'[a].sock].in = <<>>
      PROVE  OneInv'
  BY <1>3 DEF OneInv
<1>4. executed \in [Socks -> Seq(Nat)]
  BY DEF CoreInv, TypeOK
<1>5. CASE Quiet
  <2>1. \A s \in Socks : OneOK(sock'[s].st, sock'[s].in, sock'[s].reqs, executed'[s])
    BY <1>1, <1>5 DEF Quiet
  <2>2. \A a \in Open' : conn'[a].event = "OUT" => sock'[conn'[a].sock].in = <<>>
    BY <1>2, <1>5 DEF Quiet, SameData
  <2>. QED
    BY <1>3, <2>1, <2>2
<1>6. ASSUME NEW s \in Socks, NEW a \in Addrs, Accept(s, a) PROVE OneInv'
  <2>1. /\ Open' = Open \cup {a} /\ a \notin Open
        /\ \A b \in Open : SameData(b) /\ conn[b].sock # s
        /\ conn'[a].event = "IN"
        /\ sock[s].st = "backlog" /\ sock'[s].st = "open"
        /\ sock'[s].in = sock[s].in /\ sock'[s].reqs = sock[s].reqs
        /\ \A t \in Socks : t # s => sock'[t] = sock[t]
        /\ UNCHANGED <<executed, replies, completed>>
    BY <1>6, AcceptData
  <2>2. OneOK("backlog", sock[s].in, sock[s].reqs, executed[s])
    BY <1>1, <2>1
  <2>3. OneOK("open", sock[s].in, sock[s].reqs, executed[s])
    BY <2>2 DEF OneOK
  <2>4. \A t \in Socks : OneOK(sock'[t].st, sock'[t].in, sock'[t].reqs, executed'[t])
    BY <1>1, <2>1, <2>3
  <2>5. ASSUME NEW b \in Open', conn'[b].event = "OUT" PROVE sock'[conn'[b].sock].in = <<>>
    <3>1. b \in Open /\ SameData(b) /\ conn[b].sock # s
      BY <2>1, <2>5
    <3>2. conn[b].sock \in Socks
      BY <3>1, OpenFacts
    <3>. QED
      BY <1>2, <2>1, <2>5, <3>1, <3>2 DEF SameData
  <2>. QED
    BY <1>3, <2>4, <2>5
<1>7. CASE Client
  <2>1. Open' = Open /\ UNCHANGED <<conn, executed, replies, completed>>
    BY <1>7, ClientData
  <2>2. PICK s \in Socks :
          /\ \A t \in Socks : t # s => sock'[t] = sock[t]
          /\ \/ \E k \in Kinds : Sends(s, k)
             \/ /\ sock'[s].in = sock[s].in /\ sock'[s].reqs = sock[s].reqs
                /\ \/ sock'[s].st = sock[s].st
                   \/ sock[s].st = "none" /\ sock'[s].st = "backlog"
    BY <1>7, ClientData
  <2>3. ASSUME NEW k \in Kinds, Sends(s, k) PROVE OneInv'
    <3>1. PICK q \in Seq(Chunks), m \in Nat, ex \in Seq(Nat), rs \in Seq(AllReplies) :
            q = sock[s].in /\ m = sock[s].reqs /\ ex = executed[s] /\ rs = replies[s]
      BY SockTypes DEF AllReplies
    <3>2. PICK r \in Nat : r = IF k = "part" THEN m ELSE m + 1
      OBVIOUS
    <3>3. /\ sock'[s].in = Append(q, [k |-> k, n |-> m + 1]) /\ sock'[s].reqs = r
          /\ sock'[s].st = sock[s].st /\ sock[s].st # "closed" /\ Len(rs) = m
      BY <2>3, <3>1, <3>2 DEF Sends
    <3>4. m <= Len(ex)
      <4>1. ReplyOK(sock[s].st, ex, rs, completed[s])
        BY <3>1 DEF ReplyInv
      <4>2. CASE m = 0
        BY <4>2
      <4>3. CASE m # 0
        <5>1. m \in DOMAIN rs
          BY <3>3, <4>3
        <5>2. m \in DOMAIN ex
          BY <4>1, <5>1 DEF ReplyOK
        <5>. QED
          BY <5>2
      <4>. QED
        BY <4>2, <4>3
    <3>5. OneOK(sock[s].st, q, m, ex)
      BY <1>1, <3>1
    <3>6. OneOK(sock[s].st, Append(q, [k |-> k, n |-> m + 1]), r, ex) /\ m = Len(ex)
      <4>1. PICK st : st = sock[s].st
        OBVIOUS
      <4>2. st # "closed" /\ OneOK(st, q, m, ex)
        BY <3>3, <3>5, <4>1
      <4>3. OneOK(st, Append(q, [k |-> k, n |-> m + 1]), r, ex) /\ m = Len(ex)
        BY <3>2, <3>4, <4>2, OneSend
      <4>. QED
        BY <4>1, <4>3
    <3>7. OneOK(sock'[s].st, sock'[s].in, sock'[s].reqs, executed'[s])
      BY <2>1, <3>1, <3>3, <3>6
    <3>8. \A t \in Socks : OneOK(sock'[t].st, sock'[t].in, sock'[t].reqs, executed'[t])
      BY <1>1, <2>1, <2>2, <3>7
    <3>9. ASSUME NEW a \in Open', conn'[a].event = "OUT" PROVE sock'[conn'[a].sock].in = <<>>
      <4>1. a \in Open /\ conn'[a] = conn[a]
        BY <2>1
      <4>2. conn[a].sock \in Socks
        BY <4>1, OpenFacts
      <4>3. WaitOK("OUT", conn[a].wbuf, executed[conn[a].sock], replies[conn[a].sock])
        BY <3>9, <4>1 DEF ReplyInv
      <4>4. conn[a].sock # s
        <5>1. SUFFICES ASSUME conn[a].sock = s PROVE FALSE
          OBVIOUS
        <5>2. Len(ex) = Len(rs) + 1
          BY <3>1, <4>3, <5>1 DEF WaitOK
        <5>. QED
          BY <3>3, <3>6, <5>2
      <4>. QED
        BY <1>2, <2>2, <3>9, <4>1, <4>2, <4>4
    <3>. QED
      BY <1>3, <3>8, <3>9
  <2>4. CASE /\ sock'[s].in = sock[s].in /\ sock'[s].reqs = sock[s].reqs
             /\ \/ sock'[s].st = sock[s].st
                \/ sock[s].st = "none" /\ sock'[s].st = "backlog"
    <3>1. OneOK(sock[s].st, sock[s].in, sock[s].reqs, executed[s])
      BY <1>1
    <3>2. OneOK(sock'[s].st, sock'[s].in, sock'[s].reqs, executed'[s])
      BY <2>1, <2>4, <3>1 DEF OneOK
    <3>3. \A t \in Socks : OneOK(sock'[t].st, sock'[t].in, sock'[t].reqs, executed'[t])
      BY <1>1, <2>1, <2>2, <3>2
    <3>4. ASSUME NEW a \in Open', conn'[a].event = "OUT" PROVE sock'[conn'[a].sock].in = <<>>
      <4>1. a \in Open /\ conn'[a] = conn[a]
        BY <2>1
      <4>2. conn[a].sock \in Socks
        BY <4>1, OpenFacts
      <4>. QED
        BY <1>2, <2>2, <2>4, <3>4, <4>1, <4>2
    <3>. QED
      BY <1>3, <3>3, <3>4
  <2>. QED
    BY <2>2, <2>3, <2>4
<1>8. ASSUME NEW a \in Open, Closes(a), UNCHANGED executed PROVE OneInv'
  <2>1. /\ Open' = Open \ {a}
        /\ \A b \in Open' : SameData(b) /\ conn[b].sock # conn[a].sock
        /\ sock'[conn[a].sock].st = "closed" /\ sock'[conn[a].sock].in = <<>>
        /\ \A t \in Socks : t # conn[a].sock => sock'[t] = sock[t]
    BY <1>8 DEF Closes
  <2>2. ASSUME NEW t \in Socks PROVE OneOK(sock'[t].st, sock'[t].in, sock'[t].reqs, executed'[t])
    <3>1. CASE t = conn[a].sock
      BY <2>1, <3>1 DEF OneOK
    <3>2. CASE t # conn[a].sock
      BY <1>1, <1>8, <2>1, <3>2
    <3>. QED
      BY <3>1, <3>2
  <2>3. ASSUME NEW b \in Open', conn'[b].event = "OUT" PROVE sock'[conn'[b].sock].in = <<>>
    <3>1. b \in Open /\ SameData(b) /\ conn[b].sock # conn[a].sock
      BY <2>1
    <3>2. conn[b].sock \in Socks
      BY <3>1, OpenFacts
    <3>. QED
      BY <1>2, <2>1, <2>3, <3>1, <3>2 DEF SameData
  <2>. QED
    BY <1>3, <2>2, <2>3
<1>9. ASSUME NEW a \in Addrs, NEW k, HandleRead(a, k), ~Refused(a) PROVE OneInv'
  <2>1. a \in Open /\ conn[a].event = "IN"
    <3>1. TakeEvent(a, "IN")
      BY <1>9 DEF HandleRead
    <3>. QED
      BY <3>1, EventFacts
  <2>2. conn[a].rbuf = <<>>
    BY <2>1 DEF SentInv, EmptyRead
  <2>3. PICK s : s = conn[a].sock
    OBVIOUS
  <2>4. /\ Open' = Open /\ s \in Socks /\ k \in DOMAIN sock[s].in
        /\ \A b \in Open : b # a => SameData(b) /\ conn[b].sock # s
        /\ conn'[a].sock = s
        /\ sock'[s].in = SubSeq(sock[s].in, k + 1, Len(sock[s].in))
        /\ sock'[s].reqs = sock[s].reqs
        /\ \A t \in Socks : sock'[t].st = sock[t].st
        /\ \A t \in Socks : t # s => sock'[t] = sock[t]
        /\ ReadNone(a, k, s) \/ \E i \in 1..k : ReadCall(a, i, s)
    <3>1. Reads(a, k, s)
      BY <1>9, <2>2, <2>3, ReadData
    <3>. QED
      BY <3>1 DEF Reads
  <2>5. PICK q \in Seq(Chunks), m \in Nat, ex \in Seq(Nat) :
          q = sock[s].in /\ m = sock[s].reqs /\ ex = executed[s]
    BY <2>4, SockTypes
  <2>6. OneOK(sock[s].st, q, m, ex) /\ k \in DOMAIN q
    BY <1>1, <2>4, <2>5
  <2>7. /\ OneOK(sock'[s].st, sock'[s].in, sock'[s].reqs, executed'[s])
        /\ conn'[a].event = "OUT" => sock'[s].in = <<>>
        /\ \A t \in Socks : t # s => executed'[t] = executed[t]
    <3>1. CASE ReadNone(a, k, s)
      <4>1. \A i \in 1..k : q[i].k = "part"
        BY <2>5, <3>1 DEF ReadNone
      <4>2. OneOK(sock[s].st, SubSeq(q, k + 1, Len(q)), m, ex)
        BY <2>6, <4>1, OneDrop
      <4>3. UNCHANGED executed /\ conn'[a].event = "IN"
        BY <3>1 DEF ReadNone
      <4>. QED
        BY <2>4, <2>5, <4>2, <4>3
    <3>2. ASSUME NEW i \in 1..k, ReadCall(a, i, s)
          PROVE  /\ OneOK(sock'[s].st, sock'[s].in, sock'[s].reqs, executed'[s])
                 /\ sock'[s].in = <<>>
                 /\ \A t \in Socks : t # s => executed'[t] = executed[t]
      <4>1. q[i].k # "part"
        BY <2>5, <3>2 DEF ReadCall
      <4>2. PICK n \in Nat : n = q[i].n
        <5>1. i \in DOMAIN q
          BY <2>6
        <5>2. q[i] \in Chunks
          BY <5>1
        <5>. QED
          BY <5>2 DEF Chunks
      <4>3. OneOK(sock[s].st, <<>>, m, Append(ex, n)) /\ k = Len(q)
        BY <2>6, <4>1, OneCall
      <4>4. executed'[s] = Append(ex, n) /\ \A t \in Socks : t # s => executed'[t] = executed[t]
        BY <1>4, <2>4, <2>5, <3>2, <4>2 DEF ReadCall
      <4>5. sock'[s].in = <<>>
        BY <2>4, <2>5, <4>3
      <4>. QED
        BY <2>4, <2>5, <4>3, <4>4, <4>5
    <3>. QED
      BY <2>4, <3>1, <3>2
  <2>8. \A t \in Socks : OneOK(sock'[t].st, sock'[t].in, sock'[t].reqs, executed'[t])
    BY <1>1, <2>4, <2>7
  <2>9. ASSUME NEW b \in Open', conn'[b].event = "OUT" PROVE sock'[conn'[b].sock].in = <<>>
    <3>1. CASE b = a
      BY <2>4, <2>7, <2>9, <3>1
    <3>2. CASE b # a
      <4>1. b \in Open /\ SameData(b) /\ conn[b].sock # s
        BY <2>4, <3>2
      <4>2. conn[b].sock \in Socks
        BY <4>1, OpenFacts
      <4>. QED
        BY <1>2, <2>4, <2>9, <4>1, <4>2 DEF SameData
    <3>. QED
      BY <3>1, <3>2
  <2>. QED
    BY <1>3, <2>8, <2>9
<1>10. ASSUME NEW a \in Addrs, NEW out \in {"none", "hdr", "cut", "all"}, HandleOut(a, out) PROVE OneInv'
  <2>1. PICK s : s = conn[a].sock
    OBVIOUS
  <2>2. Wrote(a, out, s)
    BY <1>10, <2>1, WriteData
  <2>3. CASE WroteLast(a, out)
    BY <1>8, <2>2, <2>3 DEF Wrote, WroteLast
  <2>4. CASE WroteNone(a, out) \/ WroteNext(a, out)
    <3>1. UNCHANGED sock /\ Open' = Open
      BY <2>4 DEF WroteNone, WroteNext
    <3>2. \A t \in Socks : OneOK(sock'[t].st, sock'[t].in, sock'[t].reqs, executed'[t])
      BY <1>1, <2>2, <3>1 DEF Wrote
    <3>3. a \in Open /\ conn[a].event = "OUT" /\ conn'[a].sock = s
          /\ \A b \in Open : b # a => SameData(b)
      BY <2>2 DEF Wrote
    <3>4. \A b \in Open' : conn'[b].event = "OUT" => sock'[conn'[b].sock].in = <<>>
      BY <1>2, <2>1, <3>1, <3>3 DEF SameData
    <3>. QED
      BY <1>3, <3>2, <3>4
  <2>. QED
    BY <2>2, <2>3, <2>4 DEF Wrote
<1>. QED
  BY <1>5, <1>6, <1>7, <1>8, <1>9, <1>10, DataSteps

LEMMA OneAlways ==
  ASSUME Solo, ~Pipelining PROVE Spec => [](CoreInv /\ SentInv /\ ReplyInv /\ OneInv)
<1>1. Init => CoreInv /\ SentInv /\ ReplyInv /\ OneInv
  BY CoreInit, SentInit, ReplyInit, OneInit
<1>2. CoreInv /\ SentInv /\ ReplyInv /\ OneInv /\ [Next]_vars
        => (CoreInv /\ SentInv /\ ReplyInv /\ OneInv)'
  BY CoreNext, SentNext, ReplyNext, OneNext
<1>. QED
  BY <1>1, <1>2, PTL DEF Spec

\* With one reactor, synchronous services and clients that wait for each
\* answer, no complete request is lost: what a client sent was executed or is
\* still in the socket (data_read_callback, write_complete_callback, which
\* clears _rbuf).  Clients that pipeline can lose a request here.
THEOREM NothingDropped ==
  ASSUME Solo, ~Pipelining PROVE Spec => []RequestsNotDropped
<1>1. ASSUME CoreInv, OneInv PROVE RequestsNotDropped
  <2>1. ASSUME NEW a \in Settled, NEW s, s = conn[a].sock
        PROVE  Len(executed[s]) + Cardinality(CompleteIn(sock[s].in)) = sock[s].reqs
    <3>1. a \in Open
      BY DEF Settled, Open
    <3>2. s \in Socks /\ sock[s].st = "open"
      BY <1>1, <2>1, <3>1, OpenFacts
    <3>3. PICK q \in Seq(Chunks), m \in Nat, ex \in Seq(Nat) :
            q = sock[s].in /\ m = sock[s].reqs /\ ex = executed[s]
      BY <1>1, <3>2, SockTypes
    <3>4. OneOK("open", q, m, ex)
      BY <1>1, <3>2, <3>3 DEF OneInv
    <3>5. Cardinality(CompleteIn(q)) = Waiting(q)
      <4>1. CASE q # <<>> /\ q[Len(q)].k # "part"
        <5>1. Len(q) \in DOMAIN q
          BY <4>1
        <5>2. CompleteIn(q) = {Len(q)}
          BY <3>4, <4>1, <5>1 DEF CompleteIn, OneOK
        <5>. QED
          BY <4>1, <5>2, FS_Singleton DEF Waiting
      <4>2. CASE ~(q # <<>> /\ q[Len(q)].k # "part")
        <5>1. CompleteIn(q) = {}
          BY <3>4, <4>2 DEF CompleteIn, OneOK
        <5>. QED
          BY <4>2, <5>1, FS_EmptySet DEF Waiting
      <4>. QED
        BY <4>1, <4>2
    <3>. QED
      BY <3>3, <3>4, <3>5 DEF OneOK
  <2>. QED
    BY <2>1 DEF RequestsNotDropped
<1>2. CoreInv /\ SentInv /\ ReplyInv /\ OneInv => RequestsNotDropped
  BY <1>1
<1>. QED
  BY <1>2, OneAlways, PTL
-----------------------------------------------------------------------------
\* Both timeouts are set: every new wait has a timer of its own.
Timed == ReadTimeout > 0 /\ WriteTimeout > 0

\* A timer made for the connection that is now at its address.
Own(tm) == conn[tm.conn].live /\ conn[tm.conn].ts = tm.cts

\* Timer tm is for what a connection with the event ev waits for.
Fits(tm, ev) == IF tm.read THEN ev = "IN" ELSE ev = "OUT"

TimerOK(tm) ==
  Own(tm) =>
    /\ conn[tm.conn].sock = tm.sock /\ tm.id <= conn[tm.conn].timerId
    /\ Timed /\ closing # tm.conn /\ tm.id = conn[tm.conn].timerId
         => Fits(tm, conn[tm.conn].event)

\* Timers know their connection, the last one of a connection is for what it
\* waits for, and those to be run are due.
TimerInv ==
  /\ \A tm \in exe : tm.ts < now
  /\ \A tm \in timers \cup exe : TimerOK(tm)

\* What a step may do to a connection: nothing to its wait, a new wait, with a
\* new timer, or accept it.
SameConn(b) ==
  conn'[b].live => conn[b].live /\ conn'[b].ts = conn[b].ts /\ conn'[b].sock = conn[b].sock

Idle(b) ==
  /\ SameConn(b)
  /\ conn'[b].live => /\ conn'[b].timerId = conn[b].timerId
                      /\ closing' # b => closing # b /\ conn'[b].event = conn[b].event

Rearms(b) ==
  /\ SameConn(b)
  /\ conn[b].timerId <= conn'[b].timerId
  /\ Timed => conn[b].timerId < conn'[b].timerId

Fresh(b) == conn'[b].ts = now /\ \A tm \in timers \cup exe : tm.cts # now

NewTimer(tm) ==
  /\ conn'[tm.conn].sock = tm.sock /\ tm.id = conn'[tm.conn].timerId
  /\ Fits(tm, conn'[tm.conn].event)

TimeStep ==
  /\ now' = now \/ now' = now + 1
  /\ \A tm \in exe' : tm \in exe \/ tm.ts < now
  /\ \A b \in Addrs : Idle(b) \/ Rearms(b) \/ Fresh(b)
  /\ \A tm \in timers' \cup exe' : tm \in timers \cup exe \/ NewTimer(tm)

LEMMA TimersFit ==
  ASSUME NEW a, NEW c, NEW tm
  PROVE  /\ tm \in ReadTimers(a, c) => Fits(tm, "IN")
         /\ tm \in WriteTimers(a, c) => Fits(tm, "OUT")
<1>1. ASSUME tm \in ReadTimers(a, c) PROVE Fits(tm, "IN")
  <2>1. tm = [conn |-> a, sock |-> c.sock, cts |-> c.ts, id |-> c.timerId + 1,
              read |-> TRUE, ts |-> now + ReadTimeout]
    BY <1>1, Zenon DEF ReadTimers, NewTimers
  <2>2. tm.read
    BY <2>1, Zenon
  <2>. QED
    BY <2>2 DEF Fits
<1>2. ASSUME tm \in WriteTimers(a, c) PROVE Fits(tm, "OUT")
  <2>1. tm = [conn |-> a, sock |-> c.sock, cts |-> c.ts, id |-> c.timerId + 1,
              read |-> FALSE, ts |-> now + WriteTimeout]
    BY <1>2, Zenon DEF WriteTimers, NewTimers
  <2>2. ~tm.read
    BY <2>1, Zenon
  <2>. QED
    BY <2>2 DEF Fits
<1>. QED
  BY <1>1, <1>2

\* One connection changes; another one cannot tell.
LEMMA OthersIdle ==
  ASSUME CoreInv, NEW a \in Addrs, NEW c, conn' = [conn EXCEPT ![a] = c], closing' = closing
  PROVE  conn'[a] = c /\ \A b \in Addrs : b # a => Idle(b)
<1>1. conn \in [Addrs -> Conns]
  BY DEF CoreInv, TypeOK
<1>2. conn'[a] = c /\ \A b \in Addrs : b # a => conn'[b] = conn[b]
  BY <1>1
<1>. QED
  BY <1>2 DEF Idle, SameConn

\* close_callback.
LEMMA CloseIdle ==
  ASSUME CoreInv, NEW a \in Open, closing = NoConn, CloseBegin(a)
  PROVE  \A b \in Addrs : Idle(b)
<1>1. conn \in [Addrs -> Conns] /\ conn[a] \in Conns /\ a \in Addrs
  BY OpenFacts DEF CoreInv, TypeOK
<1>2. PICK c : c = [conn[a] EXCEPT !.event = "none", !.sevent = "none"]
  OBVIOUS
<1>3. conn' = [conn EXCEPT ![a] = c] /\ closing' = a
  BY <1>1, <1>2 DEF CloseBegin
<1>4. /\ c.live = conn[a].live /\ c.ts = conn[a].ts /\ c.sock = conn[a].sock
      /\ c.timerId = conn[a].timerId
  BY <1>1, <1>2 DEF Conns
<1>5. conn'[a] = c /\ \A b \in Addrs : b # a => conn'[b] = conn[b]
  BY <1>1, <1>3
<1>6. \A b \in Addrs : b # NoConn
  BY Constants
<1>7. Idle(a)
  BY <1>3, <1>4, <1>5 DEF Idle, SameConn
<1>8. \A b \in Addrs : b # a => Idle(b)
  BY <1>5, <1>6 DEF Idle, SameConn
<1>. QED
  BY <1>7, <1>8

\* A connection c of address a gets a timer and becomes d.
LEMMA ArmsTimer ==
  ASSUME TypeOK, NEW a \in Addrs, NEW c \in Conns, c.sock \in Socks,
         NEW d, d.sock = c.sock, conn'[a] = d,
         NEW delay \in Nat, d.timerId = IF delay = 0 THEN c.timerId ELSE c.timerId + 1,
         NEW T, \/ delay = ReadTimeout /\ T = ReadTimers(a, c) /\ d.event = "IN"
                \/ delay = WriteTimeout /\ T = WriteTimers(a, c) /\ d.event = "OUT"
  PROVE  /\ \A tm \in T : NewTimer(tm)
         /\ c.timerId <= d.timerId /\ (Timed => c.timerId < d.timerId)
<1>1. c.timerId \in Nat
  BY DEF Conns
<1>2. c.timerId <= d.timerId /\ (Timed => c.timerId < d.timerId)
  BY <1>1, Constants DEF Timed
<1>3. ASSUME NEW tm \in T PROVE NewTimer(tm)
  <2>1. delay # 0
    BY DEF ReadTimers, WriteTimers, NewTimers
  <2>2. tm \in ReadTimers(a, c) \/ tm \in WriteTimers(a, c)
    BY <1>3
  <2>3. tm.conn = a /\ tm.sock = c.sock /\ tm.id = c.timerId + 1
    BY <2>2, NewTimersFacts
  <2>4. Fits(tm, d.event)
    <3>1. CASE T = ReadTimers(a, c) /\ d.event = "IN"
      <4>1. tm \in ReadTimers(a, c)
        BY <3>1
      <4>2. Fits(tm, "IN")
        BY <4>1, TimersFit
      <4>. QED
        BY <3>1, <4>2
    <3>2. CASE T = WriteTimers(a, c) /\ d.event = "OUT"
      <4>1. tm \in WriteTimers(a, c)
        BY <3>2
      <4>2. Fits(tm, "OUT")
        BY <4>1, TimersFit
      <4>. QED
        BY <3>2, <4>2
    <3>. QED
      BY <3>1, <3>2
  <2>. QED
    BY <2>1, <2>3, <2>4 DEF NewTimer
<1>. QED
  BY <1>2, <1>3

LEMMA TimeAccept ==
  ASSUME Solo, ~SameMs, CoreInv, NEW s \in Socks, NEW a \in Addrs, Accept(s, a)
  PROVE  TimeStep
<1>1. PICK fd \in Fds : conn' = [conn EXCEPT ![a] = NewConn(s, fd)]
  BY CoreAccept
<1>2. closing' = closing /\ UNCHANGED <<timers, exe, now>> /\ FreshTs
  BY DEF Accept, queues, Backlogged
<1>3. conn'[a] = NewConn(s, fd) /\ \A b \in Addrs : b # a => Idle(b)
  BY <1>1, <1>2, OthersIdle
<1>4. Fresh(a)
  BY <1>2, <1>3 DEF FreshTs, Fresh, NewConn, Dead
<1>. QED
  BY <1>2, <1>3, <1>4 DEF TimeStep

LEMMA TimeAcceptRest ==
  ASSUME Solo, CoreInv, AcceptRest PROVE TimeStep
<1>1. PICK a : a = accepting /\ a \in Open /\ closing' = closing
  BY CoreAcceptRest
<1>2. a \in Addrs /\ conn[a] \in Conns /\ conn[a].sock \in Socks /\ conn[a].live
  BY <1>1, OpenFacts
<1>3. UNCHANGED <<exe, now>>
  BY DEF AcceptRest, ArmRead, SetCallback, AcceptStep, loopVars
<1>4. CASE ArmRead
  <2>1. PICK d : d = WithTimer(conn[a], ReadTimeout)
    OBVIOUS
  <2>2. conn' = [conn EXCEPT ![a] = d] /\ timers' = timers \cup ReadTimers(a, conn[a])
    BY <1>1, <1>2, <1>4, <2>1 DEF ArmRead, AcceptStep, ReadTimers
  <2>3. conn'[a] = d /\ \A b \in Addrs : b # a => Idle(b)
    BY <1>1, <1>2, <2>2, OthersIdle
  <2>4. /\ d.live = conn[a].live /\ d.sock = conn[a].sock /\ d.ts = conn[a].ts
        /\ d.event = conn[a].event
        /\ d.timerId = IF ReadTimeout = 0 THEN conn[a].timerId ELSE conn[a].timerId + 1
    <3>1. conn[a] \in Conns
      BY <1>2
    <3>. QED
      BY <2>1, <3>1, WithTimerFacts
  <2>5. conn[a].event = "IN"
    BY <1>1 DEF CoreInv, MaskInv, MaskAt
  <2>6. PICK c, T : c \in Conns /\ c = conn[a] /\ T = ReadTimers(a, c)
    BY <1>2
  <2>7. TypeOK /\ ReadTimeout \in Nat
    BY Constants DEF CoreInv
  <2>8. /\ d.sock = c.sock /\ c.sock \in Socks /\ d.event = "IN"
        /\ d.timerId = IF ReadTimeout = 0 THEN c.timerId ELSE c.timerId + 1
    BY <1>2, <2>4, <2>5, <2>6
  <2>9. /\ \A tm \in T : NewTimer(tm)
        /\ c.timerId <= d.timerId /\ (Timed => c.timerId < d.timerId)
    BY <1>2, <2>3, <2>6, <2>7, <2>8, ArmsTimer
  <2>10. Rearms(a)
    BY <2>3, <2>4, <2>6, <2>9 DEF Rearms, SameConn
  <2>. QED
    BY <1>3, <2>2, <2>3, <2>6, <2>9, <2>10 DEF TimeStep
<1>5. CASE SetCallback("read", "close") \/ SetCallback("close", "write") \/ SetCallback("write", "idle")
  <2>1. UNCHANGED timers
    BY <1>5 DEF SetCallback
  <2>2. PICK k : conn' = [conn EXCEPT ![a] = [conn[a] EXCEPT !.cbs = @ \cup {k}]]
    BY <1>1, <1>2, <1>5 DEF SetCallback, AcceptStep
  <2>3. PICK d : d = [conn[a] EXCEPT !.cbs = @ \cup {k}]
    OBVIOUS
  <2>4. conn'[a] = d /\ \A b \in Addrs : b # a => Idle(b)
    BY <1>1, <1>2, <2>2, <2>3, OthersIdle
  <2>5. /\ d.live = conn[a].live /\ d.sock = conn[a].sock /\ d.ts = conn[a].ts
        /\ d.event = conn[a].event /\ d.timerId = conn[a].timerId
    BY <1>2, <2>3 DEF Conns
  <2>6. Idle(a)
    BY <1>1, <2>4, <2>5 DEF Idle, SameConn
  <2>. QED
    BY <1>3, <2>1, <2>4, <2>6 DEF TimeStep
<1>. QED
  BY <1>4, <1>5 DEF AcceptRest

LEMMA TimeRead ==
  ASSUME Solo, CoreInv, NEW a \in Addrs, NEW k, HandleRead(a, k) PROVE TimeStep
<1>1. /\ TakeEvent(a, "IN") /\ k \in DOMAIN sock[conn[a].sock].in
      /\ ReadOn(a, k) \/ Refused(a) \/ Called(a, k)
  BY ReadSteps
<1>2. /\ a \in Open /\ closing = NoConn /\ conn[a].event = "IN"
      /\ conn[a].ctx.k \in {"none", "part"} /\ UNCHANGED <<exe, now>>
  BY <1>1, EventFacts
<1>3. conn[a] \in Conns /\ conn[a].sock \in Socks /\ conn[a].live
  BY <1>2, OpenFacts
<1>4. PICK p : p = Parse(ReadConn(a, k))
  OBVIOUS
<1>5. /\ p \in Conns /\ p.live /\ p.sock = conn[a].sock
      /\ p.ts = conn[a].ts /\ p.timerId = conn[a].timerId /\ p.event = conn[a].event
      /\ p.ctx \in Chunks \cup {NoCtx}
  BY <1>1, <1>2, <1>4, ParsedFacts
<1>6. CASE ReadOn(a, k)
  <2>1. conn' = [conn EXCEPT ![a] = p] /\ UNCHANGED <<timers, closing>>
    BY <1>4, <1>6 DEF ReadOn
  <2>2. conn'[a] = p /\ \A b \in Addrs : b # a => Idle(b)
    BY <2>1, OthersIdle
  <2>3. Idle(a)
    BY <1>3, <1>5, <2>1, <2>2 DEF Idle, SameConn
  <2>. QED
    BY <1>2, <2>1, <2>2, <2>3 DEF TimeStep
<1>7. CASE Refused(a)
  <2>1. CloseBegin(a) /\ UNCHANGED timers
    BY <1>7 DEF Refused
  <2>2. \A b \in Addrs : Idle(b)
    BY <1>2, <2>1, CloseIdle
  <2>. QED
    BY <1>2, <2>1, <2>2 DEF TimeStep
<1>8. CASE Called(a, k)
  <2>1. PICK n \in Nat : n = p.ctx.n
    BY <1>5 DEF Chunks, NoCtx
  <2>2. PICK d, T : d = WithTimer(Pack(p, n), WriteTimeout) /\ T = WriteTimers(a, p)
    OBVIOUS
  <2>3. conn' = [conn EXCEPT ![a] = d] /\ timers' = timers \cup T /\ closing' = closing
    BY <1>4, <1>8, <2>1, <2>2 DEF Called
  <2>4. conn'[a] = d /\ \A b \in Addrs : b # a => Idle(b)
    BY <2>3, OthersIdle
  <2>5. p \in Conns
    BY <1>5
  <2>6. /\ d.live = p.live /\ d.sock = p.sock /\ d.ts = p.ts /\ d.event = "OUT"
        /\ WriteTimeout = 0 => d.timerId = p.timerId
        /\ WriteTimeout # 0 => d.timerId = p.timerId + 1
    BY <2>2, <2>5, PackFacts
  <2>7. TypeOK /\ WriteTimeout \in Nat
    BY Constants DEF CoreInv
  <2>8. /\ d.sock = p.sock /\ p.sock \in Socks /\ d.event = "OUT"
        /\ d.timerId = IF WriteTimeout = 0 THEN p.timerId ELSE p.timerId + 1
    BY <1>3, <1>5, <2>6
  <2>9. /\ \A tm \in T : NewTimer(tm)
        /\ p.timerId <= d.timerId /\ (Timed => p.timerId < d.timerId)
    BY <2>2, <2>4, <2>5, <2>7, <2>8, ArmsTimer
  <2>10. Rearms(a)
    BY <1>3, <1>5, <2>4, <2>6, <2>9 DEF Rearms, SameConn
  <2>. QED
    BY <1>2, <2>3, <2>4, <2>9, <2>10 DEF TimeStep
<1>. QED
  BY <1>1, <1>6, <1>7, <1>8

LEMMA TimeOut ==
  ASSUME Solo, CoreInv, NEW a \in Addrs, NEW out \in {"none", "hdr", "cut", "all"}, HandleOut(a, out)
  PROVE  TimeStep
<1>1. TakeEvent(a, "OUT") /\ (WriteOn(a, out) \/ Answered(a, out) \/ Kept(a, out))
  BY WriteSteps
<1>2. a \in Open /\ closing = NoConn /\ UNCHANGED <<exe, now>>
  BY <1>1, EventFacts
<1>3. conn[a] \in Conns /\ conn[a].sock \in Socks /\ conn[a].live
  BY <1>2, OpenFacts
<1>4. PICK c : c = Written(a, out)
  OBVIOUS
<1>5. /\ c \in Conns /\ c.live = conn[a].live /\ c.sock = conn[a].sock
      /\ c.ts = conn[a].ts /\ c.timerId = conn[a].timerId /\ c.event = conn[a].event
  <2>1. conn[a] \in Conns
    BY <1>3
  <2>. QED
    BY <1>4, <2>1, WrittenFacts
<1>6. CASE WriteOn(a, out)
  <2>1. conn' = [conn EXCEPT ![a] = c] /\ UNCHANGED <<timers, closing>>
    BY <1>4, <1>6 DEF WriteOn
  <2>2. conn'[a] = c /\ \A b \in Addrs : b # a => Idle(b)
    BY <2>1, OthersIdle
  <2>3. Idle(a)
    BY <1>5, <2>1, <2>2 DEF Idle, SameConn
  <2>. QED
    BY <1>2, <2>1, <2>2, <2>3 DEF TimeStep
<1>7. CASE Answered(a, out)
  <2>1. CloseBegin(a) /\ UNCHANGED timers
    BY <1>7 DEF Answered
  <2>2. \A b \in Addrs : Idle(b)
    BY <1>2, <2>1, CloseIdle
  <2>. QED
    BY <1>2, <2>1, <2>2 DEF TimeStep
<1>8. CASE Kept(a, out)
  <2>1. PICK d, e : d = NextWait(c) /\ e = Rearmed(c)
    OBVIOUS
  <2>2. PICK f, T : f = WithTimer(e, ReadTimeout) /\ T = ReadTimers(a, d)
    OBVIOUS
  <2>3. conn' = [conn EXCEPT ![a] = f] /\ timers' = timers \cup T /\ closing' = closing
    BY <1>4, <1>8, <2>1, <2>2 DEF Kept
  <2>4. conn'[a] = f /\ \A b \in Addrs : b # a => Idle(b)
    BY <2>3, OthersIdle
  <2>5. /\ d \in Conns /\ d.live = c.live /\ d.sock = c.sock /\ d.ts = c.ts
        /\ d.timerId = c.timerId /\ d.event = "IN"
        /\ e \in Conns /\ e.live = d.live /\ e.sock = d.sock /\ e.ts = d.ts
        /\ e.timerId = d.timerId /\ e.event = d.event
    <3>1. c \in Conns
      BY <1>5
    <3>. QED
      BY <2>1, <3>1, NextWaitFacts
  <2>6. /\ f.live = e.live /\ f.sock = e.sock /\ f.ts = e.ts /\ f.event = e.event
        /\ f.timerId = IF ReadTimeout = 0 THEN e.timerId ELSE e.timerId + 1
    <3>1. e \in Conns
      BY <2>5
    <3>. QED
      BY <2>2, <3>1, WithTimerFacts
  <2>7. TypeOK /\ ReadTimeout \in Nat /\ d \in Conns
    BY <2>5, Constants DEF CoreInv
  <2>8. /\ f.sock = d.sock /\ d.sock \in Socks /\ f.event = "IN"
        /\ f.timerId = IF ReadTimeout = 0 THEN d.timerId ELSE d.timerId + 1
    BY <1>3, <1>5, <2>5, <2>6
  <2>9. /\ \A tm \in T : NewTimer(tm)
        /\ d.timerId <= f.timerId /\ (Timed => d.timerId < f.timerId)
    BY <2>2, <2>4, <2>7, <2>8, ArmsTimer
  <2>10. Rearms(a)
    BY <1>5, <2>4, <2>5, <2>6, <2>9 DEF Rearms, SameConn
  <2>. QED
    BY <1>2, <2>3, <2>4, <2>9, <2>10 DEF TimeStep
<1>. QED
  BY <1>1, <1>6, <1>7, <1>8

LEMMA TimeSteps ==
  ASSUME Solo, ~SameMs, CoreInv, [Next]_vars PROVE TimeStep
<1>0. conn \in [Addrs -> Conns]
  BY DEF CoreInv, TypeOK
<1>1. CASE CloseEnd
  <2>1. /\ closing' = NoConn /\ \A b \in Addrs : b # closing => conn'[b] = conn[b]
    BY <1>1, CoreCloseEnd
  <2>2. UNCHANGED <<timers, exe, now>> /\ conn' = [conn EXCEPT ![closing] = Dead]
    BY <1>1 DEF CloseEnd, queues, loopVars
  <2>3. \A b \in Addrs : b # closing => Idle(b)
    BY <2>1 DEF Idle, SameConn
  <2>4. ASSUME NEW b \in Addrs, b = closing PROVE Idle(b)
    <3>1. conn'[b] = Dead
      BY <1>0, <2>2, <2>4
    <3>. QED
      BY <3>1 DEF Idle, SameConn, Dead
  <2>. QED
    BY <2>2, <2>3, <2>4 DEF TimeStep
<1>2. CASE RunFunc
  <2>1. UNCHANGED <<timers, exe, closing>>
    BY <1>2, CoreRunFunc
  <2>2. PICK a \in Open : conn' = [conn EXCEPT ![a] = [conn[a] EXCEPT !.sevent = conn[a].event]]
    BY <1>2, CoreRunFunc
  <2>3. PICK d : d = [conn[a] EXCEPT !.sevent = conn[a].event]
    OBVIOUS
  <2>4. a \in Addrs /\ conn[a] \in Conns
    BY OpenFacts
  <2>5. conn'[a] = d /\ \A b \in Addrs : b # a => Idle(b)
    BY <2>1, <2>2, <2>3, <2>4, OthersIdle
  <2>6. /\ d.live = conn[a].live /\ d.sock = conn[a].sock /\ d.ts = conn[a].ts
        /\ d.event = conn[a].event /\ d.timerId = conn[a].timerId
    BY <2>3, <2>4 DEF Conns
  <2>7. Idle(a)
    BY <2>1, <2>5, <2>6 DEF Idle, SameConn
  <2>8. now' = now
    BY <1>2 DEF RunFunc
  <2>. QED
    BY <2>1, <2>5, <2>7, <2>8 DEF TimeStep
<1>3. ASSUME NEW a \in Addrs, HandleEof(a) PROVE TimeStep
  <2>1. a \in Open /\ CloseBegin(a)
    BY <1>3, CoreHandleEof
  <2>2. closing = NoConn /\ UNCHANGED <<timers, exe, now>>
    BY <1>3 DEF HandleEof, TakeEvent, ReactorFree, queues
  <2>3. \A b \in Addrs : Idle(b)
    BY <2>1, <2>2, CloseIdle
  <2>. QED
    BY <2>2, <2>3 DEF TimeStep
<1>4. ASSUME NEW tm \in exe, RunTimer(tm) PROVE TimeStep
  <2>1. closing = NoConn /\ UNCHANGED <<timers, now>> /\ exe' = exe \ {tm}
    BY <1>4 DEF RunTimer, ReactorFree, queues
  <2>2. CASE TimerIsCurrent(tm)
    <3>1. tm.conn \in Open /\ CloseBegin(tm.conn)
      BY <1>4, <2>2, CoreRunTimer
    <3>2. \A b \in Addrs : Idle(b)
      BY <2>1, <3>1, CloseIdle
    <3>. QED
      BY <2>1, <3>2 DEF TimeStep
  <2>3. CASE ~TimerIsCurrent(tm)
    <3>1. UNCHANGED <<conn, closing>>
      BY <1>4, <2>3, CoreRunTimer
    <3>. QED
      BY <2>1, <3>1 DEF TimeStep, Idle, SameConn
  <2>. QED
    BY <2>2, <2>3
<1>5. CASE PopTimers
  <2>1. /\ UNCHANGED <<conn, closing, now>>
        /\ exe' = {tm \in timers : tm.ts < now} /\ timers' = {tm \in timers : ~(tm.ts < now)}
    BY <1>5 DEF PopTimers, objects
  <2>. QED
    BY <2>1 DEF TimeStep, Idle, SameConn
<1>6. CASE Tick \/ EpollWait \/ SwapFuncs \/ LoopAgain \/ Client \/ UNCHANGED vars
  <2>1. UNCHANGED <<conn, closing, timers, exe>> /\ (now' = now \/ now' = now + 1)
    BY <1>6 DEF Tick, EpollWait, SwapFuncs, LoopAgain, Client, vars, objects, queues, loopVars
  <2>. QED
    BY <2>1 DEF TimeStep, Idle, SameConn
<1>. QED
  BY <1>1, <1>2, <1>3, <1>4, <1>5, <1>6, SoloSteps, TimeAccept, TimeAcceptRest, TimeRead, TimeOut

LEMMA TimerInit == Init => TimerInv
  BY DEF Init, TimerInv

LEMMA TimerNext ==
  ASSUME Solo, ~SameMs, CoreInv, CoreInv', TimerInv, [Next]_vars PROVE TimerInv'
<1>1. /\ now' = now \/ now' = now + 1
      /\ \A tm \in exe' : tm \in exe \/ tm.ts < now
      /\ \A b \in Addrs : Idle(b) \/ Rearms(b) \/ Fresh(b)
      /\ \A tm \in timers' \cup exe' : tm \in timers \cup exe \/ NewTimer(tm)
  BY TimeSteps DEF TimeStep
<1>2. /\ timers \subseteq TimerRecs /\ exe \subseteq TimerRecs /\ now \in Nat
      /\ timers' \subseteq TimerRecs /\ exe' \subseteq TimerRecs
      /\ conn \in [Addrs -> Conns] /\ conn' \in [Addrs -> Conns]
  BY DEF CoreInv, TypeOK
<1>3. ASSUME NEW tm \in exe' PROVE tm.ts < now'
  <2>1. tm.ts < now /\ tm.ts \in Nat
    BY <1>1, <1>2 DEF TimerInv, TimerRecs
  <2>. QED
    BY <1>1, <1>2, <2>1
<1>4. ASSUME NEW tm \in timers' \cup exe' PROVE TimerOK(tm)'
  <2>1. tm \in TimerRecs
    BY <1>2
  <2>2. PICK b \in Addrs, i \in Nat : b = tm.conn /\ i = tm.id
    BY <2>1 DEF TimerRecs
  <2>3. conn[b] \in Conns /\ conn'[b] \in Conns
    BY <1>2
  <2>4. PICK x \in Nat, y \in Nat : x = conn[b].timerId /\ y = conn'[b].timerId
    BY <2>3 DEF Conns
  <2>5. SUFFICES ASSUME conn'[b].live, conn'[b].ts = tm.cts
                 PROVE  /\ conn'[b].sock = tm.sock /\ i <= y
                        /\ Timed /\ closing' # b /\ i = y => Fits(tm, conn'[b].event)
    BY <2>2, <2>4 DEF TimerOK, Own
  <2>6. CASE NewTimer(tm)
    BY <2>2, <2>4, <2>6 DEF NewTimer
  <2>7. CASE tm \in timers \cup exe
    <3>1. TimerOK(tm)
      BY <2>7 DEF TimerInv
    <3>2. ASSUME SameConn(b)
          PROVE  /\ conn'[b].sock = tm.sock /\ i <= x
                 /\ Timed /\ closing # b /\ i = x => Fits(tm, conn[b].event)
      <4>1. conn[b].live /\ conn[b].ts = tm.cts /\ conn'[b].sock = conn[b].sock
        BY <2>5, <3>2 DEF SameConn
      <4>. QED
        BY <2>2, <2>4, <3>1, <4>1 DEF TimerOK, Own
    <3>3. CASE Idle(b)
      <4>1. SameConn(b) /\ x = y /\ (closing' # b => closing # b /\ conn'[b].event = conn[b].event)
        BY <2>4, <2>5, <3>3 DEF Idle
      <4>. QED
        BY <3>2, <4>1
    <3>4. CASE Rearms(b)
      <4>1. SameConn(b) /\ x <= y /\ (Timed => x < y)
        BY <2>4, <3>4 DEF Rearms
      <4>2. conn'[b].sock = tm.sock /\ i <= x
        BY <3>2, <4>1
      <4>. QED
        BY <4>1, <4>2
    <3>5. CASE Fresh(b)
      BY <2>5, <2>7, <3>5 DEF Fresh
    <3>. QED
      BY <1>1, <3>3, <3>4, <3>5
  <2>. QED
    BY <1>1, <2>6, <2>7
<1>. QED
  BY <1>3, <1>4 DEF TimerInv

LEMMA TimerAlways ==
  ASSUME Solo, ~SameMs PROVE Spec => [](CoreInv /\ TimerInv)
<1>1. Init => CoreInv /\ TimerInv
  BY CoreInit, TimerInit
<1>2. CoreInv /\ TimerInv /\ [Next]_vars => (CoreInv /\ TimerInv)'
  BY CoreNext, TimerNext
<1>. QED
  BY <1>1, <1>2, PTL DEF Spec

\* Only timeout_callback takes a timer away, and it closes the timer's own
\* connection.
LEMMA TimerCloses ==
  ASSUME Solo, CoreInv, TimerInv, [Next]_vars, NEW tm \in exe, ClosedBy(tm)
  PROVE  /\ tm.conn \in Open /\ Own(tm) /\ tm.id = conn[tm.conn].timerId
         /\ conn[tm.conn].sock = tm.sock /\ tm.ts < now
<1>1. tm \in exe \ exe' /\ closing' = tm.conn /\ tm.conn \in Addrs /\ tm.conn # NoConn
  <2>1. tm.conn \in Addrs
    BY DEF CoreInv, TypeOK, TimerRecs
  <2>. QED
    BY <2>1, Constants DEF ClosedBy
<1>2. RunTimer(tm)
  <2>1. ASSUME NEW o \in exe, RunTimer(o) PROVE o = tm
    BY <1>1, <2>1 DEF RunTimer
  <2>2. ASSUME NEW a \in Addrs, NEW ev \in {"IN", "OUT"}, TakeEvent(a, ev) PROVE FALSE
    BY <1>1, <2>2 DEF TakeEvent
  <2>3. \A a \in Addrs : ~HandleEof(a)
    BY <2>2 DEF HandleEof
  <2>4. \A a \in Addrs : \A k : ~HandleRead(a, k)
    BY <2>2, ReadSteps
  <2>5. \A a \in Addrs : \A out \in {"none", "hdr", "cut", "all"} : ~HandleOut(a, out)
    BY <2>2, WriteSteps
  <2>6. ~PopTimers
    BY <1>1 DEF PopTimers, CoreInv, PlaceInv
  <2>7. ~(Tick \/ EpollWait \/ SwapFuncs \/ LoopAgain \/ Client \/ UNCHANGED vars)
    BY <1>1 DEF Tick, EpollWait, SwapFuncs, LoopAgain, Client, vars, loopVars
  <2>8. ~AcceptRest /\ ~CloseEnd /\ ~RunFunc
    BY <1>1 DEF AcceptRest, ArmRead, SetCallback, AcceptStep, CloseEnd, RunFunc, loopVars
  <2>9. \A s \in Socks, a \in Addrs : ~Accept(s, a)
    BY <1>1 DEF Accept
  <2>. QED
    BY <2>1, <2>3, <2>4, <2>5, <2>6, <2>7, <2>8, <2>9, SoloSteps
<1>3. TimerIsCurrent(tm)
  <2>1. closing = NoConn
    BY <1>2 DEF RunTimer, ReactorFree
  <2>. QED
    BY <1>1, <1>2, <2>1, CoreRunTimer
<1>4. tm.conn \in Open
  BY <1>2, <1>3, CoreRunTimer
<1>5. conn[tm.conn].live /\ channels[tm.conn] = conn[tm.conn].ts
  BY <1>4, OpenFacts
<1>6. Own(tm) /\ tm.id = conn[tm.conn].timerId
  BY <1>3, <1>5 DEF Own, TimerIsCurrent
<1>7. TimerOK(tm) /\ tm.ts < now
  BY DEF TimerInv
<1>8. conn[tm.conn].sock = tm.sock
  BY <1>6, <1>7 DEF TimerOK
<1>. QED
  BY <1>4, <1>6, <1>7, <1>8

\* With one reactor and synchronous services, connections accepted in
\* different milliseconds and both timeouts set, a read timeout never closes a
\* connection that has a response to write, nor a write timeout one that waits
\* for a request (new_connection_callback, response_callback,
\* write_complete_callback).  With one of them 0 the timer of the last wait
\* stays current in a wait that has none.
THEOREM TimeoutsFit ==
  ASSUME Solo, ~SameMs, ReadTimeout > 0, WriteTimeout > 0 PROVE Spec => TimeoutKind
<1>1. ASSUME CoreInv, TimerInv, [Next]_vars, NEW tm \in exe, ClosedBy(tm)
      PROVE  IF tm.read
             THEN conn[tm.conn].event = "IN" /\ conn[tm.conn].ctx.k \in {"none", "part"}
             ELSE conn[tm.conn].event = "OUT"
  <2>1. /\ tm.conn \in Open /\ Own(tm) /\ tm.id = conn[tm.conn].timerId
        /\ conn[tm.conn].sock = tm.sock /\ tm.ts < now
    BY <1>1, TimerCloses
  <2>2. TimerOK(tm) /\ Timed /\ closing # tm.conn
    BY <1>1, <2>1 DEF TimerInv, Timed, Open
  <2>3. Fits(tm, conn[tm.conn].event)
    BY <2>1, <2>2 DEF TimerOK
  <2>4. conn[tm.conn].event = "IN" => conn[tm.conn].ctx.k \in {"none", "part"}
    BY <1>1, <2>1 DEF CoreInv, MaskInv, MaskAt
  <2>. QED
    BY <2>3, <2>4 DEF Fits
<1>2. CoreInv /\ TimerInv /\ [Next]_vars =>
        [\A tm \in exe : ClosedBy(tm) =>
           IF tm.read
           THEN conn[tm.conn].event = "IN" /\ conn[tm.conn].ctx.k \in {"none", "part"}
           ELSE conn[tm.conn].event = "OUT"]_vars
  BY <1>1
<1>. QED
  BY <1>2, TimerAlways, PTL DEF Spec, TimeoutKind
-----------------------------------------------------------------------------
(***************************************************************************)
(* Timers with any threads.  Connections may be used after they were       *)
(* deleted and lose their descriptors to others, so that little of CoreInv *)
(* is left; what is left, up to the first fault, is enough for             *)
(* TimeoutNotEarly.                                                        *)
(***************************************************************************)
\* An object is in the channel map with its own ts, or not at all.
ObjectThere(a) ==
  /\ DOMAIN conn[a] = DOMAIN Dead
  /\ IF conn[a].live
       THEN /\ conn[a].sock \in Socks /\ conn[a].fd \in Fds
            /\ conn[a].ts \in Nat \ {0} /\ conn[a].timerId \in Nat
            /\ channels[a] = conn[a].ts
       ELSE channels[a] = 0

\* Who is registered for a socket has a descriptor of it, and so is the only
\* one; it need not be the connection the socket was accepted for.
EpollThere(s) ==
  /\ epoll[s].ev # "none" => epoll[s].conn # NoConn
  /\ epoll[s].conn # NoConn => /\ epoll[s].conn \in Addrs /\ conn[epoll[s].conn].live
                               /\ fdTable[conn[epoll[s].conn].fd] = s

ObjectsThere ==
  /\ now \in Nat \ {0}
  /\ DOMAIN conn = Addrs /\ DOMAIN channels = Addrs
  /\ DOMAIN fdTable = Fds /\ DOMAIN epoll = Socks
  /\ closing # NoConn => closing \in Addrs /\ conn[closing].live
  /\ \A a \in Addrs : ObjectThere(a)
  /\ \A s \in Socks : EpollThere(s)

\* Each event that is left is the only one of a live connection.
EventThere(e) == e.conn # Acceptor => e.conn \in Addrs /\ conn[e.conn].live /\ e.conn # closing

EventsThere ==
  /\ \A e \in ready : EventThere(e)
  /\ \A e, f \in ready : e.conn = f.conn => e = f
  /\ loopPc # "events" => ready = {}

QueuesThere ==
  /\ funcs \in Seq(AllFuncs) /\ batch \in Seq(AllFuncs)
  /\ \A call \in calls : call.conn \in Addrs /\ DOMAIN call = {"conn", "sock", "n", "pc"}
  /\ acceptPc # "idle" => accepting \in Addrs

TimerThere(tm) ==
  /\ tm.conn \in Addrs /\ tm.cts \in Nat \ {0} /\ tm.id \in Nat /\ tm.ts \in Nat
  /\ Own(tm) => conn[tm.conn].sock = tm.sock /\ tm.id <= conn[tm.conn].timerId

TimersThere ==
  /\ \A tm \in timers \cup exe : TimerThere(tm)
  /\ \A tm \in exe : tm.ts < now
  /\ loopPc # "timers" => exe = {}

There == ObjectsThere /\ EventsThere /\ QueuesThere /\ TimersThere

ThreadInv == fault = "none" => There

\* What has a connection, its socket, its ts and the number of its wait.
Same(c, d) ==
  /\ DOMAIN d = DOMAIN Dead
  /\ d.live = c.live /\ d.sock = c.sock /\ d.fd = c.fd /\ d.ts = c.ts
  /\ d.timerId = c.timerId

\* The connection of address b is the one it was, or is gone.
Stays(b) ==
  conn'[b].live => /\ conn'[b].timerId \in Nat
                   /\ conn[b].live /\ conn'[b].ts = conn[b].ts /\ conn'[b].sock = conn[b].sock
                   /\ conn[b].timerId <= conn'[b].timerId

LEMMA DeadFields ==
  DOMAIN Dead = {"live", "sock", "fd", "ts", "timerId", "event", "sevent", "cbs", "ctx",
                 "rbuf", "wbuf"}
  BY DEF Dead

LEMMA SameExcept ==
  ASSUME NEW c, DOMAIN c = DOMAIN Dead, NEW v,
         NEW f \in {"event", "sevent", "cbs", "ctx", "rbuf", "wbuf"}
  PROVE  Same(c, [c EXCEPT ![f] = v])
<1>1. PICK d : d = [c EXCEPT ![f] = v]
  OBVIOUS
<1>2. DOMAIN d = DOMAIN c /\ \A g \in DOMAIN c : g # f => d[g] = c[g]
  BY <1>1
<1>3. {"live", "sock", "fd", "ts", "timerId"} \subseteq DOMAIN c
  BY DeadFields
<1>4. d.live = c.live /\ d.sock = c.sock /\ d.fd = c.fd /\ d.ts = c.ts /\ d.timerId = c.timerId
  BY <1>2, <1>3
<1>. QED
  BY <1>1, <1>2, <1>4 DEF Same

LEMMA SameTwice ==
  ASSUME NEW c, NEW d, NEW e, Same(c, d), Same(d, e)
  PROVE  Same(c, e)
  BY DEF Same

\* A descriptor is closed: nobody is registered for its socket any more, and
\* the connection that closed it is registered for none.
LEMMA ClosedThere ==
  ASSUME ObjectsThere, NEW a \in Addrs, conn[a].live, CloseFd(conn[a].fd)
  PROVE  /\ DOMAIN fdTable' = Fds /\ DOMAIN epoll' = Socks
         /\ \A t \in Socks :
              /\ epoll'[t].ev # "none" => epoll'[t].conn # NoConn
              /\ epoll'[t].conn # NoConn =>
                   /\ epoll'[t].conn \in Addrs /\ epoll'[t].conn # a
                   /\ conn[epoll'[t].conn].live
                   /\ fdTable'[conn[epoll'[t].conn].fd] = t
<1>1. PICK fd, s : fd = conn[a].fd /\ s = fdTable[fd] /\ fd \in Fds
  BY DEF ObjectsThere, ObjectThere
<1>2. /\ fdTable' = [fdTable EXCEPT ![fd] = NoSock]
      /\ epoll' = [t \in Socks |->
                     IF t = s THEN [ev |-> "none", conn |-> NoConn] ELSE epoll[t]]
  BY <1>1 DEF CloseFd
<1>3. DOMAIN fdTable' = Fds /\ DOMAIN epoll' = Socks
  BY <1>2 DEF ObjectsThere
<1>4. ASSUME NEW t \in Socks
      PROVE  /\ epoll'[t].ev # "none" => epoll'[t].conn # NoConn
             /\ epoll'[t].conn # NoConn =>
                  /\ epoll'[t].conn \in Addrs /\ epoll'[t].conn # a
                  /\ conn[epoll'[t].conn].live
                  /\ fdTable'[conn[epoll'[t].conn].fd] = t
  <2>1. CASE t = s
    <3>1. epoll'[t] = [ev |-> "none", conn |-> NoConn]
      BY <1>2, <2>1
    <3>. QED
      BY <3>1
  <2>2. CASE t # s
    <3>1. epoll'[t] = epoll[t]
      BY <1>2, <2>2
    <3>2. EpollThere(t)
      BY DEF ObjectsThere
    <3>3. ASSUME NEW x, x = epoll[t].conn, x # NoConn
          PROVE  x \in Addrs /\ x # a /\ conn[x].live /\ fdTable'[conn[x].fd] = t
      <4>1. x \in Addrs /\ conn[x].live /\ fdTable[conn[x].fd] = t
        BY <3>2, <3>3 DEF EpollThere
      <4>2. conn[x].fd \in Fds
        BY <4>1 DEF ObjectsThere, ObjectThere
      <4>3. conn[x].fd # fd
        BY <1>1, <2>2, <4>1
      <4>4. fdTable'[conn[x].fd] = t
        BY <1>2, <4>1, <4>2, <4>3 DEF ObjectsThere
      <4>5. x # a
        BY <1>1, <4>3
      <4>. QED
        BY <4>1, <4>4, <4>5
    <3>. QED
      BY <3>1, <3>2, <3>3 DEF EpollThere
  <2>. QED
    BY <2>1, <2>2
<1>. QED
  BY <1>3, <1>4

\* The interest list stays, or connection a registers the descriptor it has.
MayRegister(a) ==
  epoll' = epoll \/ \E e : e.fd = conn[a].fd /\ epoll' = Registered(a, e)

\* One live connection changes, and keeps what it is; it may register again.
LEMMA ChangeThere ==
  ASSUME ObjectsThere, NEW a \in Addrs, conn[a].live,
         NEW c, Same(conn[a], c), NEW d, DOMAIN d = DOMAIN Dead,
         d.live = c.live, d.sock = c.sock, d.fd = c.fd, d.ts = c.ts,
         d.timerId \in Nat, c.timerId <= d.timerId,
         conn' = [conn EXCEPT ![a] = d],
         MayRegister(a), UNCHANGED <<fdTable, channels, closing, now>>
  PROVE  /\ ObjectsThere'
         /\ conn'[a] = d /\ \A b \in Addrs : b # a => conn'[b] = conn[b]
         /\ \A b \in Addrs : Stays(b) /\ (conn[b].live => conn'[b].live)
<1>1. /\ d.live = conn[a].live /\ d.sock = conn[a].sock /\ d.fd = conn[a].fd
      /\ d.ts = conn[a].ts /\ conn[a].timerId <= d.timerId
  BY DEF Same
<1>2. DOMAIN conn' = Addrs /\ conn'[a] = d /\ \A b \in Addrs : b # a => conn'[b] = conn[b]
  BY DEF ObjectsThere
<1>3. d.live
  BY <1>1
<1>4. ASSUME NEW b \in Addrs
      PROVE  /\ conn[b].live => conn'[b].live /\ conn'[b].fd = conn[b].fd
             /\ Stays(b) /\ ObjectThere(b)'
  <2>1. ObjectThere(b)
    BY DEF ObjectsThere
  <2>2. CASE b = a
    BY <1>1, <1>2, <1>3, <2>1, <2>2 DEF Stays, ObjectThere
  <2>3. CASE b # a
    <3>1. conn'[b] = conn[b]
      BY <1>2, <2>3
    <3>2. conn[b].live => conn[b].timerId <= conn[b].timerId
      BY <2>1 DEF ObjectThere
    <3>. QED
      BY <2>1, <3>1, <3>2 DEF Stays, ObjectThere
  <2>. QED
    BY <2>2, <2>3
<1>5. a # NoConn
  BY Constants
<1>6. DOMAIN epoll' = Socks
  BY DEF ObjectsThere, MayRegister, Registered
<1>7. ASSUME NEW s \in Socks PROVE EpollThere(s)'
  <2>1. EpollThere(s)
    BY DEF ObjectsThere
  <2>2. CASE epoll'[s] = epoll[s]
    BY <1>4, <2>1, <2>2 DEF EpollThere
  <2>3. CASE epoll'[s] # epoll[s]
    <3>1. PICK e : e.fd = conn[a].fd /\ epoll' = Registered(a, e)
      BY <2>3 DEF MayRegister
    <3>2. s = fdTable[conn[a].fd]
          /\ epoll'[s] = [ev |-> e.event, conn |-> IF e.event = "none" THEN NoConn ELSE a]
      BY <2>3, <3>1 DEF Registered, SockOf
    <3>3. /\ epoll'[s].ev # "none" => epoll'[s].conn = a
          /\ epoll'[s].conn # NoConn => epoll'[s].conn = a
      BY <3>2
    <3>. QED
      BY <1>1, <1>2, <1>3, <1>5, <3>2, <3>3 DEF EpollThere
  <2>. QED
    BY <2>2, <2>3
<1>8. closing # NoConn => closing \in Addrs /\ conn'[closing].live
  BY <1>4 DEF ObjectsThere
<1>. QED
  BY <1>2, <1>4, <1>6, <1>7, <1>8 DEF ObjectsThere

\* What is left of the timers' part when connections stay what they are, or go.
LEMMA TimersStep ==
  ASSUME TimersThere, \A b \in Addrs : Stays(b), \A b \in Addrs : ObjectThere(b),
         NEW N, timers' \cup exe' \subseteq timers \cup exe \cup N,
         \A tm \in N : TimerThere(tm)',
         now \in Nat, now' \in Nat, now <= now',
         \A tm \in exe' : tm \in exe \/ tm.ts < now',
         loopPc' # "timers" => exe' = {}
  PROVE  TimersThere'
<1>1. ASSUME NEW tm \in timers' \cup exe' PROVE TimerThere(tm)'
  <2>1. CASE tm \in N
    BY <2>1
  <2>2. CASE tm \in timers \cup exe
    <3>1. TimerThere(tm)
      BY <2>2 DEF TimersThere
    <3>2. ASSUME conn'[tm.conn].live, conn'[tm.conn].ts = tm.cts
          PROVE  conn'[tm.conn].sock = tm.sock /\ tm.id <= conn'[tm.conn].timerId
      <4>1. /\ Stays(tm.conn) /\ ObjectThere(tm.conn)
        BY <3>1 DEF TimerThere
      <4>2. /\ conn[tm.conn].live /\ conn'[tm.conn].ts = conn[tm.conn].ts
            /\ conn'[tm.conn].sock = conn[tm.conn].sock
            /\ conn[tm.conn].timerId <= conn'[tm.conn].timerId
            /\ conn'[tm.conn].timerId \in Nat
        BY <3>2, <4>1 DEF Stays
      <4>3. conn[tm.conn].timerId \in Nat
        BY <4>1, <4>2 DEF ObjectThere
      <4>4. conn[tm.conn].sock = tm.sock /\ tm.id <= conn[tm.conn].timerId /\ tm.id \in Nat
        BY <3>1, <3>2, <4>2 DEF TimerThere, Own
      <4>. QED
        BY <4>2, <4>3, <4>4
    <3>. QED
      BY <3>1, <3>2 DEF TimerThere, Own
  <2>. QED
    BY <1>1, <2>1, <2>2
<1>2. ASSUME NEW tm \in exe' PROVE tm.ts < now'
  <2>1. CASE tm \in exe
    <3>1. tm.ts \in Nat /\ tm.ts < now
      BY <2>1 DEF TimersThere, TimerThere
    <3>. QED
      BY <3>1
  <2>. QED
    BY <1>2, <2>1
<1>. QED
  BY <1>1, <1>2 DEF TimersThere

LEMMA TimersLeft ==
  ASSUME TimersThere, \A b \in Addrs : Stays(b), \A b \in Addrs : ObjectThere(b),
         timers' \subseteq timers, exe' \subseteq exe,
         now \in Nat, now' \in Nat, now <= now', loopPc' = loopPc
  PROVE  TimersThere'
<1>1. PICK N : N = {}
  OBVIOUS
<1>2. \A tm \in N : TimerThere(tm)'
  BY <1>1
<1>3. timers' \cup exe' \subseteq timers \cup exe \cup N
  BY <1>1
<1>4. loopPc' # "timers" => exe' = {}
  BY DEF TimersThere
<1>5. \A tm \in exe' : tm \in exe \/ tm.ts < now'
  OBVIOUS
<1>. QED
  BY <1>2, <1>3, <1>4, <1>5, TimersStep

LEMMA EventsStep ==
  ASSUME EventsThere, ready' \subseteq ready, loopPc' = loopPc,
         \A e \in ready' : e.conn # Acceptor => conn'[e.conn].live /\ e.conn # closing'
  PROVE  EventsThere'
<1>1. \A e \in ready' : EventThere(e)'
  BY DEF EventsThere, EventThere
<1>. QED
  BY <1>1 DEF EventsThere

\* A live connection changes what it waits for, and may start a timer for it.
LEMMA ArmedThere ==
  ASSUME ObjectsThere, TimersThere, NEW a \in Addrs, conn[a].live,
         NEW c, Same(conn[a], c), NEW e, Same(conn[a], e), NEW delay \in Nat, NEW read,
         conn' = [conn EXCEPT ![a] = WithTimer(c, delay)],
         timers' = timers \cup NewTimers(a, e, delay, read),
         MayRegister(a), UNCHANGED <<fdTable, channels, closing, now, exe, loopPc>>
  PROVE  /\ ObjectsThere' /\ TimersThere'
         /\ \A b \in Addrs : conn[b].live => conn'[b].live
<1>1. PICK d : d = WithTimer(c, delay)
  OBVIOUS
<1>2. DOMAIN c = DOMAIN Dead /\ conn[a].timerId \in Nat /\ c.timerId = conn[a].timerId
  BY DEF Same, ObjectsThere, ObjectThere
<1>3. /\ DOMAIN d = DOMAIN Dead /\ d.live = c.live /\ d.sock = c.sock /\ d.fd = c.fd
      /\ d.ts = c.ts /\ d.timerId = IF delay = 0 THEN c.timerId ELSE c.timerId + 1
  <2>1. CASE delay = 0
    BY <1>1, <1>2, <2>1 DEF WithTimer
  <2>2. CASE delay # 0
    <3>1. d = [c EXCEPT !.timerId = c.timerId + 1]
      BY <1>1, <2>2 DEF WithTimer
    <3>2. DOMAIN d = DOMAIN c /\ \A g \in DOMAIN c : g # "timerId" => d[g] = c[g]
      BY <3>1
    <3>3. {"live", "sock", "fd", "ts", "timerId"} \subseteq DOMAIN c
      BY <1>2, DeadFields
    <3>4. d.live = c.live /\ d.sock = c.sock /\ d.fd = c.fd /\ d.ts = c.ts
      BY <3>2, <3>3
    <3>5. d.timerId = c.timerId + 1
      BY <3>1, <3>3
    <3>. QED
      BY <1>2, <2>2, <3>2, <3>4, <3>5
  <2>. QED
    BY <2>1, <2>2
<1>4. d.timerId \in Nat /\ c.timerId <= d.timerId
  BY <1>2, <1>3
<1>5. conn' = [conn EXCEPT ![a] = d]
  BY <1>1
<1>6. /\ ObjectsThere' /\ conn'[a] = d
      /\ \A b \in Addrs : Stays(b) /\ (conn[b].live => conn'[b].live)
  <2>1. DOMAIN d = DOMAIN Dead
    BY <1>3
  <2>2. d.live = c.live
    BY <1>3
  <2>3. d.sock = c.sock /\ d.fd = c.fd /\ d.ts = c.ts
    BY <1>3
  <2>4. UNCHANGED <<fdTable, channels, closing, now>>
    OBVIOUS
  <2>. HIDE <1>1
  <2>. QED
    BY <1>4, <1>5, <2>1, <2>2, <2>3, <2>4, ChangeThere
<1>7. ASSUME NEW tm \in NewTimers(a, e, delay, read) PROVE TimerThere(tm)'
  <2>1. delay # 0 /\ tm = [conn |-> a, sock |-> e.sock, cts |-> e.ts, id |-> e.timerId + 1,
                           read |-> read, ts |-> now + delay]
    BY DEF NewTimers
  <2>2. /\ tm.conn = a /\ tm.sock = e.sock /\ tm.cts = e.ts /\ tm.id = e.timerId + 1
        /\ tm.ts = now + delay
    BY <2>1
  <2>3. /\ e.sock = conn[a].sock /\ e.ts = conn[a].ts /\ e.timerId = conn[a].timerId
        /\ c.sock = conn[a].sock /\ c.ts = conn[a].ts
    BY DEF Same
  <2>4. conn[a].ts \in Nat \ {0} /\ now \in Nat
    BY DEF ObjectsThere, ObjectThere
  <2>5. tm.cts \in Nat \ {0} /\ tm.id \in Nat /\ tm.ts \in Nat
    BY <1>2, <2>2, <2>3, <2>4
  <2>6. conn'[a].sock = tm.sock /\ tm.id <= conn'[a].timerId
    BY <1>2, <1>3, <1>6, <2>1, <2>2, <2>3
  <2>. QED
    BY <2>2, <2>5, <2>6 DEF TimerThere
<1>8. now \in Nat /\ now' = now /\ \A b \in Addrs : ObjectThere(b)
  BY DEF ObjectsThere
<1>9. TimersThere'
  BY <1>6, <1>7, <1>8, TimersStep DEF TimersThere
<1>. QED
  BY <1>6, <1>9

\* close_callback up to the first ::close.
LEMMA CloseThere ==
  ASSUME ObjectsThere, TimersThere, NEW a \in Addrs, conn[a].live, CloseBegin(a),
         exe' \subseteq exe, UNCHANGED <<channels, timers, loopPc, now>>
  PROVE  /\ ObjectsThere' /\ TimersThere' /\ closing' = a
         /\ \A b \in Addrs : conn[b].live => conn'[b].live
<1>1. PICK c : c = conn[a]
  OBVIOUS
<1>2. PICK m : m = [c EXCEPT !.event = "none"]
  OBVIOUS
<1>3. PICK d : d = [m EXCEPT !.sevent = "none"]
  OBVIOUS
<1>4. DOMAIN conn = Addrs /\ \A b \in Addrs : ObjectThere(b)
  BY DEF ObjectsThere
<1>5. DOMAIN c = DOMAIN Dead
  BY <1>1, <1>4 DEF ObjectThere
<1>6. Same(c, m)
  BY <1>2, <1>5, SameExcept
<1>7. Same(m, d)
  BY <1>3, <1>6, SameExcept DEF Same
<1>8. Same(conn[a], d)
  BY <1>1, <1>6, <1>7, SameTwice
<1>9. conn' = [conn EXCEPT ![a] = d]
  BY <1>1, <1>2, <1>3, <1>4 DEF CloseBegin
<1>10. DOMAIN conn' = Addrs /\ conn'[a] = d /\ \A b \in Addrs : b # a => conn'[b] = conn[b]
  BY <1>4, <1>9
<1>11. CloseFd(conn[a].fd) /\ closing' = a
  BY DEF CloseBegin
<1>12. ASSUME NEW b \in Addrs
       PROVE  /\ conn[b].live => conn'[b].live /\ conn'[b].fd = conn[b].fd
              /\ Stays(b) /\ ObjectThere(b)'
  <2>1. ObjectThere(b)
    BY <1>4
  <2>2. CASE b = a
    <3>1. /\ conn'[b].live = conn[b].live /\ conn'[b].sock = conn[b].sock
          /\ conn'[b].fd = conn[b].fd /\ conn'[b].ts = conn[b].ts
          /\ conn'[b].timerId = conn[b].timerId /\ DOMAIN conn'[b] = DOMAIN Dead
      BY <1>8, <1>10, <2>2 DEF Same
    <3>2. conn[b].live /\ conn'[b].live
      BY <2>2, <3>1
    <3>3. conn[b].timerId \in Nat
      BY <2>1, <3>2 DEF ObjectThere
    <3>. QED
      BY <2>1, <3>1, <3>2, <3>3 DEF Stays, ObjectThere
  <2>3. CASE b # a
    <3>1. conn'[b] = conn[b]
      BY <1>10, <2>3
    <3>2. conn[b].live => conn[b].timerId \in Nat /\ conn[b].timerId <= conn[b].timerId
      BY <2>1 DEF ObjectThere
    <3>. QED
      BY <2>1, <3>1, <3>2 DEF Stays, ObjectThere
  <2>. QED
    BY <2>2, <2>3
<1>13. /\ DOMAIN fdTable' = Fds /\ DOMAIN epoll' = Socks
       /\ \A t \in Socks :
            /\ epoll'[t].ev # "none" => epoll'[t].conn # NoConn
            /\ epoll'[t].conn # NoConn =>
                 /\ epoll'[t].conn \in Addrs /\ epoll'[t].conn # a
                 /\ conn[epoll'[t].conn].live
                 /\ fdTable'[conn[epoll'[t].conn].fd] = t
  BY <1>11, ClosedThere
<1>14. \A t \in Socks : EpollThere(t)'
  BY <1>12, <1>13 DEF EpollThere
<1>15. conn'[a].live
  BY <1>12
<1>16. ObjectsThere'
  BY <1>10, <1>11, <1>12, <1>13, <1>14, <1>15 DEF ObjectsThere
<1>17. TimersThere'
  BY <1>4, <1>12, TimersLeft DEF ObjectsThere
<1>. QED
  BY <1>11, <1>12, <1>16, <1>17

\* remove_channel, delete and the second ::close.
LEMMA CloseEndThere ==
  ASSUME ObjectsThere, EventsThere, TimersThere, CloseEnd
  PROVE  ObjectsThere' /\ EventsThere' /\ TimersThere'
<1>1. PICK a : a = closing
  OBVIOUS
<1>2. a \in Addrs /\ conn[a].live
  BY <1>1 DEF CloseEnd, ObjectsThere
<1>3. DOMAIN conn = Addrs /\ DOMAIN channels = Addrs /\ \A b \in Addrs : ObjectThere(b)
  BY DEF ObjectsThere
<1>4. conn' = [conn EXCEPT ![a] = Dead] /\ CloseFd(conn[a].fd) /\ closing' = NoConn
  BY <1>1 DEF CloseEnd
<1>5. channels[a] = conn[a].ts
  BY <1>2, <1>3 DEF ObjectThere
<1>6. channels' = [channels EXCEPT ![a] = 0]
  BY <1>1, <1>5 DEF CloseEnd, RemoveChannel
<1>7. DOMAIN conn' = Addrs /\ conn'[a] = Dead /\ \A b \in Addrs : b # a => conn'[b] = conn[b]
  BY <1>2, <1>3, <1>4
<1>8. DOMAIN channels' = Addrs /\ channels'[a] = 0
      /\ \A b \in Addrs : b # a => channels'[b] = channels[b]
  BY <1>2, <1>3, <1>6
<1>9. ~Dead.live
  BY DEF Dead
<1>10. ASSUME NEW b \in Addrs
       PROVE  Stays(b) /\ ObjectThere(b)' /\ (b # a => conn'[b] = conn[b])
  <2>1. CASE b = a
    BY <1>7, <1>8, <1>9, <2>1 DEF Stays, ObjectThere
  <2>2. CASE b # a
    <3>1. conn'[b] = conn[b] /\ channels'[b] = channels[b] /\ ObjectThere(b)
      BY <1>3, <1>7, <1>8, <2>2
    <3>2. conn[b].live => conn[b].timerId \in Nat /\ conn[b].timerId <= conn[b].timerId
      BY <3>1 DEF ObjectThere
    <3>. QED
      BY <3>1, <3>2 DEF Stays, ObjectThere
  <2>. QED
    BY <2>1, <2>2
<1>11. /\ DOMAIN fdTable' = Fds /\ DOMAIN epoll' = Socks
       /\ \A t \in Socks :
            /\ epoll'[t].ev # "none" => epoll'[t].conn # NoConn
            /\ epoll'[t].conn # NoConn =>
                 /\ epoll'[t].conn \in Addrs /\ epoll'[t].conn # a
                 /\ conn[epoll'[t].conn].live
                 /\ fdTable'[conn[epoll'[t].conn].fd] = t
  BY <1>2, <1>4, ClosedThere
<1>12. \A t \in Socks : EpollThere(t)'
  BY <1>10, <1>11 DEF EpollThere
<1>13. ready' = ready /\ loopPc' = loopPc /\ exe' = exe /\ timers' = timers /\ now' = now
  BY DEF CloseEnd, loopVars, queues
<1>14. ObjectsThere'
  BY <1>4, <1>7, <1>8, <1>10, <1>11, <1>12, <1>13 DEF ObjectsThere
<1>15. \A e \in ready' : e.conn # Acceptor => conn'[e.conn].live /\ e.conn # closing'
  <2>1. \A e \in ready : e.conn # Acceptor => e.conn \in Addrs /\ conn[e.conn].live /\ e.conn # a
    BY <1>1 DEF EventsThere, EventThere
  <2>. QED
    BY <1>4, <1>10, <1>13, <2>1, Constants
<1>16. EventsThere'
  BY <1>13, <1>15, EventsStep
<1>17. now \in Nat
  BY DEF ObjectsThere
<1>18. TimersThere'
  BY <1>3, <1>10, <1>13, <1>17, TimersLeft
<1>. QED
  BY <1>14, <1>16, <1>18

\* accept and new_connection_callback up to update_channel.
LEMMA AcceptThere ==
  ASSUME ~SameMs, ObjectsThere, EventsThere, TimersThere,
         NEW s \in Socks, NEW a \in Addrs, Accept(s, a)
  PROVE  ObjectsThere' /\ EventsThere' /\ TimersThere'
<1>1. PICK fd \in Fds : /\ fdTable[fd] = NoSock /\ fdTable' = [fdTable EXCEPT ![fd] = s]
                        /\ conn' = [conn EXCEPT ![a] = NewConn(s, fd)]
  BY DEF Accept
<1>2. PICK c : c = NewConn(s, fd)
  OBVIOUS
<1>3. /\ DOMAIN c = DOMAIN Dead /\ c.live /\ c.sock = s /\ c.fd = fd /\ c.ts = now
      /\ c.timerId = 0
  BY <1>2 DEF NewConn, Dead
<1>4. /\ DOMAIN conn = Addrs /\ DOMAIN channels = Addrs /\ DOMAIN fdTable = Fds
      /\ DOMAIN epoll = Socks /\ now \in Nat \ {0}
      /\ \A b \in Addrs : ObjectThere(b)
  BY DEF ObjectsThere
<1>5. /\ ~conn[a].live /\ FreshTs
      /\ epoll' = [epoll EXCEPT ![s] = [ev |-> "IN", conn |-> a]]
      /\ channels' = [channels EXCEPT ![a] = now]
      /\ ready' \subseteq ready
      /\ UNCHANGED <<timers, loopPc, exe, closing, now>>
  BY DEF Accept, Backlogged, queues
<1>6. DOMAIN conn' = Addrs /\ conn'[a] = c /\ \A b \in Addrs : b # a => conn'[b] = conn[b]
  BY <1>1, <1>2, <1>4
<1>7. DOMAIN channels' = Addrs /\ channels'[a] = now
      /\ \A b \in Addrs : b # a => channels'[b] = channels[b]
  BY <1>4, <1>5
<1>8. DOMAIN fdTable' = Fds /\ fdTable'[fd] = s
      /\ \A f \in Fds : f # fd => fdTable'[f] = fdTable[f]
  BY <1>1, <1>4
<1>9. DOMAIN epoll' = Socks /\ epoll'[s] = [ev |-> "IN", conn |-> a]
      /\ \A t \in Socks : t # s => epoll'[t] = epoll[t]
  BY <1>4, <1>5
<1>10. \A b \in Addrs : ObjectThere(b)'
  <2>1. ObjectThere(a)'
    BY <1>3, <1>4, <1>5, <1>6, <1>7 DEF ObjectThere
  <2>2. ASSUME NEW b \in Addrs, b # a PROVE ObjectThere(b)'
    <3>1. conn'[b] = conn[b] /\ channels'[b] = channels[b] /\ ObjectThere(b)
      BY <1>4, <1>6, <1>7, <2>2
    <3>. QED
      BY <3>1 DEF ObjectThere
  <2>. QED
    BY <2>1, <2>2
<1>11. ASSUME NEW t \in Socks PROVE EpollThere(t)'
  <2>1. CASE t = s
    BY <1>3, <1>6, <1>8, <1>9, <2>1, Constants DEF EpollThere
  <2>2. CASE t # s
    <3>1. epoll'[t] = epoll[t] /\ EpollThere(t)
      BY <1>9, <2>2 DEF ObjectsThere
    <3>2. ASSUME NEW x, x = epoll[t].conn, x # NoConn
          PROVE  x \in Addrs /\ conn'[x].live /\ fdTable'[conn'[x].fd] = t
      <4>1. x \in Addrs /\ conn[x].live /\ fdTable[conn[x].fd] = t
        BY <3>1, <3>2 DEF EpollThere
      <4>2. conn'[x] = conn[x]
        BY <1>5, <1>6, <4>1
      <4>3. conn[x].fd \in Fds /\ conn[x].fd # fd
        BY <1>1, <1>4, <4>1, Constants DEF ObjectThere
      <4>. QED
        BY <1>8, <4>1, <4>2, <4>3
    <3>. QED
      BY <3>1, <3>2 DEF EpollThere
  <2>. QED
    BY <2>1, <2>2
<1>12. closing # NoConn => closing \in Addrs /\ closing # a /\ conn[closing].live
  BY <1>5 DEF ObjectsThere
<1>13. closing' # NoConn => closing' \in Addrs /\ conn'[closing'].live
  BY <1>5, <1>6, <1>12
<1>14. ObjectsThere'
  BY <1>4, <1>5, <1>6, <1>7, <1>8, <1>9, <1>10, <1>11, <1>13 DEF ObjectsThere
<1>15. \A e \in ready' : e.conn # Acceptor => conn'[e.conn].live /\ e.conn # closing'
  <2>1. \A e \in ready : e.conn # Acceptor =>
          e.conn \in Addrs /\ conn[e.conn].live /\ e.conn # closing
    BY DEF EventsThere, EventThere
  <2>. QED
    BY <1>5, <1>6, <2>1
<1>16. EventsThere'
  BY <1>5, <1>15, EventsStep
<1>17. ASSUME NEW tm \in timers' \cup exe' PROVE TimerThere(tm)'
  <2>1. TimerThere(tm) /\ tm.cts # now
    BY <1>5 DEF TimersThere, FreshTs
  <2>2. CASE tm.conn = a
    BY <1>3, <1>6, <2>1, <2>2 DEF TimerThere, Own
  <2>3. CASE tm.conn # a
    <3>1. conn'[tm.conn] = conn[tm.conn]
      BY <1>6, <2>1, <2>3 DEF TimerThere
    <3>. QED
      BY <2>1, <3>1 DEF TimerThere, Own
  <2>. QED
    BY <2>2, <2>3
<1>18. TimersThere'
  BY <1>5, <1>17 DEF TimersThere
<1>. QED
  BY <1>14, <1>16, <1>18

\* A live connection changes nothing that timers and events depend on.
LEMMA KeptThere ==
  ASSUME ObjectsThere, TimersThere, NEW a \in Addrs, conn[a].live,
         NEW c, Same(conn[a], c), conn' = [conn EXCEPT ![a] = c], MayRegister(a),
         UNCHANGED <<timers, fdTable, channels, closing, now, exe, loopPc>>
  PROVE  /\ ObjectsThere' /\ TimersThere'
         /\ \A b \in Addrs : conn[b].live => conn'[b].live
<1>1. /\ \A b \in Addrs : ObjectThere(b) /\ now \in Nat
      /\ DOMAIN c = DOMAIN Dead /\ c.timerId \in Nat
  BY DEF ObjectsThere, ObjectThere, Same
<1>2. PICK d : d = c /\ DOMAIN d = DOMAIN Dead /\ d.timerId \in Nat
  BY <1>1
<1>3. /\ d.live = c.live /\ d.sock = c.sock /\ d.fd = c.fd /\ d.ts = c.ts
      /\ c.timerId <= d.timerId /\ conn' = [conn EXCEPT ![a] = d]
  BY <1>2
<1>4. UNCHANGED <<fdTable, channels, closing, now>>
  OBVIOUS
<1>5. /\ ObjectsThere'
      /\ \A b \in Addrs : Stays(b) /\ (conn[b].live => conn'[b].live)
  BY <1>2, <1>3, <1>4, ChangeThere
<1>6. TimersThere'
  BY <1>1, <1>5, TimersLeft
<1>. QED
  BY <1>5, <1>6

LEMMA EventsKept ==
  ASSUME EventsThere, ready' \subseteq ready, loopPc' = loopPc, closing' = closing,
         \A b \in Addrs : conn[b].live => conn'[b].live
  PROVE  EventsThere'
<1>1. \A e \in ready' : e.conn # Acceptor => conn'[e.conn].live /\ e.conn # closing'
  BY DEF EventsThere, EventThere
<1>. QED
  BY <1>1, EventsStep

\* No connection changes.
LEMMA ObjectsKept ==
  ASSUME ObjectsThere, DOMAIN conn' = Addrs, \A b \in Addrs : conn'[b] = conn[b],
         UNCHANGED <<fdTable, epoll, channels, closing>>, now' \in Nat, now <= now'
  PROVE  ObjectsThere' /\ \A b \in Addrs : Stays(b) /\ ObjectThere(b)
<1>1. ASSUME NEW b \in Addrs PROVE ObjectThere(b) /\ ObjectThere(b)' /\ Stays(b)
  <2>1. ObjectThere(b) /\ conn'[b] = conn[b]
    BY DEF ObjectsThere
  <2>2. conn[b].live => conn[b].timerId \in Nat /\ conn[b].timerId <= conn[b].timerId
    BY <2>1 DEF ObjectThere
  <2>. QED
    BY <2>1, <2>2 DEF Stays, ObjectThere
<1>2. \A s \in Socks : EpollThere(s)'
  BY DEF ObjectsThere, EpollThere
<1>3. now' \in Nat \ {0}
  BY DEF ObjectsThere
<1>. QED
  BY <1>1, <1>2, <1>3 DEF ObjectsThere

\* The rest of new_connection_callback, by another thread.
LEMMA AcceptRestThere ==
  ASSUME There, AcceptRest, fault' = "none"
  PROVE  There'
<1>1. PICK a : a = accepting
  OBVIOUS
<1>2. ObjectsThere /\ EventsThere /\ QueuesThere /\ TimersThere
  BY DEF There
<1>3. PICK from, to, c : /\ from # "idle" /\ AcceptStep(from, to, c)
                         /\ \/ /\ c = WithTimer(conn[a], ReadTimeout)
                               /\ timers' = timers \cup NewTimers(a, conn[a], ReadTimeout, TRUE)
                            \/ /\ c = [conn[a] EXCEPT !.cbs = @ \cup {from}]
                               /\ timers' = timers
  BY <1>1 DEF AcceptRest, ArmRead, SetCallback
<1>4. /\ acceptPc = from /\ acceptPc' = to
      /\ conn[a].live /\ conn' = [conn EXCEPT ![a] = c]
      /\ accepting' = IF to = "idle" THEN NoConn ELSE accepting
  BY <1>1, <1>3 DEF AcceptStep
<1>5. UNCHANGED <<sock, fdTable, epoll, channels, funcs, loopPc, ready, batch, exe, closing,
                  calls, now>>
  BY <1>3 DEF AcceptStep, kernel, loopVars
<1>6. a \in Addrs
  BY <1>1, <1>2, <1>3, <1>4 DEF QueuesThere
<1>7. MayRegister(a)
  BY <1>5 DEF MayRegister
<1>8. DOMAIN conn[a] = DOMAIN Dead
  BY <1>2, <1>6 DEF ObjectsThere, ObjectThere
<1>9. Same(conn[a], conn[a])
  BY <1>8 DEF Same
<1>10. UNCHANGED <<fdTable, channels, closing, now, exe, loopPc>>
  BY <1>5
<1>11. /\ ObjectsThere' /\ TimersThere'
       /\ \A b \in Addrs : conn[b].live => conn'[b].live
  <2>1. CASE /\ c = WithTimer(conn[a], ReadTimeout)
             /\ timers' = timers \cup NewTimers(a, conn[a], ReadTimeout, TRUE)
    <3>1. conn' = [conn EXCEPT ![a] = WithTimer(conn[a], ReadTimeout)]
      BY <1>4, <2>1
    <3>2. PICK d : d = conn[a] /\ Same(conn[a], d)
      BY <1>9
    <3>3. PICK delay \in Nat : delay = ReadTimeout
      BY Constants
    <3>4. /\ conn' = [conn EXCEPT ![a] = WithTimer(d, delay)]
          /\ timers' = timers \cup NewTimers(a, d, delay, TRUE)
      BY <2>1, <3>1, <3>2, <3>3
    <3>. QED
      BY <1>2, <1>4, <1>6, <1>7, <1>10, <3>2, <3>4, ArmedThere
  <2>2. CASE c = [conn[a] EXCEPT !.cbs = @ \cup {from}] /\ timers' = timers
    <3>1. Same(conn[a], c)
      BY <1>8, <2>2, SameExcept
    <3>2. UNCHANGED <<timers, fdTable, channels, closing, now, exe, loopPc>>
      BY <1>10, <2>2
    <3>. QED
      BY <1>2, <1>4, <1>6, <1>7, <3>1, <3>2, KeptThere
  <2>. QED
    BY <1>3, <2>1, <2>2
<1>12. EventsThere'
  BY <1>2, <1>5, <1>11, EventsKept
<1>13. QueuesThere'
  BY <1>1, <1>2, <1>4, <1>5, <1>6 DEF QueuesThere
<1>. QED
  BY <1>11, <1>12, <1>13 DEF There

\* update_channel for a connection whose socket may be another's.
LEMMA RunFuncThere ==
  ASSUME There, RunFunc, fault' = "none"
  PROVE  There'
<1>1. ObjectsThere /\ EventsThere /\ QueuesThere /\ TimersThere
  BY DEF There
<1>2. batch # <<>> /\ batch \in Seq(AllFuncs) /\ batch' = Tail(batch)
  BY <1>1 DEF RunFunc, QueuesThere
<1>3. Head(batch) \in AllFuncs
  BY <1>2
<1>4. PICK a \in Addrs : a = Head(batch).conn
  BY <1>3 DEF AllFuncs
<1>5. PICK c : c = [conn[a] EXCEPT !.sevent = conn[a].event]
  OBVIOUS
<1>6. /\ conn[a].live /\ epoll' = Registered(a, conn[a])
      /\ conn' = [conn EXCEPT ![a].sevent = conn[a].event]
      /\ UNCHANGED <<fdTable, channels, funcs, timers, closing, acceptPc, accepting, calls,
                     loopPc, ready, exe, now>>
  BY <1>4 DEF RunFunc, Fail, Valid, acceptVars
<1>7. conn' = [conn EXCEPT ![a] = c]
  BY <1>1, <1>5, <1>6 DEF ObjectsThere
<1>8. DOMAIN conn[a] = DOMAIN Dead
  BY <1>1 DEF ObjectsThere, ObjectThere
<1>9. Same(conn[a], c)
  BY <1>5, <1>8, SameExcept
<1>10. MayRegister(a)
  BY <1>6 DEF MayRegister
<1>11. UNCHANGED <<timers, fdTable, channels, closing, now, exe, loopPc>>
  BY <1>6
<1>12. /\ ObjectsThere' /\ TimersThere'
       /\ \A b \in Addrs : conn[b].live => conn'[b].live
  BY <1>1, <1>6, <1>7, <1>9, <1>10, <1>11, KeptThere
<1>13. EventsThere'
  BY <1>1, <1>6, <1>12, EventsKept
<1>14. batch' \in Seq(AllFuncs)
  BY <1>2
<1>15. QueuesThere'
  BY <1>1, <1>6, <1>14 DEF QueuesThere
<1>. QED
  BY <1>12, <1>13, <1>15 DEF There

LEMMA PackSame ==
  ASSUME NEW c, DOMAIN c = DOMAIN Dead, NEW n
  PROVE  Same(c, Pack(c, n))
<1>1. PICK w, d, e : /\ w = [hdr |-> Append(c.wbuf.hdr, n), extra |-> n, sent |-> c.wbuf.sent]
                     /\ d = [c EXCEPT !.wbuf = w] /\ e = [d EXCEPT !.event = "OUT"]
  OBVIOUS
<1>2. Same(c, d)
  BY <1>1, SameExcept
<1>3. DOMAIN d = DOMAIN Dead
  BY <1>2 DEF Same
<1>4. Same(d, e)
  BY <1>1, <1>3, SameExcept
<1>5. Pack(c, n) = e
  BY <1>1 DEF Pack
<1>. QED
  BY <1>2, <1>4, <1>5, SameTwice

\* response_callback in a thread of the service.
LEMMA AsyncPackThere ==
  ASSUME There, NEW call \in calls, AsyncPack(call), fault' = "none"
  PROVE  There'
<1>1. ObjectsThere /\ EventsThere /\ QueuesThere /\ TimersThere
  BY DEF There
<1>2. PICK a \in Addrs : a = call.conn
  BY <1>1 DEF QueuesThere
<1>3. /\ Valid(a, call.sock) /\ conn' = [conn EXCEPT ![a] = Pack(conn[a], call.n)]
      /\ funcs' = Append(funcs, [conn |-> a, sock |-> call.sock])
      /\ calls' = (calls \ {call}) \cup {[call EXCEPT !.pc = "arm"]}
      /\ UNCHANGED <<fdTable, epoll, channels, timers, closing, acceptPc, accepting,
                     loopPc, ready, batch, exe, now>>
  BY <1>2 DEF AsyncPack, Fail, kernel, loopVars, acceptVars
<1>4. conn[a].live /\ conn[a].sock = call.sock
  BY <1>3 DEF Valid
<1>5. DOMAIN conn[a] = DOMAIN Dead /\ conn[a].sock \in Socks
  BY <1>1, <1>4 DEF ObjectsThere, ObjectThere
<1>6. PICK c : c = Pack(conn[a], call.n) /\ Same(conn[a], c)
  BY <1>5, PackSame
<1>7. conn' = [conn EXCEPT ![a] = c]
  BY <1>3, <1>6
<1>8. MayRegister(a)
  BY <1>3 DEF MayRegister
<1>9. UNCHANGED <<timers, fdTable, channels, closing, now, exe, loopPc>>
  BY <1>3
<1>10. /\ ObjectsThere' /\ TimersThere'
       /\ \A b \in Addrs : conn[b].live => conn'[b].live
  BY <1>1, <1>4, <1>6, <1>7, <1>8, <1>9, KeptThere
<1>11. EventsThere'
  BY <1>1, <1>3, <1>10, EventsKept
<1>12. [conn |-> a, sock |-> call.sock] \in AllFuncs
  BY <1>4, <1>5 DEF AllFuncs
<1>13. funcs' \in Seq(AllFuncs)
  BY <1>1, <1>3, <1>12 DEF QueuesThere
<1>14. \A other \in calls' : other.conn \in Addrs /\ DOMAIN other = {"conn", "sock", "n", "pc"}
  <2>1. PICK armed : armed = [call EXCEPT !.pc = "arm"]
    OBVIOUS
  <2>2. DOMAIN call = {"conn", "sock", "n", "pc"}
    BY <1>1 DEF QueuesThere
  <2>3. DOMAIN armed = DOMAIN call /\ armed.conn = call.conn
    BY <2>1, <2>2
  <2>. QED
    BY <1>1, <1>2, <1>3, <2>1, <2>2, <2>3 DEF QueuesThere
<1>15. QueuesThere'
  BY <1>1, <1>3, <1>13, <1>14 DEF QueuesThere
<1>. QED
  BY <1>10, <1>11, <1>15 DEF There

\* The write timer of response_callback in a thread of the service.
LEMMA AsyncArmThere ==
  ASSUME There, NEW call \in calls, AsyncArm(call), fault' = "none"
  PROVE  There'
<1>1. ObjectsThere /\ EventsThere /\ QueuesThere /\ TimersThere
  BY DEF There
<1>2. PICK a \in Addrs : a = call.conn
  BY <1>1 DEF QueuesThere
<1>3. PICK delay \in Nat : delay = WriteTimeout
  BY Constants
<1>4. /\ delay = 0 \/ Valid(a, call.sock)
      /\ conn' = [conn EXCEPT ![a] = WithTimer(conn[a], delay)]
      /\ timers' = timers \cup NewTimers(a, conn[a], delay, FALSE)
      /\ calls' = calls \ {call}
      /\ UNCHANGED <<fdTable, epoll, channels, funcs, closing, acceptPc, accepting,
                     loopPc, ready, batch, exe, now>>
  BY <1>2, <1>3 DEF AsyncArm, Fail, kernel, loopVars, acceptVars
<1>5. QueuesThere'
  BY <1>1, <1>4 DEF QueuesThere
<1>6. CASE ~conn[a].live
  <2>1. delay = 0
    BY <1>4, <1>6 DEF Valid
  <2>2. DOMAIN conn' = Addrs /\ \A b \in Addrs : conn'[b] = conn[b]
    BY <1>1, <1>4, <2>1 DEF WithTimer, ObjectsThere
  <2>3. timers' = timers
    BY <1>4, <2>1 DEF NewTimers
  <2>4. now \in Nat /\ now' = now
    BY <1>1, <1>4 DEF ObjectsThere
  <2>5. UNCHANGED <<fdTable, epoll, channels, closing>>
    BY <1>4
  <2>6. ObjectsThere' /\ \A b \in Addrs : Stays(b) /\ ObjectThere(b)
    BY <1>1, <2>2, <2>4, <2>5, ObjectsKept
  <2>7. EventsThere'
    BY <1>1, <1>4, <2>2, EventsKept
  <2>8. TimersThere'
    <3>1. timers' \subseteq timers /\ exe' \subseteq exe /\ loopPc' = loopPc
      BY <1>4, <2>3
    <3>2. now' \in Nat /\ now <= now'
      BY <2>4
    <3>. QED
      BY <1>1, <2>4, <2>6, <3>1, <3>2, TimersLeft
  <2>. QED
    BY <1>5, <2>6, <2>7, <2>8 DEF There
<1>7. CASE conn[a].live
  <2>1. DOMAIN conn[a] = DOMAIN Dead
    BY <1>1 DEF ObjectsThere, ObjectThere
  <2>2. PICK d : d = conn[a] /\ Same(conn[a], d)
    BY <2>1 DEF Same
  <2>3. /\ conn' = [conn EXCEPT ![a] = WithTimer(d, delay)]
        /\ timers' = timers \cup NewTimers(a, d, delay, FALSE)
    BY <1>4, <2>2
  <2>4. MayRegister(a)
    BY <1>4 DEF MayRegister
  <2>5. UNCHANGED <<fdTable, channels, closing, now, exe, loopPc>>
    BY <1>4
  <2>6. /\ ObjectsThere' /\ TimersThere'
        /\ \A b \in Addrs : conn[b].live => conn'[b].live
    BY <1>1, <1>7, <2>2, <2>3, <2>4, <2>5, ArmedThere
  <2>7. EventsThere'
    BY <1>1, <1>4, <2>6, EventsKept
  <2>. QED
    BY <1>5, <2>6, <2>7 DEF There
<1>. QED
  BY <1>6, <1>7

\* An event that is handled was the only one of its connection, a live one.
LEMMA TakenThere ==
  ASSUME There, NEW a \in Addrs, NEW ev, TakeEvent(a, ev)
  PROVE  /\ conn[a].live /\ DOMAIN conn[a] = DOMAIN Dead /\ ready' \subseteq ready
         /\ \A e \in ready' : e.conn # a
         /\ UNCHANGED <<loopPc, batch, exe, acceptPc, accepting, now>>
<1>1. PICK e : e = [conn |-> a, ev |-> ev]
  OBVIOUS
<1>2. e \in ready /\ ready' = ready \ {e} /\ e.conn = a
      /\ UNCHANGED <<loopPc, batch, exe, acceptPc, accepting, now>>
  BY <1>1 DEF TakeEvent, acceptVars
<1>3. EventThere(e) /\ \A f \in ready : f.conn = a => f = e
  BY <1>2 DEF There, EventsThere
<1>4. conn[a].live
  BY <1>2, <1>3, Constants DEF EventThere
<1>5. DOMAIN conn[a] = DOMAIN Dead
  BY DEF There, ObjectsThere, ObjectThere
<1>. QED
  BY <1>2, <1>3, <1>4, <1>5

\* The handler of an event closes the connection.
LEMMA EventCloseThere ==
  ASSUME There, NEW a \in Addrs, NEW ev, TakeEvent(a, ev), CloseBegin(a),
         UNCHANGED <<channels, funcs, timers, calls>>
  PROVE  There'
<1>1. ObjectsThere /\ EventsThere /\ QueuesThere /\ TimersThere
  BY DEF There
<1>2. /\ conn[a].live /\ ready' \subseteq ready /\ \A e \in ready' : e.conn # a
      /\ UNCHANGED <<loopPc, batch, exe, acceptPc, accepting, now>>
  BY TakenThere
<1>3. exe' \subseteq exe /\ UNCHANGED <<channels, timers, loopPc, now>>
  BY <1>2
<1>4. /\ ObjectsThere' /\ TimersThere' /\ closing' = a
      /\ \A b \in Addrs : conn[b].live => conn'[b].live
  BY <1>1, <1>2, <1>3, CloseThere
<1>5. \A e \in ready' : e.conn # Acceptor => conn'[e.conn].live /\ e.conn # closing'
  BY <1>1, <1>2, <1>4 DEF EventsThere, EventThere
<1>6. EventsThere'
  BY <1>1, <1>2, <1>5, EventsStep
<1>7. QueuesThere'
  BY <1>1, <1>2 DEF QueuesThere
<1>. QED
  BY <1>4, <1>6, <1>7 DEF There

\* The handler of an event changes the connection, and starts no timer.
LEMMA EventStayThere ==
  ASSUME There, NEW a \in Addrs, NEW ev, TakeEvent(a, ev),
         NEW c, Same(conn[a], c), conn' = [conn EXCEPT ![a] = c],
         UNCHANGED <<fdTable, epoll, channels, funcs, timers, closing>>,
         \A call \in calls' : call.conn \in Addrs /\ DOMAIN call = {"conn", "sock", "n", "pc"}
  PROVE  There'
<1>1. ObjectsThere /\ EventsThere /\ QueuesThere /\ TimersThere
  BY DEF There
<1>2. /\ conn[a].live /\ ready' \subseteq ready
      /\ UNCHANGED <<loopPc, batch, exe, acceptPc, accepting, now>>
  BY TakenThere
<1>3. MayRegister(a)
  BY DEF MayRegister
<1>4. UNCHANGED <<timers, fdTable, channels, closing, now, exe, loopPc>>
  BY <1>2
<1>5. /\ ObjectsThere' /\ TimersThere'
      /\ \A b \in Addrs : conn[b].live => conn'[b].live
  BY <1>1, <1>2, <1>3, <1>4, KeptThere
<1>6. EventsThere'
  BY <1>1, <1>2, <1>4, <1>5, EventsKept
<1>7. QueuesThere'
  BY <1>1, <1>2 DEF QueuesThere
<1>. QED
  BY <1>5, <1>6, <1>7 DEF There

\* The handler of an event starts the connection's next wait.
LEMMA EventArmThere ==
  ASSUME There, NEW a \in Addrs, NEW ev, TakeEvent(a, ev),
         NEW c, Same(conn[a], c), NEW e, Same(conn[a], e), NEW delay \in Nat, NEW read,
         conn' = [conn EXCEPT ![a] = WithTimer(c, delay)],
         timers' = timers \cup NewTimers(a, e, delay, read), MayRegister(a),
         UNCHANGED <<fdTable, channels, closing, calls>>, funcs' \in Seq(AllFuncs)
  PROVE  There'
<1>1. ObjectsThere /\ EventsThere /\ QueuesThere /\ TimersThere
  BY DEF There
<1>2. /\ conn[a].live /\ ready' \subseteq ready
      /\ UNCHANGED <<loopPc, batch, exe, acceptPc, accepting, now>>
  BY TakenThere
<1>3. UNCHANGED <<fdTable, channels, closing, now, exe, loopPc>>
  BY <1>2
<1>4. /\ ObjectsThere' /\ TimersThere'
      /\ \A b \in Addrs : conn[b].live => conn'[b].live
  BY <1>1, <1>2, <1>3, ArmedThere
<1>5. EventsThere'
  BY <1>1, <1>2, <1>3, <1>4, EventsKept
<1>6. QueuesThere'
  BY <1>1, <1>2 DEF QueuesThere
<1>. QED
  BY <1>4, <1>5, <1>6 DEF There

LEMMA ParseSame ==
  ASSUME NEW c, DOMAIN c = DOMAIN Dead
  PROVE  Same(c, Parse(c))
<1>1. Same(c, c)
  BY DEF Same
<1>2. ASSUME NEW x, NEW q PROVE Same(c, [c EXCEPT !.ctx = x, !.rbuf = q])
  <2>1. PICK d, e : d = [c EXCEPT !.ctx = x] /\ e = [d EXCEPT !.rbuf = q]
    OBVIOUS
  <2>2. Same(c, d)
    BY <2>1, SameExcept
  <2>3. DOMAIN d = DOMAIN Dead
    BY <2>2 DEF Same
  <2>4. Same(d, e)
    BY <2>1, <2>3, SameExcept
  <2>. QED
    BY <2>1, <2>2, <2>4, SameTwice
<1>3. CASE Parse(c) = c
  BY <1>1, <1>3
<1>4. CASE Parse(c) # c
  <2>1. PICK x, q : Parse(c) = [c EXCEPT !.ctx = x, !.rbuf = q]
    BY <1>4 DEF Parse
  <2>2. Same(c, [c EXCEPT !.ctx = x, !.rbuf = q])
    BY <1>2
  <2>. QED
    BY <2>1, <2>2
<1>. QED
  BY <1>3, <1>4

\* A read that the close callback follows.
LEMMA EofThere ==
  ASSUME There, NEW a \in Addrs, HandleEof(a)
  PROVE  There'
<1>1. /\ TakeEvent(a, "IN")
      /\ CloseBegin(a) \/ UNCHANGED <<fdTable, epoll, conn, closing>>
      /\ UNCHANGED <<channels, funcs, timers, calls>>
  BY DEF HandleEof, kernel, queues
<1>2. CASE CloseBegin(a)
  BY <1>1, <1>2, EventCloseThere
<1>3. CASE UNCHANGED <<fdTable, epoll, conn, closing>>
  <2>1. ObjectsThere /\ EventsThere /\ QueuesThere /\ TimersThere
    BY DEF There
  <2>2. ready' \subseteq ready /\ UNCHANGED <<loopPc, batch, exe, acceptPc, accepting, now>>
    BY <1>1, TakenThere
  <2>3. /\ DOMAIN conn' = Addrs /\ \A b \in Addrs : conn'[b] = conn[b]
        /\ now \in Nat /\ now' = now
    BY <1>3, <2>1, <2>2 DEF ObjectsThere
  <2>4. UNCHANGED <<fdTable, epoll, channels, closing>>
    BY <1>1, <1>3
  <2>5. ObjectsThere' /\ \A b \in Addrs : Stays(b) /\ ObjectThere(b)
    BY <2>1, <2>3, <2>4, ObjectsKept
  <2>6. EventsThere'
    BY <1>3, <2>1, <2>2, EventsKept
  <2>7. TimersThere'
    BY <1>1, <2>1, <2>2, <2>3, <2>5, TimersLeft
  <2>8. QueuesThere'
    BY <1>1, <2>1, <2>2 DEF QueuesThere
  <2>. QED
    BY <2>5, <2>6, <2>7, <2>8 DEF There
<1>. QED
  BY <1>1, <1>2, <1>3

\* A read that returns data.
LEMMA ReadThere ==
  ASSUME There, NEW a \in Addrs, NEW k, HandleRead(a, k), fault' = "none"
  PROVE  There'
<1>1. PICK c : c = [conn[a] EXCEPT !.rbuf = @ \o SubSeq(sock[SockOf(conn[a])].in, 1, k)]
  OBVIOUS
<1>2. PICK p : p = Parse(c)
  OBVIOUS
<1>3. TakeEvent(a, "IN") /\ UNCHANGED channels
  BY DEF HandleRead
<1>4. \/ /\ conn' = [conn EXCEPT ![a] = c]
         /\ UNCHANGED <<fdTable, epoll, funcs, timers, closing, calls>>
      \/ /\ conn' = [conn EXCEPT ![a] = p]
         /\ UNCHANGED <<fdTable, epoll, funcs, timers, closing, calls>>
      \/ /\ CloseBegin(a)
         /\ UNCHANGED <<funcs, timers, calls>>
      \/ /\ CallMethod(a, p)
         /\ UNCHANGED <<fdTable, epoll, closing>>
  BY <1>1, <1>2 DEF HandleRead, queues
<1>5. conn[a].live /\ DOMAIN conn[a] = DOMAIN Dead
  BY <1>3, TakenThere
<1>6. Same(conn[a], c)
  BY <1>1, <1>5, SameExcept
<1>7. DOMAIN c = DOMAIN Dead
  BY <1>6 DEF Same
<1>8. Same(c, p)
  BY <1>2, <1>7, ParseSame
<1>9. Same(conn[a], p)
  BY <1>6, <1>8, SameTwice
<1>10. QueuesThere
  BY DEF There
<1>11. \A call \in calls : call.conn \in Addrs /\ DOMAIN call = {"conn", "sock", "n", "pc"}
  BY <1>10 DEF QueuesThere
<1>12. ASSUME NEW d, Same(conn[a], d), conn' = [conn EXCEPT ![a] = d],
              UNCHANGED <<fdTable, epoll, funcs, timers, closing>>,
              \A call \in calls' : call.conn \in Addrs /\ DOMAIN call = {"conn", "sock", "n", "pc"}
       PROVE  There'
  <2>1. UNCHANGED <<fdTable, epoll, channels, funcs, timers, closing>>
    BY <1>3, <1>12
  <2>. QED
    BY <1>3, <1>12, <2>1, EventStayThere
<1>13. CASE conn' = [conn EXCEPT ![a] = c] /\ UNCHANGED <<fdTable, epoll, funcs, timers, closing, calls>>
  BY <1>6, <1>11, <1>12, <1>13
<1>14. CASE conn' = [conn EXCEPT ![a] = p] /\ UNCHANGED <<fdTable, epoll, funcs, timers, closing, calls>>
  BY <1>9, <1>11, <1>12, <1>14
<1>15. CASE CloseBegin(a) /\ UNCHANGED <<funcs, timers, calls>>
  BY <1>3, <1>15, EventCloseThere
<1>16. CASE CallMethod(a, p) /\ UNCHANGED <<fdTable, epoll, closing>>
  <2>1. CASE AsyncService
    <3>1. PICK call : call = [conn |-> a, sock |-> p.sock, n |-> p.ctx.n, pc |-> "run"]
      OBVIOUS
    <3>2. /\ calls' = calls \cup {call} /\ conn' = [conn EXCEPT ![a] = p]
          /\ UNCHANGED <<fdTable, epoll, funcs, timers, closing>>
      BY <1>16, <2>1, <3>1 DEF CallMethod
    <3>3. call.conn = a /\ DOMAIN call = {"conn", "sock", "n", "pc"}
      BY <3>1
    <3>4. \A other \in calls' : other.conn \in Addrs /\ DOMAIN other = {"conn", "sock", "n", "pc"}
      BY <1>11, <3>2, <3>3
    <3>. QED
      BY <1>9, <1>12, <3>2, <3>4
  <2>2. CASE ~AsyncService
    <3>1. PICK d, delay : /\ d = Pack(p, p.ctx.n) /\ delay \in Nat /\ delay = WriteTimeout
      BY Constants
    <3>2. /\ conn' = [conn EXCEPT ![a] = WithTimer(d, delay)]
          /\ funcs' = Append(funcs, [conn |-> a, sock |-> p.sock])
          /\ timers' = timers \cup NewTimers(a, p, delay, FALSE)
          /\ calls' = calls
      BY <1>16, <2>2, <3>1 DEF CallMethod
    <3>3. Same(conn[a], d)
      <4>1. DOMAIN p = DOMAIN Dead
        BY <1>9 DEF Same
      <4>2. Same(p, d)
        BY <3>1, <4>1, PackSame
      <4>. QED
        BY <1>9, <4>2, SameTwice
    <3>4. MayRegister(a)
      BY <1>16 DEF MayRegister
    <3>5. p.sock \in Socks
      BY <1>5, <1>9 DEF Same, There, ObjectsThere, ObjectThere
    <3>6. [conn |-> a, sock |-> p.sock] \in AllFuncs
      BY <3>5 DEF AllFuncs
    <3>7. funcs' \in Seq(AllFuncs)
      BY <1>10, <3>2, <3>6 DEF QueuesThere
    <3>8. UNCHANGED <<fdTable, channels, closing, calls>>
      BY <1>3, <1>16, <3>2
    <3>. QED
      BY <1>3, <1>9, <3>1, <3>2, <3>3, <3>4, <3>7, <3>8, EventArmThere
  <2>. QED
    BY <2>1, <2>2
<1>. QED
  BY <1>4, <1>13, <1>14, <1>15, <1>16

LEMMA ClearedSame ==
  ASSUME NEW c, DOMAIN c = DOMAIN Dead
  PROVE  Same(c, [Cleared(c) EXCEPT !.event = "IN"])
<1>1. PICK d, e, f, g :
        /\ d = [c EXCEPT !.ctx = NoCtx] /\ e = [d EXCEPT !.rbuf = <<>>]
        /\ f = [e EXCEPT !.wbuf = [[@ EXCEPT !.hdr = <<>>] EXCEPT !.sent = FALSE]]
        /\ g = [f EXCEPT !.event = "IN"]
  OBVIOUS
<1>2. Same(c, d)
  BY <1>1, SameExcept
<1>3. DOMAIN d = DOMAIN Dead
  BY <1>2 DEF Same
<1>4. Same(d, e)
  BY <1>1, <1>3, SameExcept
<1>5. DOMAIN e = DOMAIN Dead
  BY <1>4 DEF Same
<1>6. Same(e, f)
  BY <1>1, <1>5, SameExcept
<1>7. DOMAIN f = DOMAIN Dead
  BY <1>6 DEF Same
<1>8. Same(f, g)
  <2>1. g = [f EXCEPT !.event = "IN"]
    BY <1>1
  <2>. QED
    BY <1>7, <2>1, SameExcept
<1>9. Same(c, g)
  <2>1. Same(c, e)
    BY <1>2, <1>4, SameTwice
  <2>2. Same(e, g)
    BY <1>6, <1>8, SameTwice
  <2>. QED
    BY <2>1, <2>2, SameTwice
<1>10. f = Cleared(c)
  BY <1>1, <1>3, <1>5, DeadFields DEF Cleared
<1>. QED
  BY <1>1, <1>9, <1>10

\* A write, and write_complete_callback if the response is out.
LEMMA WriteThere ==
  ASSUME There, NEW a \in Addrs, NEW out, HandleOut(a, out), fault' = "none"
  PROVE  There'
<1>1. PICK c : c = [conn[a] EXCEPT !.wbuf = WriteFd(@, out)]
  OBVIOUS
<1>2. PICK d, e : d = [Cleared(c) EXCEPT !.event = "IN"] /\ e = [d EXCEPT !.sevent = "IN"]
  OBVIOUS
<1>3. TakeEvent(a, "OUT") /\ UNCHANGED <<channels, funcs, calls>>
  BY DEF HandleOut
<1>4. \/ WriteComplete(a, c)
      \/ /\ conn' = [conn EXCEPT ![a] = c]
         /\ UNCHANGED <<fdTable, epoll, timers, closing>>
  BY <1>1 DEF HandleOut, kernel
<1>5. \/ /\ conn' = [conn EXCEPT ![a] = c]
         /\ UNCHANGED <<fdTable, epoll, timers, closing>>
      \/ CloseBegin(a) /\ UNCHANGED timers
      \/ /\ epoll' = Registered(a, d)
         /\ conn' = [conn EXCEPT ![a] = WithTimer(e, ReadTimeout)]
         /\ timers' = timers \cup NewTimers(a, d, ReadTimeout, TRUE)
         /\ UNCHANGED <<fdTable, closing>>
  BY <1>2, <1>4 DEF WriteComplete
<1>6. conn[a].live /\ DOMAIN conn[a] = DOMAIN Dead
  BY <1>3, TakenThere
<1>7. Same(conn[a], c)
  BY <1>1, <1>6, SameExcept
<1>8. DOMAIN c = DOMAIN Dead
  BY <1>7 DEF Same
<1>9. Same(c, d)
  BY <1>2, <1>8, ClearedSame
<1>10. Same(conn[a], d)
  BY <1>7, <1>9, SameTwice
<1>11. Same(conn[a], e)
  <2>1. DOMAIN d = DOMAIN Dead
    BY <1>9 DEF Same
  <2>2. e = [d EXCEPT !.sevent = "IN"]
    BY <1>2
  <2>3. Same(d, e)
    BY <2>1, <2>2, SameExcept
  <2>. QED
    BY <1>10, <2>3, SameTwice
<1>12. QueuesThere
  BY DEF There
<1>13. CASE conn' = [conn EXCEPT ![a] = c] /\ UNCHANGED <<fdTable, epoll, timers, closing>>
  <2>1. \A call \in calls' : call.conn \in Addrs /\ DOMAIN call = {"conn", "sock", "n", "pc"}
    BY <1>3, <1>12 DEF QueuesThere
  <2>2. UNCHANGED <<fdTable, epoll, channels, funcs, timers, closing>>
    BY <1>3, <1>13
  <2>. QED
    BY <1>3, <1>7, <1>13, <2>1, <2>2, EventStayThere
<1>14. CASE CloseBegin(a) /\ UNCHANGED timers
  <2>1. UNCHANGED <<channels, funcs, timers, calls>>
    BY <1>3, <1>14
  <2>. QED
    BY <1>3, <1>14, <2>1, EventCloseThere
<1>15. CASE /\ epoll' = Registered(a, d)
            /\ conn' = [conn EXCEPT ![a] = WithTimer(e, ReadTimeout)]
            /\ timers' = timers \cup NewTimers(a, d, ReadTimeout, TRUE)
            /\ UNCHANGED <<fdTable, closing>>
  <2>1. PICK delay \in Nat : delay = ReadTimeout
    BY Constants
  <2>2. /\ conn' = [conn EXCEPT ![a] = WithTimer(e, delay)]
        /\ timers' = timers \cup NewTimers(a, d, delay, TRUE)
    BY <1>15, <2>1
  <2>3. MayRegister(a)
    BY <1>10, <1>15 DEF MayRegister, Same
  <2>4. UNCHANGED <<fdTable, channels, closing, calls>>
    BY <1>3, <1>15
  <2>5. funcs' \in Seq(AllFuncs)
    BY <1>3, <1>12 DEF QueuesThere
  <2>. QED
    BY <1>3, <1>10, <1>11, <2>2, <2>3, <2>4, <2>5, EventArmThere
<1>. QED
  BY <1>5, <1>13, <1>14, <1>15

\* A timer that is current is the one of the connection it was started for.
LEMMA TimerMine ==
  ASSUME There, NEW tm \in exe, TimerIsCurrent(tm)
  PROVE  /\ tm.conn \in Addrs /\ conn[tm.conn].live /\ conn[tm.conn].sock = tm.sock
         /\ tm.id = conn[tm.conn].timerId /\ tm.ts < now
<1>1. TimerThere(tm) /\ tm.ts < now
  BY DEF There, TimersThere
<1>2. tm.conn \in Addrs /\ tm.cts # 0
  BY <1>1 DEF TimerThere
<1>3. ObjectThere(tm.conn)
  BY <1>2 DEF There, ObjectsThere
<1>4. channels[tm.conn] = tm.cts /\ conn[tm.conn].timerId = tm.id
  BY DEF TimerIsCurrent
<1>5. conn[tm.conn].live /\ conn[tm.conn].ts = tm.cts
  BY <1>2, <1>3, <1>4 DEF ObjectThere
<1>6. conn[tm.conn].sock = tm.sock
  BY <1>1, <1>5 DEF TimerThere, Own
<1>. QED
  BY <1>1, <1>2, <1>4, <1>5, <1>6

LEMMA RunTimerThere ==
  ASSUME There, NEW tm \in exe, RunTimer(tm)
  PROVE  There'
<1>1. ObjectsThere /\ EventsThere /\ QueuesThere /\ TimersThere
  BY DEF There
<1>2. /\ loopPc = "timers" /\ exe' \subseteq exe
      /\ UNCHANGED <<channels, funcs, timers, loopPc, ready, batch, acceptPc, accepting, calls, now>>
      /\ \/ TimerIsCurrent(tm) /\ CloseBegin(tm.conn)
         \/ UNCHANGED <<fdTable, epoll, conn, closing>>
  BY DEF RunTimer, queues, acceptVars, kernel
<1>3. ready = {} /\ ready' = {}
  BY <1>1, <1>2 DEF EventsThere
<1>4. EventsThere'
  BY <1>2, <1>3 DEF EventsThere
<1>5. QueuesThere'
  BY <1>1, <1>2 DEF QueuesThere
<1>6. CASE TimerIsCurrent(tm) /\ CloseBegin(tm.conn)
  <2>1. tm.conn \in Addrs /\ conn[tm.conn].live
    BY <1>6, TimerMine
  <2>2. UNCHANGED <<channels, timers, loopPc, now>>
    BY <1>2
  <2>3. ObjectsThere' /\ TimersThere'
    BY <1>1, <1>2, <1>6, <2>1, <2>2, CloseThere
  <2>. QED
    BY <1>4, <1>5, <2>3 DEF There
<1>7. CASE UNCHANGED <<fdTable, epoll, conn, closing>>
  <2>1. /\ DOMAIN conn' = Addrs /\ \A b \in Addrs : conn'[b] = conn[b]
        /\ now \in Nat /\ now' \in Nat /\ now <= now'
    BY <1>1, <1>2, <1>7 DEF ObjectsThere
  <2>2. UNCHANGED <<fdTable, epoll, channels, closing>>
    BY <1>2, <1>7
  <2>3. ObjectsThere' /\ \A b \in Addrs : Stays(b) /\ ObjectThere(b)
    BY <1>1, <2>1, <2>2, ObjectsKept
  <2>4. timers' \subseteq timers /\ loopPc' = loopPc
    BY <1>2
  <2>5. TimersThere'
    BY <1>1, <1>2, <2>1, <2>3, <2>4, TimersLeft
  <2>. QED
    BY <1>4, <1>5, <2>3, <2>5 DEF There
<1>. QED
  BY <1>2, <1>6, <1>7

\* The steps that touch no connection.
Apart == Client \/ Tick \/ EpollWait \/ SwapFuncs \/ PopTimers \/ LoopAgain

\* epoll_wait returns one event at most for each connection, a live one.
LEMMA EpollEvents ==
  ASSUME There, EpollWait
  PROVE  EventsThere'
<1>1. /\ ready' = Ready /\ loopPc' = "events" /\ closing = NoConn
      /\ UNCHANGED <<conn, closing>>
  BY DEF EpollWait, ReactorFree, objects
<1>2. PICK acc : acc = [conn |-> Acceptor, ev |-> "IN"]
  OBVIOUS
<1>3. \A e \in Ready : \/ e = acc
                       \/ \E s \in Socks : /\ e = [conn |-> epoll[s].conn, ev |-> epoll[s].ev]
                                           /\ epoll[s].ev \in {"IN", "OUT"}
  BY <1>2 DEF Ready
<1>4. \A s \in Socks : EpollThere(s)
  BY DEF There, ObjectsThere
<1>5. ASSUME NEW e \in Ready, e # acc
      PROVE  /\ e.conn \in Addrs /\ conn[e.conn].live
             /\ \E s \in Socks : /\ e = [conn |-> epoll[s].conn, ev |-> epoll[s].ev]
                                 /\ s = fdTable[conn[e.conn].fd]
  <2>1. PICK s \in Socks : /\ e = [conn |-> epoll[s].conn, ev |-> epoll[s].ev]
                           /\ epoll[s].ev \in {"IN", "OUT"}
    BY <1>3, <1>5
  <2>2. e.conn = epoll[s].conn
    BY <2>1
  <2>3. epoll[s].conn # NoConn
    BY <1>4, <2>1 DEF EpollThere
  <2>4. e.conn \in Addrs /\ conn[e.conn].live /\ s = fdTable[conn[e.conn].fd]
    BY <1>4, <2>2, <2>3 DEF EpollThere
  <2>. QED
    BY <2>1, <2>4
<1>6. ASSUME NEW e \in Ready, NEW f \in Ready, e.conn = f.conn PROVE e = f
  <2>. acc.conn = Acceptor
    BY <1>2
  <2>1. CASE e = acc
    BY <1>5, <1>6, <2>1, Constants
  <2>2. CASE f = acc
    BY <1>5, <1>6, <2>2, Constants
  <2>3. CASE e # acc /\ f # acc
    <3>1. PICK s \in Socks : /\ e = [conn |-> epoll[s].conn, ev |-> epoll[s].ev]
                             /\ s = fdTable[conn[e.conn].fd]
      BY <1>5, <2>3
    <3>2. PICK t \in Socks : /\ f = [conn |-> epoll[t].conn, ev |-> epoll[t].ev]
                             /\ t = fdTable[conn[f.conn].fd]
      BY <1>5, <2>3
    <3>3. s = t
      BY <1>6, <3>1, <3>2
    <3>. QED
      BY <3>1, <3>2, <3>3
  <2>. QED
    BY <2>1, <2>2, <2>3
<1>7. \A e \in ready' : EventThere(e)'
  BY <1>1, <1>2, <1>5, Constants DEF EventThere
<1>. QED
  BY <1>1, <1>6, <1>7 DEF EventsThere

LEMMA ApartThere ==
  ASSUME There, Apart
  PROVE  There'
<1>1. ObjectsThere /\ EventsThere /\ QueuesThere /\ TimersThere
  BY DEF There
<1>2. now \in Nat
  BY <1>1 DEF ObjectsThere
<1>3. /\ UNCHANGED <<fdTable, epoll, channels, closing>> /\ conn' = conn
      /\ now' = now \/ now' = now + 1
  BY DEF Apart, Client, Tick, EpollWait, SwapFuncs, PopTimers, LoopAgain, objects, kernel
<1>4. UNCHANGED <<calls, acceptPc, accepting>>
  BY DEF Apart, Client, Tick, EpollWait, SwapFuncs, PopTimers, LoopAgain, acceptVars
<1>5. now' \in Nat /\ now <= now'
  BY <1>2, <1>3
<1>6. DOMAIN conn' = Addrs /\ \A b \in Addrs : conn'[b] = conn[b]
  BY <1>1, <1>3 DEF ObjectsThere
<1>7. ObjectsThere' /\ \A b \in Addrs : Stays(b) /\ ObjectThere(b)
  BY <1>1, <1>3, <1>5, <1>6, ObjectsKept
<1>8. EventsThere'
  <2>1. CASE EpollWait
    BY <2>1, EpollEvents
  <2>2. CASE Client \/ Tick
    <3>1. ready' = ready /\ loopPc' = loopPc
      BY <2>2 DEF Client, Tick, loopVars
    <3>. QED
      BY <1>1, <1>3, <3>1, EventsKept
  <2>3. CASE SwapFuncs \/ PopTimers \/ LoopAgain
    <3>1. ready = {} /\ ready' = {}
      BY <1>1, <2>3 DEF SwapFuncs, PopTimers, LoopAgain, EventsThere
    <3>. QED
      BY <3>1 DEF EventsThere
  <2>. QED
    BY <2>1, <2>2, <2>3 DEF Apart
<1>9. QueuesThere'
  <2>1. <<>> \in Seq(AllFuncs)
    OBVIOUS
  <2>2. funcs' \in Seq(AllFuncs) /\ batch' \in Seq(AllFuncs)
    BY <1>1, <2>1 DEF Apart, Client, Tick, EpollWait, SwapFuncs, PopTimers, LoopAgain,
                      QueuesThere, queues, loopVars
  <2>. QED
    BY <1>1, <1>4, <2>2 DEF QueuesThere
<1>10. TimersThere'
  <2>1. /\ timers' \cup exe' \subseteq timers \cup exe
        /\ loopPc' # "timers" => exe' = {}
        /\ exe' = exe \/ (exe' = {tm \in timers : tm.ts < now} /\ now' = now)
    BY <1>1 DEF Apart, Client, Tick, EpollWait, SwapFuncs, PopTimers, LoopAgain,
                queues, loopVars, TimersThere
  <2>2. PICK N : N = {}
    OBVIOUS
  <2>3. /\ timers' \cup exe' \subseteq timers \cup exe \cup N
        /\ \A tm \in N : TimerThere(tm)'
    BY <2>1, <2>2
  <2>4. \A tm \in exe' : tm \in exe \/ tm.ts < now'
    BY <2>1
  <2>5. loopPc' # "timers" => exe' = {}
    BY <2>1
  <2>. QED
    BY <1>1, <1>2, <1>5, <1>7, <2>3, <2>4, <2>5, TimersStep
<1>. QED
  BY <1>7, <1>8, <1>9, <1>10 DEF There

\* Nothing runs after a fault.
LEMMA ThreadSteps ==
  ASSUME [Next]_vars
  PROVE  \/ /\ fault = "none"
            /\ \/ \E s \in Socks, a \in Addrs : Accept(s, a)
               \/ AcceptRest
               \/ CloseEnd
               \/ \E a \in Addrs : HandleEof(a)
               \/ \E a \in Addrs : \E k : HandleRead(a, k)
               \/ \E a \in Addrs : \E out : HandleOut(a, out)
               \/ RunFunc
               \/ \E tm \in exe : RunTimer(tm)
               \/ \E call \in calls : AsyncPack(call) \/ AsyncArm(call)
               \/ Apart
         \/ UNCHANGED vars
<1>1. CASE Client \/ Tick
  BY <1>1 DEF Apart, Client, Tick
<1>2. ASSUME NEW s \in Socks, NEW a \in Addrs, Accept(s, a) PROVE fault = "none"
  BY <1>2 DEF Accept
<1>3. AcceptRest => fault = "none"
  BY DEF AcceptRest, ArmRead, SetCallback, AcceptStep
<1>4. CloseEnd => fault = "none"
  BY DEF CloseEnd
<1>5. ASSUME NEW a \in Addrs PROVE HandleEof(a) => fault = "none"
  BY DEF HandleEof, TakeEvent, ReactorFree
<1>6. ASSUME NEW a \in Addrs, NEW k PROVE HandleRead(a, k) => fault = "none"
  BY DEF HandleRead, TakeEvent, ReactorFree
<1>7. ASSUME NEW a \in Addrs, NEW out PROVE HandleOut(a, out) => fault = "none"
  BY DEF HandleOut, TakeEvent, ReactorFree
<1>8. RunFunc \/ EpollWait \/ SwapFuncs \/ PopTimers \/ LoopAgain => fault = "none"
  BY DEF RunFunc, EpollWait, SwapFuncs, PopTimers, LoopAgain, ReactorFree
<1>9. ASSUME NEW tm \in exe PROVE RunTimer(tm) => fault = "none"
  BY DEF RunTimer, ReactorFree
<1>10. ASSUME NEW call \in calls PROVE AsyncPack(call) \/ AsyncArm(call) => fault = "none"
  BY DEF AsyncPack, AsyncArm
<1>11. CASE Server
  <2>1. CASE \E s \in Socks, a \in Addrs : Accept(s, a)
    BY <1>2, <2>1
  <2>2. CASE AcceptRest
    BY <1>3, <2>2
  <2>3. CASE \E call \in calls : AsyncPack(call) \/ AsyncArm(call)
    BY <1>10, <2>3
  <2>4. CASE Reactor
    BY <1>4, <1>5, <1>6, <1>7, <1>8, <1>9, <2>4 DEF Reactor, Apart
  <2>. QED
    BY <1>11, <2>1, <2>2, <2>3, <2>4 DEF Server
<1>. QED
  BY <1>1, <1>11 DEF Next

LEMMA ThreadInit == Init => ThreadInv
<1> SUFFICES ASSUME Init PROVE There
  BY DEF ThreadInv
<1>1. \A a \in Addrs : conn[a] = Dead /\ ~conn[a].live /\ channels[a] = 0
  BY DEF Init, Dead
<1>2. /\ DOMAIN conn = Addrs /\ DOMAIN channels = Addrs /\ DOMAIN fdTable = Fds
      /\ DOMAIN epoll = Socks /\ now \in Nat \ {0} /\ closing = NoConn
  BY DEF Init
<1>3. \A a \in Addrs : ObjectThere(a)
  BY <1>1 DEF ObjectThere
<1>4. \A s \in Socks : EpollThere(s)
  BY DEF Init, EpollThere
<1>5. ObjectsThere
  BY <1>2, <1>3, <1>4 DEF ObjectsThere
<1>6. EventsThere /\ TimersThere
  BY DEF Init, EventsThere, TimersThere
<1>7. QueuesThere
  BY DEF Init, QueuesThere
<1>. QED
  BY <1>5, <1>6, <1>7 DEF There

LEMMA ThreadNext ==
  ASSUME ~SameMs, ThreadInv, [Next]_vars
  PROVE  ThreadInv'
<1>1. SUFFICES ASSUME fault' = "none" PROVE There'
  BY DEF ThreadInv
<1>2. CASE UNCHANGED vars
  <2>1. /\ fault = "none" /\ UNCHANGED <<fdTable, epoll, conn, channels, funcs, timers, closing,
                                         acceptPc, accepting, calls, now>>
        /\ UNCHANGED <<loopPc, ready, batch, exe>>
    BY <1>1, <1>2 DEF vars, kernel, objects, queues, loopVars, acceptVars
  <2>2. There
    BY <2>1 DEF ThreadInv
  <2>. QED
    BY <2>1, <2>2 DEF There, ObjectsThere, ObjectThere, EpollThere, EventsThere, EventThere,
                      QueuesThere, TimersThere, TimerThere, Own
<1>3. CASE fault = "none" /\ ~UNCHANGED vars
  <2>1. There
    BY <1>3 DEF ThreadInv
  <2>2. ASSUME NEW s \in Socks, NEW a \in Addrs, Accept(s, a) PROVE There'
    <3>1. ObjectsThere' /\ EventsThere' /\ TimersThere'
      BY <2>1, <2>2, AcceptThere DEF There
    <3>2. accepting' = a /\ UNCHANGED <<funcs, batch, calls>>
      BY <2>2 DEF Accept, queues
    <3>3. QueuesThere'
      BY <2>1, <3>2 DEF There, QueuesThere
    <3>. QED
      BY <3>1, <3>3 DEF There
  <2>3. CASE CloseEnd
    <3>1. ObjectsThere' /\ EventsThere' /\ TimersThere'
      BY <2>1, <2>3, CloseEndThere DEF There
    <3>2. UNCHANGED <<funcs, batch, calls, acceptPc, accepting>>
      BY <2>3 DEF CloseEnd, queues, loopVars, acceptVars
    <3>3. QueuesThere'
      BY <2>1, <3>2 DEF There, QueuesThere
    <3>. QED
      BY <3>1, <3>3 DEF There
  <2>4. AcceptRest \/ RunFunc \/ Apart => There'
    BY <1>1, <2>1, AcceptRestThere, RunFuncThere, ApartThere
  <2>5. \A a \in Addrs : HandleEof(a) => There'
    BY <2>1, EofThere
  <2>6. \A a \in Addrs : \A k : HandleRead(a, k) => There'
    BY <1>1, <2>1, ReadThere
  <2>7. \A a \in Addrs : \A out : HandleOut(a, out) => There'
    BY <1>1, <2>1, WriteThere
  <2>8. \A tm \in exe : RunTimer(tm) => There'
    BY <2>1, RunTimerThere
  <2>9. \A call \in calls : AsyncPack(call) \/ AsyncArm(call) => There'
    BY <1>1, <2>1, AsyncPackThere, AsyncArmThere
  <2>. QED
    BY <1>3, <2>2, <2>3, <2>4, <2>5, <2>6, <2>7, <2>8, <2>9, ThreadSteps
<1>. QED
  BY <1>2, <1>3, ThreadSteps

LEMMA ThreadAlways ==
  ASSUME ~SameMs PROVE Spec => []ThreadInv
<1>1. ThreadInv /\ [Next]_vars => ThreadInv'
  BY ThreadNext
<1>. QED
  BY <1>1, ThreadInit, PTL DEF Spec

\* Whatever threads accept and answer, if connections are accepted in
\* different milliseconds, a timer closes a connection only if it is the timer
\* of the connection's current wait and its deadline has passed
\* (timeout_callback, has_channel, timer_id).
THEOREM NeverEarly ==
  ASSUME ~SameMs PROVE Spec => TimeoutNotEarly
<1>1. ASSUME ThreadInv, [Next]_vars, NEW tm \in exe, ClosedBy(tm)
      PROVE  \E own \in timers \cup exe :
               /\ own.conn = tm.conn
               /\ Valid(own.conn, own.sock)
               /\ own.id = conn[own.conn].timerId
               /\ own.ts < now
  <2>1. exe' # exe /\ tm \notin exe' /\ closing' = tm.conn
    BY <1>1 DEF ClosedBy
  <2>2. fault = "none" /\ ((\E t \in exe : RunTimer(t)) \/ PopTimers)
    <3>1. ~AcceptRest /\ ~CloseEnd /\ ~RunFunc
      BY <2>1 DEF AcceptRest, ArmRead, SetCallback, AcceptStep, CloseEnd, RunFunc, loopVars
    <3>2. \A s \in Socks, a \in Addrs : ~Accept(s, a)
      BY <2>1 DEF Accept
    <3>3. \A a \in Addrs : \A ev : ~TakeEvent(a, ev)
      BY <2>1 DEF TakeEvent
    <3>4. \A a \in Addrs : /\ ~HandleEof(a) /\ \A k : ~HandleRead(a, k)
                           /\ \A out : ~HandleOut(a, out)
      BY <3>3 DEF HandleEof, HandleRead, HandleOut
    <3>5. \A call \in calls : ~AsyncPack(call) /\ ~AsyncArm(call)
      BY <2>1 DEF AsyncPack, AsyncArm, loopVars
    <3>6. ~(Client \/ Tick \/ EpollWait \/ SwapFuncs \/ LoopAgain \/ UNCHANGED vars)
      BY <2>1 DEF Client, Tick, EpollWait, SwapFuncs, LoopAgain, vars, loopVars
    <3>. QED
      BY <1>1, <3>1, <3>2, <3>4, <3>5, <3>6, ThreadSteps DEF Apart
  <2>3. There
    BY <1>1, <2>2 DEF ThreadInv
  <2>4. ~PopTimers
    BY <1>1, <2>3 DEF PopTimers, There, TimersThere
  <2>5. RunTimer(tm)
    BY <2>1, <2>2, <2>4 DEF RunTimer
  <2>6. tm.conn # NoConn
    BY <1>1, <2>3, Constants DEF There, TimersThere, TimerThere
  <2>7. TimerIsCurrent(tm)
    BY <2>1, <2>5, <2>6 DEF RunTimer, ReactorFree
  <2>8. /\ conn[tm.conn].live /\ conn[tm.conn].sock = tm.sock
        /\ tm.id = conn[tm.conn].timerId /\ tm.ts < now
    BY <1>1, <2>3, <2>7, TimerMine
  <2>. QED
    BY <1>1, <2>8 DEF Valid
<1>2. ThreadInv /\ [Next]_vars =>
        [\A tm \in exe : ClosedBy(tm) =>
           \E own \in timers \cup exe :
             /\ own.conn = tm.conn
             /\ Valid(own.conn, own.sock)
             /\ own.id = conn[own.conn].timerId
             /\ own.ts < now]_vars
  BY <1>1
<1>. QED
  BY <1>2, ThreadAlways, PTL DEF Spec, TimeoutNotEarly
=============================================================================
