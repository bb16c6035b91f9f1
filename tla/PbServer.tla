------------------------------ MODULE PbServer ------------------------------
(***************************************************************************)
(* The life of the connections of a PbServer: accept, parse, call, answer, *)
(* time out, close (src/net/pb_server.cpp, src/net/tcpconnection.{h,cpp},  *)
(* src/net/acceptor.cpp, src/net/channel.h, EventLoop::update_channel and  *)
(* the channel map of src/net/eventloop.h), with the parts of the kernel   *)
(* they use: descriptors, sockets and the epoll interest list.             *)
(*                                                                         *)
(* Threads: the reactor that owns the connections; the thread that         *)
(* accepts, which is the same one unless SubReactors; and, if              *)
(* AsyncService, one thread per call in progress.  A callback that runs in *)
(* the reactor is one step, cut only where another thread can come between *)
(* (the two closes of a descriptor in close_callback).  The eventfd is     *)
(* left out: EventLoop.tla shows that a queued function and a due timer    *)
(* end epoll_wait.                                                         *)
(*                                                                         *)
(* A request is a sequence of chunks, the last of which completes it; a    *)
(* response is a header and a payload, the two parts of Buffer.            *)
(***************************************************************************)
EXTENDS Naturals, Sequences, FiniteSets

CONSTANTS
  Socks,          \* client connections; each connects at most once
  Addrs,          \* addresses `new TCPConnection` may return
  Fds,            \* descriptor numbers, a set of naturals
  NoSock, NoConn, Acceptor,
  ReadTimeout,    \* _read_timeout_ms, 0 when disabled
  WriteTimeout,   \* _write_timeout_ms, 0 when disabled
  SubReactors,    \* thread_num > 0: another thread accepts
  AsyncService,   \* services keep done and run it in a thread of their own
  Pipelining,     \* clients send a request before the last one is answered
  FullBuffers,    \* the send buffer of a socket may be full
  PartialWrites,  \* ... or have room for a part of what is written
  SameMs,         \* two connections may be accepted in one millisecond
  Kinds,          \* what the chunks clients send may be (see Chunks)
  MaxChunks,      \* bound: chunks a client sends
  MaxTime         \* bound: the clock stops here

ASSUME ServerAssumption ==
  /\ Fds \subseteq Nat
  /\ NoSock \notin Socks
  /\ NoConn \notin Addrs
  /\ Acceptor \notin Addrs \cup {NoConn}
  /\ ReadTimeout \in Nat
  /\ WriteTimeout \in Nat
  /\ {SubReactors, AsyncService, Pipelining, FullBuffers, PartialWrites, SameMs}
       \subseteq BOOLEAN
  /\ Kinds \subseteq {"part", "short", "keep", "bad", "nosvc"}
  /\ MaxChunks \in Nat
  /\ MaxTime \in Nat

VARIABLES
  sock,       \* kernel: the two ends of every client connection
  fdTable,    \* kernel: the socket behind every descriptor
  epoll,      \* kernel: the reactor's interest list, by socket
  conn,       \* the TCPConnection object at every address
  channels,   \* EventLoop::_channels: address -> ts, 0 when absent
  funcs,      \* EventLoop::_funcs: queued update_channel calls
  timers,     \* EventLoop::_timers
  loopPc,     \* where the reactor is in loop()
  ready,      \* events returned by epoll_wait and not yet handled
  batch,      \* loop()'s local funcs
  exe,        \* loop()'s local exe_timers
  closing,    \* the connection inside close_callback, or NoConn
  acceptPc,   \* how far new_connection_callback got
  accepting,  \* its connection
  calls,      \* calls in progress in threads of their own
  now,        \* gettimeofday, in milliseconds; starts at 1
  fault,      \* what undefined or fatal thing the program did
  executed,   \* history: requests handed to the service, by socket
  replies,    \* history: responses written, by socket
  completed   \* history: runs of write_complete_callback, by socket

kernel == <<sock, fdTable, epoll>>
objects == <<conn, channels>>
queues == <<funcs, timers>>
loopVars == <<loopPc, ready, batch, exe>>
acceptVars == <<acceptPc, accepting>>
history == <<executed, replies, completed>>
vars == <<kernel, objects, queues, loopVars, closing, acceptVars, calls,
          now, fault, history>>

\* What a chunk completes: nothing yet; a request for a short or a kept
\* connection; one that no protocol accepts; one without a service, a method
\* or a parsable payload.
Chunks == [k : Kinds, n : Nat]
NoCtx == [k |-> "none", n |-> 0]

Masks == {"none", "IN", "OUT"}

\* A Buffer used for writing: the headers not yet written, the payload and
\* whether _extra_index is at its end.  0 is no payload.
EmptyWbuf == [hdr |-> <<>>, extra |-> 0, sent |-> FALSE]

Dead == [live |-> FALSE, sock |-> NoSock, fd |-> 0, ts |-> 0, timerId |-> 0,
         event |-> "none", sevent |-> "none", cbs |-> {}, ctx |-> NoCtx,
         rbuf |-> <<>>, wbuf |-> EmptyWbuf]

Conns == [live : BOOLEAN, sock : Socks \cup {NoSock}, fd : Nat, ts : Nat,
          timerId : Nat, event : Masks, sevent : Masks,
          cbs : SUBSET {"read", "close", "write"},
          ctx : Chunks \cup {NoCtx}, rbuf : Seq(Chunks),
          wbuf : [hdr : Seq(Nat), extra : Nat, sent : BOOLEAN]]

TimerRecs == [conn : Addrs, sock : Socks, cts : Nat, id : Nat,
              read : BOOLEAN, ts : Nat]

TypeOK ==
  /\ sock \in [Socks -> [st : {"none", "backlog", "open", "closed"},
                         in : Seq(Chunks), fin : BOOLEAN, full : BOOLEAN,
                         chunks : Nat, reqs : Nat]]
  /\ fdTable \in [Fds -> Socks \cup {NoSock}]
  /\ epoll \in [Socks -> [ev : Masks, conn : Addrs \cup {NoConn}]]
  /\ conn \in [Addrs -> Conns]
  /\ channels \in [Addrs -> Nat]
  /\ funcs \in Seq([conn : Addrs, sock : Socks])
  /\ timers \subseteq TimerRecs
  /\ loopPc \in {"wait", "events", "funcs", "timers"}
  /\ ready \subseteq [conn : Addrs \cup {Acceptor}, ev : {"IN", "OUT"}]
  /\ batch \in Seq([conn : Addrs, sock : Socks])
  /\ exe \subseteq TimerRecs
  /\ closing \in Addrs \cup {NoConn}
  /\ acceptPc \in {"idle", "arm", "read", "close", "write"}
  /\ accepting \in Addrs \cup {NoConn}
  /\ calls \subseteq [conn : Addrs, sock : Socks, n : Nat, pc : {"run", "arm"}]
  /\ now \in Nat
  /\ fault \in {"none", "freed", "no_context", "no_callback",
                "bad_fd"}
  /\ executed \in [Socks -> Seq(Nat)]
  /\ replies \in [Socks -> Seq([n : Nat, payload : Nat])]
  /\ completed \in [Socks -> Nat]

Init ==
  /\ sock = [s \in Socks |-> [st |-> "none", in |-> <<>>, fin |-> FALSE,
                              full |-> FALSE, chunks |-> 0, reqs |-> 0]]
  /\ fdTable = [f \in Fds |-> NoSock]
  /\ epoll = [s \in Socks |-> [ev |-> "none", conn |-> NoConn]]
  /\ conn = [a \in Addrs |-> Dead]
  /\ channels = [a \in Addrs |-> 0]
  /\ funcs = <<>>
  /\ timers = {}
  /\ loopPc = "wait"
  /\ ready = {}
  /\ batch = <<>>
  /\ exe = {}
  /\ closing = NoConn
  /\ acceptPc = "idle"
  /\ accepting = NoConn
  /\ calls = {}
  /\ now = 1
  /\ fault = "none"
  /\ executed = [s \in Socks |-> <<>>]
  /\ replies = [s \in Socks |-> <<>>]
  /\ completed = [s \in Socks |-> 0]
-----------------------------------------------------------------------------
(***************************************************************************)
(* The kernel and the interest list.                                       *)
(***************************************************************************)
\* The socket an operation on connection c really reaches.
SockOf(c) == fdTable[c.fd]

\* A pointer to the connection of socket s at address a is still good.
Valid(a, s) == conn[a].live /\ conn[a].sock = s

\* The program did something undefined, or aborted; it stops here.
Fail(what) ==
  /\ fault' = what
  /\ UNCHANGED <<kernel, conn, channels, funcs, timers, closing, acceptVars,
                 calls, history>>

\* External: ::close(fd).  The descriptor is the only one of its socket, which
\* therefore leaves the interest list.
CloseFd(fd) ==
  LET s == fdTable[fd]
  IN  /\ fdTable' = [fdTable EXCEPT ![fd] = NoSock]
      /\ sock' = [t \in Socks |->
                    IF t = s
                    THEN [sock[t] EXCEPT !.st = "closed", !.in = <<>>,
                                         !.fin = FALSE, !.full = FALSE]
                    ELSE sock[t]]
      /\ epoll' = [t \in Socks |->
                     IF t = s THEN [ev |-> "none", conn |-> NoConn] ELSE epoll[t]]

\* update_channel: ADD, DEL or MOD when the mask differs from the one epoll
\* has; a failing epoll_ctl is fatal.
CtlFault(c) ==
  IF /\ c.sevent # c.event
     /\ \/ SockOf(c) = NoSock
        \/ (c.sevent = "none") # (epoll[SockOf(c)].ev = "none")
  THEN "bad_fd"
  ELSE "none"

Registered(a, c) ==
  [t \in Socks |->
     IF t = SockOf(c) /\ c.sevent # c.event
     THEN [ev |-> c.event, conn |-> IF c.event = "none" THEN NoConn ELSE a]
     ELSE epoll[t]]

\* Mutant: timer_id is loaded before fetch_add.
NewTimersOldId(a, c, delay, read) ==
  IF delay = 0 THEN {}
  ELSE {[conn |-> a, sock |-> c.sock, cts |-> c.ts, id |-> c.timerId,
         read |-> read, ts |-> now + delay]}

\* timer_id.fetch_add(1) and run_after(delay, timeout_callback(...)), which
\* new_connection, write_complete and response make when the timeout is set.
NewTimers(a, c, delay, read) ==
  IF delay = 0 THEN {}
  ELSE {[conn |-> a, sock |-> c.sock, cts |-> c.ts, id |-> c.timerId + 1,
         read |-> read, ts |-> now + delay]}

\* Mutant: fetch_sub for fetch_add.
WithTimerDown(c, delay) == IF delay = 0 THEN c ELSE [c EXCEPT !.timerId = @ - 1]

WithTimer(c, delay) == IF delay = 0 THEN c ELSE [c EXCEPT !.timerId = @ + 1]
-----------------------------------------------------------------------------
(***************************************************************************)
(* Closing a connection: two steps, for an accept may come between them.   *)
(***************************************************************************)
\* Mutant: close_callback returns after ::close, without deleting.
CloseBeginOnly(a) ==
  /\ closing' = NoConn
  /\ fault' = CtlFault([conn[a] EXCEPT !.event = "none"])
  /\ conn' = [conn EXCEPT ![a].event = "none", ![a].sevent = "none"]
  /\ CloseFd(conn[a].fd)

\* close_callback up to the first ::close.
CloseBegin(a) ==
  /\ closing' = a
  /\ fault' = CtlFault([conn[a] EXCEPT !.event = "none"])
  /\ conn' = [conn EXCEPT ![a].event = "none", ![a].sevent = "none"]
  /\ CloseFd(conn[a].fd)

\* Mutant: the channel is forgotten in the map.
RemoveChannelNot(a, ts) == channels

RemoveChannel(a, ts) ==
  IF channels[a] = ts THEN [channels EXCEPT ![a] = 0] ELSE channels

\* remove_channel, then delete: ~Channel closes the same number again.
CloseEnd ==
  /\ fault = "none"
  /\ closing # NoConn
  /\ channels' = RemoveChannel(closing, conn[closing].ts)
  /\ CloseFd(conn[closing].fd)
  /\ conn' = [conn EXCEPT ![closing] = Dead]
  /\ closing' = NoConn
  /\ UNCHANGED <<queues, loopVars, acceptVars, calls, now, fault, history>>
-----------------------------------------------------------------------------
(***************************************************************************)
(* The thread that accepts.                                                *)
(***************************************************************************)
NewConn(s, fd) ==
  [Dead EXCEPT !.live = TRUE, !.sock = s, !.fd = fd, !.ts = now,
               !.event = "IN", !.sevent = "IN"]

\* Two connections have different ts unless SameMs.
FreshTs ==
  /\ \A a \in Addrs : conn[a].live => conn[a].ts # now
  /\ \A tm \in timers \cup exe : tm.cts # now

\* handler_new_connection: accept gives it socket s, if there is one.
Backlogged(s) == sock[s].st = "backlog" /\ (SameMs \/ FreshTs)

\* accept, then new_connection_callback up to update_channel: from here on
\* the reactor gets the connection's events.  One step: until
\* epoll_ctl no event, timer or call names the connection, _channels is only
\* asked about connections with a timer, and what the client sends waits in
\* the socket.  What this leaves out is an end of the program: with
\* SubReactors, CloseEnd of another connection may close the new descriptor
\* before epoll_ctl, which is then fatal; the same CloseEnd a little later is
\* in the model.
Accept(s, a) ==
  /\ fault = "none"
  /\ acceptPc = "idle"
  /\ SubReactors \/ /\ closing = NoConn
                    /\ loopPc = "events"
                    /\ [conn |-> Acceptor, ev |-> "IN"] \in ready
  /\ Backlogged(s)
  /\ ~conn[a].live
  /\ \E fd \in Fds :
       /\ fdTable[fd] = NoSock
       /\ \A f \in Fds : fdTable[f] = NoSock => fd <= f
       /\ fdTable' = [fdTable EXCEPT ![fd] = s]
       /\ conn' = [conn EXCEPT ![a] = NewConn(s, fd)]
  /\ sock' = [sock EXCEPT ![s].st = "open"]
  /\ epoll' = [epoll EXCEPT ![s] = [ev |-> "IN", conn |-> a]]
  /\ channels' = [channels EXCEPT ![a] = now]
  /\ acceptPc' = "arm"
  /\ accepting' = a
  /\ ready' = ready \ {[conn |-> Acceptor, ev |-> "IN"]}
  /\ UNCHANGED <<queues, loopPc, batch, exe, closing, calls, now, fault, history>>

\* One of the steps that follow; the connection may be gone by now.
AcceptStep(from, to, c) ==
  /\ fault = "none"
  /\ acceptPc = from
  /\ acceptPc' = to
  /\ fault' = IF conn[accepting].live THEN "none" ELSE "freed"
  /\ conn' = IF conn[accepting].live
             THEN [conn EXCEPT ![accepting] = c] ELSE conn
  /\ accepting' = IF to = "idle" THEN NoConn ELSE accepting
  /\ UNCHANGED <<kernel, channels, funcs, loopVars, closing, calls, now, history>>

ArmRead ==
  /\ AcceptStep("arm", "read", WithTimer(conn[accepting], ReadTimeout))
  /\ timers' = timers \cup NewTimers(accepting, conn[accepting], ReadTimeout, TRUE)

SetCallback(from, to) ==
  /\ AcceptStep(from, to, [conn[accepting] EXCEPT !.cbs = @ \cup {from}])
  /\ UNCHANGED timers

AcceptRest ==
  \/ ArmRead
  \/ SetCallback("read", "close")
  \/ SetCallback("close", "write")
  \/ SetCallback("write", "idle")
-----------------------------------------------------------------------------
(***************************************************************************)
(* The reactor: epoll_wait and the events it returns.                      *)
(***************************************************************************)
ReactorFree ==
  /\ fault = "none"
  /\ closing = NoConn
  /\ SubReactors \/ acceptPc = "idle"

\* External: the level-triggered events of the interest list.
Ready ==
  {[conn |-> epoll[s].conn, ev |-> epoll[s].ev] : s \in
     {t \in Socks : \/ epoll[t].ev = "IN" /\ (sock[t].in # <<>> \/ sock[t].fin)
                    \/ epoll[t].ev = "OUT" /\ (~sock[t].full \/ sock[t].fin)}}
  \cup
  {[conn |-> Acceptor, ev |-> "IN"] : s \in
     {t \in Socks : ~SubReactors /\ Backlogged(t)}}

EpollWait ==
  /\ ReactorFree
  /\ loopPc = "wait"
  /\ Ready # {} \/ funcs # <<>> \/ \E tm \in timers : tm.ts < now
  /\ ready' = Ready
  /\ loopPc' = "events"
  /\ UNCHANGED <<kernel, objects, queues, batch, exe, closing, acceptVars,
                 calls, now, fault, history>>

\* The loop hands event ev to connection a.
TakeEvent(a, ev) ==
  /\ ReactorFree
  /\ loopPc = "events"
  /\ [conn |-> a, ev |-> ev] \in ready
  /\ ready' = ready \ {[conn |-> a, ev |-> ev]}
  /\ UNCHANGED <<loopPc, batch, exe, acceptVars, now>>

\* Mutant: only the start of the buffer is looked at.
FirstEndAtStart(q) == {i \in DOMAIN q : i = 1 /\ q[i].k # "part"}

\* parse_request over the protocols, on a context that lives as long as the
\* request: one that is done stays done, one that is not takes chunks up to
\* and including the first that completes a request.
FirstEnd(q) == {i \in DOMAIN q : /\ q[i].k # "part"
                                 /\ \A j \in 1..(i - 1) : q[j].k = "part"}

Parse(c) ==
  IF c.ctx.k \notin {"none", "part"} THEN c
  ELSE IF c.rbuf = <<>> THEN c
  ELSE IF FirstEnd(c.rbuf) = {}
  THEN [c EXCEPT !.ctx = [k |-> "part", n |-> 0], !.rbuf = <<>>]
  ELSE LET i == CHOOSE j \in FirstEnd(c.rbuf) : TRUE
       IN  [c EXCEPT !.ctx = c.rbuf[i],
                     !.rbuf = SubSeq(c.rbuf, i + 1, Len(c.rbuf))]

\* _find_service_method, and ParseFromString.
FindServiceMethod(ctx) == ctx.k # "nosvc"

\* response_callback up to add_func: pack_response appends the header to
\* _wbuf and replaces _extra_data, without touching _extra_index.
Pack(c, n) ==
  [c EXCEPT !.wbuf = [hdr |-> Append(@.hdr, n), extra |-> n, sent |-> @.sent],
            !.event = "OUT"]

\* request_callback of a request with a service, a method and a payload that
\* parses; c is its connection after parsing.  A synchronous service runs
\* response_callback before CallMethod returns.
CallMethod(a, c) ==
  /\ executed' = [executed EXCEPT ![c.sock] = Append(@, c.ctx.n)]
  /\ IF AsyncService
     THEN /\ calls' = calls \cup
                {[conn |-> a, sock |-> c.sock, n |-> c.ctx.n, pc |-> "run"]}
          /\ conn' = [conn EXCEPT ![a] = c]
          /\ UNCHANGED <<funcs, timers>>
     ELSE /\ conn' = [conn EXCEPT ![a] = WithTimer(Pack(c, c.ctx.n), WriteTimeout)]
          /\ funcs' = Append(funcs, [conn |-> a, sock |-> c.sock])
          /\ timers' = timers \cup NewTimers(a, c, WriteTimeout, FALSE)
          /\ UNCHANGED calls

\* handle_events(EPOLLIN): read() returns 0.
HandleEof(a) ==
  /\ TakeEvent(a, "IN")
  /\ sock[SockOf(conn[a])].in = <<>>
  /\ sock[SockOf(conn[a])].fin
  /\ IF "close" \in conn[a].cbs
     THEN CloseBegin(a)
     ELSE UNCHANGED <<kernel, conn, closing, fault>>
  /\ UNCHANGED <<channels, queues, calls, history>>

\* handle_events(EPOLLIN): read() returns the first k chunks.  It does not
\* return -1: the event is level-triggered, nobody but the reactor takes from
\* the socket, and a non-blocking read of a socket with data is neither EAGAIN
\* nor EINTR.
HandleRead(a, k) ==
  LET s == SockOf(conn[a])
      c == [conn[a] EXCEPT !.rbuf = @ \o SubSeq(sock[s].in, 1, k)]
      p == Parse(c)
      Took == sock' = [sock EXCEPT ![s].in = SubSeq(@, k + 1, Len(@))]
  IN  /\ TakeEvent(a, "IN")
      /\ k \in DOMAIN sock[s].in
      /\ \/ /\ "read" \notin c.cbs
            /\ Took
            /\ conn' = [conn EXCEPT ![a] = c]
            /\ UNCHANGED <<fdTable, epoll, queues, closing, calls, fault, executed>>
         \/ /\ "read" \in c.cbs
            /\ p.ctx.k \in {"none", "part"}
            /\ Took
            /\ conn' = [conn EXCEPT ![a] = p]
            /\ UNCHANGED <<fdTable, epoll, queues, closing, calls, fault, executed>>
         \/ /\ "read" \in c.cbs
            /\ p.ctx.k = "bad"
            /\ IF "close" \in c.cbs
               THEN CloseBegin(a)
               ELSE /\ fault' = "no_callback"
                    /\ UNCHANGED <<kernel, conn, closing>>
            /\ UNCHANGED <<queues, calls, executed>>
         \/ /\ "read" \in c.cbs
            /\ p.ctx.k \notin {"none", "part", "bad"}
            /\ ~FindServiceMethod(p.ctx)
            /\ CloseBegin(a)
            /\ UNCHANGED <<queues, calls, executed>>
         \/ /\ "read" \in c.cbs
            /\ p.ctx.k \notin {"none", "part", "bad"}
            /\ FindServiceMethod(p.ctx)
            /\ Took
            /\ CallMethod(a, p)
            /\ UNCHANGED <<fdTable, epoll, closing, fault>>
      /\ UNCHANGED <<channels, replies, completed>>

\* write_fd makes two writes, and the second whatever the first did: no
\* header went out whole, the header did, the payload did behind a part of
\* the header, or all of it.
Outcomes(s) ==
  IF sock[s].full THEN {"none"}
  ELSE {"all"} \cup (IF sock[s].fin THEN {"none"} ELSE {})
               \cup (IF PartialWrites THEN {"none", "hdr", "cut"} ELSE {})

\* Mutant: _rindex is not advanced.
WriteFdStays(w, out) == IF out = "all" THEN [w EXCEPT !.sent = TRUE] ELSE w

WriteFd(w, out) ==
  CASE out = "none" -> w
    [] out = "hdr"  -> [w EXCEPT !.hdr = <<>>]
    [] out = "cut"  -> [w EXCEPT !.sent = TRUE]
    [] out = "all"  -> [w EXCEPT !.hdr = <<>>, !.sent = TRUE]

\* What the client gets of it: headers, and a payload after the last.  One
\* that went out before its header was whole is behind none.
Received(w, out) ==
  IF out \in {"none", "cut"} THEN <<>>
  ELSE [i \in DOMAIN w.hdr |->
          [n |-> w.hdr[i],
           payload |-> IF out = "all" /\ i = Len(w.hdr) /\ ~w.sent
                       THEN w.extra ELSE 0]]

\* Mutant: the context of the answered request is kept.
ClearedButContext(c) ==
  [c EXCEPT !.rbuf = <<>>, !.wbuf.hdr = <<>>, !.wbuf.sent = FALSE]

\* What write_complete_callback clears: the context, both buffers.
Cleared(c) ==
  [c EXCEPT !.ctx = NoCtx, !.rbuf = <<>>, !.wbuf.hdr = <<>>, !.wbuf.sent = FALSE]

\* write_complete_callback, c being the connection after the write.
WriteComplete(a, c) ==
  LET d == [Cleared(c) EXCEPT !.event = "IN"]
  IN  /\ completed' = [completed EXCEPT ![c.sock] = @ + 1]
      /\ \/ /\ c.ctx = NoCtx
            /\ fault' = "no_context"
            /\ UNCHANGED <<kernel, conn, timers, closing>>
         \/ /\ c.ctx.k \in {"short", "part"}
            /\ CloseBegin(a)
            /\ UNCHANGED timers
         \/ /\ c.ctx.k \in {"keep", "part"}
            /\ fault' = CtlFault(d)
            /\ epoll' = Registered(a, d)
            /\ conn' = [conn EXCEPT ![a] =
                          WithTimer([d EXCEPT !.sevent = "IN"], ReadTimeout)]
            /\ timers' = timers \cup NewTimers(a, d, ReadTimeout, TRUE)
            /\ UNCHANGED <<sock, fdTable, closing>>

\* Mutant: a write that returned is taken for a complete one.
WriteDoneAlways(w) == TRUE

\* readable() == 0, whatever extraable() is.
WriteDone(w) == w.hdr = <<>>

\* handle_events(EPOLLOUT).
HandleOut(a, out) ==
  LET s == SockOf(conn[a])
      c == [conn[a] EXCEPT !.wbuf = WriteFd(@, out)]
  IN  /\ TakeEvent(a, "OUT")
      /\ out \in Outcomes(s)
      /\ replies' = [replies EXCEPT ![s] = @ \o Received(conn[a].wbuf, out)]
      /\ IF WriteDone(c.wbuf) /\ "write" \in c.cbs
         THEN WriteComplete(a, c)
         ELSE /\ conn' = [conn EXCEPT ![a] = c]
              /\ UNCHANGED <<kernel, timers, closing, fault, completed>>
      /\ UNCHANGED <<channels, funcs, calls, executed>>
-----------------------------------------------------------------------------
(***************************************************************************)
(* The reactor: functions and timers.                                      *)
(***************************************************************************)
\* Mutant: the functions are copied, not swapped out.
SwapFuncsCopy ==
  /\ ReactorFree
  /\ loopPc = "events"
  /\ ready = {}
  /\ batch' = funcs
  /\ loopPc' = "funcs"
  /\ UNCHANGED <<kernel, objects, queues, ready, exe, closing, acceptVars,
                 calls, now, fault, history>>

SwapFuncs ==
  /\ ReactorFree
  /\ loopPc = "events"
  /\ ready = {}
  /\ batch' = funcs
  /\ funcs' = <<>>
  /\ loopPc' = "funcs"
  /\ UNCHANGED <<kernel, objects, timers, ready, exe, closing, acceptVars,
                 calls, now, fault, history>>

\* update_channel on behalf of a response_callback.
RunFunc ==
  LET f == Head(batch)
      c == conn[f.conn]
  IN  /\ ReactorFree
      /\ loopPc = "funcs"
      /\ batch # <<>>
      /\ batch' = Tail(batch)
      /\ \/ /\ ~Valid(f.conn, f.sock)
            /\ Fail("freed")
         \/ /\ Valid(f.conn, f.sock)
            /\ fault' = CtlFault(c)
            /\ epoll' = Registered(f.conn, c)
            /\ conn' = [conn EXCEPT ![f.conn].sevent = c.event]
            /\ UNCHANGED <<sock, fdTable, channels, funcs, timers, closing,
                           acceptVars, calls, history>>
      /\ UNCHANGED <<loopPc, ready, exe, now>>

PopTimers ==
  /\ ReactorFree
  /\ loopPc = "funcs"
  /\ batch = <<>>
  /\ exe' = {tm \in timers : tm.ts < now}
  /\ timers' = {tm \in timers : ~(tm.ts < now)}
  /\ loopPc' = "timers"
  /\ UNCHANGED <<kernel, objects, funcs, ready, batch, closing, acceptVars,
                 calls, now, fault, history>>

\* Mutants: timer_id is not compared; the connection's ts is not compared.
TimerIsCurrentAnyId(tm) == channels[tm.conn] = tm.cts
TimerIsCurrentAnyTs(tm) ==
  channels[tm.conn] # 0 /\ conn[tm.conn].timerId = tm.id

\* has_channel(conn, conn_ts), then the connection's timer_id.
TimerIsCurrent(tm) ==
  /\ channels[tm.conn] = tm.cts
  /\ conn[tm.conn].timerId = tm.id

\* timeout_callback; timers are run in the order of their deadlines.
RunTimer(tm) ==
  /\ ReactorFree
  /\ loopPc = "timers"
  /\ tm \in exe
  /\ \A other \in exe : tm.ts <= other.ts
  /\ exe' = exe \ {tm}
  /\ IF TimerIsCurrent(tm)
     THEN CloseBegin(tm.conn)
     ELSE UNCHANGED <<kernel, conn, closing, fault>>
  /\ UNCHANGED <<channels, queues, loopPc, ready, batch, acceptVars, calls,
                 now, history>>

LoopAgain ==
  /\ ReactorFree
  /\ loopPc = "timers"
  /\ exe = {}
  /\ loopPc' = "wait"
  /\ UNCHANGED <<kernel, objects, queues, ready, batch, exe, closing,
                 acceptVars, calls, now, fault, history>>

Reactor ==
  \/ CloseEnd
  \/ EpollWait
  \/ \E a \in Addrs : \/ HandleEof(a)
                      \/ \E k \in 1..MaxChunks : HandleRead(a, k)
                      \/ \E out \in {"none", "hdr", "cut", "all"} : HandleOut(a, out)
  \/ SwapFuncs
  \/ RunFunc
  \/ PopTimers
  \/ \E tm \in exe : RunTimer(tm)
  \/ LoopAgain
-----------------------------------------------------------------------------
(***************************************************************************)
(* Asynchronous services: done->Run() in another thread.                   *)
(***************************************************************************)
\* response_callback up to add_func.
AsyncPack(call) ==
  LET c == conn[call.conn]
  IN  /\ fault = "none"
      /\ call.pc = "run"
      /\ \/ /\ ~Valid(call.conn, call.sock)
            /\ Fail("freed")
         \/ /\ Valid(call.conn, call.sock)
            /\ c.ctx = NoCtx
            /\ Fail("no_context")
         \/ /\ Valid(call.conn, call.sock)
            /\ c.ctx # NoCtx
            /\ conn' = [conn EXCEPT ![call.conn] = Pack(c, call.n)]
            /\ funcs' = Append(funcs, [conn |-> call.conn, sock |-> call.sock])
            /\ calls' = (calls \ {call}) \cup {[call EXCEPT !.pc = "arm"]}
            /\ UNCHANGED <<kernel, channels, timers, closing, acceptVars, fault,
                           history>>
      /\ UNCHANGED <<loopVars, now>>

\* The write timer.
AsyncArm(call) ==
  LET c == conn[call.conn]
  IN  /\ fault = "none"
      /\ call.pc = "arm"
      /\ \/ /\ WriteTimeout = 0 \/ Valid(call.conn, call.sock)
            /\ conn' = [conn EXCEPT ![call.conn] = WithTimer(c, WriteTimeout)]
            /\ timers' = timers \cup NewTimers(call.conn, c, WriteTimeout, FALSE)
            /\ calls' = calls \ {call}
            /\ UNCHANGED <<kernel, channels, funcs, closing, acceptVars, fault,
                           history>>
         \/ /\ ~(WriteTimeout = 0 \/ Valid(call.conn, call.sock))
            /\ Fail("freed")
      /\ UNCHANGED <<loopVars, now>>
-----------------------------------------------------------------------------
(***************************************************************************)
(* External: the clients and the clock.                                    *)
(***************************************************************************)
Alive(s) == sock[s].st \in {"backlog", "open"} /\ ~sock[s].fin

ClientConnect(s) ==
  /\ sock[s].st = "none"
  /\ sock' = [sock EXCEPT ![s].st = "backlog"]

\* Unless it pipelines, a client waits for the answer to its last request.
ClientSend(s, k) ==
  /\ Alive(s)
  /\ sock[s].chunks < MaxChunks
  /\ Pipelining \/ Len(replies[s]) = sock[s].reqs
  /\ sock' = [sock EXCEPT ![s].in = Append(@, [k |-> k, n |-> sock[s].reqs + 1]),
                          ![s].chunks = @ + 1,
                          ![s].reqs = IF k = "part" THEN @ ELSE @ + 1]

ClientClose(s) ==
  /\ Alive(s)
  /\ sock' = [sock EXCEPT ![s].fin = TRUE]

\* A client that waits for an answer stops reading, or reads again.
ClientStall(s) ==
  /\ FullBuffers
  /\ sock[s].st = "open"
  /\ Len(replies[s]) < sock[s].reqs
  /\ sock' = [sock EXCEPT ![s].full = ~@]

Client ==
  /\ fault = "none"
  /\ \E s \in Socks :
       \/ ClientConnect(s)
       \/ \E k \in Kinds : ClientSend(s, k)
       \/ ClientClose(s)
       \/ ClientStall(s)
  /\ UNCHANGED <<fdTable, epoll, objects, queues, loopVars, closing, acceptVars,
                 calls, now, fault, history>>

Tick ==
  /\ fault = "none"
  /\ now < MaxTime
  /\ now' = now + 1
  /\ UNCHANGED <<kernel, objects, queues, loopVars, closing, acceptVars, calls,
                 fault, history>>

Server ==
  \/ \E s \in Socks, a \in Addrs : Accept(s, a)
  \/ AcceptRest
  \/ Reactor
  \/ \E call \in calls : AsyncPack(call) \/ AsyncArm(call)

Next == Server \/ Client \/ Tick

Spec == Init /\ [][Next]_vars

\* Every thread of the server keeps running and time passes; clients owe
\* nothing.
FairSpec == Spec /\ WF_vars(Server) /\ WF_vars(Tick)
-----------------------------------------------------------------------------
(***************************************************************************)
(* Properties.                                                             *)
(***************************************************************************)
\* Connections that neither close_callback nor new_connection_callback is
\* working on.
Settled == {a \in Addrs \ {closing, accepting} : conn[a].live}

\* The server never uses a deleted connection or its deleted context, never
\* calls an empty callback and never fails an epoll_ctl (close_callback,
\* response_callback, update_channel): raw pointers to connections in events,
\* in queued functions and in calls are good when they are used.
NoFault == fault = "none"

\* Nobody but close_callback closes a connection's descriptor: the number in
\* _fd still names the socket it was accepted with (close_callback and
\* ~Channel both close it).
FdOwned ==
  \A a \in Addrs : conn[a].live /\ closing # a => fdTable[conn[a].fd] = conn[a].sock

\* The channel map, the interest list and the connections agree (add_channel,
\* remove_channel, update_channel), and every event still to be handled is
\* for a connection that exists.
ChannelsExact ==
  /\ \A a \in Addrs : channels[a] = IF conn[a].live THEN conn[a].ts ELSE 0
  /\ \A a \in Settled : epoll[conn[a].sock] = [ev |-> conn[a].sevent, conn |-> a]
  /\ \A s \in Socks : epoll[s].conn # NoConn => Valid(epoll[s].conn, s)
  /\ \A e \in ready : e.conn # Acceptor => conn[e.conn].live

\* A request is handed to its service at most once, and in the order the
\* client sent them (data_read_callback parses into a context that is kept
\* until write_complete_callback).
AtMostOnce ==
  \A s \in Socks : \A i, j \in DOMAIN executed[s] :
    i < j => executed[s][i] < executed[s][j]

\* The i-th response on a connection answers the i-th call (request_callback,
\* response_callback, handle_events).
RepliesMatch ==
  \A s \in Socks : \A i \in DOMAIN replies[s] :
    i \in DOMAIN executed[s] /\ replies[s][i].n = executed[s][i]

\* write_complete_callback runs when the response is written, header and
\* payload (handle_events, write_fd).
CompleteMeansWritten ==
  \A s \in Socks : \A i \in 1..completed[s] :
    i \in DOMAIN replies[s] /\ replies[s][i].payload = replies[s][i].n

CompleteIn(q) == {i \in DOMAIN q : q[i].k # "part"}

\* When the reactor goes to sleep waiting for a connection's next request,
\* every complete request it read from the socket has been handed to a
\* service: none sits in _rbuf, none was thrown away with it.
RequestsNotDropped ==
  \A a \in Settled :
    loopPc = "wait" /\ conn[a].event = "IN" /\ conn[a].ctx.k \in {"none", "part"} =>
      LET s == conn[a].sock
      IN  Len(executed[s]) + Cardinality(CompleteIn(sock[s].in)) = sock[s].reqs

\* The connection a timer closes in this step.
ClosedBy(tm) == tm \in exe \ exe' /\ closing' = tm.conn

\* No connection is closed by a timer before the deadline of its own current
\* wait has passed: a timer of an earlier wait, or of an earlier connection
\* at the same address, does nothing (timeout_callback, has_channel).
TimeoutNotEarly ==
  [][\A tm \in exe : ClosedBy(tm) =>
       \E own \in timers \cup exe :
         /\ own.conn = tm.conn
         /\ Valid(own.conn, own.sock)
         /\ own.id = conn[own.conn].timerId
         /\ own.ts < now]_vars

\* A read timeout closes a connection that waits for a request, a write
\* timeout one that has a response to write (timeout_callback and timer_id).
TimeoutKind ==
  [][\A tm \in exe : ClosedBy(tm) =>
       IF tm.read
       THEN conn[tm.conn].event = "IN" /\ conn[tm.conn].ctx.k \in {"none", "part"}
       ELSE conn[tm.conn].event = "OUT"]_vars

\* A connection does not stay in one wait for ever: whatever the client does,
\* it moves on to its next wait or is closed, if the clock goes on for longer
\* than the timeouts (timer_id, run_after and timeout_callback).
EveryWaitEnds ==
  \A a \in Addrs, s \in Socks : \A i \in 0..(2 * MaxChunks + 1) :
    (/\ Valid(a, s)
     /\ conn[a].timerId = i
     /\ now + ReadTimeout + WriteTimeout < MaxTime)
      ~> ~Valid(a, s) \/ conn[a].timerId > i

\* Every complete request that reaches an accepted connection is handed to
\* its service, or the connection is closed.
EveryRequestServed ==
  \A s \in Socks : \A n \in 1..MaxChunks :
    sock[s].st = "open" /\ sock[s].reqs >= n
      ~> sock[s].st = "closed" \/ \E i \in DOMAIN executed[s] : executed[s][i] = n
=============================================================================
