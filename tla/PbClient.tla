------------------------------ MODULE PbClient ------------------------------
(***************************************************************************)
(* PbClient (src/net/pb_client.{h,cpp}): its connection, its session and   *)
(* its calls, without an EventLoop (blocking) or with one (asynchronous),  *)
(* and the client's half of TCPConnection::handle_events.                  *)
(*                                                                         *)
(* Threads: the caller, which makes one call after another and waits for   *)
(* each as the examples do, and the thread of the loop.  They share the    *)
(* members of PbClient without a lock.  The loop is cut down to queued     *)
(* update_channel calls and epoll events of this channel; EventLoop.tla    *)
(* has the rest.                                                           *)
(*                                                                         *)
(* A request is two units of header, which pack_request appends, and one   *)
(* of payload, in the extra part of Buffer; a response is two units.  A    *)
(* unit is the number of its call, 0 in a response no parser accepts.      *)
(* Errors of read and write on a reset connection, fatal in read_fd and    *)
(* write_fd, are left out: a closed one swallows writes and reads as EOF.  *)
(***************************************************************************)
EXTENDS Naturals, Sequences, FiniteSets

CONSTANTS
  MaxCalls,     \* bound: calls made
  Overlap,      \* when the caller makes its next call (see MayCall)
  SocketTakes   \* how much a nonblocking socket may take (see WriteFd)

ASSUME ClientAssumption ==
  /\ MaxCalls \in Nat
  /\ Overlap \in {"none", "informed", "any"}
  /\ SocketTakes \subseteq {"all", "cutHeader", "headerOnly", "cutBoth"}

VARIABLES
  async,      \* the client has an EventLoop
  net,        \* the connection as the kernel knows it
  wire,       \* what the server has received of a request
  back,       \* response units on their way, or unread
  broken,     \* the server sent a response that cannot be parsed
  connected,  \* _connected
  event,      \* _event
  sevent,     \* _sevent, the mask epoll knows
  funcs,      \* update_channel calls in _funcs of the loop
  loopPc,     \* where the loop is in a callback of the channel
  mainPc,     \* where the caller is in CallMethod
  last,       \* the last call made
  ctx,        \* _ctx: its call, 0 if null
  session,    \* _session
  rbuf,       \* _rbuf
  wbuf,       \* _wbuf: what is left of header and payload
  answers     \* history: which call was given the response to which

kernel == <<net, wire, back, broken>>
channel == <<connected, event, sevent>>
call == <<last, ctx, session, rbuf, wbuf, answers>>
vars == <<async, kernel, channel, funcs, loopPc, mainPc, call>>

Calls == 1..MaxCalls
NoSession == [call |-> 0, done |-> FALSE]
Empty == [header |-> 0, payload |-> 0]
Packed == [header |-> 2, payload |-> 1]
Masks == {"none", "IN", "OUT"}

TypeOK ==
  /\ async \in BOOLEAN
  /\ net \in {"connecting", "up", "refused", "closed"}
  /\ wire \in Seq(Calls \X {"header", "payload"})
  /\ back \in Seq(0..MaxCalls)
  /\ broken \in BOOLEAN
  /\ connected \in BOOLEAN
  /\ event \in Masks
  /\ sevent \in Masks
  /\ funcs \in Nat
  /\ loopPc \in {"wait", "in", "out", "conn", "ran", "cleared"}
  /\ mainPc \in {"idle", "arm", "post", "write", "read"}
  /\ last \in 0..MaxCalls
  /\ ctx \in 0..MaxCalls
  /\ session \in [call : 0..MaxCalls, done : BOOLEAN]
  /\ rbuf \in Seq(0..MaxCalls)
  /\ wbuf \in [header : 0..2, payload : 0..1]
  /\ answers \in Seq([call : Calls, of : Calls])

\* The constructor: a blocking connect that succeeds or is refused, or a
\* nonblocking one that is done at once or in progress.
Init ==
  /\ async \in BOOLEAN
  /\ net \in IF async THEN {"up", "connecting"} ELSE {"up", "refused"}
  /\ connected = (net = "up")
  /\ event = IF net = "connecting" THEN "OUT" ELSE "none"
  /\ funcs = IF net = "connecting" THEN 1 ELSE 0
  /\ sevent = "none"
  /\ wire = <<>> /\ back = <<>> /\ broken = FALSE
  /\ loopPc = "wait" /\ mainPc = "idle"
  /\ last = 0 /\ ctx = 0 /\ session = NoSession
  /\ rbuf = <<>> /\ wbuf = Empty /\ answers = <<>>
-----------------------------------------------------------------------------
\* The caller has the answer to its last call.
Informed == last = 0 \/ \E i \in DOMAIN answers : answers[i].call = last

\* The caller waits for connected() and for the answer to its last call, and
\* unless Overlap allows more, for the loop to be out of the callback that
\* told it so.  With "any" it does not even wait for the answer.
MayCall ==
  /\ mainPc = "idle"
  /\ connected
  /\ last < MaxCalls
  /\ Overlap = "any" \/ Informed
  /\ Overlap = "none" => loopPc = "wait"

\* Mutant: what an earlier response left in the buffer stays.
CallMethodKeepsRbuf(done) ==
  /\ MayCall
  /\ done => async
  /\ last' = last + 1
  /\ ctx' = last'
  /\ session' = [call |-> last', done |-> done]
  /\ wbuf' = Packed
  /\ mainPc' = IF done THEN "arm" ELSE "write"
  /\ UNCHANGED <<async, kernel, channel, funcs, loopPc, rbuf, answers>>

\* CallMethod up to pack_request.  Without a loop a caller passes no done.  Its
\* early return, for a payload of more than UINT32_MAX bytes, is never taken:
\* protobuf serializes no message beyond 2 GiB.
CallMethod(done) ==
  /\ MayCall
  /\ done => async
  /\ last' = last + 1
  /\ rbuf' = <<>>
  /\ ctx' = last'
  /\ session' = [call |-> last', done |-> done]
  /\ wbuf' = Packed
  /\ mainPc' = IF done THEN "arm" ELSE "write"
  /\ UNCHANGED <<async, kernel, channel, funcs, loopPc, answers>>

SetEvent ==
  /\ mainPc = "arm"
  /\ event' = "OUT"
  /\ mainPc' = "post"
  /\ UNCHANGED <<async, kernel, connected, sevent, funcs, loopPc, call>>

AddFunc ==
  /\ mainPc = "post"
  /\ funcs' = funcs + 1
  /\ mainPc' = "idle"
  /\ UNCHANGED <<async, kernel, channel, loopPc, call>>

Units(n, part) == [i \in 1..n |-> <<ctx, part>>]

\* write_fd: the two writes of one call.  A blocking socket takes all; a
\* nonblocking one all, a part of the header and nothing of the payload, the
\* header and nothing of the payload, or (the peer reading in between) a part
\* of the header and then the payload.
WriteFd(take) ==
  LET cut == take \in {"cutHeader", "cutBoth"}
      h == IF cut THEN 1 ELSE wbuf.header
      p == IF take \in {"all", "cutBoth"} THEN wbuf.payload ELSE 0
  IN  /\ take \in (IF async THEN SocketTakes ELSE {}) \cup {"all"}
      /\ cut => wbuf.header > 1
      /\ h + p > 0
      /\ wbuf' = [header |-> wbuf.header - h, payload |-> wbuf.payload - p]
      /\ wire' = wire \o Units(h, "header") \o Units(p, "payload")

\* The write loop of a call without done.
SyncWrite(take) ==
  /\ mainPc = "write"
  /\ \/ wbuf # Empty /\ WriteFd(take) /\ UNCHANGED mainPc
     \/ wbuf = Empty /\ mainPc' = "read" /\ UNCHANGED <<wbuf, wire>>
  /\ UNCHANGED <<async, net, back, broken, channel, funcs, loopPc,
                 last, ctx, session, rbuf, answers>>

\* parse_response: two units of one response are a Success; anything else
\* is an Error or too little, and both leave the call waiting.
Parsed(buf) == Len(buf) >= 2 /\ buf[1] # 0 /\ buf[1] = buf[2]

\* read_fd of the n units that were there.
ReadFd(n) ==
  /\ n <= Len(back)
  /\ rbuf' = rbuf \o SubSeq(back, 1, n)
  /\ back' = SubSeq(back, n + 1, Len(back))

\* ParseFromString(payload_view()), and done->Run() or the return to the
\* caller.
Deliver == answers' = Append(answers, [call |-> session.call, of |-> rbuf'[1]])

\* The read loop of a call without done: response_callback with its
\* close_callback, and the end of CallMethod.  Without a loop update_channel is
\* called on a null _el; it compares the two masks of the channel, both 0, and
\* returns before it touches the loop.  At EOF and after an Error the loop
\* turns for ever.
SyncRead(n) ==
  /\ mainPc = "read"
  /\ ReadFd(n)
  /\ \/ /\ ~Parsed(rbuf')
        /\ UNCHANGED <<event, sevent, ctx, session, answers, mainPc>>
     \/ /\ Parsed(rbuf')
        /\ Deliver
        /\ event' = "none"
        /\ sevent' = "none"
        /\ ctx' = 0
        /\ session' = NoSession
        /\ mainPc' = "idle"
  /\ UNCHANGED <<async, net, wire, broken, connected, funcs, loopPc, last, wbuf>>
-----------------------------------------------------------------------------
\* update_channel, called by the loop: epoll is told the mask.
UpdateChannel(mask) == event' = mask /\ sevent' = mask

RunFunc ==
  /\ loopPc = "wait"
  /\ funcs > 0
  /\ funcs' = funcs - 1
  /\ UpdateChannel(event)
  /\ UNCHANGED <<async, kernel, connected, loopPc, mainPc, call>>

\* epoll_wait reports the channel.
TakeEvent ==
  /\ loopPc = "wait"
  /\ \/ sevent = "IN" /\ (back # <<>> \/ net = "closed") /\ loopPc' = "in"
     \/ sevent = "OUT" /\ net # "connecting" /\ loopPc' = "out"
  /\ UNCHANGED <<async, kernel, channel, funcs, mainPc, call>>

\* handle_events at EOF: close_callback.
HandleEof ==
  /\ loopPc = "in"
  /\ back = <<>>
  /\ UpdateChannel("none")
  /\ loopPc' = "wait"
  /\ UNCHANGED <<async, kernel, connected, funcs, mainPc, call>>

\* handle_events on EPOLLIN: data_read_callback, and response_callback up to
\* done->Run().
HandleIn(n) ==
  /\ loopPc = "in"
  /\ ReadFd(n)
  /\ \/ ~Parsed(rbuf') /\ loopPc' = "wait" /\ UNCHANGED answers
     \/ Parsed(rbuf') /\ Deliver /\ loopPc' = "ran"
  /\ UNCHANGED <<async, net, wire, broken, channel, funcs, mainPc,
                 last, ctx, session, wbuf>>

ClearSession ==
  /\ loopPc = "ran"
  /\ ctx' = 0
  /\ session' = NoSession
  /\ loopPc' = "cleared"
  /\ UNCHANGED <<async, kernel, channel, funcs, mainPc, last, rbuf, wbuf, answers>>

\* Mutant: response_callback leaves the channel registered.
CloseCallbackNot ==
  /\ loopPc = "cleared"
  /\ loopPc' = "wait"
  /\ UNCHANGED <<async, kernel, channel, funcs, mainPc, call>>

\* The close_callback at the end of response_callback.
CloseCallback ==
  /\ loopPc = "cleared"
  /\ UpdateChannel("none")
  /\ loopPc' = "wait"
  /\ UNCHANGED <<async, kernel, connected, funcs, mainPc, call>>

\* Mutant: nobody asks epoll for the answer.
AfterWriteNothing == UNCHANGED <<event, sevent>>

\* _wbuf.readable() == 0: write_complete_callback.
AfterWrite ==
  IF wbuf'.header = 0 THEN UpdateChannel("IN") ELSE UNCHANGED <<event, sevent>>

\* handle_events on EPOLLOUT of a connected client.
HandleOut(take) ==
  /\ loopPc = "out"
  /\ connected
  /\ WriteFd(take)
  /\ AfterWrite
  /\ loopPc' = "wait"
  /\ UNCHANGED <<async, net, back, broken, connected, funcs, mainPc,
                 last, ctx, session, rbuf, answers>>

\* client_conn_callback: SO_ERROR.
HandleConnect ==
  /\ loopPc = "out"
  /\ ~connected
  /\ connected' = (net # "refused")
  /\ loopPc' = "conn"
  /\ UNCHANGED <<async, kernel, event, sevent, funcs, mainPc, call>>

\* Mutant: the channel stays registered once connected.
ConnectResetNot ==
  /\ loopPc = "conn"
  /\ loopPc' = "wait"
  /\ UNCHANGED <<async, kernel, channel, funcs, mainPc, call>>

\* ... and its last two lines.
ConnectReset ==
  /\ loopPc = "conn"
  /\ UpdateChannel("none")
  /\ loopPc' = "wait"
  /\ UNCHANGED <<async, kernel, connected, funcs, mainPc, call>>
-----------------------------------------------------------------------------
Request(c) == <<<<c, "header">>, <<c, "header">>, <<c, "payload">>>>

Resolve ==
  /\ net = "connecting"
  /\ net' \in {"up", "refused"}
  /\ UNCHANGED <<async, wire, back, broken, channel, funcs, loopPc, mainPc, call>>

\* The server has a whole request and answers it, well or badly.
Respond ==
  /\ net = "up"
  /\ \E c \in Calls :
       /\ wire = Request(c)
       /\ \/ back' = back \o <<c, c>> /\ UNCHANGED broken
          \/ back' = back \o <<0, 0>> /\ broken' = TRUE
  /\ wire' = <<>>
  /\ UNCHANGED <<async, net, channel, funcs, loopPc, mainPc, call>>

ServerClose ==
  /\ net = "up"
  /\ net' = "closed"
  /\ UNCHANGED <<async, wire, back, broken, channel, funcs, loopPc, mainPc, call>>

Takes == SocketTakes \cup {"all"}

Caller ==
  \/ SetEvent
  \/ AddFunc
  \/ \E take \in Takes : SyncWrite(take)
  \/ \E n \in 1..2 : SyncRead(n)

Loop ==
  \/ RunFunc
  \/ TakeEvent
  \/ HandleEof
  \/ \E n \in 1..2 : HandleIn(n)
  \/ ClearSession
  \/ CloseCallback
  \/ \E take \in Takes : HandleOut(take)
  \/ HandleConnect
  \/ ConnectReset

Server == Resolve \/ Respond

Next ==
  \/ \E done \in BOOLEAN : CallMethod(done)
  \/ Caller
  \/ Loop
  \/ Server
  \/ ServerClose

Spec == Init /\ [][Next]_vars

\* Both threads run, a connect is resolved, and a server that does not close
\* answers.  The caller need not call.
FairSpec == Spec /\ WF_vars(Caller) /\ WF_vars(Loop) /\ WF_vars(Server)
-----------------------------------------------------------------------------
AnswersTo(c) == {i \in DOMAIN answers : answers[i].call = c}

\* What the caller knows of a call.
Status(c) ==
  CASE c > last -> "new"
    [] c <= last /\ AnswersTo(c) = {} -> "pending"
    [] Cardinality(AnswersTo(c)) = 1 -> "answered"
    [] OTHER -> "twice"

Channel == INSTANCE RpcChannel WITH
  status <- [c \in Calls |-> Status(c)],
  reply <- [c \in Calls |-> {answers[i].of : i \in AnswersTo(c)}],
  lost <- net \in {"refused", "closed"} \/ broken

\* The client implements the abstract channel: with a loop or without, done
\* runs, or the call returns, at most once for a call and with the response
\* to it (CallMethod, handle_events, response_callback).
ImplementsChannel == Channel!Spec

\* Unless the connection is lost every call is answered (the same, with the
\* masks that the callbacks and CallMethod hand to epoll).
EveryCallAnswered == Channel!EveryCallAnswered

\* data_read_callback dereferences _ctx and _session: whenever the loop is
\* about to run it, they are those of the one call that waits.
ContextAlive ==
  loopPc \in {"in", "ran"} \/ (loopPc = "wait" /\ sevent = "IN") =>
    /\ ctx = last
    /\ session = [call |-> last, done |-> TRUE]

\* Between two calls nothing is left of the last one: epoll knows nothing of
\* the channel and no update_channel is queued, for a response, a close or a
\* level-triggered EPOLLOUT would make the loop spin or run a callback without
\* a context; and no part of a request or a response is unsent, on its way or
\* unread, for it would be taken for the next one's.
IdleIsQuiet ==
  connected /\ Informed /\ mainPc = "idle" /\ loopPc = "wait" =>
    /\ event = "none" /\ sevent = "none" /\ funcs = 0
    /\ wbuf = Empty /\ wire = <<>> /\ back = <<>>
    /\ ctx = 0
=============================================================================
