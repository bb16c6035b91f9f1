--------------------------- MODULE ServerProcess ----------------------------
(***************************************************************************)
(* The life of a server process, as main of src/examples/echo/server.cpp   *)
(* drives it: TCPServer::start and stop with its main reactor, which       *)
(* accepts, and its sub-reactors (src/net/tcpserver.{h,cpp}), and the      *)
(* StatusManager whose SIGINT handler ends it                              *)
(* (src/base/status_manager.{h,cpp}).                                      *)
(*                                                                         *)
(* A reactor is its state and, for the accepting one, the two halves of    *)
(* new_connection_callback that touch another loop; EventLoop.tla shows    *)
(* that stop() ends loop().  A signal is handled by any thread, in the     *)
(* middle of what it does, which then waits for the handler to return.     *)
(***************************************************************************)
EXTENDS Integers

CONSTANTS
  ThreadNums,       \* arguments of set_thread_num
  MaxThreadNum,     \* TCPServer::MaxThreadNum
  InterruptLocked,  \* a signal may hit main while it holds _mtx
  MaxConns,         \* bound: connections made
  MaxSignals        \* bound: signals sent

ASSUME ProcessAssumption ==
  /\ ThreadNums \subseteq Int
  /\ MaxThreadNum \in Nat
  /\ InterruptLocked \in BOOLEAN
  /\ MaxConns \in Nat
  /\ MaxSignals \in Nat

Subs == 0..(MaxThreadNum - 1)
Main == -1       \* the thread of main()
Acceptor == -2   \* the main reactor
Nobody == -3
Threads == Subs \cup {Main, Acceptor}

VARIABLES
  pc,          \* where main is
  threadNum,   \* _thread_num
  subEls,      \* the array _sub_els
  nextEl,      \* _next_el
  reactor,     \* state of every reactor's thread
  stopping,    \* i of the loop in stop()
  backlog,     \* connections not yet accepted
  acceptPc,    \* where the main reactor is in new_connection_callback
  target,      \* the loop that _get_next_el returned
  load,        \* history: connections handed to every loop
  connects,    \* connections made
  registered,  \* sigaction was called
  exit,        \* _exit
  mtx,         \* who holds _mtx
  notified,    \* a sleeping main was notified
  handler,     \* where every thread is in _handle_signal
  signals,     \* signals sent
  fault        \* a loop was used that is not there

server == <<threadNum, subEls, nextEl, reactor, stopping>>
accept == <<backlog, acceptPc, target, load, connects>>
status == <<registered, exit, mtx, notified, handler, signals>>
vars == <<pc, server, accept, status, fault>>

TypeOK ==
  /\ pc \in {"configure", "start_subs", "start_main", "register", "is_close",
             "test", "wait", "locked", "asleep", "woken", "held", "stop", "join",
             "join_main", "done", "killed"}
  /\ threadNum \in 0..MaxThreadNum
  /\ subEls \in {"null", "alive", "deleted"}
  /\ nextEl \in -1..(MaxThreadNum - 1)
  /\ reactor \in [Subs \cup {Acceptor} ->
                    {"none", "running", "stopped", "ended", "joined"}]
  /\ stopping \in 0..MaxThreadNum
  /\ backlog \in Nat
  /\ acceptPc \in {"idle", "hand_over"}
  /\ target \in Subs \cup {Acceptor}
  /\ load \in [Subs \cup {Acceptor} -> Nat]
  /\ connects \in 0..MaxConns
  /\ registered \in BOOLEAN
  /\ exit \in BOOLEAN
  /\ mtx \in Threads \cup {Nobody}
  /\ notified \in BOOLEAN
  /\ handler \in [Threads -> {"none", "lock", "set"}]
  /\ signals \in 0..MaxSignals
  /\ fault \in BOOLEAN

Init ==
  /\ pc = "configure"
  /\ threadNum = 0
  /\ subEls = "null"
  /\ nextEl = -1
  /\ reactor = [r \in Subs \cup {Acceptor} |-> "none"]
  /\ stopping = 0
  /\ backlog = 0
  /\ acceptPc = "idle"
  /\ target = Acceptor
  /\ load = [r \in Subs \cup {Acceptor} |-> 0]
  /\ connects = 0
  /\ registered = FALSE
  /\ exit = FALSE
  /\ mtx = Nobody
  /\ notified = FALSE
  /\ handler = [t \in Threads |-> "none"]
  /\ signals = 0
  /\ fault = FALSE
-----------------------------------------------------------------------------
\* main takes a step from one place to another.
MainStep(from, to) ==
  /\ pc = from
  /\ handler[Main] = "none"
  /\ pc' = to

\* set_thread_num
Clamp(n) == IF n > MaxThreadNum THEN MaxThreadNum ELSE IF n < 0 THEN 0 ELSE n

SetThreadNum(n) ==
  /\ MainStep("configure", "start_subs")
  /\ threadNum' = Clamp(n)
  /\ UNCHANGED <<subEls, nextEl, reactor, stopping, accept, status, fault>>

\* TCPServer::start: the sub-reactors, ...
StartSubs ==
  /\ MainStep("start_subs", "start_main")
  /\ \/ threadNum = 0 /\ UNCHANGED server
     \/ /\ threadNum > 0
        /\ subEls' = "alive"
        /\ reactor' = [r \in Subs \cup {Acceptor} |->
                         IF r \in 0..(threadNum - 1) THEN "running" ELSE "none"]
        /\ nextEl' = 0
        /\ UNCHANGED <<threadNum, stopping>>
  /\ UNCHANGED <<accept, status, fault>>

\* ... then the main reactor.
StartMain ==
  /\ MainStep("start_main", "register")
  /\ reactor' = [reactor EXCEPT ![Acceptor] = "running"]
  /\ UNCHANGED <<threadNum, subEls, nextEl, stopping, accept, status, fault>>

RegisterSignals ==
  /\ MainStep("register", "is_close")
  /\ registered' = TRUE
  /\ UNCHANGED <<server, accept, exit, mtx, notified, handler, signals, fault>>

Lock(from, to) ==
  /\ MainStep(from, to)
  /\ mtx = Nobody
  /\ mtx' = Main
  /\ UNCHANGED <<server, accept, registered, exit, notified, handler, signals, fault>>

Unlock(from, to) ==
  /\ MainStep(from, to)
  /\ mtx' = Nobody
  /\ UNCHANGED <<server, accept, registered, exit, notified, handler, signals, fault>>

\* is_close, and the loop in main around it and wait_for_signal.
IsClose == Lock("is_close", "test") \/ Unlock("test", IF exit THEN "stop" ELSE "wait")

\* wait_for_signal: wait_until releases _mtx and sleeps in one step.
WaitForSignal ==
  \/ Lock("wait", "locked")
  \/ /\ MainStep("locked", "asleep")
     /\ mtx' = Nobody
     /\ notified' = FALSE
     /\ UNCHANGED <<server, accept, registered, exit, handler, signals, fault>>
  \/ Lock("woken", "held")
  \/ Unlock("held", "is_close")

\* Mutant: only a notification ends the sleep.
WakeUpNotified ==
  /\ MainStep("asleep", "woken")
  /\ notified
  /\ UNCHANGED <<server, accept, status, fault>>

\* wait_until ends: a notification, or timeout_ms have passed.
WakeUp ==
  /\ MainStep("asleep", "woken")
  /\ UNCHANGED <<server, accept, status, fault>>

\* TCPServer::stop, while the main reactor goes on: _sub_els[i].stop(), ...
StopSub ==
  /\ MainStep("stop", "join")
  /\ subEls = "alive"
  /\ stopping < threadNum
  /\ reactor' = [reactor EXCEPT ![stopping] = "stopped"]
  /\ UNCHANGED <<threadNum, subEls, nextEl, stopping, accept, status, fault>>

\* Mutant: the thread is not waited for.
JoinSubNot ==
  /\ MainStep("join", "stop")
  /\ stopping' = stopping + 1
  /\ UNCHANGED <<threadNum, subEls, nextEl, reactor, accept, status, fault>>

\* ... its join(), ...
JoinSub ==
  /\ MainStep("join", "stop")
  /\ reactor[stopping] = "ended"
  /\ reactor' = [reactor EXCEPT ![stopping] = "joined"]
  /\ stopping' = stopping + 1
  /\ UNCHANGED <<threadNum, subEls, nextEl, accept, status, fault>>

\* ... delete [] _sub_els, ...
DeleteSubs ==
  /\ MainStep("stop", "stop")
  /\ subEls = "alive"
  /\ stopping = threadNum
  /\ subEls' = "deleted"
  /\ UNCHANGED <<threadNum, nextEl, reactor, stopping, accept, status, fault>>

\* ... _el.stop() and the last join().
StopMain ==
  /\ MainStep("stop", "join_main")
  /\ subEls # "alive"
  /\ reactor' = [reactor EXCEPT ![Acceptor] = "stopped"]
  /\ UNCHANGED <<threadNum, subEls, nextEl, stopping, accept, status, fault>>

JoinMain ==
  /\ MainStep("join_main", "done")
  /\ reactor[Acceptor] = "ended"
  /\ reactor' = [reactor EXCEPT ![Acceptor] = "joined"]
  /\ UNCHANGED <<threadNum, subEls, nextEl, stopping, accept, status, fault>>

MainThread ==
  \/ StartSubs \/ StartMain \/ RegisterSignals
  \/ IsClose \/ WaitForSignal \/ WakeUp
  \/ StopSub \/ JoinSub \/ DeleteSubs \/ StopMain \/ JoinMain
-----------------------------------------------------------------------------
\* main is inside stop().
Stopping == pc \in {"stop", "join", "join_main"}

Alive(r) == reactor[r] \in {"running", "stopped"} /\ handler[r] = "none"

\* Mutant: one loop too many.
RoundRobinOver == (nextEl + 1) % (threadNum + 1)

RoundRobin == (nextEl + 1) % threadNum

\* new_connection_callback begins: _get_next_el.
GetNextEl ==
  /\ Alive(Acceptor)
  /\ acceptPc = "idle"
  /\ backlog > 0
  /\ backlog' = backlog - 1
  /\ acceptPc' = "hand_over"
  /\ nextEl' = IF nextEl = -1 THEN -1 ELSE RoundRobin
  /\ target' = IF nextEl' = -1 THEN Acceptor ELSE nextEl'
  /\ UNCHANGED <<pc, threadNum, subEls, reactor, stopping, load, connects, status, fault>>

\* It goes on: add_channel, update_channel and run_after of that loop, which
\* must be there; a loop that is stopped but there takes them and never looks.
HandOver ==
  /\ Alive(Acceptor)
  /\ acceptPc = "hand_over"
  /\ acceptPc' = "idle"
  /\ load' = [load EXCEPT ![target] = @ + 1]
  /\ fault' = (target # Acceptor /\ (subEls # "alive" \/ target >= threadNum))
  /\ UNCHANGED <<pc, server, backlog, target, connects, status>>

\* loop() sees the stop and returns.
ReactorEnds(r) ==
  /\ Alive(r)
  /\ reactor[r] = "stopped"
  /\ r = Acceptor => acceptPc = "idle"
  /\ reactor' = [reactor EXCEPT ![r] = "ended"]
  /\ UNCHANGED <<pc, threadNum, subEls, nextEl, stopping, accept, status, fault>>

Reactors == GetNextEl \/ HandOver \/ \E r \in Subs \cup {Acceptor} : ReactorEnds(r)

\* External: the kernel completes a connection whenever the socket listens,
\* from the constructor of Acceptor on.
ClientConnect ==
  /\ connects < MaxConns
  /\ connects' = connects + 1
  /\ backlog' = backlog + 1
  /\ UNCHANGED <<pc, server, acceptPc, target, load, status, fault>>
-----------------------------------------------------------------------------
\* SIGINT before register_signals: the default action.
Killed ==
  /\ signals < MaxSignals
  /\ ~registered
  /\ signals' = signals + 1
  /\ pc' = "killed"
  /\ UNCHANGED <<server, accept, registered, exit, mtx, notified, handler, fault>>

\* SIGINT, handled by thread t; it is masked while t handles one.
Signal(t) ==
  /\ signals < MaxSignals
  /\ registered
  /\ handler[t] = "none"
  /\ IF t = Main THEN mtx = Main => InterruptLocked
                 ELSE reactor[t] \in {"running", "stopped"}
  /\ signals' = signals + 1
  /\ handler' = [handler EXCEPT ![t] = "lock"]
  /\ UNCHANGED <<pc, server, accept, registered, exit, mtx, notified, fault>>

\* _set_close takes _mtx, ...
HandlerLock(t) ==
  /\ handler[t] = "lock"
  /\ mtx = Nobody
  /\ mtx' = t
  /\ handler' = [handler EXCEPT ![t] = "set"]
  /\ UNCHANGED <<pc, server, accept, registered, exit, notified, signals, fault>>

\* ... sets _exit, notifies and releases it.
SetClose(t) ==
  /\ handler[t] = "set"
  /\ exit' = TRUE
  /\ notified' = TRUE
  /\ mtx' = Nobody
  /\ handler' = [handler EXCEPT ![t] = "none"]
  /\ UNCHANGED <<pc, server, accept, registered, signals, fault>>

Handlers == \E t \in Threads : HandlerLock(t) \/ SetClose(t)

\* The process is gone, or did something undefined.
Over == pc \in {"done", "killed"} \/ fault

Next ==
  \/ /\ ~Over
     /\ \/ \E n \in ThreadNums : SetThreadNum(n)
        \/ MainThread
        \/ Reactors
        \/ ClientConnect
        \/ Killed
        \/ \E t \in Threads : Signal(t)
        \/ Handlers
  \/ Over /\ UNCHANGED vars

Spec == Init /\ [][Next]_vars

\* Every thread runs; wait_until and stop() end (WakeUp is part of MainThread,
\* ReactorEnds of Reactors).  A handler that waits for _mtx gets it, for main
\* is without it for up to timeout_ms in every round.  Nobody need send a
\* signal.
FairSpec ==
  /\ Spec
  /\ WF_vars(~Over /\ MainThread)
  /\ WF_vars(~Over /\ Reactors)
  /\ WF_vars(~Over /\ \E t \in Threads : SetClose(t))
  /\ \A t \in Threads : SF_vars(~Over /\ HandlerLock(t))
-----------------------------------------------------------------------------
\* From start() until stop(), and always without sub-reactors, nobody uses a
\* loop that is not there: the main reactor begins only when the array is
\* there, the index stays in it, and the array is deleted only when the thread
\* of each of its loops was joined (start, _get_next_el, stop).  During stop()
\* the main reactor, which is the last to be stopped, may use a deleted one.
LoopsThere ==
  /\ fault => threadNum > 0 /\ Stopping
  /\ subEls = "deleted" => \A r \in 0..(threadNum - 1) : reactor[r] = "joined"

\* Connections are spread evenly over the loops that run, from the first to
\* the last (_get_next_el).
Balanced ==
  LET loops == IF threadNum = 0 THEN {Acceptor} ELSE 0..(threadNum - 1)
  IN  /\ \A r, s \in loops : load[r] <= load[s] + 1
      /\ \A r \in (Subs \cup {Acceptor}) \ loops : load[r] = 0

\* Whatever thread handles a SIGINT, and whatever main is doing, the process
\* ends: the handler gets _mtx, main sees _exit although the notification may
\* come before it sleeps, and every reactor is joined (wait_for_signal,
\* is_close, stop), unless a deleted loop is used before that.
EndsAfterSignal == signals > 0 ~> Over
=============================================================================
