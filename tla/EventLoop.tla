----------------------------- MODULE EventLoop ------------------------------
(***************************************************************************)
(* EventLoop, WakeUper and TimerManager (src/net/eventloop.{h,cpp},        *)
(* src/net/timer_manager.h).  One thread runs loop(); any thread, the loop *)
(* thread inside a callback included, calls add_func, run_after and stop.  *)
(*                                                                         *)
(* A step is what a thread does up to the next point where another thread  *)
(* can tell the difference: a mutex is held, the eventfd is written, an    *)
(* atomic is stored.  _timers_mtx is never held across such a point, so it *)
(* needs no variable; _funcs_mtx is held from the push to the wakeup of    *)
(* add_func.  The heap of TimerManager is the set of its elements, of      *)
(* which top() may return any with the earliest deadline.  System calls    *)
(* whose failure is PLOG_FATAL do not fail here.                           *)
(***************************************************************************)
EXTENDS Naturals, Sequences

CONSTANTS
  Threads,              \* threads other than the loop's that use the loop
  Loop,                 \* the thread that runs loop()
  Funcs,                \* functions handed to add_func, each at most once
  Timers,               \* timers handed to run_after, each at most once
  Delays,               \* values of after_time_ms
  DefaultEpollTimeout,  \* epoll_wait's timeout when no timer is pending
  MaxTime,              \* bound: the clock stops here
  MaxEintr              \* bound: how often a signal interrupts epoll_wait

ASSUME LoopAssumption ==
  /\ Loop \notin Threads
  /\ Delays \subseteq Nat
  /\ DefaultEpollTimeout \in Nat
  /\ MaxTime \in Nat
  /\ MaxEintr \in Nat

VARIABLES
  isStop,      \* _is_stop
  funcs,       \* _funcs
  timers,      \* _timers: the pending timers
  efd,         \* the eventfd's counter is not zero
  io,          \* some other channel registered with the loop is ready
  loopPc,      \* where the loop thread is in loop()
  waitUntil,   \* when the current epoll_wait times out
  events,      \* what epoll_wait returned: a subset of {"wakeup", "io"}
  batch,       \* the local vector funcs of loop()
  exeTimers,   \* the local vector exe_timers of loop()
  pc,          \* the call each thread is in, and how far it got
  arg,         \* the timer a thread inside run_after is adding
  used,        \* history: functions and timers already handed over
  ran,         \* history: functions that ran, in order
  fired,       \* history: timers that fired
  now,         \* gettimeofday, in milliseconds
  eintr        \* history: interruptions of epoll_wait so far

shared == <<isStop, funcs, timers, efd, io>>
loopVars == <<loopPc, waitUntil, events, batch, exeTimers>>
callVars == <<pc, arg, used>>
history == <<ran, fired>>
env == <<now, eintr>>
vars == <<shared, loopVars, callVars, history, env>>

Callers == Threads \cup {Loop}

TimerRecs == [id : Timers, ts : Nat]

NoTimer == [id |-> Loop, ts |-> 0]

CallPcs == {"idle", "pushed", "stamped", "added", "stopped"}

LoopPcs == {"check", "wait", "events", "swap", "funcs", "func", "pop",
            "timers", "timer", "done"}

\* In these states the loop thread runs a callback: a channel's
\* handle_events, a function of add_func or a timer's function.
InCallback == {"events", "func", "timer"}

TypeOK ==
  /\ isStop \in BOOLEAN
  /\ funcs \in Seq(Funcs)
  /\ timers \subseteq TimerRecs
  /\ efd \in BOOLEAN
  /\ io \in BOOLEAN
  /\ loopPc \in LoopPcs
  /\ waitUntil \in Nat
  /\ events \subseteq {"wakeup", "io"}
  /\ batch \in Seq(Funcs)
  /\ exeTimers \subseteq TimerRecs
  /\ pc \in [Callers -> CallPcs]
  /\ arg \in [Callers -> TimerRecs \cup {NoTimer}]
  /\ used \subseteq Funcs \cup Timers
  /\ ran \in Seq(Funcs)
  /\ fired \subseteq TimerRecs
  /\ now \in Nat
  /\ eintr \in Nat

Init ==
  /\ isStop = FALSE
  /\ funcs = <<>>
  /\ timers = {}
  /\ efd = FALSE
  /\ io = FALSE
  /\ loopPc = "check"
  /\ waitUntil = 0
  /\ events = {}
  /\ batch = <<>>
  /\ exeTimers = {}
  /\ pc = [t \in Callers |-> "idle"]
  /\ arg = [t \in Callers |-> NoTimer]
  /\ used = {}
  /\ ran = <<>>
  /\ fired = {}
  /\ now = 0
  /\ eintr = 0
-----------------------------------------------------------------------------
(***************************************************************************)
(* Calls.  A thread is in at most one call; the loop thread makes calls    *)
(* only from a callback.                                                   *)
(***************************************************************************)
FuncsLocked == \E t \in Callers : pc[t] = "pushed"

MayCall(t) ==
  /\ pc[t] = "idle"
  /\ t = Loop => loopPc \in InCallback

SetPc(t, from, to) ==
  /\ pc[t] = from
  /\ pc' = [pc EXCEPT ![t] = to]

\* WakeUper::wakeup: a write of 1 makes the eventfd readable; at the
\* counter's limit the write fails with EAGAIN and it stays readable.
Wakeup == efd' = TRUE

\* add_func up to the wakeup, which is made with _funcs_mtx held.
AddFuncPush(t, f) ==
  /\ MayCall(t)
  /\ ~FuncsLocked
  /\ f \notin used
  /\ used' = used \cup {f}
  /\ funcs' = Append(funcs, f)
  /\ SetPc(t, "idle", "pushed")
  /\ UNCHANGED <<isStop, timers, efd, io, loopVars, arg, history, env>>

\* Mutant: add_func without wakeup.
AddFuncNoWakeup(t) ==
  /\ SetPc(t, "pushed", "idle")
  /\ UNCHANGED <<shared, loopVars, arg, used, history, env>>

\* The rest of add_func: wakeup, then the lock is released.
AddFuncWakeup(t) ==
  /\ SetPc(t, "pushed", "idle")
  /\ Wakeup
  /\ UNCHANGED <<isStop, funcs, timers, io, loopVars, arg, used, history, env>>

\* Mutant: run_after with the deadline never computed.
RunAfterNoStamp(t, id, delay) ==
  /\ MayCall(t)
  /\ id \notin used
  /\ used' = used \cup {id}
  /\ SetPc(t, "idle", "stamped")
  /\ UNCHANGED <<shared, loopVars, arg, history, env>>

\* run_after computes the deadline before it takes _timers_mtx.
RunAfterStamp(t, id, delay) ==
  /\ MayCall(t)
  /\ id \notin used
  /\ used' = used \cup {id}
  /\ arg' = [arg EXCEPT ![t] = [id |-> id, ts |-> now + delay]]
  /\ SetPc(t, "idle", "stamped")
  /\ UNCHANGED <<shared, loopVars, history, env>>

\* _timers.add_timer under the lock.
RunAfterAdd(t) ==
  /\ SetPc(t, "stamped", "added")
  /\ timers' = timers \cup {arg[t]}
  /\ UNCHANGED <<isStop, funcs, efd, io, loopVars, arg, used, history, env>>

\* Mutant: run_after without wakeup.
RunAfterNoWakeup(t) ==
  /\ SetPc(t, "added", "idle")
  /\ arg' = [arg EXCEPT ![t] = NoTimer]
  /\ UNCHANGED <<shared, loopVars, used, history, env>>

\* The wakeup, after the lock was released.
RunAfterWakeup(t) ==
  /\ SetPc(t, "added", "idle")
  /\ arg' = [arg EXCEPT ![t] = NoTimer]
  /\ Wakeup
  /\ UNCHANGED <<isStop, funcs, timers, io, loopVars, used, history, env>>

StopStore(t) ==
  /\ MayCall(t)
  /\ ~isStop
  /\ isStop' = TRUE
  /\ SetPc(t, "idle", "stopped")
  /\ UNCHANGED <<funcs, timers, efd, io, loopVars, arg, used, history, env>>

\* Mutant: stop without wakeup.
StopNoWakeup(t) ==
  /\ SetPc(t, "stopped", "idle")
  /\ UNCHANGED <<shared, loopVars, arg, used, history, env>>

StopWakeup(t) ==
  /\ SetPc(t, "stopped", "idle")
  /\ Wakeup
  /\ UNCHANGED <<isStop, funcs, timers, io, loopVars, arg, used, history, env>>

\* The steps that end a call in progress.
Return(t) ==
  \/ AddFuncWakeup(t)
  \/ RunAfterAdd(t)
  \/ RunAfterWakeup(t)
  \/ StopWakeup(t)
-----------------------------------------------------------------------------
(***************************************************************************)
(* loop().                                                                 *)
(***************************************************************************)
\* The loop thread leaves a callback only when its own call has returned.
LoopGoes(from, to) ==
  /\ pc[Loop] = "idle"
  /\ loopPc = from
  /\ loopPc' = to

\* TimerManager::top: any timer with the earliest deadline.
Top(tms) == {tm \in tms : \A other \in tms : tm.ts <= other.ts}

\* Mutant: timers do not shorten the wait.
TimesOutAtDefault(until) == until = now + DefaultEpollTimeout

\* When an epoll_wait that starts now times out: after latest - now, or at
\* once when that is negative; after DefaultEpollTimeout without timers.
\* No time is taken to pass between reading the clock and epoll_wait.
TimesOutAt(until) ==
  IF timers = {}
  THEN until = now + DefaultEpollTimeout
  ELSE \E tm \in Top(timers) : until = IF tm.ts < now THEN now ELSE tm.ts

StopSeen ==
  /\ isStop
  /\ LoopGoes("check", "done")
  /\ UNCHANGED <<shared, waitUntil, events, batch, exeTimers, callVars, history, env>>

EpollWait ==
  /\ ~isStop
  /\ LoopGoes("check", "wait")
  /\ waitUntil' \in {now, now + DefaultEpollTimeout} \cup {tm.ts : tm \in timers}
  /\ TimesOutAt(waitUntil')
  /\ UNCHANGED <<shared, events, batch, exeTimers, callVars, history, env>>

\* epoll_wait fails with EINTR: continue.
EpollInterrupted ==
  /\ eintr < MaxEintr
  /\ eintr' = eintr + 1
  /\ LoopGoes("wait", "check")
  /\ UNCHANGED <<shared, waitUntil, events, batch, exeTimers, callVars, history, now>>

\* epoll_wait returns the ready channels, or none when it times out.
EpollReturn ==
  /\ efd \/ io \/ now >= waitUntil
  /\ events' = (IF efd THEN {"wakeup"} ELSE {}) \cup (IF io THEN {"io"} ELSE {})
  /\ LoopGoes("wait", "events")
  /\ UNCHANGED <<shared, waitUntil, batch, exeTimers, callVars, history, env>>

\* WakeUper::handle_events reads the eventfd, which resets its counter.
HandleWakeup ==
  /\ pc[Loop] = "idle"
  /\ loopPc = "events"
  /\ "wakeup" \in events
  /\ events' = events \ {"wakeup"}
  /\ efd' = FALSE
  /\ UNCHANGED <<isStop, funcs, timers, io, loopPc, waitUntil, batch,
                 exeTimers, callVars, history, env>>

\* Another channel's handle_events takes the input that made it ready.
HandleIo ==
  /\ pc[Loop] = "idle"
  /\ loopPc = "events"
  /\ "io" \in events
  /\ events' = events \ {"io"}
  /\ io' = FALSE
  /\ UNCHANGED <<isStop, funcs, timers, efd, loopPc, waitUntil, batch,
                 exeTimers, callVars, history, env>>

EventsDone ==
  /\ events = {}
  /\ LoopGoes("events", "swap")
  /\ UNCHANGED <<shared, waitUntil, events, batch, exeTimers, callVars, history, env>>

\* std::swap(_funcs, funcs) under _funcs_mtx.
SwapFuncs ==
  /\ ~FuncsLocked
  /\ LoopGoes("swap", "funcs")
  /\ batch' = funcs
  /\ funcs' = <<>>
  /\ UNCHANGED <<isStop, timers, efd, io, waitUntil, events, exeTimers,
                 callVars, history, env>>

\* Mutant: the last function added runs first.
RunFuncBackwards ==
  /\ batch # <<>>
  /\ LoopGoes("funcs", "func")
  /\ ran' = Append(ran, batch[Len(batch)])
  /\ batch' = SubSeq(batch, 1, Len(batch) - 1)
  /\ UNCHANGED <<shared, waitUntil, events, exeTimers, callVars, fired, env>>

RunFunc ==
  /\ batch # <<>>
  /\ LoopGoes("funcs", "func")
  /\ ran' = Append(ran, Head(batch))
  /\ batch' = Tail(batch)
  /\ UNCHANGED <<shared, waitUntil, events, exeTimers, callVars, fired, env>>

FuncReturns ==
  /\ LoopGoes("func", "funcs")
  /\ UNCHANGED <<shared, waitUntil, events, batch, exeTimers, callVars, history, env>>

FuncsDone ==
  /\ batch = <<>>
  /\ LoopGoes("funcs", "pop")
  /\ UNCHANGED <<shared, waitUntil, events, batch, exeTimers, callVars, history, env>>

\* Timers are popped while the earliest deadline has passed.
PopTimers ==
  /\ LoopGoes("pop", "timers")
  /\ exeTimers' = {tm \in timers : tm.ts < now}
  /\ timers' = {tm \in timers : ~(tm.ts < now)}
  /\ UNCHANGED <<isStop, funcs, efd, io, waitUntil, events, batch, callVars,
                 history, env>>

\* exe_timers is in the order of the pops.
RunTimer(tm) ==
  /\ tm \in Top(exeTimers)
  /\ LoopGoes("timers", "timer")
  /\ exeTimers' = exeTimers \ {tm}
  /\ fired' = fired \cup {tm}
  /\ UNCHANGED <<shared, waitUntil, events, batch, callVars, ran, env>>

TimerReturns ==
  /\ LoopGoes("timer", "timers")
  /\ UNCHANGED <<shared, waitUntil, events, batch, exeTimers, callVars, history, env>>

TimersDone ==
  /\ exeTimers = {}
  /\ LoopGoes("timers", "check")
  /\ UNCHANGED <<shared, waitUntil, events, batch, exeTimers, callVars, history, env>>

LoopStep ==
  \/ StopSeen
  \/ EpollWait
  \/ EpollReturn
  \/ HandleWakeup
  \/ HandleIo
  \/ EventsDone
  \/ SwapFuncs
  \/ RunFunc
  \/ FuncReturns
  \/ FuncsDone
  \/ PopTimers
  \/ \E tm \in exeTimers : RunTimer(tm)
  \/ TimerReturns
  \/ TimersDone
-----------------------------------------------------------------------------
\* External: input arrives on a channel of the loop.
ChannelReady ==
  /\ ~io
  /\ io' = TRUE
  /\ UNCHANGED <<isStop, funcs, timers, efd, loopVars, callVars, history, env>>

Tick ==
  /\ now < MaxTime
  /\ now' = now + 1
  /\ UNCHANGED <<shared, loopVars, callVars, history, eintr>>

Next ==
  \/ \E t \in Callers :
       \/ \E f \in Funcs : AddFuncPush(t, f)
       \/ \E id \in Timers, delay \in Delays : RunAfterStamp(t, id, delay)
       \/ StopStore(t)
       \/ Return(t)
  \/ LoopStep
  \/ EpollInterrupted
  \/ ChannelReady
  \/ Tick

\* Every thread keeps running and time passes; nobody has to call anything.
Fairness ==
  /\ WF_vars(LoopStep)
  /\ \A t \in Callers : WF_vars(Return(t))
  /\ WF_vars(Tick)

Spec == Init /\ [][Next]_vars

FairSpec == Spec /\ Fairness
-----------------------------------------------------------------------------
(***************************************************************************)
(* Properties.                                                             *)
(***************************************************************************)
\* No lost wakeup (add_func, loop): while the loop thread sleeps in
\* epoll_wait, a function waiting in _funcs has made the eventfd readable,
\* or the thread that added it is about to.
NoLostFunc ==
  loopPc = "wait" /\ funcs # <<>> => efd \/ FuncsLocked

\* No oversleeping (run_after, loop): while the loop thread sleeps, a timer
\* due before epoll_wait times out has made the eventfd readable, or the
\* thread that added it is about to.
NoOversleep ==
  loopPc = "wait" /\ now < waitUntil =>
    \A tm \in timers :
      tm.ts < waitUntil => efd \/ \E t \in Callers : pc[t] = "added"

\* stop() is not slept through (stop, loop): once _is_stop is set, the
\* sleeping loop thread has a readable eventfd or stop is about to write it.
NoMissedStop ==
  loopPc = "wait" /\ isStop => efd \/ \E t \in Callers : pc[t] = "stopped"

\* The loop thread never sleeps on work: whatever add_func, run_after or stop
\* handed over in the meantime will end its epoll_wait.
WakeupPending == NoLostFunc /\ NoOversleep /\ NoMissedStop

\* The loop keeps the promise of Executor: every function once and in order,
\* every timer once and not before its deadline, whatever the interleaving
\* of add_func and run_after with loop().
Exec == INSTANCE Executor
          WITH queue <- batch \o funcs,
               armed <- timers \cup exeTimers

ImplementsExecutor == Exec!Spec

\* Every function added is run, unless the loop is stopped first.
EveryFuncRuns ==
  \A f \in Funcs : f \in used ~> isStop \/ \E i \in DOMAIN ran : ran[i] = f

\* Every timer whose deadline the clock passes fires, unless the loop is
\* stopped first, also when the loop sleeps without a timeout that ends.
EveryTimerFires ==
  \A id \in Timers :
    (\E tm \in timers : tm.id = id /\ tm.ts < MaxTime)
      ~> isStop \/ \E tm \in fired : tm.id = id

\* stop() makes loop() return, from whatever thread it is called.
StopEndsLoop == isStop ~> loopPc = "done"
=============================================================================
