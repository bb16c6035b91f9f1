-------------------------- MODULE EventLoopProofs ---------------------------
(***************************************************************************)
(* Proofs about EventLoop, for any number of threads, functions and        *)
(* timers: its type invariant, the three invariants that rule out a lost   *)
(* wakeup, and that it implements Executor; and, at the end, about the     *)
(* times of TimeStamp its deadlines are made of.                           *)
(***************************************************************************)
EXTENDS EventLoop, TimeStamp, SequenceTheorems, TLAPS

-----------------------------------------------------------------------------
(***************************************************************************)
(* The inductive invariants.                                               *)
(***************************************************************************)
\* A thread that is about to add a timer has one.
ArgOK == \A t \in Callers : pc[t] = "stamped" => arg[t] \in TimerRecs

TypeInv == TypeOK /\ ArgOK

\* From the swap of _funcs to the next epoll_wait's return, the eventfd is
\* readable whenever a function waits: only handle_events clears it, and a
\* swap follows.
FuncsSignalled ==
  loopPc \notin {"events", "swap"} /\ funcs # <<>> => efd \/ FuncsLocked

WakeInv == FuncsSignalled /\ NoOversleep /\ NoMissedStop

\* The timers a loop holds or has run were handed over, and no timer that is
\* about to be added is among them or is being added twice.
TimersUsed == \A tm \in timers \cup exeTimers \cup fired : tm.id \in used

ArgFresh ==
  \A t \in Callers : pc[t] = "stamped" =>
    /\ arg[t].id \in used
    /\ \A tm \in timers \cup exeTimers \cup fired : tm.id # arg[t].id
    /\ \A u \in Callers : pc[u] = "stamped" /\ u # t => arg[u].id # arg[t].id

\* The local vectors of loop() are empty outside the loops that run them; a
\* timer in exe_timers is due, and no longer in _timers.
LocalsEmpty ==
  /\ loopPc \notin {"funcs", "func"} => batch = <<>>
  /\ loopPc \notin {"timers", "timer"} => exeTimers = {}

ExePopped == \A tm \in exeTimers : tm.ts < now /\ tm \notin timers

HandoverInv == TimersUsed /\ ArgFresh /\ LocalsEmpty /\ ExePopped

-----------------------------------------------------------------------------
(***************************************************************************)
(* Types.                                                                  *)
(***************************************************************************)
\* Every step of every thread, of the loop and of the environment keeps the
\* variables of EventLoop and of the calls in their types.
LEMMA TypeStep == TypeInv /\ [Next]_vars => TypeOK'
<1> SUFFICES ASSUME TypeOK, ArgOK, [Next]_vars
             PROVE  TypeOK'
  BY DEF TypeInv
<1> USE LoopAssumption
<1>1. ASSUME NEW t \in Callers, NEW f \in Funcs, AddFuncPush(t, f)
      PROVE  TypeOK'
  BY <1>1 DEF TypeOK, CallPcs, AddFuncPush, SetPc, loopVars, history, env
<1>2. ASSUME NEW t \in Callers, NEW id \in Timers, NEW delay \in Delays,
             RunAfterStamp(t, id, delay)
      PROVE  TypeOK'
  <2>1. [id |-> id, ts |-> now + delay] \in TimerRecs
    BY <1>2 DEF TypeOK, TimerRecs
  <2>. QED
    BY <1>2, <2>1 DEF TypeOK, RunAfterStamp, SetPc, shared, loopVars, history,
       env, CallPcs
<1>3. ASSUME NEW t \in Callers, StopStore(t)
      PROVE  TypeOK'
  BY <1>3 DEF TypeOK, CallPcs, StopStore, SetPc, loopVars, history, env
<1>4. ASSUME NEW t \in Callers, AddFuncWakeup(t)
      PROVE  TypeOK'
  BY <1>4 DEF TypeOK, CallPcs, AddFuncWakeup, Wakeup, SetPc, loopVars,
       history, env
<1>5. ASSUME NEW t \in Callers, RunAfterAdd(t)
      PROVE  TypeOK'
  <2>1. arg[t] \in TimerRecs
    BY <1>5 DEF RunAfterAdd, SetPc, ArgOK
  <2>. QED
    BY <1>5, <2>1 DEF TypeOK, RunAfterAdd, SetPc, loopVars, history, env, CallPcs
<1>6. ASSUME NEW t \in Callers, RunAfterWakeup(t)
      PROVE  TypeOK'
  BY <1>6 DEF TypeOK, CallPcs, RunAfterWakeup, Wakeup, SetPc, loopVars,
       history, env
<1>7. ASSUME NEW t \in Callers, StopWakeup(t)
      PROVE  TypeOK'
  BY <1>7 DEF TypeOK, CallPcs, StopWakeup, Wakeup, SetPc, loopVars, history,
       env
<1>8. CASE StopSeen
  BY <1>8 DEF TypeOK, LoopPcs, StopSeen, LoopGoes, shared, callVars, history,
       env
<1>9. CASE EpollWait
  BY <1>9 DEF TypeOK, EpollWait, LoopGoes, shared, callVars, history, env,
     LoopPcs, TimerRecs
<1>10. CASE EpollInterrupted
  BY <1>10 DEF TypeOK, LoopPcs, EpollInterrupted, LoopGoes, shared, callVars,
       history
<1>11. CASE EpollReturn
  BY <1>11 DEF TypeOK, LoopPcs, EpollReturn, LoopGoes, shared, callVars,
       history, env
<1>12. CASE HandleWakeup
  BY <1>12 DEF TypeOK, LoopPcs, HandleWakeup, callVars, history, env
<1>13. CASE HandleIo
  BY <1>13 DEF TypeOK, LoopPcs, HandleIo, callVars, history, env
<1>14. CASE EventsDone
  BY <1>14 DEF TypeOK, LoopPcs, EventsDone, LoopGoes, shared, callVars,
       history, env
<1>15. CASE SwapFuncs
  BY <1>15 DEF TypeOK, LoopPcs, SwapFuncs, LoopGoes, callVars, history, env
<1>16. CASE RunFunc
  BY <1>16 DEF TypeOK, LoopPcs, RunFunc, LoopGoes, shared, callVars, env
<1>17. CASE FuncReturns
  BY <1>17 DEF TypeOK, LoopPcs, FuncReturns, LoopGoes, shared, callVars,
       history, env
<1>18. CASE FuncsDone
  BY <1>18 DEF TypeOK, LoopPcs, FuncsDone, LoopGoes, shared, callVars,
       history, env
<1>19. CASE PopTimers
  BY <1>19 DEF TypeOK, LoopPcs, PopTimers, LoopGoes, callVars, history, env
<1>20. CASE TimerReturns
  BY <1>20 DEF TypeOK, LoopPcs, TimerReturns, LoopGoes, shared, callVars,
       history, env
<1>21. CASE TimersDone
  BY <1>21 DEF TypeOK, LoopPcs, TimersDone, LoopGoes, shared, callVars,
       history, env
<1>22. ASSUME NEW tm \in exeTimers, RunTimer(tm)
      PROVE  TypeOK'
  BY <1>22 DEF TypeOK, LoopPcs, RunTimer, LoopGoes, shared, callVars, env
<1>23. CASE ChannelReady
  BY <1>23 DEF TypeOK, ChannelReady, loopVars, callVars, history, env
<1>24. CASE Tick
  BY <1>24 DEF TypeOK, Tick, shared, loopVars, callVars, history
<1>25. CASE UNCHANGED vars
  BY <1>25 DEF TypeOK, vars, shared, loopVars, callVars, history, env
<1>. QED
  BY <1>1, <1>2, <1>3, <1>4, <1>5, <1>6, <1>7, <1>8, <1>9, <1>10, <1>11,
       <1>12, <1>13, <1>14, <1>15, <1>16, <1>17, <1>18, <1>19, <1>20, <1>21,
       <1>22, <1>23, <1>24, <1>25 DEF Next, LoopStep, Return

\* run_after's timer is set before it is added.
LEMMA ArgStep == TypeInv /\ [Next]_vars => ArgOK'
<1> SUFFICES ASSUME TypeOK, ArgOK, [Next]_vars
             PROVE  ArgOK'
  BY DEF TypeInv
<1> USE LoopAssumption DEF ArgOK
<1>1. ASSUME NEW t \in Callers, NEW f \in Funcs, AddFuncPush(t, f)
      PROVE  ArgOK'
  BY <1>1 DEF TypeOK, AddFuncPush, SetPc
<1>2. ASSUME NEW t \in Callers, NEW id \in Timers, NEW delay \in Delays,
             RunAfterStamp(t, id, delay)
      PROVE  ArgOK'
  <2>1. [id |-> id, ts |-> now + delay] \in TimerRecs
    BY <1>2 DEF TypeOK, TimerRecs
  <2>. QED
    BY <1>2, <2>1 DEF TypeOK, RunAfterStamp, SetPc
<1>3. ASSUME NEW t \in Callers, StopStore(t)
      PROVE  ArgOK'
  BY <1>3 DEF TypeOK, StopStore, SetPc
<1>4. ASSUME NEW t \in Callers, AddFuncWakeup(t)
      PROVE  ArgOK'
  BY <1>4 DEF TypeOK, AddFuncWakeup, SetPc
<1>5. ASSUME NEW t \in Callers, RunAfterAdd(t)
      PROVE  ArgOK'
  BY <1>5 DEF TypeOK, RunAfterAdd, SetPc
<1>6. ASSUME NEW t \in Callers, RunAfterWakeup(t)
      PROVE  ArgOK'
  BY <1>6 DEF TypeOK, RunAfterWakeup, SetPc
<1>7. ASSUME NEW t \in Callers, StopWakeup(t)
      PROVE  ArgOK'
  BY <1>7 DEF TypeOK, StopWakeup, SetPc
<1>8. CASE UNCHANGED callVars
  BY <1>8 DEF callVars
<1>. QED
  BY <1>1, <1>2, <1>3, <1>4, <1>5, <1>6, <1>7, <1>8 DEF Next, LoopStep,
       Return, StopSeen, EpollWait, EpollInterrupted, EpollReturn,
       HandleWakeup, HandleIo, EventsDone, SwapFuncs, RunFunc, FuncReturns,
       FuncsDone, PopTimers, TimerReturns, TimersDone, RunTimer, ChannelReady,
       Tick, vars

\* A new loop, with no call made yet, satisfies the type invariant.
LEMMA InitTypes == Init => TypeInv
<1> SUFFICES ASSUME Init PROVE TypeInv
  OBVIOUS
<1>1. /\ funcs \in Seq(Funcs)
      /\ batch \in Seq(Funcs)
      /\ ran \in Seq(Funcs)
  BY EmptySeq DEF Init
<1>2. pc \in [Callers -> CallPcs]
  BY DEF Init, CallPcs
<1>3. arg \in [Callers -> TimerRecs \cup {NoTimer}]
  BY DEF Init
<1>4. TypeOK
  BY <1>1, <1>2, <1>3 DEF Init, TypeOK, LoopPcs
<1>. QED
  BY <1>4 DEF Init, TypeInv, ArgOK

\* The variables of the loop, of its callers and of its clock never leave
\* their types, for any number of threads, functions and timers.
THEOREM TypeCorrect == Spec => []TypeOK
<1>1. TypeInv /\ [Next]_vars => TypeInv'
  BY TypeStep, ArgStep DEF TypeInv
<1>. QED
  BY InitTypes, <1>1, PTL DEF Spec, TypeInv
-----------------------------------------------------------------------------
(***************************************************************************)
(* No lost wakeup.                                                         *)
(***************************************************************************)
\* Whatever thread adds a function and wherever the loop is, a function in
\* _funcs outside the reach of the next swap keeps the eventfd readable.
LEMMA FuncsStep == TypeOK /\ FuncsSignalled /\ [Next]_vars => FuncsSignalled'
<1> SUFFICES ASSUME TypeOK, FuncsSignalled, [Next]_vars
             PROVE  FuncsSignalled'
  OBVIOUS
<1> USE DEF FuncsSignalled, FuncsLocked
<1>1. ASSUME NEW t \in Callers, NEW f \in Funcs, AddFuncPush(t, f)
      PROVE  FuncsSignalled'
  BY <1>1 DEF TypeOK, AddFuncPush, SetPc, loopVars
<1>2. ASSUME NEW t \in Callers, NEW id \in Timers, NEW delay \in Delays,
             RunAfterStamp(t, id, delay)
      PROVE  FuncsSignalled'
  BY <1>2 DEF TypeOK, RunAfterStamp, SetPc, shared, loopVars
<1>3. ASSUME NEW t \in Callers, StopStore(t)
      PROVE  FuncsSignalled'
  BY <1>3 DEF TypeOK, StopStore, SetPc, loopVars
<1>4. ASSUME NEW t \in Callers, AddFuncWakeup(t)
      PROVE  FuncsSignalled'
  BY <1>4 DEF TypeOK, AddFuncWakeup, Wakeup, SetPc, loopVars
<1>5. ASSUME NEW t \in Callers, RunAfterAdd(t)
      PROVE  FuncsSignalled'
  BY <1>5 DEF TypeOK, RunAfterAdd, Wakeup, SetPc, loopVars
<1>6. ASSUME NEW t \in Callers, RunAfterWakeup(t)
      PROVE  FuncsSignalled'
  BY <1>6 DEF TypeOK, RunAfterWakeup, Wakeup, SetPc, loopVars
<1>7. ASSUME NEW t \in Callers, StopWakeup(t)
      PROVE  FuncsSignalled'
  BY <1>7 DEF TypeOK, StopWakeup, Wakeup, SetPc, loopVars
<1>8. CASE StopSeen
  BY <1>8 DEF StopSeen, LoopGoes, shared, callVars, env
<1>9. CASE EpollWait
  BY <1>9 DEF EpollWait, LoopGoes, shared, callVars, env
<1>10. CASE EpollInterrupted
  BY <1>10 DEF EpollInterrupted, LoopGoes, shared, callVars
<1>11. CASE EpollReturn
  BY <1>11 DEF EpollReturn, LoopGoes, shared, callVars, env
<1>12. CASE HandleWakeup
  BY <1>12 DEF HandleWakeup, callVars, env
<1>13. CASE HandleIo
  BY <1>13 DEF HandleIo, callVars, env
<1>14. CASE EventsDone
  BY <1>14 DEF EventsDone, LoopGoes, shared, callVars, env
<1>15. CASE SwapFuncs
  BY <1>15 DEF SwapFuncs, LoopGoes, callVars, env
<1>16. CASE RunFunc
  BY <1>16 DEF RunFunc, LoopGoes, shared, callVars, env
<1>17. CASE FuncReturns
  BY <1>17 DEF FuncReturns, LoopGoes, shared, callVars, env
<1>18. CASE FuncsDone
  BY <1>18 DEF FuncsDone, LoopGoes, shared, callVars, env
<1>19. CASE PopTimers
  BY <1>19 DEF PopTimers, LoopGoes, callVars, env
<1>20. CASE TimerReturns
  BY <1>20 DEF TimerReturns, LoopGoes, shared, callVars, env
<1>21. CASE TimersDone
  BY <1>21 DEF TimersDone, LoopGoes, shared, callVars, env
<1>22. ASSUME NEW tm \in exeTimers, RunTimer(tm)
      PROVE  FuncsSignalled'
  BY <1>22 DEF RunTimer, LoopGoes, shared, callVars, env
<1>23. CASE ChannelReady
  BY <1>23 DEF ChannelReady, loopVars, callVars, env
<1>24. CASE Tick
  BY <1>24 DEF Tick, shared, loopVars, callVars
<1>25. CASE UNCHANGED vars
  BY <1>25 DEF vars, shared, loopVars, callVars, env
<1>. QED
  BY <1>1, <1>2, <1>3, <1>4, <1>5, <1>6, <1>7, <1>8, <1>9, <1>10, <1>11,
       <1>12, <1>13, <1>14, <1>15, <1>16, <1>17, <1>18, <1>19, <1>20, <1>21,
       <1>22, <1>23, <1>24, <1>25 DEF Next, LoopStep, Return

\* A timer that is due before the current epoll_wait times out was added after
\* it began, by a thread whose wakeup has reached the eventfd or will.
LEMMA OversleepStep == TypeOK /\ NoOversleep /\ [Next]_vars => NoOversleep'
<1> SUFFICES ASSUME TypeOK, NoOversleep, [Next]_vars
             PROVE  NoOversleep'
  OBVIOUS
<1> USE LoopAssumption DEF NoOversleep
<1>1. ASSUME NEW t \in Callers, NEW f \in Funcs, AddFuncPush(t, f)
      PROVE  NoOversleep'
  BY <1>1 DEF TypeOK, AddFuncPush, SetPc, loopVars, env
<1>2. ASSUME NEW t \in Callers, NEW id \in Timers, NEW delay \in Delays,
             RunAfterStamp(t, id, delay)
      PROVE  NoOversleep'
  BY <1>2 DEF TypeOK, RunAfterStamp, SetPc, shared, loopVars, env
<1>3. ASSUME NEW t \in Callers, StopStore(t)
      PROVE  NoOversleep'
  BY <1>3 DEF TypeOK, StopStore, SetPc, loopVars, env
<1>4. ASSUME NEW t \in Callers, AddFuncWakeup(t)
      PROVE  NoOversleep'
  BY <1>4 DEF TypeOK, AddFuncWakeup, Wakeup, SetPc, loopVars, env
<1>5. ASSUME NEW t \in Callers, RunAfterAdd(t)
      PROVE  NoOversleep'
  BY <1>5 DEF TypeOK, RunAfterAdd, Wakeup, SetPc, loopVars, env
<1>6. ASSUME NEW t \in Callers, RunAfterWakeup(t)
      PROVE  NoOversleep'
  BY <1>6 DEF TypeOK, RunAfterWakeup, Wakeup, SetPc, loopVars, env
<1>7. ASSUME NEW t \in Callers, StopWakeup(t)
      PROVE  NoOversleep'
  BY <1>7 DEF TypeOK, StopWakeup, Wakeup, SetPc, loopVars, env
<1>8. CASE StopSeen
  BY <1>8 DEF StopSeen, LoopGoes, shared, callVars, env
<1>9. CASE EpollWait
  <2> SUFFICES ASSUME loopPc' = "wait", now' < waitUntil', NEW tm \in timers',
                      tm.ts < waitUntil'
               PROVE  FALSE
    OBVIOUS
  <2>1. now' = now /\ timers' = timers /\ TimesOutAt(waitUntil')
    BY <1>9 DEF EpollWait, shared, env
  <2>2. PICK top \in Top(timers) :
           waitUntil' = IF top.ts < now THEN now ELSE top.ts
    BY <2>1 DEF TimesOutAt
  <2>3. top.ts <= tm.ts
    BY <2>1, <2>2 DEF Top
  <2>4. top.ts \in Nat /\ tm.ts \in Nat
    BY <2>1, <2>2 DEF TypeOK, Top, TimerRecs
  <2>. QED
    BY <2>1, <2>2, <2>3, <2>4 DEF TypeOK
<1>10. CASE EpollInterrupted
  BY <1>10 DEF EpollInterrupted, LoopGoes, shared, callVars
<1>11. CASE EpollReturn
  BY <1>11 DEF EpollReturn, LoopGoes, shared, callVars, env
<1>12. CASE HandleWakeup
  BY <1>12 DEF HandleWakeup, callVars, env
<1>13. CASE HandleIo
  BY <1>13 DEF HandleIo, callVars, env
<1>14. CASE EventsDone
  BY <1>14 DEF EventsDone, LoopGoes, shared, callVars, env
<1>15. CASE SwapFuncs
  BY <1>15 DEF SwapFuncs, LoopGoes, callVars, env
<1>16. CASE RunFunc
  BY <1>16 DEF RunFunc, LoopGoes, shared, callVars, env
<1>17. CASE FuncReturns
  BY <1>17 DEF FuncReturns, LoopGoes, shared, callVars, env
<1>18. CASE FuncsDone
  BY <1>18 DEF FuncsDone, LoopGoes, shared, callVars, env
<1>19. CASE PopTimers
  BY <1>19 DEF PopTimers, LoopGoes, callVars, env
<1>20. CASE TimerReturns
  BY <1>20 DEF TimerReturns, LoopGoes, shared, callVars, env
<1>21. CASE TimersDone
  BY <1>21 DEF TimersDone, LoopGoes, shared, callVars, env
<1>22. ASSUME NEW tm \in exeTimers, RunTimer(tm)
      PROVE  NoOversleep'
  BY <1>22 DEF RunTimer, LoopGoes, shared, callVars, env
<1>23. CASE ChannelReady
  BY <1>23 DEF ChannelReady, loopVars, callVars, env
<1>24. CASE Tick
  BY <1>24 DEF TypeOK, Tick, shared, loopVars, callVars
<1>25. CASE UNCHANGED vars
  BY <1>25 DEF vars, shared, loopVars, callVars, env
<1>. QED
  BY <1>1, <1>2, <1>3, <1>4, <1>5, <1>6, <1>7, <1>8, <1>9, <1>10, <1>11,
       <1>12, <1>13, <1>14, <1>15, <1>16, <1>17, <1>18, <1>19, <1>20, <1>21,
       <1>22, <1>23, <1>24, <1>25 DEF Next, LoopStep, Return

\* stop() is not slept through, whichever thread calls it.
LEMMA StopStep == TypeOK /\ NoMissedStop /\ [Next]_vars => NoMissedStop'
<1> SUFFICES ASSUME TypeOK, NoMissedStop, [Next]_vars
             PROVE  NoMissedStop'
  OBVIOUS
<1> USE DEF NoMissedStop
<1>1. ASSUME NEW t \in Callers, NEW f \in Funcs, AddFuncPush(t, f)
      PROVE  NoMissedStop'
  BY <1>1 DEF TypeOK, AddFuncPush, SetPc, loopVars
<1>2. ASSUME NEW t \in Callers, NEW id \in Timers, NEW delay \in Delays,
             RunAfterStamp(t, id, delay)
      PROVE  NoMissedStop'
  BY <1>2 DEF TypeOK, RunAfterStamp, SetPc, shared, loopVars
<1>3. ASSUME NEW t \in Callers, StopStore(t)
      PROVE  NoMissedStop'
  BY <1>3 DEF TypeOK, StopStore, SetPc, loopVars
<1>4. ASSUME NEW t \in Callers, AddFuncWakeup(t)
      PROVE  NoMissedStop'
  BY <1>4 DEF TypeOK, AddFuncWakeup, Wakeup, SetPc, loopVars
<1>5. ASSUME NEW t \in Callers, RunAfterAdd(t)
      PROVE  NoMissedStop'
  BY <1>5 DEF TypeOK, RunAfterAdd, Wakeup, SetPc, loopVars
<1>6. ASSUME NEW t \in Callers, RunAfterWakeup(t)
      PROVE  NoMissedStop'
  BY <1>6 DEF TypeOK, RunAfterWakeup, Wakeup, SetPc, loopVars
<1>7. ASSUME NEW t \in Callers, StopWakeup(t)
      PROVE  NoMissedStop'
  BY <1>7 DEF TypeOK, StopWakeup, Wakeup, SetPc, loopVars
<1>8. CASE StopSeen
  BY <1>8 DEF StopSeen, LoopGoes, shared, callVars, env
<1>9. CASE EpollWait
  BY <1>9 DEF EpollWait, LoopGoes, shared, callVars, env
<1>10. CASE EpollInterrupted
  BY <1>10 DEF EpollInterrupted, LoopGoes, shared, callVars
<1>11. CASE EpollReturn
  BY <1>11 DEF EpollReturn, LoopGoes, shared, callVars, env
<1>12. CASE HandleWakeup
  BY <1>12 DEF HandleWakeup, callVars, env
<1>13. CASE HandleIo
  BY <1>13 DEF HandleIo, callVars, env
<1>14. CASE EventsDone
  BY <1>14 DEF EventsDone, LoopGoes, shared, callVars, env
<1>15. CASE SwapFuncs
  BY <1>15 DEF SwapFuncs, LoopGoes, callVars, env
<1>16. CASE RunFunc
  BY <1>16 DEF RunFunc, LoopGoes, shared, callVars, env
<1>17. CASE FuncReturns
  BY <1>17 DEF FuncReturns, LoopGoes, shared, callVars, env
<1>18. CASE FuncsDone
  BY <1>18 DEF FuncsDone, LoopGoes, shared, callVars, env
<1>19. CASE PopTimers
  BY <1>19 DEF PopTimers, LoopGoes, callVars, env
<1>20. CASE TimerReturns
  BY <1>20 DEF TimerReturns, LoopGoes, shared, callVars, env
<1>21. CASE TimersDone
  BY <1>21 DEF TimersDone, LoopGoes, shared, callVars, env
<1>22. ASSUME NEW tm \in exeTimers, RunTimer(tm)
      PROVE  NoMissedStop'
  BY <1>22 DEF RunTimer, LoopGoes, shared, callVars, env
<1>23. CASE ChannelReady
  BY <1>23 DEF ChannelReady, loopVars, callVars, env
<1>24. CASE Tick
  BY <1>24 DEF Tick, shared, loopVars, callVars
<1>25. CASE UNCHANGED vars
  BY <1>25 DEF vars, shared, loopVars, callVars, env
<1>. QED
  BY <1>1, <1>2, <1>3, <1>4, <1>5, <1>6, <1>7, <1>8, <1>9, <1>10, <1>11,
       <1>12, <1>13, <1>14, <1>15, <1>16, <1>17, <1>18, <1>19, <1>20, <1>21,
       <1>22, <1>23, <1>24, <1>25 DEF Next, LoopStep, Return

\* The loop thread never sleeps in epoll_wait on work it has been given: not
\* on a function (add_func), not past a timer's deadline (run_after), not
\* after stop, for any number of threads, functions and timers.
THEOREM NoLostWakeup == Spec => []WakeupPending
<1>1. Init => WakeInv
  BY DEF Init, WakeInv, FuncsSignalled, NoOversleep, NoMissedStop
<1>2. TypeOK /\ WakeInv /\ [Next]_vars => WakeInv'
  BY FuncsStep, OversleepStep, StopStep DEF WakeInv
<1>3. WakeInv => WakeupPending
  BY DEF WakeInv, FuncsSignalled, NoLostFunc, WakeupPending
<1>. QED
  BY <1>1, <1>2, <1>3, TypeCorrect, PTL DEF Spec
-----------------------------------------------------------------------------
(***************************************************************************)
(* The loop implements Executor.                                           *)
(***************************************************************************)
\* A timer record is handed over once, the loop's local vectors are empty
\* when they are filled, and what is popped is due.
LEMMA HandoverStep == TypeInv /\ HandoverInv /\ [Next]_vars => HandoverInv'
<1> SUFFICES ASSUME TypeOK, ArgOK, TimersUsed, ArgFresh, LocalsEmpty, ExePopped,
                    [Next]_vars
             PROVE  HandoverInv'
  BY DEF TypeInv, HandoverInv
<1> USE LoopAssumption
    DEF HandoverInv, TimersUsed, ArgFresh, LocalsEmpty, ExePopped
<1>1. ASSUME NEW t \in Callers, NEW f \in Funcs, AddFuncPush(t, f)
      PROVE  HandoverInv'
  BY <1>1 DEF TypeOK, AddFuncPush, SetPc, loopVars, history, env
<1>2. ASSUME NEW t \in Callers, NEW id \in Timers, NEW delay \in Delays,
             RunAfterStamp(t, id, delay)
      PROVE  HandoverInv'
  BY <1>2 DEF TypeOK, RunAfterStamp, SetPc, shared, loopVars, history, env
<1>3. ASSUME NEW t \in Callers, StopStore(t)
      PROVE  HandoverInv'
  BY <1>3 DEF TypeOK, StopStore, SetPc, loopVars, history, env
<1>4. ASSUME NEW t \in Callers, AddFuncWakeup(t)
      PROVE  HandoverInv'
  BY <1>4 DEF TypeOK, AddFuncWakeup, Wakeup, SetPc, loopVars, history, env
<1>5. ASSUME NEW t \in Callers, RunAfterAdd(t)
      PROVE  HandoverInv'
  BY <1>5 DEF TypeOK, RunAfterAdd, Wakeup, SetPc, loopVars, history, env
<1>6. ASSUME NEW t \in Callers, RunAfterWakeup(t)
      PROVE  HandoverInv'
  BY <1>6 DEF TypeOK, RunAfterWakeup, Wakeup, SetPc, loopVars, history, env
<1>7. ASSUME NEW t \in Callers, StopWakeup(t)
      PROVE  HandoverInv'
  BY <1>7 DEF TypeOK, StopWakeup, Wakeup, SetPc, loopVars, history, env
<1>8. CASE StopSeen
  BY <1>8 DEF StopSeen, LoopGoes, shared, callVars, history, env
<1>9. CASE EpollWait
  BY <1>9 DEF EpollWait, LoopGoes, shared, callVars, history, env
<1>10. CASE EpollInterrupted
  BY <1>10 DEF EpollInterrupted, LoopGoes, shared, callVars, history
<1>11. CASE EpollReturn
  BY <1>11 DEF EpollReturn, LoopGoes, shared, callVars, history, env
<1>12. CASE HandleWakeup
  BY <1>12 DEF HandleWakeup, callVars, history, env
<1>13. CASE HandleIo
  BY <1>13 DEF HandleIo, callVars, history, env
<1>14. CASE EventsDone
  BY <1>14 DEF EventsDone, LoopGoes, shared, callVars, history, env
<1>15. CASE SwapFuncs
  BY <1>15 DEF SwapFuncs, LoopGoes, callVars, history, env
<1>16. CASE RunFunc
  BY <1>16 DEF RunFunc, LoopGoes, shared, callVars, env
<1>17. CASE FuncReturns
  BY <1>17 DEF FuncReturns, LoopGoes, shared, callVars, history, env
<1>18. CASE FuncsDone
  BY <1>18 DEF FuncsDone, LoopGoes, shared, callVars, history, env
<1>19. CASE PopTimers
  BY <1>19 DEF PopTimers, LoopGoes, callVars, history, env
<1>20. CASE TimerReturns
  BY <1>20 DEF TimerReturns, LoopGoes, shared, callVars, history, env
<1>21. CASE TimersDone
  BY <1>21 DEF TimersDone, LoopGoes, shared, callVars, history, env
<1>22. ASSUME NEW tm \in exeTimers, RunTimer(tm)
      PROVE  HandoverInv'
  BY <1>22 DEF RunTimer, LoopGoes, shared, callVars, env
<1>23. CASE ChannelReady
  BY <1>23 DEF ChannelReady, loopVars, callVars, history, env
<1>24. CASE Tick
  BY <1>24 DEF TypeOK, TimerRecs, Tick, shared, loopVars, callVars, history
<1>25. CASE UNCHANGED vars
  BY <1>25 DEF vars,
       shared, loopVars, callVars, history, env
<1>. QED
  BY <1>1, <1>2, <1>3, <1>4, <1>5, <1>6, <1>7, <1>8, <1>9, <1>10, <1>11,
       <1>12, <1>13, <1>14, <1>15, <1>16, <1>17, <1>18, <1>19, <1>20, <1>21,
       <1>22, <1>23, <1>24, <1>25 DEF Next, LoopStep, Return

\* Adding at the end of _funcs, or taking the head of the batch, is adding to
\* and taking from the one queue of Executor.
LEMMA QueueAppend ==
  ASSUME NEW S, NEW b \in Seq(S), NEW q \in Seq(S), NEW f \in S
  PROVE  b \o Append(q, f) = Append(b \o q, f)
<1>1. <<f>> \in Seq(S)
  OBVIOUS
<1>2. Append(q, f) = q \o <<f>>
  BY AppendIsConcat
<1>3. b \o q \in Seq(S)
  BY ConcatProperties
<1>4. Append(b \o q, f) = (b \o q) \o <<f>>
  BY <1>3, AppendIsConcat
<1>. QED
  BY <1>1, <1>2, <1>4, ConcatAssociative

LEMMA QueueTake ==
  ASSUME NEW S, NEW b \in Seq(S), NEW q \in Seq(S), b # <<>>
  PROVE  /\ b \o q # <<>>
         /\ Head(b \o q) = Head(b)
         /\ Tail(b \o q) = Tail(b) \o q
<1>1. /\ b \o q \in Seq(S)
      /\ Len(b \o q) = Len(b) + Len(q)
      /\ \A i \in 1..(Len(b) + Len(q)) :
           (b \o q)[i] = IF i <= Len(b) THEN b[i] ELSE q[i - Len(b)]
  BY ConcatProperties
<1>2. Len(b) \in Nat \ {0} /\ Len(q) \in Nat
  BY EmptySeq, LenProperties
<1>3. b \o q # <<>>
  BY ConcatEqualIffEmpty
<1>4. Head(b \o q) = Head(b)
  BY <1>1, <1>2
<1>5. /\ Tail(b) \in Seq(S)
      /\ Len(Tail(b)) = Len(b) - 1
      /\ \A i \in 1..Len(Tail(b)) : Tail(b)[i] = b[i + 1]
  BY HeadTailProperties
<1>6. /\ Tail(b \o q) \in Seq(S)
      /\ Len(Tail(b \o q)) = Len(b \o q) - 1
      /\ \A i \in 1..Len(Tail(b \o q)) : Tail(b \o q)[i] = (b \o q)[i + 1]
  BY <1>1, <1>3, HeadTailProperties
<1>7. /\ Tail(b) \o q \in Seq(S)
      /\ Len(Tail(b) \o q) = Len(Tail(b)) + Len(q)
      /\ \A i \in 1..(Len(Tail(b)) + Len(q)) :
           (Tail(b) \o q)[i] =
             IF i <= Len(Tail(b)) THEN Tail(b)[i] ELSE q[i - Len(Tail(b))]
  BY <1>5, ConcatProperties
<1>8. ASSUME NEW i \in 1..Len(Tail(b \o q))
      PROVE  Tail(b \o q)[i] = (Tail(b) \o q)[i]
  BY <1>1, <1>2, <1>5, <1>6, <1>7
<1>9. Len(Tail(b \o q)) = Len(Tail(b) \o q)
  BY <1>1, <1>2, <1>5, <1>6, <1>7
<1>10. Tail(b \o q) = Tail(b) \o q
  BY <1>6, <1>7, <1>8, <1>9, SeqEqual
<1>. QED
  BY <1>3, <1>4, <1>10

\* Every step of the loop or of a caller is a step of Executor or changes
\* nothing that Executor sees.
LEMMA RefinementStep ==
  TypeInv /\ HandoverInv /\ [Next]_vars => [Exec!Next]_(Exec!vars)
<1> SUFFICES ASSUME TypeOK, ArgOK, TimersUsed, ArgFresh, LocalsEmpty, ExePopped,
                    [Next]_vars
             PROVE  [Exec!Next]_(Exec!vars)
  BY DEF TypeInv, HandoverInv
<1> USE LoopAssumption
<1>0. ASSUME UNCHANGED <<batch, funcs, ran, timers, exeTimers, fired, now>>
      PROVE  UNCHANGED Exec!vars
  BY <1>0 DEF Exec!vars
<1>1. ASSUME NEW t \in Callers, NEW f \in Funcs, AddFuncPush(t, f)
      PROVE  [Exec!Next]_(Exec!vars)
  <2>1. batch \o Append(funcs, f) = Append(batch \o funcs, f)
    BY QueueAppend DEF TypeOK
  <2>2. Exec!Submit(f)
    BY <1>1, <2>1 DEF AddFuncPush, loopVars, history, env, Exec!Submit
  <2>. QED
    BY <2>2 DEF Exec!Next
<1>2. ASSUME NEW t \in Callers, NEW id \in Timers, NEW delay \in Delays,
             RunAfterStamp(t, id, delay)
      PROVE  [Exec!Next]_(Exec!vars)
  <2>1. UNCHANGED <<batch, funcs, ran, timers, exeTimers, fired, now>>
    BY <1>2 DEF RunAfterStamp, shared, loopVars, history, env
  <2>. QED
    BY <2>1, <1>0
<1>3. ASSUME NEW t \in Callers, StopStore(t)
      PROVE  [Exec!Next]_(Exec!vars)
  <2>1. UNCHANGED <<batch, funcs, ran, timers, exeTimers, fired, now>>
    BY <1>3 DEF StopStore, loopVars, history, env
  <2>. QED
    BY <2>1, <1>0
<1>4. ASSUME NEW t \in Callers, AddFuncWakeup(t)
      PROVE  [Exec!Next]_(Exec!vars)
  <2>1. UNCHANGED <<batch, funcs, ran, timers, exeTimers, fired, now>>
    BY <1>4 DEF AddFuncWakeup, loopVars, history, env
  <2>. QED
    BY <2>1, <1>0
<1>5. ASSUME NEW t \in Callers, RunAfterAdd(t)
      PROVE  [Exec!Next]_(Exec!vars)
  <2>1. /\ arg[t] \in TimerRecs
        /\ \A tm \in timers \cup exeTimers \cup fired : tm.id # arg[t].id
    BY <1>5 DEF RunAfterAdd, SetPc, ArgOK, ArgFresh
  <2>2. /\ arg[t] \notin timers \cup exeTimers
        /\ arg[t] \notin fired
    BY <2>1
  <2>3. /\ (timers \cup exeTimers)' = (timers \cup exeTimers) \cup {arg[t]}
        /\ UNCHANGED <<batch, funcs, ran, fired, now>>
    BY <1>5 DEF RunAfterAdd, loopVars, history, env
  <2>4. arg[t] \in (timers \cup exeTimers)' \ (timers \cup exeTimers)
    BY <2>2, <2>3
  <2>5. Exec!Arm
    BY <2>1, <2>2, <2>3, <2>4 DEF Exec!Arm, Exec!TimerRecs, TimerRecs
  <2>. QED
    BY <2>5 DEF Exec!Next
<1>6. ASSUME NEW t \in Callers, RunAfterWakeup(t)
      PROVE  [Exec!Next]_(Exec!vars)
  <2>1. UNCHANGED <<batch, funcs, ran, timers, exeTimers, fired, now>>
    BY <1>6 DEF RunAfterWakeup, loopVars, history, env
  <2>. QED
    BY <2>1, <1>0
<1>7. ASSUME NEW t \in Callers, StopWakeup(t)
      PROVE  [Exec!Next]_(Exec!vars)
  <2>1. UNCHANGED <<batch, funcs, ran, timers, exeTimers, fired, now>>
    BY <1>7 DEF StopWakeup, loopVars, history, env
  <2>. QED
    BY <2>1, <1>0
<1>8. CASE StopSeen
  <2>1. UNCHANGED <<batch, funcs, ran, timers, exeTimers, fired, now>>
    BY <1>8 DEF StopSeen, shared, history, env
  <2>. QED
    BY <2>1, <1>0
<1>9. CASE EpollWait
  <2>1. UNCHANGED <<batch, funcs, ran, timers, exeTimers, fired, now>>
    BY <1>9 DEF EpollWait, shared, history, env
  <2>. QED
    BY <2>1, <1>0
<1>10. CASE EpollInterrupted
  <2>1. UNCHANGED <<batch, funcs, ran, timers, exeTimers, fired, now>>
    BY <1>10 DEF EpollInterrupted, shared, history
  <2>. QED
    BY <2>1, <1>0
<1>11. CASE EpollReturn
  <2>1. UNCHANGED <<batch, funcs, ran, timers, exeTimers, fired, now>>
    BY <1>11 DEF EpollReturn, shared, history, env
  <2>. QED
    BY <2>1, <1>0
<1>12. CASE HandleWakeup
  <2>1. UNCHANGED <<batch, funcs, ran, timers, exeTimers, fired, now>>
    BY <1>12 DEF HandleWakeup, history, env
  <2>. QED
    BY <2>1, <1>0
<1>13. CASE HandleIo
  <2>1. UNCHANGED <<batch, funcs, ran, timers, exeTimers, fired, now>>
    BY <1>13 DEF HandleIo, history, env
  <2>. QED
    BY <2>1, <1>0
<1>14. CASE EventsDone
  <2>1. UNCHANGED <<batch, funcs, ran, timers, exeTimers, fired, now>>
    BY <1>14 DEF EventsDone, shared, history, env
  <2>. QED
    BY <2>1, <1>0
<1>15. CASE SwapFuncs
  <2>1. batch = <<>> /\ batch' = funcs /\ funcs' = <<>>
    BY <1>15 DEF SwapFuncs, LoopGoes, LocalsEmpty
  <2>2. batch \o funcs = funcs /\ funcs \o <<>> = funcs
    BY <2>1, ConcatEmptySeq DEF TypeOK
  <2>3. UNCHANGED <<ran, timers, exeTimers, fired, now>>
    BY <1>15 DEF SwapFuncs, history, env
  <2>. QED
    BY <2>1, <2>2, <2>3 DEF Exec!vars
<1>16. CASE RunFunc
  <2>1. /\ batch \o funcs # <<>>
        /\ Head(batch \o funcs) = Head(batch)
        /\ Tail(batch \o funcs) = Tail(batch) \o funcs
    BY <1>16, QueueTake DEF RunFunc, TypeOK
  <2>2. Exec!Run
    BY <1>16, <2>1 DEF RunFunc, shared, env, Exec!Run
  <2>. QED
    BY <2>2 DEF Exec!Next
<1>17. CASE FuncReturns
  <2>1. UNCHANGED <<batch, funcs, ran, timers, exeTimers, fired, now>>
    BY <1>17 DEF FuncReturns, shared, history, env
  <2>. QED
    BY <2>1, <1>0
<1>18. CASE FuncsDone
  <2>1. UNCHANGED <<batch, funcs, ran, timers, exeTimers, fired, now>>
    BY <1>18 DEF FuncsDone, shared, history, env
  <2>. QED
    BY <2>1, <1>0
<1>19. CASE PopTimers
  <2>1. exeTimers = {}
    BY <1>19 DEF PopTimers, LoopGoes, LocalsEmpty
  <2>2. (timers \cup exeTimers)' = timers \cup exeTimers
    BY <1>19, <2>1 DEF PopTimers
  <2>3. UNCHANGED <<batch, funcs, ran, fired, now>>
    BY <1>19 DEF PopTimers, history, env
  <2>. QED
    BY <2>2, <2>3 DEF Exec!vars
<1>20. CASE TimerReturns
  <2>1. UNCHANGED <<batch, funcs, ran, timers, exeTimers, fired, now>>
    BY <1>20 DEF TimerReturns, shared, history, env
  <2>. QED
    BY <2>1, <1>0
<1>21. CASE TimersDone
  <2>1. UNCHANGED <<batch, funcs, ran, timers, exeTimers, fired, now>>
    BY <1>21 DEF TimersDone, shared, history, env
  <2>. QED
    BY <2>1, <1>0
<1>22. ASSUME NEW tm \in exeTimers, RunTimer(tm)
      PROVE  [Exec!Next]_(Exec!vars)
  <2>1. tm \notin timers /\ tm.ts < now
    BY <1>22 DEF ExePopped
  <2>2. Exec!Fire(tm)
    BY <1>22, <2>1 DEF RunTimer, shared, env, Exec!Fire
  <2>. QED
    BY <1>22, <2>2 DEF Exec!Next
<1>23. CASE ChannelReady
  <2>1. UNCHANGED <<batch, funcs, ran, timers, exeTimers, fired, now>>
    BY <1>23 DEF ChannelReady, loopVars, history, env
  <2>. QED
    BY <2>1, <1>0
<1>24. CASE Tick
  <2>1. Exec!Tick
    BY <1>24 DEF Tick, shared, loopVars, history, Exec!Tick
  <2>. QED
    BY <2>1 DEF Exec!Next
<1>25. CASE UNCHANGED vars
  <2>1. UNCHANGED <<batch, funcs, ran, timers, exeTimers, fired, now>>
    BY <1>25 DEF vars, shared, loopVars, history, env
  <2>. QED
    BY <2>1, <1>0
<1>. QED
  BY <1>1, <1>2, <1>3, <1>4, <1>5, <1>6, <1>7, <1>8, <1>9, <1>10, <1>11,
       <1>12, <1>13, <1>14, <1>15, <1>16, <1>17, <1>18, <1>19, <1>20, <1>21,
       <1>22, <1>23, <1>24, <1>25 DEF Next, LoopStep, Return

\* EventLoop implements Executor, for any number of threads, functions and
\* timers: every function handed to add_func runs at most once and in order,
\* every timer of run_after fires at most once and only after its deadline.
THEOREM LoopImplementsExecutor == Spec => ImplementsExecutor
<1>1. Init => Exec!Init
  BY ConcatEmptySeq, EmptySeq DEF Init, Exec!Init
<1>2. Init => TypeInv /\ HandoverInv
  BY InitTypes DEF Init, HandoverInv, TimersUsed, ArgFresh, LocalsEmpty, ExePopped
<1>3. TypeInv /\ HandoverInv /\ [Next]_vars => (TypeInv /\ HandoverInv)'
  BY TypeStep, ArgStep, HandoverStep DEF TypeInv
<1>. QED
  BY <1>1, <1>2, <1>3, RefinementStep, PTL DEF Spec, ImplementsExecutor, Exec!Spec
-----------------------------------------------------------------------------
(***************************************************************************)
(* The clock.  EventLoop counts time in milliseconds; src/base/timestamp.h *)
(* does it in pairs (TimeStamp), and the two agree.                        *)
(***************************************************************************)
\* The fields of a time of the clock.
LEMMA NowFields ==
  ASSUME NEW ts \in Now
  PROVE  /\ ts.sec \in Nat
         /\ ts.msec \in Int /\ 0 <= ts.msec /\ ts.msec <= 999
<1>1. ts.sec \in Nat /\ ts.msec \in 0..999
  BY Zenon DEF Now
<1>2. QED
  BY <1>1

\* Times of the clock are ordered as their milliseconds are (operator<,
\* operator==): the timer heap and the test for a due timer follow the clock.
THEOREM OrderIsMillis ==
  ASSUME NEW a \in Now, NEW b \in Now
  PROVE  /\ Less(a, b) <=> Millis(a) < Millis(b)
         /\ Equal(a, b) <=> Millis(a) = Millis(b)
<1>1. /\ a.sec \in Nat /\ b.sec \in Nat
      /\ a.msec \in Int /\ 0 <= a.msec /\ a.msec <= 999
      /\ b.msec \in Int /\ 0 <= b.msec /\ b.msec <= 999
  BY NowFields
<1>2. CASE a.sec = b.sec
  BY <1>1, <1>2 DEF Less, Equal, Millis
<1>3. CASE a.sec < b.sec
  BY <1>1, <1>3 DEF Less, Equal, Millis
<1>4. CASE b.sec < a.sec
  BY <1>1, <1>4 DEF Less, Equal, Millis
<1>5. QED
  BY <1>1, <1>2, <1>3, <1>4

\* The time a delay after a start is that many milliseconds later, and again one
\* the clock can show (after_now_ms), if the delay is not negative.
THEOREM AfterIsLater ==
  ASSUME NEW start \in Now, NEW ms \in Nat
  PROVE  /\ AfterNowMs(start, ms) \in Now
         /\ Millis(AfterNowMs(start, ms)) = Millis(start) + ms
<1>1. /\ start.sec \in Nat
      /\ start.msec \in Nat
  BY NowFields
<1> DEFINE n == start.msec + ms
<1>2. n \in Nat
  BY <1>1
<1>3. /\ n \div 1000 \in Nat
      /\ n - 1000 * (n \div 1000) \in 0..999
  <2> HIDE DEF n
  <2>1. n \div 1000 \in Int /\ n % 1000 \in 0..999
    BY <1>2
  <2>2. n = 1000 * (n \div 1000) + (n % 1000)
    BY <1>2
  <2>3. QED
    BY <1>2, <2>1, <2>2
<1>4. /\ Quot(n) = n \div 1000
      /\ Rem(n) = n - 1000 * (n \div 1000)
  BY <1>2 DEF Quot, Rem
<1> HIDE DEF n
<1>5. AfterNowMs(start, ms) = [sec |-> start.sec + Quot(n), msec |-> Rem(n)]
  BY DEF AfterNowMs, n
<1>6. AfterNowMs(start, ms) \in Now
  BY <1>1, <1>3, <1>4, <1>5 DEF Now
<1>7. Millis(AfterNowMs(start, ms)) = (start.sec + n \div 1000) * 1000 + (n - 1000 * (n \div 1000))
  BY <1>4, <1>5 DEF Millis
<1>8. Millis(AfterNowMs(start, ms)) = start.sec * 1000 + n
  BY <1>1, <1>2, <1>3, <1>7
<1>9. QED
  BY <1>1, <1>6, <1>8 DEF Millis, n

\* A number in the range of int survives the cast.
LEMMA CastKeeps ==
  ASSUME IntMax \in Nat,
         NEW n \in Int, -IntMax - 1 <= n, n <= IntMax
  PROVE  ToInt(n) = n
<1> DEFINE m == n + IntMax + 1
           w == 2 * IntMax + 2
<1>1. m \in Nat /\ w \in Nat /\ 0 < w /\ m < w
  OBVIOUS
<1>2. m % w = m
  <2> HIDE DEF m, w
  <2> QED BY <1>1
<1>3. QED
  BY <1>2 DEF ToInt

\* The timeout of epoll_wait is exactly the time left to the deadline of a
\* timer, or 0 when it has passed: the difference of two time stamps does not
\* overflow for a delay that is an int, however late the loop comes to ask,
\* up to IntMax milliseconds (run_after, loop, operator-).
THEOREM TimeoutIsTimeLeft ==
  ASSUME IntMax \in Nat,
         NEW start \in Now, NEW later \in Now, NEW delay \in 0..IntMax,
         Millis(start) <= Millis(later),
         Millis(later) - Millis(start) <= IntMax
  PROVE  LET left == Millis(start) + delay - Millis(later)
         IN  TimeoutMs(AfterNowMs(start, delay), later) = IF left < 0 THEN 0 ELSE left
<1> DEFINE latest == AfterNowMs(start, delay)
           left == Millis(start) + delay - Millis(later)
<1>1. delay \in Nat /\ delay <= IntMax
  OBVIOUS
<1>2. latest \in Now /\ Millis(latest) = Millis(start) + delay
  BY <1>1, AfterIsLater
<1> HIDE DEF latest
<1>3. /\ Millis(start) \in Int
      /\ Millis(later) \in Int
      /\ Millis(latest) - Millis(later) =
           (latest.sec - later.sec) * 1000 + latest.msec - later.msec
  <2>1. /\ start.sec \in Int /\ start.msec \in Int
        /\ later.sec \in Int /\ later.msec \in Int
        /\ latest.sec \in Int /\ latest.msec \in Int
    BY <1>2, NowFields
  <2>2. QED
    BY <2>1 DEF Millis
<1>4. left \in Int /\ -IntMax - 1 <= left /\ left <= IntMax
  BY <1>1, <1>3
<1>5. Minus(latest, later) = ToInt(left)
  BY <1>2, <1>3 DEF Minus
<1>6. ToInt(left) = left
  BY <1>4, CastKeeps
<1>7. TimeoutMs(latest, later) = IF left < 0 THEN 0 ELSE left
  BY <1>5, <1>6 DEF TimeoutMs
<1>8. QED
  BY <1>7 DEF latest
=============================================================================
