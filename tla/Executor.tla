------------------------------ MODULE Executor ------------------------------
(***************************************************************************)
(* What an EventLoop (src/net/eventloop.h) promises to the threads that    *)
(* hand it work: a function passed to add_func runs exactly once, and      *)
(* functions run in the order in which they were added; a timer passed to  *)
(* run_after fires exactly once and never before its deadline has passed.  *)
(* Nothing is said of threads, locks, the eventfd or epoll.                *)
(***************************************************************************)
EXTENDS Naturals, Sequences

CONSTANTS
  Funcs,     \* functions that may be handed to add_func
  Timers     \* timers that may be handed to run_after

VARIABLES
  queue,     \* functions added and not yet run, oldest first
  ran,       \* functions that were run, in the order they ran
  armed,     \* timers added and not yet fired
  fired,     \* timers that fired
  now        \* the clock, in milliseconds

vars == <<queue, ran, armed, fired, now>>

TimerRecs == [id : Timers, ts : Nat]

Init ==
  /\ queue = <<>>
  /\ ran = <<>>
  /\ armed = {}
  /\ fired = {}
  /\ now = 0

Submit(f) ==
  /\ queue' = Append(queue, f)
  /\ UNCHANGED <<ran, armed, fired, now>>

Run ==
  /\ queue # <<>>
  /\ ran' = Append(ran, Head(queue))
  /\ queue' = Tail(queue)
  /\ UNCHANGED <<armed, fired, now>>

\* The new timer is named by the step itself, so that TLC need not enumerate
\* TimerRecs, which is infinite.
Arm ==
  /\ \E tm \in armed' \ armed :
       /\ tm \in TimerRecs
       /\ tm \notin fired
       /\ armed' = armed \cup {tm}
  /\ UNCHANGED <<queue, ran, fired, now>>

Fire(tm) ==
  /\ tm.ts < now
  /\ armed' = armed \ {tm}
  /\ fired' = fired \cup {tm}
  /\ UNCHANGED <<queue, ran, now>>

Tick ==
  /\ now' = now + 1
  /\ UNCHANGED <<queue, ran, armed, fired>>

Next ==
  \/ \E f \in Funcs : Submit(f)
  \/ Run
  \/ Arm
  \/ \E tm \in armed : Fire(tm)
  \/ Tick

Spec == Init /\ [][Next]_vars
=============================================================================
