---------------------------- MODULE MCEventLoop -----------------------------
(***************************************************************************)
(* Instance of EventLoop for TLC.  A thread and the loop's own callbacks   *)
(* hand over functions and a timer.  A delay of 9, and the default timeout *)
(* of epoll_wait, lie beyond MaxTime: a loop asleep on them is woken only  *)
(* by the eventfd.                                                         *)
(***************************************************************************)
EXTENDS EventLoop
=============================================================================
