----------------------------- MODULE TimeStamp ------------------------------
(***************************************************************************)
(* The clock arithmetic of src/base/timestamp.h: a time is a pair of       *)
(* seconds and milliseconds, a difference is cast to int.  The other       *)
(* modules count time in milliseconds; the theorems of EventLoopProofs     *)
(* show when that is what the code does.                                   *)
(***************************************************************************)
EXTENDS Integers

CONSTANT IntMax   \* the largest int

\* What now() returns: gettimeofday's microseconds divided by 1000.
Now == [sec : Nat, msec : 0..999]

Millis(ts) == ts.sec * 1000 + ts.msec

\* operator==
Equal(a, b) == a.sec = b.sec /\ a.msec = b.msec

\* operator<
Less(a, b) == IF a.sec # b.sec THEN a.sec < b.sec ELSE a.msec < b.msec

\* static_cast<int>: the low bits, as a signed number.
ToInt(n) == ((n + IntMax + 1) % (2 * IntMax + 2)) - IntMax - 1

\* operator-
Minus(a, b) == ToInt((a.sec - b.sec) * 1000 + a.msec - b.msec)

\* C's / and %, which round towards zero.
Quot(n) == IF n >= 0 THEN n \div 1000 ELSE -((-n) \div 1000)
Rem(n) == n - 1000 * Quot(n)

\* after_now_ms
AfterNowMs(now, ms) ==
  [sec |-> now.sec + Quot(now.msec + ms), msec |-> Rem(now.msec + ms)]

\* The timeout loop() gives to epoll_wait for its next timer.
TimeoutMs(latest, now) ==
  LET ms == Minus(latest, now) IN IF ms < 0 THEN 0 ELSE ms
=============================================================================
