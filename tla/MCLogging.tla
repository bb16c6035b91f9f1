----------------------------- MODULE MCLogging ------------------------------
(***************************************************************************)
(* Instance of Logging for TLC: local time is an hour ahead.               *)
(***************************************************************************)
EXTENDS Logging

MCSetTo == {-1, 1, 4}
MCLocalTime(s) == s + 1
MCNames == 0..5
MCLevels == {0, 1, 3}
=============================================================================
