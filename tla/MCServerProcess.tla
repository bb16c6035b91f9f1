-------------------------- MODULE MCServerProcess ---------------------------
(***************************************************************************)
(* Instance of ServerProcess for TLC.                                      *)
(***************************************************************************)
EXTENDS ServerProcess

MCThreadNums == {-1, 0, 1, 3, 4}
=============================================================================
