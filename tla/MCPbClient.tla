---------------------------- MODULE MCPbClient ------------------------------
(***************************************************************************)
(* Instance of PbClient for TLC.                                           *)
(***************************************************************************)
EXTENDS PbClient
=============================================================================
