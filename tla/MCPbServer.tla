---------------------------- MODULE MCPbServer ------------------------------
(***************************************************************************)
(* Instances of PbServer for TLC.  Clients are interchangeable, and so are *)
(* the addresses an allocator returns.                                     *)
(***************************************************************************)
EXTENDS PbServer, TLC

Symmetry == Permutations(Socks) \cup Permutations(Addrs)
=============================================================================
