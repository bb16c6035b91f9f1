------------------------- MODULE MCSimpleProtocol ---------------------------
(***************************************************************************)
(* Instances of SimpleProtocol for TLC: messages with short, empty and     *)
(* longer-than-a-length fields, good and bad.                              *)
(***************************************************************************)
EXTENDS SimpleProtocol

Lengths == {1, 3, 6}

MCMessages ==
  {m \in [response : BOOLEAN, magic : BOOLEAN, kind : BOOLEAN, status : BOOLEAN,
           path : Lengths, slash : BOOLEAN, payload : {0} \cup Lengths] :
     IF m.response THEN m.path = 1 /\ m.slash ELSE m.status}

MCGarbage == {0, 2, 7}
=============================================================================
