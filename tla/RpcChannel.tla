----------------------------- MODULE RpcChannel -----------------------------
(***************************************************************************)
(* What an RpcChannel promises its caller: calls are made one at a time,   *)
(* each is answered at most once and with its own response, and, as long   *)
(* as the connection is not lost, each is answered.                        *)
(***************************************************************************)
EXTENDS Naturals

CONSTANT MaxCalls   \* bound: calls made

Calls == 1..MaxCalls

VARIABLES
  status,   \* of every call
  reply,    \* the responses a call was given, by their calls
  lost      \* the connection is gone or out of step

chanVars == <<status, reply, lost>>

Init ==
  /\ status = [c \in Calls |-> "new"]
  /\ reply = [c \in Calls |-> {}]
  /\ lost \in BOOLEAN

\* CallMethod.
Call(c) ==
  /\ status[c] = "new"
  /\ \A d \in Calls : status[d] = IF d < c THEN "answered" ELSE "new"
  /\ status' = [status EXCEPT ![c] = "pending"]
  /\ UNCHANGED <<reply, lost>>

\* done->Run(), or the return of a call without done.
Answer(c) ==
  /\ status[c] = "pending"
  /\ status' = [status EXCEPT ![c] = "answered"]
  /\ reply' = [reply EXCEPT ![c] = {c}]
  /\ UNCHANGED lost

Lose ==
  /\ lost' = TRUE
  /\ UNCHANGED <<status, reply>>

Next == (\E c \in Calls : Call(c) \/ Answer(c)) \/ Lose

Spec == Init /\ [][Next]_chanVars

EveryCallAnswered ==
  \A c \in Calls : status[c] = "pending" ~> status[c] = "answered" \/ lost
=============================================================================
