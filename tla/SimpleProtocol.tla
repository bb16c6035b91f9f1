--------------------------- MODULE SimpleProtocol ---------------------------
(***************************************************************************)
(* SimpleProtocol and SimpleContext (src/protocols/simple.{h,cpp}) parsing *)
(* messages out of a Buffer (src/net/buffer.{h,cpp}) that a socket fills a *)
(* piece at a time: parse_request in the server, parse_response in the     *)
(* client.  After every read the parser runs until it has a verdict; a     *)
(* connection ends here with the first Error or TryAnotherProtocol.        *)
(*                                                                         *)
(* A message is a request or a response: its field lengths and whether     *)
(* each field is valid.  The buffer is its two indexes and its size.  A    *)
(* byte at or after _windex is zero until the first message has gone (a    *)
(* new vector, and what resize adds to it, is zero) and afterwards may be  *)
(* one that an earlier message left there.                                 *)
(***************************************************************************)
EXTENDS Naturals

CONSTANTS
  Messages,           \* the messages the peer may send
  InitialBufferSize,  \* Buffer::InitialBufferSize
  SizeMod,            \* size_t counts modulo this
  Garbage,            \* lengths read from bytes an earlier message left
  TailCuts,           \* a read may end in the last bytes of a path or payload
  MaxMessages         \* bound: messages on one connection

ASSUME SimpleAssumption ==
  /\ Messages \subseteq [response : BOOLEAN, magic : BOOLEAN,
                         kind : BOOLEAN, status : BOOLEAN,
                         path : Nat, slash : BOOLEAN, payload : Nat]
  /\ InitialBufferSize \in Nat \ {0}
  /\ SizeMod \in Nat
  /\ Garbage \subseteq Nat
  /\ TailCuts \in BOOLEAN
  /\ MaxMessages \in Nat
  /\ \A m \in Messages : m.path + m.payload + 20 < SizeMod

VARIABLES
  msg,      \* the message being received
  count,    \* messages received before it
  size,     \* _data.size()
  rindex,   \* _rindex
  windex,   \* _windex
  stage,    \* no context, or the field _stage stands for
  view,     \* _payload_view
  parsing,  \* inside parse_request or parse_response
  result    \* what it returned last

vars == <<msg, count, size, rindex, windex, stage, view, parsing, result>>

\* sizeof(int) and sizeof(uint32_t)
IntSize == 4

\* pack_request: magic, conn_type, path_len, path, payload_len, payload.
\* pack_response: magic, conn_type, rpc_status, payload_len, payload.
PathAt == 2 * IntSize
PayloadAt(m) == IF m.response THEN 3 * IntSize ELSE PathAt + IntSize + m.path
Total(m) == PayloadAt(m) + IntSize + m.payload

\* Buffer::readable, an unsigned difference.
Readable ==
  IF rindex <= windex THEN windex - rindex ELSE SizeMod - (rindex - windex)

Stages == {"none", "magic", "kind", "path", "payload", "done"}

Verdicts == {"NoEnoughData", "TryAnotherProtocol", "Error", "Success"}

TypeOK ==
  /\ msg \in Messages
  /\ count \in Nat
  /\ size \in Nat
  /\ rindex \in Nat
  /\ windex \in 0..size
  /\ stage \in Stages
  /\ view \in [begin : Nat, end : Nat]
  /\ parsing \in BOOLEAN
  /\ result \in Verdicts

\* The client allocates its context before it sends the request.
FirstStage(m) == IF m.response THEN "magic" ELSE "none"

Init ==
  /\ msg \in Messages
  /\ count = 0
  /\ size = InitialBufferSize
  /\ rindex = 0
  /\ windex = 0
  /\ stage = FirstStage(msg)
  /\ view = [begin |-> 0, end |-> 0]
  /\ parsing = FALSE
  /\ result = "NoEnoughData"
-----------------------------------------------------------------------------
\* The received bytes end in the last IntSize bytes of a field that has a
\* length in front, all of which would be needed.
CutsTail(w) ==
  \/ /\ ~msg.response
     /\ w >= PathAt + IntSize
     /\ w >= PathAt + msg.path
     /\ w < PayloadAt(msg)
  \/ /\ w >= PayloadAt(msg) + IntSize
     /\ w >= PayloadAt(msg) + msg.payload
     /\ w < Total(msg)

\* read_fd doubles a full buffer before it reads.
Room == IF windex = size THEN 2 * size ELSE size

\* Mutant: the buffer is not resized, the read is as long as if it were.
ReadFdNoResize(n) ==
  /\ ~parsing
  /\ result = "NoEnoughData"
  /\ windex + n <= Total(msg)
  /\ windex + n <= Room
  /\ TailCuts \/ ~CutsTail(windex + n)
  /\ windex' = windex + n
  /\ parsing' = TRUE
  /\ UNCHANGED <<msg, count, size, rindex, stage, view, result>>

\* read_fd: n bytes, at most what fits.  The data_read callback then starts
\* to parse.
ReadFd(n) ==
  /\ ~parsing
  /\ result = "NoEnoughData"
  /\ windex + n <= Total(msg)
  /\ windex + n <= Room
  /\ TailCuts \/ ~CutsTail(windex + n)
  /\ size' = Room
  /\ windex' = windex + n
  /\ parsing' = TRUE
  /\ UNCHANGED <<msg, count, rindex, stage, view, result>>

\* retrieve(n), and out.
Return(n, verdict) ==
  /\ rindex' = rindex + n
  /\ parsing' = FALSE
  /\ result' = verdict
  /\ UNCHANGED <<msg, count, size, windex, stage, view>>

\* retrieve(n), and on to the next stage.
Advance(n, next) ==
  /\ rindex' = rindex + n
  /\ stage' = next
  /\ UNCHANGED <<msg, count, size, windex, view, parsing, result>>

\* SimpleProtocol::parse_request without a context.
NewContext ==
  /\ parsing
  /\ stage = "none"
  /\ \/ Readable < IntSize /\ Return(0, "NoEnoughData")
     \/ Readable >= IntSize /\ ~msg.magic /\ Return(0, "TryAnotherProtocol")
     \/ Readable >= IntSize /\ msg.magic /\ Advance(0, "magic")

ParseMagic ==
  /\ parsing
  /\ stage = "magic"
  /\ \/ Readable < IntSize /\ Return(0, "NoEnoughData")
     \/ Readable >= IntSize /\ ~msg.magic /\ Return(0, "Error")
     \/ Readable >= IntSize /\ msg.magic /\ Advance(IntSize, "kind")

\* conn_type; in a response also rpc_status.
KindSize == IF msg.response THEN 2 * IntSize ELSE IntSize

\* RpcStatus_IsValid, of a response only.
StatusOK(m) == m.response => m.status

\* Mutant: conn_type is not checked.
ParseKindUnchecked ==
  /\ parsing
  /\ stage = "kind"
  /\ \/ Readable < KindSize /\ Return(0, "NoEnoughData")
     \/ /\ Readable >= KindSize
        /\ Advance(KindSize, IF msg.response THEN "payload" ELSE "path")

ParseKind ==
  /\ parsing
  /\ stage = "kind"
  /\ \/ Readable < KindSize /\ Return(0, "NoEnoughData")
     \/ Readable >= KindSize /\ ~msg.kind /\ Return(0, "Error")
     \/ Readable >= KindSize /\ msg.kind /\ ~StatusOK(msg) /\ Return(IntSize, "Error")
     \/ /\ Readable >= KindSize
        /\ msg.kind
        /\ StatusOK(msg)
        /\ Advance(KindSize, IF msg.response THEN "payload" ELSE "path")

\* Whether the bytes behind _windex may be those of an earlier message.
Used == count > 0

\* peek_uint32 of a length: its value once its bytes are there.  None is there
\* when _rindex has run past _windex and readable() has wrapped around.
Peeked(len) ==
  IF rindex + IntSize <= windex THEN {len} ELSE {0} \cup (IF Used THEN Garbage ELSE {})

\* Mutants: the field is taken to be there; one byte more than it is wanted.
EnoughForAny(len) == TRUE
EnoughForMore(len) == Readable > len + IntSize

\* The test that the field after a length is there: the four bytes of the
\* length are still in front of it.
EnoughFor(len) == Readable >= len

\* memchr(begin(), '/', path_len): the bytes looked at are those received, of
\* which the '/' may be one, and what lies behind them.
SlashFound ==
  IF rindex + IntSize + msg.path <= windex
  THEN {msg.slash}
  ELSE {FALSE} \cup {found \in {TRUE} : (msg.slash /\ rindex + IntSize < windex) \/ Used}

ParsePath ==
  /\ parsing
  /\ stage = "path"
  /\ \/ Readable < IntSize /\ Return(0, "NoEnoughData")
     \/ /\ Readable >= IntSize
        /\ \E len \in Peeked(msg.path) :
             \/ ~EnoughFor(len) /\ Return(0, "NoEnoughData")
             \/ EnoughFor(len) /\ FALSE \in SlashFound /\ Return(IntSize, "Error")
             \/ /\ EnoughFor(len)
                /\ TRUE \in SlashFound
                /\ Advance(IntSize + len, "payload")

ParsePayload ==
  /\ parsing
  /\ stage = "payload"
  /\ \/ Readable < IntSize /\ Return(0, "NoEnoughData")
     \/ /\ Readable >= IntSize
        /\ \E len \in Peeked(msg.payload) :
             \/ ~EnoughFor(len) /\ Return(0, "NoEnoughData")
             \/ /\ EnoughFor(len)
                /\ view' = [begin |-> rindex + IntSize, end |-> rindex + IntSize + len]
                /\ rindex' = rindex + IntSize + len
                /\ stage' = "done"
                /\ UNCHANGED <<msg, count, size, windex, parsing, result>>

Finish ==
  /\ parsing
  /\ stage = "done"
  /\ Return(0, "Success")

Parse ==
  \/ NewContext
  \/ ParseMagic
  \/ ParseKind
  \/ ParsePath
  \/ ParsePayload
  \/ Finish

\* The answer is out: the context is deleted and the buffer cleared; the peer
\* sends its next message.
NextMessage ==
  /\ ~parsing
  /\ result = "Success"
  /\ count + 1 < MaxMessages
  /\ count' = count + 1
  /\ msg' \in {m \in Messages : m.response = msg.response}
  /\ rindex' = 0
  /\ windex' = 0
  /\ stage' = FirstStage(msg')
  /\ view' = [begin |-> 0, end |-> 0]
  /\ result' = "NoEnoughData"
  /\ UNCHANGED <<size, parsing>>

Next ==
  \/ \E n \in 1..Total(msg) : ReadFd(n)
  \/ Parse
  \/ NextMessage

Spec == Init /\ [][Next]_vars
-----------------------------------------------------------------------------
Good(m) == m.magic /\ m.kind /\ StatusOK(m) /\ (m.response \/ m.slash)

\* A message is declared complete only when all of it has arrived, and its
\* payload is then exactly the bytes the peer packed (parse_request,
\* parse_response and the length tests in them).
SuccessMeansComplete ==
  result = "Success" =>
    /\ windex = Total(msg)
    /\ rindex = Total(msg)
    /\ view = [begin |-> PayloadAt(msg) + IntSize, end |-> Total(msg)]

\* The parser never moves past what was received (retrieve, read_fd).
NoOverrun == rindex <= windex

\* However a message is cut into reads, a good one is not refused and a bad
\* one is not accepted.
VerdictRight ==
  /\ result \in {"Error", "TryAnotherProtocol"} => ~Good(msg)
  /\ result = "Success" => Good(msg)

\* When the last byte has arrived the parser does not wait for more: nothing
\* else would ever make it run again.
NoStall ==
  ~parsing /\ windex = Total(msg) => result # "NoEnoughData"
=============================================================================
