------------------------ MODULE SimpleProtocolProofs ------------------------
(***************************************************************************)
(* Proofs about SimpleProtocol, for every message and every way in which   *)
(* reads cut it: its types always; and, as long as no read ends in the     *)
(* last four bytes of a path or of a payload, that framing is exact.       *)
(***************************************************************************)
EXTENDS SimpleProtocol, TLAPS

-----------------------------------------------------------------------------
\* Where the parser stands in the message at every stage.
Offset(m, st) ==
  CASE st \in {"none", "magic"} -> 0
    [] st = "kind"    -> IntSize
    [] st = "path"    -> PathAt
    [] st = "payload" -> PayloadAt(m)
    [] st = "done"    -> Total(m)

\* The fields behind the parser were valid.
PassedValid ==
  /\ stage \notin {"none", "magic"} => msg.magic
  /\ stage \in {"path", "payload", "done"} => msg.kind /\ StatusOK(msg)
  /\ stage \in {"payload", "done"} => msg.response \/ msg.slash
  /\ stage = "path" => ~msg.response

\* The parser stands where the stage says, behind what has been received.
\* An error leaves it somewhere in the bad field.
InStep ==
  /\ result # "Error" => rindex = Offset(msg, stage)
  /\ rindex <= windex
  /\ windex <= Total(msg)
  /\ ~CutsTail(windex)

Verdict ==
  /\ result = "Success" => ~parsing /\ stage = "done"
  /\ result \in {"Error", "TryAnotherProtocol"} => ~parsing /\ ~Good(msg)
  /\ stage = "done" => view = [begin |-> PayloadAt(msg) + IntSize, end |-> Total(msg)]

FrameInv == PassedValid /\ InStep /\ Verdict
-----------------------------------------------------------------------------
\* The numbers of a message are naturals, and small enough for size_t.
LEMMA MessageNumbers ==
  ASSUME NEW m \in Messages
  PROVE  /\ m.path \in Nat /\ m.payload \in Nat
         /\ m.magic \in BOOLEAN /\ m.kind \in BOOLEAN /\ m.status \in BOOLEAN
         /\ m.slash \in BOOLEAN
         /\ PayloadAt(m) \in Nat /\ Total(m) \in Nat
         /\ PayloadAt(m) + IntSize + m.payload = Total(m)
         /\ m.response \in BOOLEAN
         /\ ~m.response => PayloadAt(m) = PathAt + IntSize + m.path
         /\ m.response => PayloadAt(m) = 3 * IntSize
         /\ Total(m) < SizeMod
<1>1. m \in [response : BOOLEAN, magic : BOOLEAN, kind : BOOLEAN,
             status : BOOLEAN, path : Nat, slash : BOOLEAN, payload : Nat]
  BY SimpleAssumption
<1>2. m.path + m.payload + 20 < SizeMod
  BY SimpleAssumption
<1>. QED
  BY <1>1, <1>2, SimpleAssumption DEF PayloadAt, Total, PathAt, IntSize

\* The types, and _windex within the buffer: read_fd never writes past the
\* end of _data.
LEMMA TypeStep == TypeOK /\ [Next]_vars => TypeOK'
<1> SUFFICES ASSUME TypeOK, [Next]_vars
             PROVE  TypeOK'
  OBVIOUS
<1> USE SimpleAssumption
<1>1. ASSUME NEW n \in 1..Total(msg), ReadFd(n)
      PROVE  TypeOK'
  <2>1. n \in Nat
    BY MessageNumbers DEF TypeOK
  <2>. QED
    BY <1>1, <2>1 DEF ReadFd, Room, TypeOK
<1>2. ASSUME NEW n \in Nat, NEW v \in Verdicts, Return(n, v)
      PROVE  TypeOK'
  <2>1. rindex' \in Nat
    BY <1>2 DEF Return, TypeOK
  <2>2. parsing' \in BOOLEAN /\ result' \in Verdicts
    BY <1>2 DEF Return
  <2>. QED
    BY <1>2, <2>1, <2>2 DEF Return, TypeOK
<1>3. ASSUME NEW n \in Nat, NEW st \in Stages, Advance(n, st)
      PROVE  TypeOK'
  BY <1>3 DEF Advance, TypeOK
<1>4. CASE NewContext
  BY <1>2, <1>3, <1>4 DEF NewContext, Verdicts, Stages
<1>5. CASE ParseMagic
  BY <1>2, <1>3, <1>5 DEF ParseMagic, Verdicts, Stages, IntSize
<1>6. CASE ParseKind
  <2>1. 0 \in Nat /\ IntSize \in Nat /\ KindSize \in Nat
    BY DEF KindSize, IntSize
  <2>2. {"NoEnoughData", "Error"} \subseteq Verdicts /\ {"path", "payload"} \subseteq Stages
    BY DEF Verdicts, Stages
  <2>3. CASE Return(0, "NoEnoughData") \/ Return(0, "Error") \/ Return(IntSize, "Error")
    BY <1>2, <2>1, <2>2, <2>3
  <2>4. CASE Advance(KindSize, IF msg.response THEN "payload" ELSE "path")
    BY <1>3, <2>1, <2>2, <2>4
  <2>. QED
    BY <1>6, <2>3, <2>4 DEF ParseKind
<1>7. Peeked(msg.path) \subseteq Nat /\ Peeked(msg.payload) \subseteq Nat
  <2>1. ASSUME NEW len \in Nat PROVE Peeked(len) \subseteq Nat
    <3>1. CASE rindex + IntSize <= windex
      BY <2>1, <3>1 DEF Peeked
    <3>2. CASE ~(rindex + IntSize <= windex)
      BY <3>2 DEF Peeked
    <3>. QED
      BY <3>1, <3>2
  <2>. QED
    BY <2>1, MessageNumbers DEF TypeOK
<1>8. CASE ParsePath
  <2>1. ASSUME NEW len \in Peeked(msg.path), Advance(IntSize + len, "payload")
        PROVE  TypeOK'
    BY <1>3, <1>7, <2>1 DEF IntSize, Stages
  <2>. QED
    BY <1>2, <1>8, <2>1 DEF ParsePath, Verdicts, IntSize
<1>9. CASE ParsePayload
  <2>1. ASSUME NEW len \in Peeked(msg.payload),
               view' = [begin |-> rindex + IntSize, end |-> rindex + IntSize + len],
               rindex' = rindex + IntSize + len,
               stage' = "done",
               UNCHANGED <<msg, count, size, windex, parsing, result>>
        PROVE  TypeOK'
    BY <1>7, <2>1 DEF TypeOK, IntSize, Stages
  <2>. QED
    BY <1>2, <1>9, <2>1 DEF ParsePayload, Verdicts
<1>10. CASE Finish
  BY <1>2, <1>10 DEF Finish, Verdicts
<1>11. CASE NextMessage
  BY <1>11 DEF NextMessage, FirstStage, TypeOK, Stages, Verdicts
<1>12. CASE UNCHANGED vars
  BY <1>12 DEF vars, TypeOK
<1>. QED
  BY <1>1, <1>4, <1>5, <1>6, <1>8, <1>9, <1>10, <1>11, <1>12 DEF Next, Parse

\* The parser and its buffer stay in their types, and what is received stays
\* inside the buffer, whatever the messages and the reads.
THEOREM TypeCorrect == Spec => []TypeOK
<1>1. ASSUME Init PROVE TypeOK
  <2>1. stage \in Stages /\ result \in Verdicts /\ parsing \in BOOLEAN
    BY <1>1 DEF Init, FirstStage, Stages, Verdicts
  <2>2. view \in [begin : Nat, end : Nat]
    BY <1>1 DEF Init
  <2>. QED
    BY <1>1, <2>1, <2>2, SimpleAssumption DEF Init, TypeOK
<1>. QED
  BY <1>1, TypeStep, PTL DEF Spec
-----------------------------------------------------------------------------
\* As long as the parser is in step, readable() is what it looks like.
LEMMA InStepReadable ==
  TypeOK /\ InStep => Readable = windex - rindex /\ Readable \in Nat
  BY DEF TypeOK, InStep, Readable

\* Of the bytes received, either all of the field at off are there or fewer
\* than its length says: what CutsTail rules out is between the two.
LEMMA FieldWhole ==
  ASSUME TypeOK, InStep, result # "Error"
  PROVE  /\ ~msg.response /\ stage = "path" /\ Readable >= IntSize /\ Readable >= msg.path
              => PayloadAt(msg) <= windex
         /\ stage = "payload" /\ Readable >= IntSize /\ Readable >= msg.payload
              => Total(msg) <= windex
<1>1. /\ msg.path \in Nat /\ msg.payload \in Nat
      /\ PayloadAt(msg) \in Nat /\ Total(msg) \in Nat
      /\ PayloadAt(msg) + IntSize + msg.payload = Total(msg)
      /\ ~msg.response => PayloadAt(msg) = PathAt + IntSize + msg.path
  BY MessageNumbers DEF TypeOK
<1>2. Readable = windex - rindex
  BY InStepReadable
<1>3. /\ stage = "path" => rindex = PathAt
      /\ stage = "payload" => rindex = PayloadAt(msg)
  BY DEF InStep, Offset
<1>. QED
  BY <1>1, <1>2, <1>3 DEF TypeOK, InStep, CutsTail, PathAt, IntSize

\* Every read and every stage of the parser keeps it in step.
LEMMA FrameStep ==
  ~TailCuts /\ TypeOK /\ FrameInv /\ [Next]_vars => FrameInv'
<1> SUFFICES ASSUME ~TailCuts, TypeOK, PassedValid, InStep, Verdict, [Next]_vars
             PROVE  FrameInv'
  BY DEF FrameInv
<1> USE SimpleAssumption
<1>0. parsing => result # "Error" /\ result # "TryAnotherProtocol"
  BY DEF Verdict
<1>1. ASSUME NEW n \in 1..Total(msg), ReadFd(n)
      PROVE  FrameInv'
  <2>1. n \in Nat
    BY MessageNumbers DEF TypeOK
  <2>2. UNCHANGED <<msg, count, rindex, stage, view, result>> /\ parsing'
    BY <1>1 DEF ReadFd
  <2>3. InStep'
    <3>1. windex' = windex + n /\ windex + n <= Total(msg)
      BY <1>1 DEF ReadFd
    <3>2. ~CutsTail(windex + n)
      BY <1>1 DEF ReadFd
    <3>3. (~CutsTail(windex))'
      BY <2>2, <3>1, <3>2 DEF CutsTail
    <3>4. (result # "Error" => rindex = Offset(msg, stage))' /\ rindex' <= windex'
      BY <2>1, <2>2, <3>1 DEF InStep, TypeOK
    <3>5. (windex <= Total(msg))'
      BY <2>2, <3>1
    <3>. QED
      BY <3>3, <3>4, <3>5 DEF InStep
  <2>4. PassedValid' /\ Verdict'
    BY <1>1, <2>2 DEF ReadFd, PassedValid, Verdict
  <2>. QED
    BY <2>3, <2>4 DEF FrameInv
<1>2. ASSUME NEW v \in {"NoEnoughData", "TryAnotherProtocol"}, Return(0, v), parsing,
             v = "TryAnotherProtocol" => ~Good(msg)
      PROVE  FrameInv'
  BY <1>0, <1>2 DEF Return, TypeOK, FrameInv, PassedValid, InStep, Verdict, CutsTail
<1>3. ASSUME NEW n \in Nat, rindex + n <= windex, ~Good(msg), Return(n, "Error")
      PROVE  FrameInv'
  BY <1>3 DEF Return, TypeOK, FrameInv, PassedValid, InStep, Verdict, CutsTail
<1>4. ASSUME NEW n \in Nat, NEW st \in {"magic", "kind", "path", "payload"},
             Advance(n, st), parsing, PassedValid',
             rindex + n = Offset(msg, st), rindex + n <= windex
      PROVE  FrameInv'
  BY <1>4 DEF Advance, FrameInv, InStep, Verdict, CutsTail
<1>5. CASE NewContext
  <2>1. ASSUME ~msg.magic PROVE ~Good(msg)
    BY <2>1 DEF Good
  <2>2. ASSUME msg.magic, Advance(0, "magic") PROVE PassedValid'
    BY <2>2 DEF Advance, PassedValid
  <2>3. rindex + 0 = Offset(msg, "magic") /\ rindex + 0 <= windex
    BY <1>0, <1>5 DEF NewContext, InStep, Offset, TypeOK
  <2>. QED
    BY <1>2, <1>3, <1>4, <1>5, <2>1, <2>2, <2>3 DEF NewContext
<1>6. CASE ParseMagic
  <2>1. ASSUME ~msg.magic PROVE ~Good(msg)
    BY <2>1 DEF Good
  <2>2. ASSUME msg.magic, Advance(IntSize, "kind") PROVE PassedValid'
    BY <2>2 DEF Advance, PassedValid
  <2>3. ASSUME Readable >= IntSize
        PROVE  rindex + IntSize = Offset(msg, "kind") /\ rindex + IntSize <= windex
    BY <1>0, <1>6, <2>3, InStepReadable DEF ParseMagic, InStep, Offset, TypeOK, IntSize
  <2>4. IntSize \in Nat /\ rindex + 0 <= windex
    BY DEF IntSize, InStep, TypeOK
  <2>. QED
    BY <1>2, <1>3, <1>4, <1>6, <2>1, <2>2, <2>3, <2>4 DEF ParseMagic
<1>7. CASE ParseKind
  <2> DEFINE next == IF msg.response THEN "payload" ELSE "path"
  <2>1. ASSUME ~msg.kind \/ ~StatusOK(msg) PROVE ~Good(msg)
    BY <2>1 DEF Good
  <2>2. ASSUME msg.kind, StatusOK(msg), Advance(KindSize, next) PROVE PassedValid'
    BY <1>7, <2>2 DEF ParseKind, Advance, PassedValid, StatusOK
  <2>3. ASSUME Readable >= KindSize
        PROVE  rindex + KindSize = Offset(msg, next) /\ rindex + KindSize <= windex
    <3>1. rindex + KindSize <= windex
      BY <2>3, InStepReadable DEF TypeOK, KindSize, IntSize
    <3>2. rindex = IntSize
      BY <1>0, <1>7 DEF ParseKind, InStep, Offset
    <3>. QED
      BY <3>1, <3>2 DEF Offset, KindSize, PathAt, PayloadAt, IntSize
  <2>4. KindSize \in Nat /\ IntSize \in Nat /\ next \in {"path", "payload"}
    BY DEF KindSize, IntSize
  <2>5. /\ rindex + 0 <= windex
        /\ Readable >= KindSize => rindex + IntSize <= windex
    BY InStepReadable DEF InStep, TypeOK, KindSize, IntSize
  <2>6. CASE Readable < KindSize /\ Return(0, "NoEnoughData")
    BY <1>2, <1>7, <2>6 DEF ParseKind
  <2>7. CASE ~msg.kind /\ Return(0, "Error")
    BY <1>3, <2>1, <2>5, <2>7
  <2>8. CASE Readable >= KindSize /\ ~StatusOK(msg) /\ Return(IntSize, "Error")
    BY <1>3, <2>1, <2>4, <2>5, <2>8
  <2>9. CASE Readable >= KindSize /\ msg.kind /\ StatusOK(msg) /\ Advance(KindSize, next)
    BY <1>4, <1>7, <2>2, <2>3, <2>4, <2>9 DEF ParseKind
  <2>. QED
    BY <1>7, <2>6, <2>7, <2>8, <2>9 DEF ParseKind
<1>8. CASE ParsePath
  <2>1. stage = "path" /\ rindex = PathAt /\ ~msg.response /\ parsing
    BY <1>0, <1>8 DEF ParsePath, InStep, Offset, PassedValid
  <2>2. CASE Return(0, "NoEnoughData")
    BY <1>2, <2>1, <2>2
  <2>3. ASSUME Readable >= IntSize
        PROVE  Peeked(msg.path) = {msg.path}
    BY <2>3, InStepReadable DEF Peeked, TypeOK, IntSize
  <2>4. ASSUME Readable >= IntSize, EnoughFor(msg.path)
        PROVE  /\ SlashFound = {msg.slash}
               /\ rindex + (IntSize + msg.path) = Offset(msg, "payload")
               /\ rindex + (IntSize + msg.path) <= windex
               /\ IntSize + msg.path \in Nat
    <3>1. PayloadAt(msg) <= windex
      BY <2>1, <2>4, <1>0, FieldWhole DEF EnoughFor
    <3>2. msg.path \in Nat /\ PayloadAt(msg) = PathAt + IntSize + msg.path
      BY <2>1, MessageNumbers DEF TypeOK
    <3>3. rindex + IntSize + msg.path <= windex
      BY <2>1, <3>1, <3>2 DEF TypeOK, PathAt, IntSize
    <3>4. SlashFound = {msg.slash}
      BY <3>3 DEF SlashFound
    <3>. QED
      BY <2>1, <3>1, <3>2, <3>4 DEF Offset, PathAt, IntSize
  <2>5. ASSUME Readable >= IntSize, EnoughFor(msg.path), FALSE \in SlashFound,
               Return(IntSize, "Error")
        PROVE  FrameInv'
    <3>1. ~Good(msg)
      BY <2>1, <2>4, <2>5 DEF Good
    <3>2. IntSize \in Nat /\ rindex + IntSize <= windex
      BY <2>5, InStepReadable DEF TypeOK, IntSize
    <3>. QED
      BY <1>3, <2>5, <3>1, <3>2
  <2>6. ASSUME Readable >= IntSize, EnoughFor(msg.path), TRUE \in SlashFound,
               Advance(IntSize + msg.path, "payload")
        PROVE  FrameInv'
    <3>1. msg.slash
      BY <2>4, <2>6
    <3>2. PassedValid'
      BY <2>1, <2>6, <3>1 DEF Advance, PassedValid
    <3>. QED
      BY <1>4, <2>1, <2>4, <2>6, <3>2
  <2>. QED
    BY <1>8, <2>2, <2>3, <2>5, <2>6 DEF ParsePath
<1>9. CASE ParsePayload
  <2>1. stage = "payload" /\ rindex = PayloadAt(msg) /\ parsing
    BY <1>0, <1>9 DEF ParsePayload, InStep, Offset
  <2>2. CASE Return(0, "NoEnoughData")
    BY <1>2, <2>1, <2>2
  <2>3. ASSUME Readable >= IntSize
        PROVE  Peeked(msg.payload) = {msg.payload}
    BY <2>3, InStepReadable DEF Peeked, TypeOK, IntSize
  <2>4. ASSUME Readable >= IntSize, EnoughFor(msg.payload),
               view' = [begin |-> rindex + IntSize,
                        end |-> rindex + IntSize + msg.payload],
               rindex' = rindex + IntSize + msg.payload,
               stage' = "done",
               UNCHANGED <<msg, count, size, windex, parsing, result>>
        PROVE  FrameInv'
    <3>1. Total(msg) <= windex
      BY <2>1, <2>4, <1>0, FieldWhole DEF EnoughFor
    <3>2. rindex + IntSize + msg.payload = Total(msg)
      BY <2>1, MessageNumbers DEF TypeOK
    <3>3. InStep'
      BY <2>4, <3>1, <3>2 DEF InStep, Offset, CutsTail
    <3>4. PassedValid'
      BY <2>1, <2>4 DEF PassedValid
    <3>5. Verdict'
      BY <2>1, <2>4, <3>2 DEF Verdict
    <3>. QED
      BY <3>3, <3>4, <3>5 DEF FrameInv
  <2>. QED
    BY <1>9, <2>2, <2>3, <2>4 DEF ParsePayload
<1>10. CASE Finish
  BY <1>0, <1>10 DEF Finish, Return, TypeOK, FrameInv, PassedValid, InStep, Verdict, CutsTail
<1>11. CASE NextMessage
  <2>1. msg' \in Messages /\ rindex' = 0 /\ windex' = 0 /\ stage' = FirstStage(msg')
        /\ result' = "NoEnoughData"
    BY <1>11 DEF NextMessage
  <2>2. PassedValid' /\ Verdict'
    BY <2>1 DEF PassedValid, Verdict, FirstStage
  <2>3. Total(msg)' \in Nat /\ PayloadAt(msg)' \in Nat
    BY <2>1, MessageNumbers
  <2>4. (~CutsTail(windex))'
    BY <2>1, <2>3 DEF CutsTail, PathAt, IntSize
  <2>5. InStep'
    BY <2>1, <2>3, <2>4 DEF InStep, Offset, FirstStage
  <2>. QED
    BY <2>2, <2>5 DEF FrameInv
<1>12. CASE UNCHANGED vars
  BY <1>12 DEF vars, FrameInv, PassedValid, InStep, Verdict, CutsTail
<1>. QED
  BY <1>1, <1>5, <1>6, <1>7, <1>8, <1>9, <1>10, <1>11, <1>12 DEF Next, Parse

\* Every run keeps the parser in step, provided no read ends in the last four
\* bytes of a path or of a payload (what TailCuts would allow).
LEMMA FrameAlways ==
  ASSUME ~TailCuts
  PROVE  Spec => [](TypeOK /\ FrameInv)
<1>1. ASSUME Init PROVE FrameInv
  <2>1. Total(msg) \in Nat /\ PayloadAt(msg) \in Nat
    BY <1>1, MessageNumbers DEF Init
  <2>2. ~CutsTail(windex)
    BY <1>1, <2>1 DEF Init, CutsTail, PathAt, IntSize
  <2>3. InStep
    BY <1>1, <2>1, <2>2 DEF Init, InStep, Offset, FirstStage
  <2>4. PassedValid /\ Verdict
    BY <1>1 DEF Init, PassedValid, Verdict, FirstStage
  <2>. QED
    BY <2>3, <2>4 DEF FrameInv
<1>2. TypeOK /\ FrameInv /\ [Next]_vars => FrameInv'
  BY FrameStep
<1>. QED
  BY <1>1, <1>2, TypeCorrect, PTL DEF Spec

\* Framing is exact for every message, however long, and however the reads
\* cut it, provided none ends in the last four bytes of a path or a payload:
\* parse_request and parse_response declare a message complete only when all
\* of it has arrived, with the payload the peer packed.
THEOREM FramingExact ==
  ASSUME ~TailCuts
  PROVE  Spec => []SuccessMeansComplete
<1>1. ASSUME TypeOK, FrameInv PROVE SuccessMeansComplete
  <2>1. ASSUME result = "Success" PROVE stage = "done" /\ rindex = Total(msg)
    BY <1>1, <2>1 DEF FrameInv, Verdict, InStep, Offset
  <2>2. Total(msg) \in Nat
    BY <1>1, MessageNumbers DEF TypeOK
  <2>. QED
    BY <1>1, <2>1, <2>2 DEF FrameInv, Verdict, InStep, SuccessMeansComplete, TypeOK
<1>. QED
  BY <1>1, FrameAlways, PTL

\* Under the same proviso no retrieve moves _rindex past _windex, so
\* readable() never wraps around.
THEOREM NeverOverruns ==
  ASSUME ~TailCuts
  PROVE  Spec => []NoOverrun
<1>1. ASSUME FrameInv PROVE NoOverrun
  BY <1>1 DEF FrameInv, InStep, NoOverrun
<1>. QED
  BY <1>1, FrameAlways, PTL

\* Under the same proviso the verdict depends on the message alone: no cut
\* makes the parser refuse a good one or accept a bad one.
THEOREM VerdictsRight ==
  ASSUME ~TailCuts
  PROVE  Spec => []VerdictRight
<1>1. ASSUME FrameInv PROVE VerdictRight
  BY <1>1 DEF FrameInv, Verdict, PassedValid, VerdictRight, Good
<1>. QED
  BY <1>1, FrameAlways, PTL
-----------------------------------------------------------------------------
\* What a stage still waits for lies inside the message: a parser that is in
\* step and asks for more data is short of the message's end.
LEMMA ShortOfEnd ==
  ASSUME TypeOK, FrameInv, result # "Error"
  PROVE  /\ stage \in {"none", "magic"} /\ Readable < IntSize => windex < Total(msg)
         /\ stage = "kind" /\ Readable < KindSize => windex < Total(msg)
         /\ stage = "path" /\ (Readable < IntSize \/ Readable < msg.path)
              => windex < Total(msg)
         /\ stage = "payload" /\ (Readable < IntSize \/ Readable < msg.payload)
              => windex < Total(msg)
<1>1. /\ msg.path \in Nat /\ msg.payload \in Nat
      /\ PayloadAt(msg) \in Nat /\ Total(msg) \in Nat
      /\ PayloadAt(msg) + IntSize + msg.payload = Total(msg)
      /\ ~msg.response => PayloadAt(msg) = PathAt + IntSize + msg.path
      /\ msg.response => PayloadAt(msg) = 3 * IntSize
  BY MessageNumbers DEF TypeOK
<1>2. Readable = windex - rindex
  BY InStepReadable DEF FrameInv
<1>3. /\ stage \in {"none", "magic"} => rindex = 0
      /\ stage = "kind" => rindex = IntSize
      /\ stage = "path" => rindex = PathAt /\ ~msg.response
      /\ stage = "payload" => rindex = PayloadAt(msg)
  BY DEF FrameInv, PassedValid, InStep, Offset
<1>4. KindSize <= 2 * IntSize /\ windex \in Nat /\ rindex \in Nat
  BY DEF KindSize, IntSize, TypeOK
<1>5. PayloadAt(msg) >= 3 * IntSize
  BY <1>1 DEF PathAt, IntSize
<1>6. /\ stage \in {"none", "magic"} /\ Readable < IntSize => windex < Total(msg)
      /\ stage = "kind" /\ Readable < KindSize => windex < Total(msg)
  BY <1>1, <1>2, <1>3, <1>4, <1>5 DEF KindSize, IntSize
<1>7. stage = "path" /\ (Readable < IntSize \/ Readable < msg.path)
        => windex < Total(msg)
  BY <1>1, <1>2, <1>3, <1>4 DEF PathAt, IntSize
<1>8. stage = "payload" /\ (Readable < IntSize \/ Readable < msg.payload)
        => windex < Total(msg)
  BY <1>1, <1>2, <1>3, <1>4 DEF IntSize
<1>. QED
  BY <1>6, <1>7, <1>8

\* Only a stage that is short of the message's end asks for more data.
LEMMA StallStep ==
  ASSUME TypeOK, FrameInv, NoStall, [Next]_vars
  PROVE  NoStall'
<1>0. parsing => result # "Error"
  BY DEF FrameInv, Verdict
<1>1. \A m \in Messages : Total(m) \in Nat /\ Total(m) # 0
  <2> TAKE m \in Messages
  <2>. QED
    BY MessageNumbers DEF IntSize
<1>2. ASSUME windex < Total(msg), Return(0, "NoEnoughData")
      PROVE  NoStall'
  <2>1. windex # Total(msg)
    BY <1>1, <1>2 DEF TypeOK
  <2>. QED
    BY <1>2, <2>1 DEF Return, NoStall
<1>3. ASSUME NEW n, NEW v \in {"TryAnotherProtocol", "Error", "Success"}, Return(n, v)
      PROVE  NoStall'
  BY <1>3 DEF Return, NoStall
<1>4. ASSUME NEW n, NEW st, parsing, Advance(n, st)
      PROVE  NoStall'
  BY <1>4 DEF Advance, NoStall
<1>5. ASSUME NEW n \in 1..Total(msg), ReadFd(n)
      PROVE  NoStall'
  BY <1>5 DEF ReadFd, NoStall
<1>6. CASE NewContext
  BY <1>0, <1>2, <1>3, <1>4, <1>6, ShortOfEnd DEF NewContext
<1>7. CASE ParseMagic
  BY <1>0, <1>2, <1>3, <1>4, <1>7, ShortOfEnd DEF ParseMagic
<1>8. CASE ParseKind
  BY <1>0, <1>2, <1>3, <1>4, <1>8, ShortOfEnd DEF ParseKind
<1>9. CASE ParsePath
  <2>1. ASSUME Readable >= IntSize PROVE Peeked(msg.path) = {msg.path}
    BY <2>1, InStepReadable DEF Peeked, TypeOK, IntSize, FrameInv
  <2>2. ASSUME ~EnoughFor(msg.path) PROVE Readable < msg.path
    BY <2>2, InStepReadable, MessageNumbers DEF EnoughFor, FrameInv, TypeOK
  <2>. QED
    BY <1>0, <1>2, <1>3, <1>4, <1>9, <2>1, <2>2, ShortOfEnd DEF ParsePath
<1>10. CASE ParsePayload
  <2>1. ASSUME Readable >= IntSize PROVE Peeked(msg.payload) = {msg.payload}
    BY <2>1, InStepReadable DEF Peeked, TypeOK, IntSize, FrameInv
  <2>2. ASSUME ~EnoughFor(msg.payload) PROVE Readable < msg.payload
    BY <2>2, InStepReadable, MessageNumbers DEF EnoughFor, FrameInv, TypeOK
  <2>3. ASSUME UNCHANGED parsing PROVE NoStall'
    BY <1>10, <2>3 DEF ParsePayload, NoStall
  <2>. QED
    BY <1>0, <1>2, <1>10, <2>1, <2>2, <2>3, ShortOfEnd DEF ParsePayload
<1>11. CASE Finish
  BY <1>3, <1>11 DEF Finish
<1>12. CASE NextMessage
  <2>1. msg' \in Messages /\ windex' = 0
    BY <1>12 DEF NextMessage
  <2>. QED
    BY <1>1, <2>1 DEF NoStall
<1>13. CASE UNCHANGED vars
  BY <1>13 DEF vars, NoStall
<1>. QED
  BY <1>5, <1>6, <1>7, <1>8, <1>9, <1>10, <1>11, <1>12, <1>13 DEF Next, Parse

\* Under the same proviso, once the last byte of a message has arrived the
\* parser gives its verdict: it never answers NoEnoughData to a whole message,
\* after which no event would make it run again.
THEOREM NeverStalls ==
  ASSUME ~TailCuts
  PROVE  Spec => []NoStall
<1>1. ASSUME Init PROVE NoStall
  <2>1. msg \in Messages /\ windex = 0
    BY <1>1 DEF Init
  <2>2. Total(msg) # 0
    BY <2>1, MessageNumbers DEF IntSize
  <2>. QED
    BY <2>1, <2>2 DEF NoStall
<1>2. TypeOK /\ FrameInv /\ NoStall /\ [Next]_vars => NoStall'
  BY StallStep
<1>. QED
  BY <1>1, <1>2, FrameAlways, PTL DEF Spec
=============================================================================
