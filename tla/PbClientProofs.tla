--------------------------- MODULE PbClientProofs ---------------------------
(***************************************************************************)
(* Proofs about PbClient, for any number of calls, whatever the socket     *)
(* takes, blocking or with a loop, for a caller that waits until the loop  *)
(* is out of the callback that answered its last call (Overlap = "none").  *)
(***************************************************************************)
EXTENDS PbClient, FiniteSetTheorems, SequenceTheorems, TLAPS

-----------------------------------------------------------------------------
\* The caller has no answer yet to its last call.
Unanswered == Len(answers) # last

\* Calls are answered in turn, once, each with the response to it.
AnswersInv ==
  /\ \A i \in 1..Len(answers) : answers[i] = [call |-> i, of |-> i]
  /\ Unanswered => last = Len(answers) + 1

\* _ctx and _session live from CallMethod until response_callback is past
\* done->Run(), or until a call without done returns.
CallInv ==
  /\ Unanswered \/ loopPc = "ran" => last # 0 /\ ctx = last /\ session.call = last
  /\ ~Unanswered /\ loopPc # "ran" => ctx = 0
  /\ loopPc = "ran" => ~Unanswered
  /\ mainPc # "idle" => Unanswered
  /\ ctx # 0 /\ mainPc \notin {"write", "read"} => session.done

\* No call is under way that the loop would have to do something for.
LoopIsFree == ~Unanswered \/ mainPc # "idle"

\* What epoll and the loop know of the channel.
ChannelInv ==
  /\ ~connected => last = 0 /\ sevent # "IN" /\ loopPc \in {"wait", "out", "conn"}
  /\ connected /\ LoopIsFree /\ loopPc \notin {"conn", "ran", "cleared"} =>
       /\ loopPc = "wait"
       /\ funcs = 0
       /\ sevent = "none"
       /\ event = IF mainPc = "post" THEN "OUT" ELSE "none"
  /\ funcs > 0 =>
       funcs = 1 /\ loopPc = "wait" /\ sevent = "none" /\ event = "OUT"
  /\ loopPc = "in" => sevent = "IN"
  /\ loopPc = "out" => sevent = "OUT"
  /\ loopPc = "conn" => last = 0
  /\ loopPc = "cleared" => ~Unanswered

\* The request is not all with the server, and nothing has come back.
Asking ==
  /\ rbuf = <<>>
  /\ back = <<>>
  /\ Len(wire) + wbuf.header + wbuf.payload = 3
  /\ \A i \in 1..Len(wire) : wire[i][1] = last

\* The server has answered: one response is on its way or being read.
Answering ==
  /\ wire = <<>>
  /\ wbuf = Empty
  /\ Len(rbuf) + Len(back) = 2
  /\ \E r \in {0, last} :
       /\ \A i \in 1..Len(rbuf) : rbuf[i] = r
       /\ \A i \in 1..Len(back) : back[i] = r

\* Nothing of an answered call is left in the kernel or in _wbuf.
DataInv ==
  /\ ~Unanswered => wire = <<>> /\ back = <<>> /\ wbuf = Empty
  /\ Unanswered => Asking \/ Answering

ClientInv == TypeOK /\ AnswersInv /\ CallInv /\ ChannelInv /\ DataInv
-----------------------------------------------------------------------------
\* The bound on calls is a number.
LEMMA BoundNat == MaxCalls \in Nat
  BY ClientAssumption

\* A state in which the client is constructed satisfies the invariant.
LEMMA ClientInit == Init => ClientInv
<1> SUFFICES ASSUME Init PROVE ClientInv
  OBVIOUS
<1> USE BoundNat DEF Init
<1>1. Len(answers) = 0 /\ last = 0 /\ ~Unanswered
  BY DEF Unanswered
<1>2. TypeOK
  <2>1. net \in {"connecting", "up", "refused", "closed"} /\ async \in BOOLEAN
    OBVIOUS
  <2>2. event \in Masks /\ sevent \in Masks /\ funcs \in Nat /\ connected \in BOOLEAN
    BY DEF Masks
  <2>3. /\ loopPc \in {"wait", "in", "out", "conn", "ran", "cleared"}
        /\ mainPc \in {"idle", "arm", "post", "write", "read"}
        /\ broken \in BOOLEAN
    OBVIOUS
  <2>4. last \in 0..MaxCalls /\ ctx \in 0..MaxCalls
    OBVIOUS
  <2>5. session \in [call : 0..MaxCalls, done : BOOLEAN]
    BY <2>4 DEF NoSession
  <2>6. wbuf \in [header : 0..2, payload : 0..1]
    BY DEF Empty
  <2>7. /\ wire \in Seq(Calls \X {"header", "payload"}) /\ back \in Seq(0..MaxCalls)
        /\ rbuf \in Seq(0..MaxCalls) /\ answers \in Seq([call : Calls, of : Calls])
    OBVIOUS
  <2>. QED
    BY <2>1, <2>2, <2>3, <2>4, <2>5, <2>6, <2>7 DEF TypeOK
<1>3. AnswersInv /\ CallInv /\ DataInv
  BY <1>1 DEF AnswersInv, CallInv, DataInv
<1>4. ChannelInv
  <2>1. /\ connected => net = "up"
        /\ funcs > 0 => funcs = 1 /\ net = "connecting"
        /\ net = "connecting" => event = "OUT"
        /\ net = "up" => event = "none" /\ funcs = 0
    <3>1. connected => net = "up"
      OBVIOUS
    <3>2. CASE net = "connecting"
      <4>1. event = "OUT" /\ funcs = 1
        BY <3>2
      <4>. QED
        BY <3>1, <3>2, <4>1
    <3>3. CASE net # "connecting"
      <4>1. event = "none" /\ funcs = 0
        BY <3>3
      <4>. QED
        BY <3>1, <3>3, <4>1
    <3>. QED
      BY <3>2, <3>3
  <2>. QED
    BY <1>1, <2>1 DEF ChannelInv
<1>. QED
  BY <1>2, <1>3, <1>4 DEF ClientInv

\* The two parts SubSeq cuts a sequence into.
LEMMA SplitProperties ==
  ASSUME NEW S, NEW s \in Seq(S), NEW n \in Nat, n <= Len(s)
  PROVE  /\ SubSeq(s, 1, n) \in Seq(S)
         /\ Len(SubSeq(s, 1, n)) = n
         /\ \A i \in 1..n : SubSeq(s, 1, n)[i] = s[i]
         /\ SubSeq(s, n + 1, Len(s)) \in Seq(S)
         /\ Len(SubSeq(s, n + 1, Len(s))) = Len(s) - n
         /\ \A i \in 1..(Len(s) - n) : SubSeq(s, n + 1, Len(s))[i] = s[n + i]
<1>1. Len(s) \in Nat /\ \A i \in 1..Len(s) : s[i] \in S
  BY LenProperties
<1>2. /\ SubSeq(s, 1, n) \in Seq(S)
      /\ Len(SubSeq(s, 1, n)) = IF 1 <= n THEN n - 1 + 1 ELSE 0
      /\ \A i \in 1..(n - 1 + 1) : SubSeq(s, 1, n)[i] = s[1 + i - 1]
  <2>1. \A i \in 1..n : s[i] \in S
    BY <1>1
  <2>2. 1 \in Int /\ n \in Int
    OBVIOUS
  <2>. QED
    BY <2>1, <2>2, SubSeqProperties
<1>3. /\ SubSeq(s, n + 1, Len(s)) \in Seq(S)
      /\ Len(SubSeq(s, n + 1, Len(s)))
           = IF n + 1 <= Len(s) THEN Len(s) - (n + 1) + 1 ELSE 0
      /\ \A i \in 1..(Len(s) - (n + 1) + 1) :
           SubSeq(s, n + 1, Len(s))[i] = s[n + 1 + i - 1]
  <2>1. \A i \in (n + 1)..Len(s) : s[i] \in S
    BY <1>1
  <2>2. n + 1 \in Int /\ Len(s) \in Int
    BY <1>1
  <2>. QED
    BY <2>1, <2>2, SubSeqProperties
<1>4. Len(SubSeq(s, 1, n)) = n /\ Len(SubSeq(s, n + 1, Len(s))) = Len(s) - n
  BY <1>1, <1>2, <1>3
<1>5. \A i \in 1..n : SubSeq(s, 1, n)[i] = s[i]
  <2>1. ASSUME NEW i \in 1..n PROVE 1 + i - 1 = i /\ i \in 1..(n - 1 + 1)
    OBVIOUS
  <2>. QED
    BY <1>2, <2>1, Zenon
<1>6. \A i \in 1..(Len(s) - n) : SubSeq(s, n + 1, Len(s))[i] = s[n + i]
  <2>1. ASSUME NEW i \in 1..(Len(s) - n)
        PROVE  n + 1 + i - 1 = n + i /\ i \in 1..(Len(s) - (n + 1) + 1)
    BY <1>1
  <2>. QED
    BY <1>3, <2>1, Zenon
<1>. QED
  BY <1>2, <1>3, <1>4, <1>5, <1>6

\* What read_fd adds to _rbuf is a piece of the one response to the last
\* call; once it can be parsed it is all there, and it is that call's.
LEMMA ReadStep ==
  ASSUME ClientInv, Unanswered, NEW n \in 1..2, ReadFd(n)
  PROVE  /\ Answering
         /\ rbuf' \in Seq(0..MaxCalls)
         /\ back' \in Seq(0..MaxCalls)
         /\ Len(rbuf') + Len(back') = 2
         /\ \E r \in {0, last} :
              /\ \A i \in 1..Len(rbuf') : rbuf'[i] = r
              /\ \A i \in 1..Len(back') : back'[i] = r
         /\ Parsed(rbuf') => rbuf'[1] = last /\ back' = <<>>
<1>1. rbuf \in Seq(0..MaxCalls) /\ back \in Seq(0..MaxCalls) /\ last \in Nat
  BY BoundNat DEF ClientInv, TypeOK
<1>2. n \in Nat /\ n >= 1 /\ n <= Len(back) /\ Len(back) \in Nat /\ Len(rbuf) \in Nat
  BY <1>1, LenProperties DEF ReadFd
<1>3. Answering
  BY <1>2 DEF ClientInv, DataInv, Asking
<1> DEFINE front == SubSeq(back, 1, n)
           rest == SubSeq(back, n + 1, Len(back))
<1>4. /\ front \in Seq(0..MaxCalls)
      /\ Len(front) = n
      /\ \A i \in 1..n : front[i] = back[i]
  BY <1>1, <1>2, SplitProperties
<1>5. /\ rest \in Seq(0..MaxCalls)
      /\ Len(rest) = Len(back) - n
      /\ \A i \in 1..(Len(back) - n) : rest[i] = back[n + i]
  BY <1>1, <1>2, SplitProperties
<1>6. rbuf' = rbuf \o front /\ back' = rest
  BY DEF ReadFd
<1> HIDE DEF front, rest
<1>7. /\ rbuf \o front \in Seq(0..MaxCalls)
      /\ Len(rbuf \o front) = Len(rbuf) + n
      /\ \A i \in 1..(Len(rbuf) + n) :
           (rbuf \o front)[i] = IF i <= Len(rbuf) THEN rbuf[i] ELSE front[i - Len(rbuf)]
  BY <1>1, <1>2, <1>4, ConcatProperties
<1>8. PICK r \in {0, last} : /\ \A i \in 1..Len(rbuf) : rbuf[i] = r
                             /\ \A i \in 1..Len(back) : back[i] = r
  BY <1>3 DEF Answering
<1>9. \A i \in 1..Len(rbuf') : rbuf'[i] = r
  BY <1>2, <1>4, <1>6, <1>7, <1>8
<1>10. \A i \in 1..Len(back') : back'[i] = r
  BY <1>2, <1>5, <1>6, <1>8
<1>11. Len(rbuf') + Len(back') = 2
  BY <1>2, <1>3, <1>5, <1>6, <1>7 DEF Answering
<1>12. ASSUME Parsed(rbuf') PROVE rbuf'[1] = last /\ back' = <<>>
  <2>1. Len(rbuf') >= 2 /\ rbuf'[1] # 0
    BY <1>12 DEF Parsed
  <2>2. rbuf'[1] = r
    BY <1>2, <1>6, <1>7, <1>9, <2>1
  <2>3. Len(back') = 0
    BY <1>2, <1>5, <1>6, <1>7, <1>11, <2>1
  <2>. QED
    BY <1>5, <1>6, <1>8, <2>1, <2>2, <2>3, EmptySeq
<1>. QED
  BY <1>3, <1>5, <1>6, <1>7, <1>9, <1>10, <1>11, <1>12

\* What write_fd moves from _wbuf to the server are units of the last call,
\* none is lost and none is written twice.
LEMMA WriteStep ==
  ASSUME ClientInv, Unanswered, NEW take, WriteFd(take)
  PROVE  /\ wbuf' \in [header : 0..2, payload : 0..1]
         /\ wire' \in Seq(Calls \X {"header", "payload"})
         /\ rbuf = <<>> /\ back = <<>>
         /\ Len(wire') + wbuf'.header + wbuf'.payload = 3
         /\ \A i \in 1..Len(wire') : wire'[i][1] = last
<1> DEFINE cut == take \in {"cutHeader", "cutBoth"}
           h == IF cut THEN 1 ELSE wbuf.header
           p == IF take \in {"all", "cutBoth"} THEN wbuf.payload ELSE 0
           P == Calls \X {"header", "payload"}
<1>1. /\ cut => wbuf.header > 1
      /\ h + p > 0
      /\ wbuf' = [header |-> wbuf.header - h, payload |-> wbuf.payload - p]
      /\ wire' = wire \o Units(h, "header") \o Units(p, "payload")
  BY DEF WriteFd
<1>2. /\ wbuf.header \in 0..2 /\ wbuf.payload \in 0..1
      /\ wire \in Seq(P) /\ last \in 0..MaxCalls
  BY DEF ClientInv, TypeOK
<1>3. /\ h \in Nat /\ p \in Nat /\ h <= wbuf.header /\ p <= wbuf.payload
      /\ wbuf.header \in Nat /\ wbuf.header <= 2 /\ wbuf.payload \in Nat /\ wbuf.payload <= 1
  <2>1. wbuf.header \in Nat /\ wbuf.header <= 2 /\ wbuf.payload \in Nat /\ wbuf.payload <= 1
    BY <1>2
  <2>2. h \in Nat /\ h <= wbuf.header
    <3>1. CASE cut
      BY <1>1, <2>1, <3>1
    <3>2. CASE ~cut
      BY <2>1, <3>2
    <3>. QED
      BY <3>1, <3>2
  <2>3. p \in Nat /\ p <= wbuf.payload
    BY <2>1
  <2>. QED
    BY <2>1, <2>2, <2>3
<1>4. Asking
  <2>1. wbuf.header # 0 \/ wbuf.payload # 0
    BY <1>1, <1>3
  <2>2. wbuf # Empty
    BY <2>1 DEF Empty
  <2>. QED
    BY <2>2 DEF ClientInv, DataInv, Answering
<1>5. ctx = last /\ ctx \in Calls
  <2>1. ctx = last /\ last # 0
    BY DEF ClientInv, CallInv
  <2>. QED
    BY <1>2, <2>1, BoundNat DEF Calls
<1> HIDE DEF h, p, P, cut
<1>6. ASSUME NEW k \in Nat, NEW part \in {"header", "payload"}
      PROVE  /\ Units(k, part) \in Seq(P)
             /\ Len(Units(k, part)) = k
             /\ \A i \in 1..k : Units(k, part)[i][1] = last
  <2>1. <<ctx, part>> \in P /\ <<ctx, part>>[1] = last
    BY <1>5 DEF P
  <2>. QED
    BY <2>1 DEF Units
<1>7. /\ Units(h, "header") \in Seq(P) /\ Len(Units(h, "header")) = h
      /\ \A i \in 1..h : Units(h, "header")[i][1] = last
  BY <1>3, <1>6
<1>8. /\ Units(p, "payload") \in Seq(P) /\ Len(Units(p, "payload")) = p
      /\ \A i \in 1..p : Units(p, "payload")[i][1] = last
  BY <1>3, <1>6
<1> DEFINE w1 == wire \o Units(h, "header")
           w2 == w1 \o Units(p, "payload")
<1>9. /\ w1 \in Seq(P) /\ Len(w1) = Len(wire) + h
      /\ \A i \in 1..Len(w1) : w1[i][1] = last
  <2>1. /\ w1 \in Seq(P) /\ Len(w1) = Len(wire) + h
        /\ \A i \in 1..Len(w1) :
             w1[i] = IF i <= Len(wire) THEN wire[i] ELSE Units(h, "header")[i - Len(wire)]
    BY <1>2, <1>3, <1>7, ConcatProperties
  <2>2. Len(wire) \in Nat
    BY <1>2, LenProperties
  <2> HIDE DEF w1
  <2>3. ASSUME NEW i \in 1..Len(w1) PROVE w1[i][1] = last
    <3>1. CASE i <= Len(wire)
      <4>1. i \in 1..Len(wire)
        BY <2>1, <2>2, <3>1, <1>3
      <4>. QED
        BY <2>1, <3>1, <4>1, <1>4 DEF Asking
    <3>2. CASE ~(i <= Len(wire))
      <4>1. i - Len(wire) \in 1..h
        BY <2>1, <2>2, <3>2, <1>3
      <4>. QED
        BY <2>1, <3>2, <4>1, <1>7
    <3>. QED
      BY <3>1, <3>2
  <2>. QED
    BY <2>1, <2>3
<1>10. /\ w2 \in Seq(P) /\ Len(w2) = Len(wire) + h + p
       /\ \A i \in 1..Len(w2) : w2[i][1] = last
  <2> HIDE DEF w1
  <2>1. /\ w2 \in Seq(P) /\ Len(w2) = Len(w1) + p
        /\ \A i \in 1..Len(w2) :
             w2[i] = IF i <= Len(w1) THEN w1[i] ELSE Units(p, "payload")[i - Len(w1)]
    BY <1>3, <1>8, <1>9, ConcatProperties
  <2>2. Len(w1) \in Nat
    BY <1>9, LenProperties
  <2> HIDE DEF w2
  <2>3. ASSUME NEW i \in 1..Len(w2) PROVE w2[i][1] = last
    <3>1. CASE i <= Len(w1)
      <4>1. i \in 1..Len(w1)
        BY <2>1, <2>2, <3>1, <1>3
      <4>. QED
        BY <2>1, <3>1, <4>1, <1>9
    <3>2. CASE ~(i <= Len(w1))
      <4>1. i - Len(w1) \in 1..p
        BY <2>1, <2>2, <3>2, <1>3
      <4>. QED
        BY <2>1, <3>2, <4>1, <1>8
    <3>. QED
      BY <3>1, <3>2
  <2>. QED
    BY <1>9, <2>1, <2>3
<1>11. wire' = w2 /\ Len(wire) \in Nat
  BY <1>1, <1>2, LenProperties
<1> HIDE DEF w1, w2
<1>12. wbuf'.header = wbuf.header - h /\ wbuf'.payload = wbuf.payload - p
  BY <1>1
<1>13. Len(wire') + wbuf'.header + wbuf'.payload = 3
  <2>1. Len(wire') = Len(wire) + h + p
    BY <1>10, <1>11
  <2>2. Len(wire) + wbuf.header + wbuf.payload = 3
    BY <1>4 DEF Asking
  <2>. QED
    BY <1>3, <1>11, <1>12, <2>1, <2>2
<1>14. wbuf' \in [header : 0..2, payload : 0..1]
  <2>1. wbuf.header - h \in 0..2 /\ wbuf.payload - p \in 0..1
    BY <1>3
  <2>. QED
    BY <1>1, <2>1
<1>. QED
  BY <1>4, <1>10, <1>11, <1>13, <1>14 DEF Asking, P

\* done->Run(), or the return of a call without done, answers the last call
\* with the response to it.
LEMMA DeliverStep ==
  ASSUME ClientInv, Unanswered, NEW n \in 1..2, ReadFd(n), Parsed(rbuf'), Deliver,
         UNCHANGED last
  PROVE  /\ answers' \in Seq([call : Calls, of : Calls])
         /\ AnswersInv'
         /\ ~Unanswered'
         /\ back' = <<>>
         /\ answers' = Append(answers, [call |-> last, of |-> last])
<1> DEFINE a == [call |-> last, of |-> last]
           A == [call : Calls, of : Calls]
<1>1. answers \in Seq(A) /\ last \in 0..MaxCalls
  BY DEF ClientInv, TypeOK
<1>2. last = Len(answers) + 1 /\ session.call = last /\ last # 0
  BY DEF ClientInv, AnswersInv, CallInv
<1>3. last \in Calls
  BY <1>1, <1>2, BoundNat DEF Calls
<1>4. rbuf'[1] = last /\ back' = <<>>
  BY ReadStep
<1>5. answers' = Append(answers, a)
  BY <1>2, <1>4 DEF Deliver
<1>6. a \in A
  BY <1>3
<1> HIDE DEF a, A
<1>7. /\ answers' \in Seq(A)
      /\ Len(answers') = Len(answers) + 1
      /\ \A i \in 1..Len(answers) : answers'[i] = answers[i]
      /\ answers'[Len(answers) + 1] = a
  BY <1>1, <1>5, <1>6, AppendProperties
<1>8. Len(answers) \in Nat
  BY <1>1, LenProperties
<1>9. Len(answers') = last'
  BY <1>2, <1>7
<1>10. ASSUME NEW i \in 1..Len(answers') PROVE answers'[i] = [call |-> i, of |-> i]
  <2>1. CASE i \in 1..Len(answers)
    BY <1>7, <2>1 DEF ClientInv, AnswersInv
  <2>2. CASE i \notin 1..Len(answers)
    <3>1. i = Len(answers) + 1
      BY <1>7, <1>8, <2>2
    <3>. QED
      BY <1>2, <1>7, <3>1 DEF a
  <2>. QED
    BY <2>1, <2>2
<1>. QED
  BY <1>4, <1>5, <1>7, <1>9, <1>10 DEF AnswersInv, Unanswered, A, a

\* A call can begin only when nothing of an earlier one is left.
LEMMA CallStep ==
  ASSUME Overlap = "none", ClientInv, NEW done \in BOOLEAN, CallMethod(done)
  PROVE  ClientInv'
<1>1. /\ mainPc = "idle" /\ connected /\ last < MaxCalls /\ loopPc = "wait" /\ Informed
  BY DEF CallMethod, MayCall
<1>2. answers \in Seq([call : Calls, of : Calls]) /\ last \in 0..MaxCalls /\ Len(answers) \in Nat
  BY LenProperties DEF ClientInv, TypeOK
<1>3. ~Unanswered
  <2>1. CASE last = 0
    BY <1>2, <2>1 DEF Unanswered, ClientInv, AnswersInv
  <2>2. ASSUME NEW i \in DOMAIN answers, answers[i].call = last PROVE ~Unanswered
    <3>1. i \in 1..Len(answers)
      BY <1>2, LenProperties
    <3>2. i = last
      <4>1. answers[i] = [call |-> i, of |-> i]
        BY <3>1 DEF ClientInv, AnswersInv
      <4>. QED
        BY <2>2, <4>1
    <3>. QED
      BY <1>2, <3>1, <3>2 DEF Unanswered, ClientInv, AnswersInv
  <2>. QED
    BY <1>1, <2>1, <2>2 DEF Informed
<1>4. /\ last' = last + 1 /\ rbuf' = <<>> /\ ctx' = last + 1
      /\ session' = [call |-> last + 1, done |-> done] /\ wbuf' = Packed
      /\ mainPc' = IF done THEN "arm" ELSE "write"
      /\ UNCHANGED <<async, net, wire, back, broken, connected, event, sevent, funcs,
                     loopPc, answers>>
  BY DEF CallMethod, kernel, channel
<1>5. last' \in 1..MaxCalls
  BY <1>1, <1>2, <1>4, BoundNat
<1>6. Unanswered' /\ last' = Len(answers') + 1
  BY <1>2, <1>3, <1>4 DEF Unanswered
<1>7. TypeOK'
  <2>1. session' \in [call : 0..MaxCalls, done : BOOLEAN] /\ last' \in 0..MaxCalls
        /\ ctx' \in 0..MaxCalls
    BY <1>4, <1>5, BoundNat
  <2>2. wbuf' \in [header : 0..2, payload : 0..1]
    BY <1>4 DEF Packed
  <2>3. mainPc' \in {"idle", "arm", "post", "write", "read"} /\ rbuf' \in Seq(0..MaxCalls)
    BY <1>4
  <2>. QED
    BY <1>4, <2>1, <2>2, <2>3 DEF ClientInv, TypeOK
<1>8. AnswersInv'
  BY <1>4, <1>6 DEF ClientInv, AnswersInv
<1>9. CallInv'
  <2>1. session'.call = last' /\ session'.done = done
    BY <1>4
  <2>2. last' # 0
    BY <1>5
  <2>3. mainPc' \notin {"write", "read"} => session'.done
    BY <1>4, <2>1
  <2>. QED
    BY <1>1, <1>4, <1>6, <2>1, <2>2, <2>3 DEF CallInv
<1>10. ChannelInv'
  <2>1. funcs = 0 /\ sevent = "none" /\ event = "none"
    BY <1>1, <1>3 DEF ClientInv, ChannelInv, LoopIsFree
  <2>2. mainPc' # "post" /\ mainPc' # "idle"
    BY <1>4
  <2>. QED
    BY <1>1, <1>4, <2>1, <2>2 DEF ChannelInv
<1>11. DataInv'
  <2>1. wire' = <<>> /\ back' = <<>> /\ rbuf' = <<>>
    BY <1>3, <1>4 DEF ClientInv, DataInv
  <2>2. wbuf'.header = 2 /\ wbuf'.payload = 1
    BY <1>4 DEF Packed
  <2>3. Asking'
    BY <2>1, <2>2 DEF Asking
  <2>. QED
    BY <1>6, <2>3 DEF DataInv
<1>. QED
  BY <1>7, <1>8, <1>9, <1>10, <1>11 DEF ClientInv

\* The steps of the caller and the loop that move neither data nor the call.
LEMMA ControlStep ==
  ASSUME ClientInv,
         \/ SetEvent \/ AddFunc \/ RunFunc \/ TakeEvent \/ HandleEof
         \/ CloseCallback \/ HandleConnect \/ ConnectReset
  PROVE  ClientInv'
<1>1. UNCHANGED <<async, net, wire, back, broken, last, ctx, session, rbuf, wbuf, answers>>
  BY DEF SetEvent, AddFunc, RunFunc, TakeEvent, HandleEof, CloseCallback, HandleConnect,
         ConnectReset, kernel, call
<1>2. Unanswered' <=> Unanswered
  BY <1>1 DEF Unanswered
<1>3. AnswersInv' /\ DataInv'
  BY <1>1, <1>2 DEF ClientInv, AnswersInv, DataInv, Asking, Answering
<1>4. ASSUME /\ connected' \in BOOLEAN
             /\ event' \in Masks
             /\ sevent' \in Masks
             /\ funcs' \in Nat
             /\ loopPc' \in {"wait", "in", "out", "conn", "ran", "cleared"}
             /\ mainPc' \in {"idle", "arm", "post", "write", "read"}
      PROVE  TypeOK'
  BY <1>1, <1>4 DEF ClientInv, TypeOK
<1>5. /\ connected \in BOOLEAN /\ event \in Masks /\ sevent \in Masks /\ funcs \in Nat
      /\ loopPc \in {"wait", "in", "out", "conn", "ran", "cleared"}
      /\ mainPc \in {"idle", "arm", "post", "write", "read"}
  BY DEF ClientInv, TypeOK
<1>6. {"none", "IN", "OUT"} = Masks
  BY DEF Masks
<1>7. CallInv /\ ChannelInv
  BY DEF ClientInv
<1>8. ~connected => ~Unanswered
  BY <1>7 DEF ClientInv, CallInv, ChannelInv
<1>9. CASE SetEvent
  <2>1. /\ mainPc = "arm" /\ event' = "OUT" /\ mainPc' = "post"
        /\ UNCHANGED <<connected, sevent, funcs, loopPc>>
    BY <1>9 DEF SetEvent
  <2>2. TypeOK'
    BY <1>4, <1>5, <1>6, <2>1
  <2>3. CallInv'
    BY <1>1, <1>2, <1>7, <2>1 DEF CallInv
  <2>4. connected /\ loopPc = "wait" /\ funcs = 0 /\ sevent = "none"
    BY <1>5, <1>7, <1>8, <2>1 DEF CallInv, ChannelInv, LoopIsFree
  <2>5. ChannelInv'
    BY <1>1, <1>2, <1>7, <2>1, <2>4 DEF ChannelInv, LoopIsFree
  <2>. QED
    BY <1>3, <2>2, <2>3, <2>5 DEF ClientInv
<1>10. CASE AddFunc
  <2>1. /\ mainPc = "post" /\ mainPc' = "idle" /\ funcs' = funcs + 1
        /\ UNCHANGED <<connected, event, sevent, loopPc>>
    BY <1>10 DEF AddFunc, channel
  <2>2. TypeOK'
    BY <1>4, <1>5, <2>1
  <2>3. CallInv'
    BY <1>1, <1>2, <1>7, <2>1 DEF CallInv
  <2>4. connected /\ loopPc = "wait" /\ funcs = 0 /\ sevent = "none" /\ event = "OUT" /\ Unanswered
    BY <1>5, <1>7, <1>8, <2>1 DEF CallInv, ChannelInv, LoopIsFree
  <2>5. ChannelInv'
    BY <1>1, <1>2, <2>1, <2>4 DEF ChannelInv, LoopIsFree
  <2>. QED
    BY <1>3, <2>2, <2>3, <2>5 DEF ClientInv
<1>11. CASE RunFunc
  <2>1. /\ loopPc = "wait" /\ funcs > 0 /\ funcs' = funcs - 1
        /\ event' = event /\ sevent' = event
        /\ UNCHANGED <<connected, loopPc, mainPc>>
    BY <1>11 DEF RunFunc, UpdateChannel
  <2>2. TypeOK'
    BY <1>4, <1>5, <2>1
  <2>3. CallInv'
    BY <1>1, <1>2, <1>7, <2>1 DEF CallInv
  <2>4. funcs = 1 /\ event = "OUT" /\ ~(connected /\ LoopIsFree)
    BY <1>5, <1>7, <2>1 DEF ChannelInv
  <2>5. ChannelInv'
    BY <1>1, <1>2, <1>7, <2>1, <2>4 DEF ChannelInv, LoopIsFree
  <2>. QED
    BY <1>3, <2>2, <2>3, <2>5 DEF ClientInv
<1>12. CASE TakeEvent
  <2>1. /\ loopPc = "wait"
        /\ \/ sevent = "IN" /\ loopPc' = "in"
           \/ sevent = "OUT" /\ loopPc' = "out"
        /\ UNCHANGED <<connected, event, sevent, funcs, mainPc>>
    BY <1>12 DEF TakeEvent, channel
  <2>2. TypeOK'
    BY <1>4, <1>5, <2>1
  <2>3. ~(connected /\ LoopIsFree)
    BY <1>7, <2>1 DEF ChannelInv
  <2>4. funcs = 0
    BY <1>5, <1>7, <2>1 DEF ChannelInv
  <2>5. CallInv'
    BY <1>1, <1>2, <1>7, <2>1 DEF CallInv
  <2>6. ChannelInv'
    BY <1>1, <1>2, <1>7, <2>1, <2>3, <2>4 DEF ChannelInv, LoopIsFree
  <2>. QED
    BY <1>3, <2>2, <2>5, <2>6 DEF ClientInv
<1>13. CASE HandleEof
  <2>1. /\ loopPc = "in" /\ loopPc' = "wait" /\ event' = "none" /\ sevent' = "none"
        /\ UNCHANGED <<connected, funcs, mainPc>>
    BY <1>13 DEF HandleEof, UpdateChannel
  <2>2. TypeOK'
    BY <1>4, <1>5, <1>6, <2>1
  <2>3. funcs = 0 /\ ~LoopIsFree
    BY <1>5, <1>7, <2>1 DEF ChannelInv
  <2>4. CallInv'
    BY <1>1, <1>2, <1>7, <2>1 DEF CallInv
  <2>5. ChannelInv'
    BY <1>1, <1>2, <1>7, <2>1, <2>3 DEF ChannelInv, LoopIsFree
  <2>. QED
    BY <1>3, <2>2, <2>4, <2>5 DEF ClientInv
<1>14. CASE CloseCallback
  <2>1. /\ loopPc = "cleared" /\ loopPc' = "wait" /\ event' = "none" /\ sevent' = "none"
        /\ UNCHANGED <<connected, funcs, mainPc>>
    BY <1>14 DEF CloseCallback, UpdateChannel
  <2>2. TypeOK'
    BY <1>4, <1>5, <1>6, <2>1
  <2>3. funcs = 0 /\ ~Unanswered
    BY <1>5, <1>7, <2>1 DEF ChannelInv
  <2>4. CallInv'
    BY <1>1, <1>2, <1>7, <2>1 DEF CallInv
  <2>5. mainPc = "idle"
    BY <1>7, <2>3 DEF CallInv
  <2>6. ChannelInv'
    BY <1>1, <1>2, <1>7, <2>1, <2>3, <2>5 DEF ChannelInv, LoopIsFree
  <2>. QED
    BY <1>3, <2>2, <2>4, <2>6 DEF ClientInv
<1>15. CASE HandleConnect
  <2>1. /\ loopPc = "out" /\ ~connected /\ connected' = (net # "refused") /\ loopPc' = "conn"
        /\ UNCHANGED <<event, sevent, funcs, mainPc>>
    BY <1>15 DEF HandleConnect
  <2>2. TypeOK'
    BY <1>4, <1>5, <2>1
  <2>3. funcs = 0 /\ last = 0 /\ sevent # "IN"
    BY <1>5, <1>7, <2>1 DEF ChannelInv
  <2>4. CallInv'
    BY <1>1, <1>2, <1>7, <2>1 DEF CallInv
  <2>5. ChannelInv'
    BY <1>1, <1>2, <1>7, <2>1, <2>3 DEF ChannelInv
  <2>. QED
    BY <1>3, <2>2, <2>4, <2>5 DEF ClientInv
<1>16. CASE ConnectReset
  <2>1. /\ loopPc = "conn" /\ loopPc' = "wait" /\ event' = "none" /\ sevent' = "none"
        /\ UNCHANGED <<connected, funcs, mainPc>>
    BY <1>16 DEF ConnectReset, UpdateChannel
  <2>2. TypeOK'
    BY <1>4, <1>5, <1>6, <2>1
  <2>3. funcs = 0 /\ last = 0
    BY <1>5, <1>7, <2>1 DEF ChannelInv
  <2>4. CallInv' /\ mainPc = "idle"
    BY <1>1, <1>2, <1>7, <2>1, <2>3 DEF CallInv
  <2>5. ChannelInv'
    BY <1>1, <1>2, <1>7, <2>1, <2>3, <2>4 DEF ChannelInv, LoopIsFree
  <2>. QED
    BY <1>3, <2>2, <2>4, <2>5 DEF ClientInv
<1>. QED
  BY <1>9, <1>10, <1>11, <1>12, <1>13, <1>14, <1>15, <1>16

\* write_fd in the loop, and in a call without done.
LEMMA SendStep ==
  ASSUME ClientInv, NEW take, SyncWrite(take) \/ HandleOut(take)
  PROVE  ClientInv'
<1>1. /\ UNCHANGED <<async, net, back, broken, connected, funcs, last, ctx, session,
                     rbuf, answers>>
      /\ WriteFd(take) \/ UNCHANGED <<wbuf, wire>>
  BY DEF SyncWrite, HandleOut, channel
<1>2. CallInv /\ ChannelInv /\ DataInv /\ AnswersInv /\ TypeOK
  BY DEF ClientInv
<1>3. Unanswered' <=> Unanswered
  BY <1>1 DEF Unanswered
<1>4. Unanswered
  <2>1. CASE SyncWrite(take)
    BY <1>2, <2>1 DEF SyncWrite, CallInv
  <2>2. CASE HandleOut(take)
    BY <1>2, <2>2 DEF HandleOut, ChannelInv, LoopIsFree
  <2>. QED
    BY <2>1, <2>2
<1>5. AnswersInv'
  BY <1>1, <1>2, <1>3 DEF AnswersInv
<1>6. /\ wbuf' \in [header : 0..2, payload : 0..1]
      /\ wire' \in Seq(Calls \X {"header", "payload"})
      /\ DataInv'
  <2>1. CASE WriteFd(take)
    <3>1. Asking'
      BY <1>1, <1>4, <2>1, WriteStep DEF Asking
    <3>. QED
      BY <1>3, <1>4, <2>1, <3>1, WriteStep DEF DataInv
  <2>2. CASE UNCHANGED <<wbuf, wire>>
    BY <1>1, <1>2, <1>3, <2>2 DEF DataInv, Asking, Answering, TypeOK
  <2>. QED
    BY <1>1, <2>1, <2>2
<1>7. CASE SyncWrite(take)
  <2>1. /\ mainPc = "write" /\ mainPc' \in {"write", "read"}
        /\ UNCHANGED <<event, sevent, loopPc>>
    BY <1>7 DEF SyncWrite, channel
  <2>2. TypeOK'
    BY <1>1, <1>2, <1>6, <2>1 DEF TypeOK
  <2>3. CallInv'
    BY <1>1, <1>2, <1>3, <2>1 DEF CallInv
  <2>4. ChannelInv'
    BY <1>1, <1>2, <1>3, <2>1 DEF ChannelInv, LoopIsFree
  <2>. QED
    BY <1>5, <1>6, <2>2, <2>3, <2>4 DEF ClientInv
<1>8. CASE HandleOut(take)
  <2>1. /\ loopPc = "out" /\ connected /\ loopPc' = "wait"
        /\ UNCHANGED mainPc
        /\ \/ event' = "IN" /\ sevent' = "IN"
           \/ UNCHANGED <<event, sevent>>
    BY <1>8 DEF HandleOut, AfterWrite, UpdateChannel
  <2>2. funcs = 0 /\ mainPc = "idle" /\ sevent = "OUT"
    BY <1>2, <2>1 DEF ChannelInv, LoopIsFree, TypeOK
  <2>3. event' \in Masks /\ sevent' \in Masks
    BY <1>2, <2>1 DEF TypeOK, Masks
  <2>4. TypeOK'
    BY <1>1, <1>2, <1>6, <2>1, <2>3 DEF TypeOK
  <2>5. CallInv'
    BY <1>1, <1>2, <1>3, <2>1 DEF CallInv
  <2>6. ChannelInv'
    BY <1>1, <1>2, <1>3, <1>4, <2>1, <2>2 DEF ChannelInv, LoopIsFree
  <2>. QED
    BY <1>5, <1>6, <2>4, <2>5, <2>6 DEF ClientInv
<1>. QED
  BY <1>7, <1>8

\* read_fd in the loop, and in a call without done.
LEMMA ReceiveStep ==
  ASSUME ClientInv, NEW n \in 1..2, SyncRead(n) \/ HandleIn(n)
  PROVE  ClientInv'
<1>1. /\ UNCHANGED <<async, net, wire, broken, connected, funcs, last, wbuf>>
      /\ ReadFd(n)
      /\ \/ ~Parsed(rbuf') /\ UNCHANGED answers
         \/ Parsed(rbuf') /\ Deliver
  BY DEF SyncRead, HandleIn, channel
<1>2. CallInv /\ ChannelInv /\ DataInv /\ AnswersInv /\ TypeOK
  BY DEF ClientInv
<1>3. Unanswered
  <2>1. CASE SyncRead(n)
    BY <1>2, <2>1 DEF SyncRead, CallInv
  <2>2. CASE HandleIn(n)
    BY <1>2, <2>2 DEF HandleIn, ChannelInv, LoopIsFree
  <2>. QED
    BY <2>1, <2>2
<1>4. /\ answers' \in Seq([call : Calls, of : Calls])
      /\ AnswersInv'
      /\ Unanswered' <=> ~Parsed(rbuf')
  <2>1. CASE Parsed(rbuf')
    BY <1>1, <1>3, <2>1, DeliverStep
  <2>2. CASE ~Parsed(rbuf')
    <3>1. UNCHANGED <<answers, last>>
      BY <1>1, <2>2
    <3>2. Unanswered' <=> Unanswered
      BY <3>1 DEF Unanswered
    <3>3. AnswersInv'
      BY <1>2, <3>1, <3>2 DEF AnswersInv
    <3>. QED
      BY <1>2, <1>3, <2>2, <3>1, <3>2, <3>3 DEF TypeOK
  <2>. QED
    BY <2>1, <2>2
<1>5. rbuf' \in Seq(0..MaxCalls) /\ back' \in Seq(0..MaxCalls)
  BY <1>1, <1>3, ReadStep
<1>6. DataInv'
  <2>1. Answering /\ Answering'
    BY <1>1, <1>3, ReadStep DEF Answering
  <2>2. ~Unanswered' => wire' = <<>> /\ back' = <<>> /\ wbuf' = Empty
    BY <1>1, <1>3, <1>4, <2>1, ReadStep DEF Answering
  <2>. QED
    BY <2>1, <2>2 DEF DataInv
<1>7. CASE SyncRead(n)
  <2>1. mainPc = "read" /\ UNCHANGED loopPc
    BY <1>7 DEF SyncRead
  <2>2. loopPc = "wait" /\ funcs = 0 /\ sevent = "none" /\ event = "none" /\ connected
    BY <1>2, <1>3, <2>1 DEF CallInv, ChannelInv, LoopIsFree
  <2>3. CASE Parsed(rbuf')
    <3>1. event' = "none" /\ sevent' = "none" /\ ctx' = 0 /\ session' = NoSession /\ mainPc' = "idle"
      BY <1>7, <2>3 DEF SyncRead
    <3>2. session' \in [call : 0..MaxCalls, done : BOOLEAN] /\ ctx' \in 0..MaxCalls
      BY <3>1, BoundNat DEF NoSession
    <3>3. event' \in Masks /\ sevent' \in Masks
      BY <3>1 DEF Masks
    <3>4. TypeOK'
      BY <1>1, <1>2, <1>4, <1>5, <2>1, <3>1, <3>2, <3>3 DEF TypeOK
    <3>5. CallInv'
      BY <1>4, <2>1, <2>2, <2>3, <3>1 DEF CallInv
    <3>6. ChannelInv'
      BY <1>1, <1>4, <2>1, <2>2, <3>1 DEF ChannelInv
    <3>. QED
      BY <1>4, <1>6, <3>4, <3>5, <3>6 DEF ClientInv
  <2>4. CASE ~Parsed(rbuf')
    <3>1. UNCHANGED <<event, sevent, ctx, session, mainPc>>
      BY <1>7, <2>4 DEF SyncRead
    <3>2. TypeOK'
      BY <1>1, <1>2, <1>4, <1>5, <2>1, <3>1 DEF TypeOK
    <3>3. CallInv'
      BY <1>1, <1>2, <1>3, <1>4, <2>1, <2>4, <3>1 DEF CallInv
    <3>4. ChannelInv'
      BY <1>1, <1>2, <2>1, <2>2, <3>1 DEF ChannelInv
    <3>. QED
      BY <1>4, <1>6, <3>2, <3>3, <3>4 DEF ClientInv
  <2>. QED
    BY <2>3, <2>4
<1>8. CASE HandleIn(n)
  <2>1. /\ loopPc = "in"
        /\ UNCHANGED <<event, sevent, ctx, session, mainPc>>
        /\ loopPc' = IF Parsed(rbuf') THEN "ran" ELSE "wait"
    BY <1>8 DEF HandleIn, channel
  <2>2. mainPc = "idle" /\ connected /\ funcs = 0
    BY <1>2, <2>1 DEF ChannelInv, LoopIsFree, TypeOK
  <2>3. TypeOK'
    BY <1>1, <1>2, <1>4, <1>5, <2>1 DEF TypeOK
  <2>4. CallInv'
    BY <1>1, <1>2, <1>3, <1>4, <2>1, <2>2 DEF CallInv
  <2>5. ChannelInv'
    BY <1>1, <1>2, <1>4, <2>1, <2>2 DEF ChannelInv, LoopIsFree
  <2>. QED
    BY <1>4, <1>6, <2>3, <2>4, <2>5 DEF ClientInv
<1>. QED
  BY <1>7, <1>8

\* response_callback after done->Run().
LEMMA ClearStep ==
  ASSUME ClientInv, ClearSession
  PROVE  ClientInv'
<1>1. /\ loopPc = "ran" /\ ctx' = 0 /\ session' = NoSession /\ loopPc' = "cleared"
      /\ UNCHANGED <<async, net, wire, back, broken, connected, event, sevent, funcs,
                     mainPc, last, rbuf, wbuf, answers>>
  BY DEF ClearSession, kernel, channel
<1>2. Unanswered' <=> Unanswered
  BY <1>1 DEF Unanswered
<1>3. CallInv /\ ChannelInv /\ ~Unanswered
  BY <1>1 DEF ClientInv, CallInv
<1>4. session' \in [call : 0..MaxCalls, done : BOOLEAN] /\ ctx' \in 0..MaxCalls
  BY <1>1, BoundNat DEF NoSession
<1>5. TypeOK'
  BY <1>1, <1>4 DEF ClientInv, TypeOK
<1>6. AnswersInv' /\ DataInv'
  BY <1>1, <1>2, <1>3 DEF ClientInv, AnswersInv, DataInv
<1>7. CallInv'
  BY <1>1, <1>2, <1>3 DEF CallInv
<1>8. ChannelInv'
  BY <1>1, <1>2, <1>3 DEF ChannelInv
<1>. QED
  BY <1>5, <1>6, <1>7, <1>8 DEF ClientInv

\* The network and the server: a request is answered once.
LEMMA PeerStep ==
  ASSUME ClientInv, Resolve \/ Respond \/ ServerClose
  PROVE  ClientInv'
<1>1. UNCHANGED <<async, connected, event, sevent, funcs, loopPc, mainPc, last, ctx,
                  session, rbuf, wbuf, answers>>
  BY DEF Resolve, Respond, ServerClose, channel, call
<1>2. Unanswered' <=> Unanswered
  BY <1>1 DEF Unanswered
<1>3. AnswersInv' /\ CallInv' /\ ChannelInv'
  <2>1. AnswersInv'
    BY <1>1, <1>2 DEF ClientInv, AnswersInv
  <2>2. CallInv'
    BY <1>1, <1>2 DEF ClientInv, CallInv
  <2>3. ChannelInv'
    BY <1>1, <1>2 DEF ClientInv, ChannelInv, LoopIsFree
  <2>. QED
    BY <2>1, <2>2, <2>3
<1>4. CASE Resolve \/ ServerClose
  <2>1. net' \in {"connecting", "up", "refused", "closed"} /\ UNCHANGED <<wire, back, broken>>
    BY <1>4 DEF Resolve, ServerClose
  <2>2. TypeOK'
    BY <1>1, <2>1 DEF ClientInv, TypeOK
  <2>3. DataInv'
    BY <1>1, <1>2, <2>1 DEF ClientInv, DataInv, Asking, Answering
  <2>. QED
    BY <1>3, <2>2, <2>3 DEF ClientInv
<1>5. CASE Respond
  <2>1. PICK c \in Calls :
          /\ wire = Request(c)
          /\ \/ back' = back \o <<c, c>> /\ UNCHANGED broken
             \/ back' = back \o <<0, 0>> /\ broken' = TRUE
    BY <1>5 DEF Respond
  <2>2. wire' = <<>> /\ UNCHANGED net
    BY <1>5 DEF Respond
  <2>3. Len(wire) = 3 /\ wire[1][1] = c
    BY <2>1 DEF Request
  <2>4. Asking /\ Unanswered
    BY <2>3 DEF ClientInv, DataInv, Answering
  <2>5. c = last
    BY <2>3, <2>4 DEF Asking
  <2>6. \E r \in {0, last} : back' = <<r, r>>
    BY <2>1, <2>4, <2>5 DEF Asking
  <2>7. PICK r \in {0, last} : back' = <<r, r>>
    BY <2>6
  <2>8. r \in 0..MaxCalls
    BY <2>7, BoundNat DEF ClientInv, TypeOK
  <2>9. back' \in Seq(0..MaxCalls) /\ Len(back') = 2 /\ \A i \in 1..2 : back'[i] = r
    BY <2>7, <2>8
  <2>10. broken' \in BOOLEAN
    BY <2>1 DEF ClientInv, TypeOK
  <2>11. TypeOK'
    BY <1>1, <2>2, <2>9, <2>10 DEF ClientInv, TypeOK
  <2>12. wbuf = Empty
    <3>1. /\ wbuf \in [header : 0..2, payload : 0..1]
          /\ 3 + wbuf.header + wbuf.payload = 3
      BY <2>3, <2>4 DEF ClientInv, TypeOK, Asking
    <3>2. wbuf.header = 0 /\ wbuf.payload = 0
      BY <3>1
    <3>. QED
      BY <3>1, <3>2 DEF Empty
  <2>13. Answering'
    <3>1. Len(rbuf') = 0
      BY <1>1, <2>4 DEF Asking
    <3>. QED
      BY <1>1, <2>2, <2>7, <2>9, <2>12, <3>1 DEF Answering
  <2>14. DataInv'
    BY <1>2, <2>4, <2>13 DEF DataInv
  <2>. QED
    BY <1>3, <2>11, <2>14 DEF ClientInv
<1>. QED
  BY <1>4, <1>5

\* Every step of the caller, the loop and the server keeps the invariant.
LEMMA ClientStep ==
  ASSUME Overlap = "none", ClientInv, [Next]_vars
  PROVE  ClientInv'
<1>1. CASE UNCHANGED vars
  BY <1>1 DEF vars, kernel, channel, call, ClientInv, TypeOK, AnswersInv, CallInv,
              ChannelInv, DataInv, Unanswered, LoopIsFree, Asking, Answering
<1>. QED
  BY <1>1, CallStep, ControlStep, SendStep, ReceiveStep, ClearStep, PeerStep
     DEF Next, Caller, Loop, Server
-----------------------------------------------------------------------------
\* The invariant holds in every run.
LEMMA ClientAlways ==
  ASSUME Overlap = "none"
  PROVE  Spec => []ClientInv
<1>1. Init => ClientInv
  BY ClientInit
<1>2. ClientInv /\ [Next]_vars => ClientInv'
  BY ClientStep
<1>. QED
  BY <1>1, <1>2, PTL DEF Spec

\* The members of PbClient, the kernel's queues and the history stay in
\* their types, however many calls are made: no unit of a request without a
\* call is ever written, no call 0 ever answered.
THEOREM ClientTypes ==
  ASSUME Overlap = "none"
  PROVE  Spec => []TypeOK
<1>1. ClientInv => TypeOK
  BY DEF ClientInv
<1>. QED
  BY <1>1, ClientAlways, PTL

\* Whenever the loop is about to run data_read_callback, or is in it, _ctx
\* and _session are those of the one call that waits.
THEOREM ContextAlways ==
  ASSUME Overlap = "none"
  PROVE  Spec => []ContextAlive
<1>1. ASSUME ClientInv PROVE ContextAlive
  <2>1. CallInv /\ ChannelInv /\ session \in [call : 0..MaxCalls, done : BOOLEAN]
    BY <1>1 DEF ClientInv, TypeOK
  <2>2. ASSUME loopPc \in {"in", "ran"} \/ (loopPc = "wait" /\ sevent = "IN")
        PROVE  ctx = last /\ session = [call |-> last, done |-> TRUE]
    <3>1. loopPc = "ran" \/ (connected /\ ~LoopIsFree)
      BY <2>1, <2>2 DEF ChannelInv
    <3>2. mainPc = "idle"
      BY <2>1, <3>1 DEF CallInv, LoopIsFree
    <3>3. ctx = last /\ ctx # 0 /\ session.call = last
      BY <2>1, <3>1 DEF CallInv, LoopIsFree
    <3>4. session.done = TRUE
      BY <2>1, <3>2, <3>3 DEF CallInv
    <3>. QED
      BY <2>1, <3>3, <3>4
  <2>. QED
    BY <2>2 DEF ContextAlive
<1>. QED
  BY <1>1, ClientAlways, PTL

\* Between two calls nothing is left of the last one: not in epoll, in the queue
\* of the loop, in _wbuf, on its way in either direction or in _ctx.
THEOREM IdleAlwaysQuiet ==
  ASSUME Overlap = "none"
  PROVE  Spec => []IdleIsQuiet
<1>1. ASSUME ClientInv PROVE IdleIsQuiet
  <2>1. ASSUME connected, Informed, mainPc = "idle", loopPc = "wait"
        PROVE  /\ event = "none" /\ sevent = "none" /\ funcs = 0
               /\ wbuf = Empty /\ wire = <<>> /\ back = <<>> /\ ctx = 0
    <3>1. answers \in Seq([call : Calls, of : Calls]) /\ last \in Nat
      BY <1>1, BoundNat DEF ClientInv, TypeOK
    <3>2. ~Unanswered
      <4>1. ASSUME NEW i \in DOMAIN answers, answers[i].call = last PROVE ~Unanswered
        <5>1. i \in 1..Len(answers) /\ Len(answers) \in Nat
          BY <3>1, LenProperties
        <5>2. answers[i] = [call |-> i, of |-> i]
          BY <1>1, <5>1 DEF ClientInv, AnswersInv
        <5>. QED
          BY <1>1, <4>1, <5>1, <5>2 DEF ClientInv, AnswersInv
      <4>2. CASE last = 0
        BY <1>1, <4>2 DEF ClientInv, CallInv
      <4>. QED
        BY <2>1, <4>1, <4>2 DEF Informed
    <3>. QED
      BY <1>1, <2>1, <3>2 DEF ClientInv, ChannelInv, LoopIsFree, DataInv, CallInv
  <2>. QED
    BY <2>1 DEF IdleIsQuiet
<1>. QED
  BY <1>1, ClientAlways, PTL
-----------------------------------------------------------------------------
\* What the abstract channel sees, in terms of the number of answers.
LEMMA ChannelView ==
  ClientInv =>
    \A c \in Calls :
      /\ c > last => Status(c) = "new" /\ AnswersTo(c) = {}
      /\ c <= last /\ c > Len(answers) => Status(c) = "pending" /\ AnswersTo(c) = {}
      /\ c <= Len(answers) => /\ c <= last
                              /\ Status(c) = "answered"
                              /\ {answers[i].of : i \in AnswersTo(c)} = {c}
<1> SUFFICES ASSUME ClientInv, NEW c \in Calls
             PROVE  /\ c > last => Status(c) = "new" /\ AnswersTo(c) = {}
                    /\ c <= last /\ c > Len(answers)
                         => Status(c) = "pending" /\ AnswersTo(c) = {}
                    /\ c <= Len(answers)
                         => /\ c <= last
                            /\ Status(c) = "answered"
                            /\ {answers[i].of : i \in AnswersTo(c)} = {c}
  OBVIOUS
<1>1. answers \in Seq([call : Calls, of : Calls]) /\ last \in Nat
  BY BoundNat DEF ClientInv, TypeOK
<1>2. Len(answers) \in Nat /\ DOMAIN answers = 1..Len(answers)
  BY <1>1, LenProperties
<1>3. c \in Nat /\ c >= 1
  BY BoundNat DEF Calls
<1>4. \A i \in DOMAIN answers : answers[i].call = i /\ answers[i].of = i
  BY <1>2 DEF ClientInv, AnswersInv
<1>5. Len(answers) \in Nat /\ last \in Nat /\ c \in Nat
      /\ (last = Len(answers) \/ last = Len(answers) + 1)
  BY <1>1, <1>2, <1>3 DEF ClientInv, AnswersInv, Unanswered
<1>6. AnswersTo(c) = {i \in DOMAIN answers : i = c}
  BY <1>4 DEF AnswersTo
<1>7. ASSUME c > Len(answers) PROVE AnswersTo(c) = {}
  BY <1>2, <1>3, <1>6, <1>7
<1>8. ASSUME c <= Len(answers) PROVE AnswersTo(c) = {c}
  BY <1>2, <1>3, <1>6, <1>8
<1>9. Cardinality({}) # 1
  BY FS_EmptySet
<1>10. CASE c > last
  <2>1. c > Len(answers) /\ ~(c <= last) /\ ~(c <= Len(answers))
    BY <1>5, <1>10
  <2>2. AnswersTo(c) = {} /\ Cardinality(AnswersTo(c)) # 1
    BY <1>7, <1>9, <2>1
  <2>3. Status(c) = "new"
    BY <1>10, <2>1, <2>2 DEF Status
  <2>. QED
    BY <2>1, <2>2, <2>3
<1>11. CASE c <= last /\ c > Len(answers)
  <2>1. ~(c > last) /\ ~(c <= Len(answers)) /\ AnswersTo(c) = {}
    BY <1>1, <1>2, <1>3, <1>7, <1>11
  <2>2. Cardinality(AnswersTo(c)) # 1
    BY <1>9, <2>1
  <2>3. Status(c) = "pending"
    BY <1>11, <2>1, <2>2 DEF Status
  <2>. QED
    BY <2>1, <2>3
<1>12. CASE c <= Len(answers)
  <2>1. c <= last /\ ~(c > last) /\ ~(c > Len(answers))
    BY <1>5, <1>12
  <2>2. AnswersTo(c) = {c} /\ AnswersTo(c) # {}
    BY <1>8, <1>12
  <2>3. Cardinality(AnswersTo(c)) = 1
    BY <2>2, FS_Singleton
  <2>4. Status(c) = "answered"
    BY <2>1, <2>2, <2>3 DEF Status
  <2>5. c \in DOMAIN answers
    BY <1>2, <1>3, <1>12
  <2>6. {answers[i].of : i \in AnswersTo(c)} = {c}
    BY <1>4, <2>2, <2>5
  <2>. QED
    BY <2>1, <2>4, <2>6
<1>. QED
  BY <1>1, <1>2, <1>3, <1>10, <1>11, <1>12

\* The same after a step.
LEMMA ChannelViewNext ==
  ClientInv' =>
    \A c \in Calls :
      /\ c > last' => Status(c)' = "new" /\ AnswersTo(c)' = {}
      /\ c <= last' /\ c > Len(answers') => Status(c)' = "pending" /\ AnswersTo(c)' = {}
      /\ c <= Len(answers') => /\ c <= last'
                               /\ Status(c)' = "answered"
                               /\ {answers[i].of : i \in AnswersTo(c)}' = {c}
<1>1. (ClientInv =>
        \A c \in Calls :
          /\ c > last => Status(c) = "new" /\ AnswersTo(c) = {}
          /\ c <= last /\ c > Len(answers) => Status(c) = "pending" /\ AnswersTo(c) = {}
          /\ c <= Len(answers) => /\ c <= last
                                  /\ Status(c) = "answered"
                                  /\ {answers[i].of : i \in AnswersTo(c)} = {c})'
  BY ChannelView, PTL
<1>. QED
  BY <1>1

\* The status and the replies of the calls, as the abstract channel sees them.
StatusView == [c \in Calls |-> Status(c)]
ReplyView == [c \in Calls |-> {answers[i].of : i \in AnswersTo(c)}]

\* A step that makes no call and delivers no answer changes neither.
LEMMA ViewsKept ==
  ASSUME UNCHANGED <<last, answers>>
  PROVE  UNCHANGED <<StatusView, ReplyView>>
<1>1. ASSUME NEW c \in Calls PROVE AnswersTo(c)' = AnswersTo(c)
  BY DEF AnswersTo
<1>2. ASSUME NEW c \in Calls PROVE Status(c)' = Status(c)
  BY <1>1 DEF Status
<1>3. ASSUME NEW c \in Calls
      PROVE  {answers[i].of : i \in AnswersTo(c)}' = {answers[i].of : i \in AnswersTo(c)}
  BY <1>1
<1>. QED
  BY <1>2, <1>3 DEF StatusView, ReplyView

\* CallMethod is the abstract Call of the next call.
LEMMA CallRefines ==
  ASSUME Overlap = "none", ClientInv, ClientInv', NEW done \in BOOLEAN, CallMethod(done)
  PROVE  \E c \in Channel!Calls : Channel!Call(c)
<1>1. UNCHANGED <<net, broken, answers>> /\ last' = last + 1
  BY DEF CallMethod, kernel
<1>2. last \in Nat /\ Len(answers) \in Nat /\ last + 1 \in Calls
  <2>1. last \in 0..MaxCalls /\ last < MaxCalls /\ answers \in Seq([call : Calls, of : Calls])
    BY DEF CallMethod, MayCall, ClientInv, TypeOK
  <2>. QED
    BY <2>1, BoundNat, LenProperties DEF Calls
<1>3. Len(answers) = last
  <2>1. last = Len(answers) \/ last = Len(answers) + 1
    BY DEF ClientInv, AnswersInv, Unanswered
  <2>2. last' = Len(answers') \/ last' = Len(answers') + 1
    BY DEF ClientInv, AnswersInv, Unanswered
  <2>. QED
    BY <1>1, <1>2, <2>1, <2>2
<1>4. ASSUME NEW d \in Calls
      PROVE  /\ Status(d) = IF d < last + 1 THEN "answered" ELSE "new"
             /\ Status(d)' = IF d = last + 1 THEN "pending" ELSE Status(d)
             /\ {answers[i].of : i \in AnswersTo(d)}' = {answers[i].of : i \in AnswersTo(d)}
  <2>1. d \in Nat
    BY BoundNat DEF Calls
  <2>2. CASE d < last + 1
    <3>1. d <= Len(answers) /\ d <= Len(answers') /\ d # last + 1
      BY <1>1, <1>2, <1>3, <2>1, <2>2
    <3>. QED
      BY <2>2, <3>1, ChannelView, ChannelViewNext
  <2>3. CASE d = last + 1
    <3>1. d > last /\ d <= last' /\ d > Len(answers') /\ ~(d < last + 1)
      BY <1>1, <1>2, <1>3, <2>1, <2>3
    <3>2. Status(d) = "new" /\ AnswersTo(d) = {}
      BY <3>1, ChannelView
    <3>3. Status(d)' = "pending" /\ AnswersTo(d)' = {}
      BY <3>1, ChannelViewNext
    <3>. QED
      BY <2>3, <3>1, <3>2, <3>3
  <2>4. CASE d > last + 1
    <3>1. d > last /\ d > last' /\ ~(d < last + 1) /\ d # last + 1
      BY <1>1, <1>2, <2>1, <2>4
    <3>2. Status(d) = "new" /\ AnswersTo(d) = {}
      BY <3>1, ChannelView
    <3>3. Status(d)' = "new" /\ AnswersTo(d)' = {}
      BY <3>1, ChannelViewNext
    <3>. QED
      BY <3>1, <3>2, <3>3
  <2>5. d < last + 1 \/ d = last + 1 \/ d > last + 1
    BY <1>2, <2>1
  <2>. QED
    BY <2>2, <2>3, <2>4, <2>5
<1>5. \A d \in Calls : StatusView[d] = IF d < last + 1 THEN "answered" ELSE "new"
  BY <1>4 DEF StatusView
<1>6. StatusView' = [StatusView EXCEPT ![last + 1] = "pending"]
  BY <1>4 DEF StatusView
<1>7. ReplyView' = ReplyView
  BY <1>4 DEF ReplyView
<1>8. StatusView[last + 1] = "new"
  BY <1>2, <1>5
<1>9. Channel!Call(last + 1)
  BY <1>1, <1>5, <1>6, <1>7, <1>8 DEF Channel!Call, Channel!Calls, Calls, StatusView, ReplyView
<1>. QED
  BY <1>2, <1>9 DEF Calls, Channel!Calls

\* Delivering a response is the abstract Answer of the last call.
LEMMA AnswerRefines ==
  ASSUME ClientInv, ClientInv', NEW n \in 1..2, ReadFd(n), Parsed(rbuf'), Deliver,
         Unanswered, UNCHANGED <<net, broken, last>>
  PROVE  \E c \in Channel!Calls : Channel!Answer(c)
<1>1. last = Len(answers) + 1 /\ Len(answers') = last
  BY DeliverStep DEF ClientInv, AnswersInv, Unanswered
<1>2. last \in Calls /\ Len(answers) \in Nat /\ last \in Nat
  <2>1. last \in 0..MaxCalls /\ answers \in Seq([call : Calls, of : Calls])
    BY DEF ClientInv, TypeOK
  <2>. QED
    BY <1>1, <2>1, BoundNat, LenProperties DEF Calls
<1>3. ASSUME NEW d \in Calls
      PROVE  /\ d = last => /\ Status(d) = "pending"
                            /\ Status(d)' = "answered"
                            /\ {answers[i].of : i \in AnswersTo(d)}' = {d}
             /\ d # last => /\ Status(d)' = Status(d)
                            /\ {answers[i].of : i \in AnswersTo(d)}'
                                 = {answers[i].of : i \in AnswersTo(d)}
  <2>1. d \in Nat
    BY BoundNat DEF Calls
  <2>2. CASE d = last
    <3>1. d <= last /\ d > Len(answers) /\ d <= Len(answers')
      BY <1>1, <1>2, <2>1, <2>2
    <3>. QED
      BY <2>2, <3>1, ChannelView, ChannelViewNext
  <2>3. CASE d < last
    <3>1. d <= Len(answers) /\ d <= Len(answers') /\ d # last
      BY <1>1, <1>2, <2>1, <2>3
    <3>. QED
      BY <3>1, ChannelView, ChannelViewNext
  <2>4. CASE d > last
    <3>1. d > last /\ d > last' /\ d # last
      BY <1>1, <1>2, <2>1, <2>4
    <3>2. Status(d) = "new" /\ AnswersTo(d) = {}
      BY <3>1, ChannelView
    <3>3. Status(d)' = "new" /\ AnswersTo(d)' = {}
      BY <3>1, ChannelViewNext
    <3>. QED
      BY <3>1, <3>2, <3>3
  <2>5. d < last \/ d = last \/ d > last
    BY <1>2, <2>1
  <2>. QED
    BY <2>2, <2>3, <2>4, <2>5
<1>4. PICK k \in Calls : k = last
  BY <1>2
<1>5. StatusView[k] = "pending"
  BY <1>3, <1>4 DEF StatusView
<1>6. StatusView' = [StatusView EXCEPT ![k] = "answered"]
  BY <1>3, <1>4 DEF StatusView
<1>7. ReplyView' = [ReplyView EXCEPT ![k] = {k}]
  BY <1>3, <1>4 DEF ReplyView
<1>8. Channel!Answer(k)
  BY <1>5, <1>6, <1>7 DEF Channel!Answer, StatusView, ReplyView
<1>. QED
  BY <1>4, <1>8 DEF Calls, Channel!Calls

\* Every step of the client is a step of the abstract channel or leaves it.
LEMMA RefinesStep ==
  ASSUME Overlap = "none", ClientInv, ClientInv', [Next]_vars
  PROVE  [Channel!Next]_(Channel!chanVars)
<1>1. ASSUME UNCHANGED <<last, answers>>,
             (net \in {"refused", "closed"} \/ broken)' \/ UNCHANGED <<net, broken>>
      PROVE  Channel!Lose \/ UNCHANGED Channel!chanVars
  <2>1. UNCHANGED <<StatusView, ReplyView>>
    BY <1>1, ViewsKept
  <2>2. CASE UNCHANGED <<net, broken>>
    BY <2>1, <2>2 DEF Channel!chanVars, StatusView, ReplyView
  <2>3. CASE (net \in {"refused", "closed"} \/ broken)'
    BY <2>1, <2>3 DEF Channel!Lose, StatusView, ReplyView
  <2>. QED
    BY <1>1, <2>2, <2>3
<1>2. ASSUME NEW done \in BOOLEAN, CallMethod(done) PROVE Channel!Next
  BY <1>2, CallRefines DEF Channel!Next
<1>3. ASSUME NEW n \in 1..2, SyncRead(n) \/ HandleIn(n)
      PROVE  Channel!Next \/ UNCHANGED Channel!chanVars
  <2>1. /\ ReadFd(n) /\ UNCHANGED <<net, broken, last>>
        /\ \/ ~Parsed(rbuf') /\ UNCHANGED answers
           \/ Parsed(rbuf') /\ Deliver
    BY <1>3 DEF SyncRead, HandleIn
  <2>2. Unanswered
    <3>1. CASE SyncRead(n)
      BY <3>1 DEF ClientInv, SyncRead, CallInv
    <3>2. CASE HandleIn(n)
      BY <3>2 DEF ClientInv, HandleIn, ChannelInv, LoopIsFree
    <3>. QED
      BY <1>3, <3>1, <3>2
  <2>3. CASE Parsed(rbuf')
    BY <2>1, <2>2, <2>3, AnswerRefines DEF Channel!Next
  <2>4. CASE ~Parsed(rbuf')
    BY <1>1, <2>1, <2>4 DEF Channel!Next
  <2>. QED
    BY <2>3, <2>4
<1>4. ASSUME \/ SetEvent \/ AddFunc \/ RunFunc \/ TakeEvent \/ HandleEof
             \/ CloseCallback \/ HandleConnect \/ ConnectReset \/ ClearSession
      PROVE  UNCHANGED <<last, answers, net, broken>>
  BY <1>4 DEF SetEvent, AddFunc, RunFunc, TakeEvent, HandleEof, CloseCallback,
              HandleConnect, ConnectReset, ClearSession, kernel, call
<1>5. ASSUME NEW take, SyncWrite(take) \/ HandleOut(take)
      PROVE  UNCHANGED <<last, answers, net, broken>>
  BY <1>5 DEF SyncWrite, HandleOut
<1>6. ASSUME Resolve \/ Respond \/ ServerClose
      PROVE  /\ UNCHANGED <<last, answers>>
             /\ (net \in {"refused", "closed"} \/ broken)' \/ UNCHANGED <<net, broken>>
                \/ (UNCHANGED broken /\ net = "connecting" /\ net' = "up")
  BY <1>6 DEF Resolve, Respond, ServerClose, call
<1>7. ASSUME UNCHANGED vars PROVE UNCHANGED <<last, answers, net, broken>>
  BY <1>7 DEF vars, kernel, call
<1>8. ASSUME UNCHANGED <<last, answers, broken>>, net = "connecting", net' = "up"
      PROVE  UNCHANGED Channel!chanVars
  <2>1. UNCHANGED <<StatusView, ReplyView>>
    BY <1>8, ViewsKept
  <2>2. (net \in {"refused", "closed"} \/ broken)' = (net \in {"refused", "closed"} \/ broken)
    BY <1>8
  <2>. QED
    BY <2>1, <2>2 DEF Channel!chanVars, StatusView, ReplyView
<1>9. ASSUME UNCHANGED <<last, answers, net, broken>>
      PROVE  Channel!Next \/ UNCHANGED Channel!chanVars
  BY <1>1, <1>9 DEF Channel!Next
<1>10. ASSUME Resolve \/ Respond \/ ServerClose
       PROVE  Channel!Next \/ UNCHANGED Channel!chanVars
  BY <1>1, <1>6, <1>8, <1>10 DEF Channel!Next
<1>. QED
  BY <1>2, <1>3, <1>4, <1>5, <1>7, <1>9, <1>10 DEF Next, Caller, Loop, Server

\* The client implements the abstract RpcChannel for any number of calls:
\* one call at a time, each answered at most once and with its own response.
THEOREM ClientImplementsChannel ==
  ASSUME Overlap = "none"
  PROVE  Spec => ImplementsChannel
<1>1. ASSUME Init PROVE Channel!Init
  <2>1. last = 0 /\ answers = <<>>
    BY <1>1 DEF Init
  <2>2. ASSUME NEW c \in Calls PROVE Status(c) = "new" /\ AnswersTo(c) = {}
    <3>1. c > last
      BY <2>1, BoundNat DEF Calls
    <3>. QED
      BY <1>1, <3>1, ClientInit, ChannelView
  <2>3. StatusView = [c \in Calls |-> "new"] /\ ReplyView = [c \in Calls |-> {}]
    BY <2>2 DEF StatusView, ReplyView
  <2>4. (net \in {"refused", "closed"} \/ broken) \in BOOLEAN
    BY <1>1 DEF Init
  <2>. QED
    BY <2>3, <2>4 DEF Channel!Init, Channel!Calls, Calls, StatusView, ReplyView
<1>2. ClientInv /\ ClientInv' /\ [Next]_vars => [Channel!Next]_(Channel!chanVars)
  BY RefinesStep
<1>. QED
  BY <1>1, <1>2, ClientAlways, PTL DEF Spec, ImplementsChannel, Channel!Spec
=============================================================================
