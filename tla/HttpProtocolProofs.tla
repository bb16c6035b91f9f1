------------------------- MODULE HttpProtocolProofs -------------------------
(***************************************************************************)
(* Proofs about HttpProtocol, for any messages, cut in any way, and any    *)
(* size of the window: a verdict is right, a message handed on is the one  *)
(* that was sent, and no message waits for a read that never comes.        *)
(***************************************************************************)
EXTENDS HttpProtocol, WellFoundedInduction, SequenceTheorems, TLAPS

-----------------------------------------------------------------------------
(***************************************************************************)
(* The inductive invariant.                                                *)
(***************************************************************************)
\* Header k has that key and a value; it is the first one that does.
Valued(m, key, k) ==
  /\ k \in 1..Len(m.headers)
  /\ m.headers[k].key = key
  /\ m.headers[k].text # "blank"

IsFirst(m, key, k) == Valued(m, key, k) /\ \A j \in 1..k - 1 : ~Valued(m, key, j)

\* The context after the first k headers: the keys that had a value, ...
KeysRead(m, k, keys) ==
  /\ \A j \in 1..k : j <= Len(m.headers) => m.headers[j].key # "none"
  /\ \A key \in Keys : key \in keys <=> \E j \in 1..k : Valued(m, key, j)

\* ... the first Content-Length, ...
LengthRead(m, k, keys, size) ==
  IF "Content-Length" \in keys
    THEN \E j \in 1..k : /\ IsFirst(m, "Content-Length", j)
                         /\ m.headers[j].text = "number" /\ m.headers[j].number = size
    ELSE size = 0

\* ... and the first Connection of a request.
ConnRead(m, k, keys, type) ==
  IF "Connection" \in keys
    THEN \E j \in 1..k : /\ IsFirst(m, "Connection", j)
                         /\ type = "Single" <=> m.headers[j].text = "Keep-Alive"
    ELSE type = "Short"

ContextRead(m, k, keys, size, type) ==
  /\ KeysRead(m, k, keys)
  /\ LengthRead(m, k, keys, size)
  /\ ~m.response => ConnRead(m, k, keys, type)

\* Lines 1 .. i - 1 are read.
LinesRead(i) ==
  /\ rindex = Start(msg, i)
  /\ \A j \in 1..i - 1 : Lines(msg)[j] + CrlfLen <= MaxLineSize
  /\ ContextRead(msg, i - 2, known, bodySize, conn)

\* The stage says how many.
StageLines ==
  CASE stage \in {"none", "line"} -> {1}
    [] stage = "headers"          -> 2..Len(Lines(msg))
    [] stage \in {"body", "done"} -> {Len(Lines(msg)) + 1}

FirstLineRead ==
  /\ stage = "none" => ~msg.response
  /\ stage # "none" => proto = "HTTP"
  /\ stage # "none" => msg.response \/ msg.head = "method"
  /\ stage \in {"headers", "body", "done"} =>
       (msg.response \/ msg.shape) /\ named = (~msg.response /\ msg.slash)

BodyRead ==
  stage = "done" =>
    Readable >= bodySize /\ view = [begin |-> rindex, end |-> rindex + bodySize]

\* The first and the last part of VerdictRight are about the message alone.
ResultRight ==
  /\ parsing => result = "NoEnoughData"
  /\ result = "Success" => stage = "done" /\ bodySize >= 0
  /\ result \in {"Error", "TryAnotherProtocol", "throws"} => ~Good(msg)
  /\ result = "throws" =>
       \/ First(msg, "Content-Length").text \notin {"none", "number"}
       \/ First(msg, "Content-Length").number < 0

HttpInv ==
  /\ TypeOK
  /\ \E i \in StageLines : LinesRead(i)
  /\ FirstLineRead
  /\ BodyRead
  /\ ResultRight

-----------------------------------------------------------------------------
(***************************************************************************)
(* Messages and where their lines begin.                                   *)
(***************************************************************************)
LEMMA NatLeast ==
  ASSUME NEW T, T \subseteq Nat, T # {}
  PROVE  \E x \in T : \A y \in T : x <= y
<1> DEFINE R == OpToRel(<, Nat)
<1>1. IsWellFoundedOn(R, Nat)
  BY NatLessThanWellFounded
<1>2. \A x, y \in Nat : ~(<<y, x>> \in R) => x <= y
  BY DEF OpToRel
<1> HIDE DEF R
<1>3. \E x \in T : \A y \in T : ~(<<y, x>> \in R)
  BY <1>1, WFMin
<1>4. QED
  BY <1>2, <1>3

LEMMA MessageFields ==
  ASSUME NEW m \in Messages
  PROVE  /\ m.response \in BOOLEAN /\ m.slash \in BOOLEAN /\ m.shape \in BOOLEAN
         /\ m.line \in Nat
         /\ m.headers \in Seq(Headers)
         /\ Len(m.headers) \in Nat
         /\ DOMAIN m.headers = 1..Len(m.headers)
<1>1. m \in MessageSet
  BY HttpAssumption
<1>2. m.headers \in Seq(Headers)
  BY <1>1 DEF MessageSet
<1>3. QED
  BY <1>1, <1>2 DEF MessageSet

LEMMA HeaderFields ==
  ASSUME NEW m \in Messages, NEW k \in 1..Len(m.headers)
  PROVE  /\ m.headers[k].key \in Keys \cup {"none"}
         /\ m.headers[k].text \in Texts
         /\ m.headers[k].number \in Int
         /\ m.headers[k].len \in Nat /\ m.headers[k].len > 0
<1>1. m.headers[k] \in Headers
  BY MessageFields
<1>2. QED
  BY <1>1 DEF Headers

\* Line 1 is the first line, lines 2 .. are the headers, the last is empty.
LEMMA LinesAre ==
  ASSUME NEW m \in Messages
  PROVE  /\ Lines(m) \in Seq(Nat)
         /\ Len(Lines(m)) = Len(m.headers) + 2
         /\ Lines(m)[1] = m.line
         /\ \A j \in 1..Len(m.headers) : Lines(m)[j + 1] = m.headers[j].len
         /\ Lines(m)[Len(m.headers) + 2] = 0
<1> DEFINE n == Len(m.headers)
           hs == [i \in DOMAIN m.headers |-> m.headers[i].len]
           s == <<m.line>> \o hs
<1>1. n \in Nat /\ DOMAIN m.headers = 1..n /\ m.line \in Nat
  BY MessageFields
<1>2. \A i \in 1..n : m.headers[i].len \in Nat
  BY HeaderFields
<1>3. hs \in Seq(Nat) /\ Len(hs) = n /\ \A i \in 1..n : hs[i] = m.headers[i].len
  BY <1>1, <1>2
<1> HIDE DEF hs
<1>4. <<m.line>> \in Seq(Nat) /\ Len(<<m.line>>) = 1 /\ <<m.line>>[1] = m.line
  BY <1>1
<1>5. /\ s \in Seq(Nat) /\ Len(s) = n + 1 /\ s[1] = m.line
      /\ \A i \in 1..n : s[i + 1] = hs[i]
  BY <1>1, <1>3, <1>4, ConcatProperties
<1> HIDE DEF s
<1>6. <<0>> \in Seq(Nat) /\ Len(<<0>>) = 1 /\ <<0>>[1] = 0
  OBVIOUS
<1>7. /\ s \o <<0>> \in Seq(Nat) /\ Len(s \o <<0>>) = n + 2
      /\ \A i \in 1..n + 1 : (s \o <<0>>)[i] = s[i]
      /\ (s \o <<0>>)[n + 2] = 0
  <2> DEFINE z == <<0>>
  <2> HIDE DEF z
  <2>0. z \in Seq(Nat) /\ Len(z) = 1
    BY <1>6 DEF z
  <2>a. /\ s \o z \in Seq(Nat) /\ Len(s \o z) = Len(s) + Len(z)
        /\ \A i \in 1..Len(s) + Len(z) :
             (s \o z)[i] = IF i <= Len(s) THEN s[i] ELSE z[i - Len(s)]
    BY <1>5, <2>0, ConcatProperties
  <2>1. /\ s \o <<0>> \in Seq(Nat) /\ Len(s \o <<0>>) = n + 2
        /\ \A i \in 1..n + 2 :
             (s \o <<0>>)[i] = IF i <= n + 1 THEN s[i] ELSE <<0>>[i - (n + 1)]
    <3>1. Len(s) + Len(z) = n + 2 /\ Len(s) = n + 1
      BY <1>1, <1>5, <2>0
    <3>2. QED
      BY <2>a, <3>1 DEF z
  <2>2. n + 2 \in 1..n + 2 /\ n + 2 > n + 1 /\ n + 2 - (n + 1) = 1
    BY <1>1
  <2>3. (s \o <<0>>)[n + 2] = <<0>>[n + 2 - (n + 1)]
    BY <1>1, <2>1, <2>2
  <2>4. \A i \in 1..n + 1 : (s \o <<0>>)[i] = s[i]
    BY <1>1, <2>1
  <2>5. QED
    BY <1>6, <2>1, <2>2, <2>3, <2>4
<1>8. Lines(m) = s \o <<0>>
  BY DEF Lines, s, hs
<1>9. /\ (s \o <<0>>)[1] = m.line
      /\ \A i \in 1..n : (s \o <<0>>)[i + 1] = m.headers[i].len
  BY <1>1, <1>3, <1>5, <1>7
<1>10. QED
  BY <1>1, <1>7, <1>8, <1>9

\* f[j] is where line j begins, up to line n.
SumsTo(L, f, n) == f = [j \in 1..n |-> IF j = 1 THEN 0 ELSE f[j - 1] + L[j - 1] + CrlfLen]

LEMMA SumExists ==
  ASSUME NEW L, NEW n \in Nat \ {0}
  PROVE  \E f : SumsTo(L, f, n)
<1> DEFINE T == {k \in Nat \ {0} : ~\E f : SumsTo(L, f, k)}
<1> SUFFICES ASSUME T # {} PROVE FALSE
  OBVIOUS
<1>1. PICK k \in T : \A y \in T : k <= y
  BY NatLeast
<1>2. k \in Nat \ {0} /\ ~\E f : SumsTo(L, f, k)
  OBVIOUS
<1>3. CASE k = 1
  <2>1. SumsTo(L, [j \in 1..1 |-> 0], 1)
    BY DEF SumsTo
  <2>2. QED
    BY <1>2, <1>3, <2>1
<1>4. CASE k # 1
  <2>1. k - 1 \in Nat \ {0} /\ k - 1 < k
    BY <1>2, <1>4
  <2>2. k - 1 \notin T
    BY <1>1, <1>2, <2>1
  <2>3. PICK f : SumsTo(L, f, k - 1)
    BY <2>1, <2>2
  <2> DEFINE g == [j \in 1..k |-> IF j = k THEN f[k - 1] + L[k - 1] + CrlfLen ELSE f[j]]
  <2>4. \A j \in 1..k - 1 : f[j] = IF j = 1 THEN 0 ELSE f[j - 1] + L[j - 1] + CrlfLen
    BY <2>3 DEF SumsTo
  <2>5. ASSUME NEW j \in 1..k
        PROVE  g[j] = IF j = 1 THEN 0 ELSE g[j - 1] + L[j - 1] + CrlfLen
    <3>1. CASE j = k
      BY <1>2, <1>4, <3>1
    <3>2. CASE j < k
      <4>1. j \in 1..k - 1 /\ g[j] = f[j]
        BY <1>2, <3>2
      <4>2. j # 1 => j - 1 \in 1..k - 1 /\ g[j - 1] = f[j - 1]
        BY <1>2, <3>2
      <4>3. QED
        BY <2>4, <4>1, <4>2
    <3>3. QED
      BY <1>2, <3>1, <3>2
  <2>6. SumsTo(L, g, k)
    <3>1. g = [j \in 1..k |-> g[j]]
      OBVIOUS
    <3>2. QED
      BY <2>5, <3>1 DEF SumsTo
  <2>7. QED
    BY <1>2, <2>6
<1>5. QED
  BY <1>3, <1>4

LEMMA StartIsNext ==
  ASSUME NEW m \in Messages
  PROVE  /\ Start(m, 1) = 0
         /\ \A i \in 1..Len(Lines(m)) :
              Start(m, i + 1) = Start(m, i) + Lines(m)[i] + CrlfLen
<1> DEFINE n == Len(Lines(m)) + 1
           at == CHOOSE f : f = [j \in 1..n |->
                   IF j = 1 THEN 0 ELSE f[j - 1] + Lines(m)[j - 1] + CrlfLen]
<1>1. n \in Nat \ {0}
  BY LinesAre, MessageFields
<1>2. \E f : SumsTo(Lines(m), f, n)
  BY <1>1, SumExists
<1>3. at = [j \in 1..n |-> IF j = 1 THEN 0 ELSE at[j - 1] + Lines(m)[j - 1] + CrlfLen]
  BY <1>2 DEF SumsTo
<1>4. \A i : Start(m, i) = at[i]
  BY DEF Start
<1> HIDE DEF at
<1>5. \A j \in 1..n : at[j] = IF j = 1 THEN 0 ELSE at[j - 1] + Lines(m)[j - 1] + CrlfLen
  BY <1>3
<1>6. 1 \in 1..n /\ \A i \in 1..Len(Lines(m)) : i + 1 \in 1..n /\ i + 1 # 1 /\ i + 1 - 1 = i
  BY <1>1
<1>7. at[1] = 0 /\ \A i \in 1..Len(Lines(m)) : at[i + 1] = at[i] + Lines(m)[i] + CrlfLen
  BY <1>5, <1>6
<1>8. QED
  BY <1>4, <1>7

\* Lines begin at places that only grow.
LEMMA StartsGrow ==
  ASSUME NEW m \in Messages, NEW i \in 1..Len(Lines(m)) + 1
  PROVE  /\ Start(m, i) \in Nat
         /\ \A j \in 1..i - 1 : Start(m, j) + CrlfLen <= Start(m, i)
<1> DEFINE n == Len(Lines(m))
           Holds(k) == /\ Start(m, k) \in Nat
                       /\ \A j \in 1..k - 1 : Start(m, j) + CrlfLen <= Start(m, k)
           T == {k \in 1..n + 1 : ~Holds(k)}
<1>1. n \in Nat /\ \A j \in 1..n : Lines(m)[j] \in Nat
  BY LinesAre, MessageFields
<1> SUFFICES ASSUME T # {} PROVE FALSE
  BY <1>1
<1>2. PICK k \in T : \A y \in T : k <= y
  <2> HIDE DEF Holds
  <2>1. T \subseteq Nat
    BY <1>1
  <2>2. QED
    BY <2>1, NatLeast
<1>3. k \in 1..n + 1 /\ ~Holds(k)
  OBVIOUS
<1>4. CASE k = 1
  BY <1>3, <1>4, StartIsNext
<1>5. CASE k # 1
  <2>1. k - 1 \in 1..n /\ k - 1 < k /\ k - 1 + 1 = k
    BY <1>1, <1>3, <1>5
  <2>2. Holds(k - 1)
    BY <1>1, <1>2, <2>1
  <2>3. Start(m, k) = Start(m, k - 1) + Lines(m)[k - 1] + CrlfLen
    <3>1. Start(m, k - 1 + 1) = Start(m, k - 1) + Lines(m)[k - 1] + CrlfLen
      BY <2>1, StartIsNext
    <3>2. QED
      BY <2>1, <3>1
  <2>4. Start(m, k) \in Nat /\ Start(m, k - 1) \in Nat
        /\ Start(m, k - 1) + CrlfLen <= Start(m, k)
    BY <1>1, <2>1, <2>2, <2>3 DEF CrlfLen
  <2>5. ASSUME NEW j \in 1..k - 1
        PROVE  Start(m, j) + CrlfLen <= Start(m, k)
    <3>1. CASE j = k - 1
      BY <2>4, <3>1
    <3>2. CASE j # k - 1
      <4>1. j \in 1..k - 1 - 1 /\ j \in 1..n + 1
        BY <1>1, <1>3, <3>2
      <4>2. Start(m, j) + CrlfLen <= Start(m, k - 1)
        BY <2>2, <4>1
      <4>3. Holds(j)
        BY <1>1, <1>2, <1>3, <4>1
      <4>4. Start(m, j) \in Nat
        BY <4>3
      <4>5. QED
        BY <2>4, <4>2, <4>4 DEF CrlfLen
    <3>3. QED
      BY <3>1, <3>2
  <2>6. QED
    BY <1>3, <2>4, <2>5
<1>6. QED
  BY <1>4, <1>5

LEMMA BodyAtIs ==
  ASSUME NEW m \in Messages
  PROVE  /\ BodyAt(m) \in Nat
         /\ \A i \in 1..Len(Lines(m)) :
              /\ Start(m, i) \in Nat
              /\ Start(m, i + 1) = Start(m, i) + Lines(m)[i] + CrlfLen
              /\ Start(m, i + 1) <= BodyAt(m)
<1> DEFINE n == Len(Lines(m))
<1>1. n \in Nat
  BY LinesAre, MessageFields
<1>2. BodyAt(m) \in Nat /\ \A j \in 1..n : Start(m, j) + CrlfLen <= BodyAt(m)
  <2>1. n + 1 \in 1..n + 1 /\ n + 1 - 1 = n
    BY <1>1
  <2>2. QED
    BY <2>1, StartsGrow DEF BodyAt
<1>3. ASSUME NEW i \in 1..n
      PROVE  Start(m, i) \in Nat /\ Start(m, i + 1) <= BodyAt(m)
  <2>1. i \in 1..n + 1 /\ i + 1 \in 1..n + 1
    BY <1>1
  <2>2. Start(m, i) \in Nat /\ Start(m, i + 1) \in Nat
    BY <2>1, StartsGrow
  <2>3. CASE i = n
    BY <1>2, <2>2, <2>3 DEF BodyAt
  <2>4. CASE i # n
    <3>1. i + 1 \in 1..n
      BY <1>1, <2>4
    <3>2. Start(m, i + 1) + CrlfLen <= BodyAt(m)
      BY <1>2, <3>1
    <3>3. QED
      BY <1>2, <2>2, <3>2 DEF CrlfLen
  <2>5. QED
    BY <2>3, <2>4
<1>4. QED
  BY <1>2, <1>3, StartIsNext

\* The parser is at one line only.
LEMMA CurrentIs ==
  ASSUME msg \in Messages, NEW i \in 1..Len(Lines(msg)), rindex = Start(msg, i)
  PROVE  Current = i /\ LineLen = Lines(msg)[i]
<1> DEFINE n == Len(Lines(msg))
<1>1. n \in Nat /\ DOMAIN Lines(msg) = 1..n
  BY LinesAre, MessageFields
<1>2. ASSUME NEW j \in 1..n, NEW k \in 1..n, j < k
      PROVE  Start(msg, j) # Start(msg, k)
  <2>1. j \in 1..k - 1 /\ k \in 1..n + 1 /\ j \in 1..n + 1
    BY <1>1, <1>2
  <2>2. Start(msg, j) + CrlfLen <= Start(msg, k) /\ Start(msg, j) \in Nat /\ Start(msg, k) \in Nat
    BY <2>1, StartsGrow
  <2>3. QED
    BY <2>2 DEF CrlfLen
<1>3. ASSUME NEW j \in 1..n, Start(msg, j) = rindex
      PROVE  j = i
  <2>1. ~(j < i)
    BY <1>2, <1>3
  <2>2. ~(i < j)
    BY <1>2, <1>3
  <2>3. QED
    BY <1>1, <2>1, <2>2
<1>4. Current \in 1..n /\ Start(msg, Current) = rindex
  BY <1>1 DEF Current
<1>5. QED
  BY <1>3, <1>4 DEF LineLen

\* The part of the buffer a line is looked for in.
LEMMA WindowIs ==
  ASSUME Readable \in Nat
  PROVE  Window = IF Readable <= MaxLineSize THEN Readable ELSE MaxLineSize
<1>1. MaxLineSize \in Nat
  BY HttpAssumption
<1> DEFINE w == IF Readable <= MaxLineSize THEN Readable ELSE MaxLineSize
           S == {Readable, MaxLineSize}
<1>2. w \in S /\ \A y \in S : w <= y
  BY <1>1
<1>3. \A x \in S : (\A y \in S : x <= y) => x = w
  BY <1>1
<1>4. Min(S) = w
  BY <1>2, <1>3 DEF Min
<1>5. QED
  BY <1>4 DEF Window

-----------------------------------------------------------------------------
(***************************************************************************)
(* What the headers of a message say.                                      *)
(***************************************************************************)
LEMMA FirstIs ==
  ASSUME NEW m \in Messages, NEW key, NEW k, IsFirst(m, key, k)
  PROVE  /\ k \in 1..Len(m.headers)
         /\ First(m, key).text = m.headers[k].text
         /\ First(m, key).number = m.headers[k].number
<1> DEFINE S == {i \in DOMAIN m.headers : m.headers[i].key = key /\ m.headers[i].text # "blank"}
<1>1. Len(m.headers) \in Nat /\ DOMAIN m.headers = 1..Len(m.headers)
  BY MessageFields
<1>2. k \in S /\ \A j \in S : ~(j < k)
  BY <1>1 DEF IsFirst, Valued
<1>3. S \subseteq Nat
  BY <1>1
<1>4. \A j \in S : k <= j
  BY <1>2, <1>3
<1>5. Min(S) = k
  <2> HIDE DEF S
  <2>1. \A x \in S : (\A y \in S : x <= y) => x = k
    BY <1>2, <1>3, <1>4
  <2>2. QED
    BY <1>2, <1>4, <2>1 DEF Min
<1>6. First(m, key) = IF S = {} THEN [text |-> "none", number |-> 0]
        ELSE [text |-> m.headers[Min(S)].text, number |-> m.headers[Min(S)].number]
  BY DEF First
<1>7. First(m, key) = [text |-> m.headers[k].text, number |-> m.headers[k].number]
  BY <1>2, <1>5, <1>6
<1>8. QED
  BY <1>1, <1>2, <1>7

LEMMA FirstNone ==
  ASSUME NEW m \in Messages, NEW key, \A j \in 1..Len(m.headers) : ~Valued(m, key, j)
  PROVE  First(m, key).text = "none" /\ First(m, key).number = 0
<1>1. DOMAIN m.headers = 1..Len(m.headers)
  BY MessageFields
<1>2. {i \in DOMAIN m.headers : m.headers[i].key = key /\ m.headers[i].text # "blank"} = {}
  BY <1>1 DEF Valued
<1>3. First(m, key) = [text |-> "none", number |-> 0]
  BY <1>2 DEF First
<1>4. QED
  BY <1>3

LEMMA FirstExists ==
  ASSUME NEW m \in Messages, NEW key, NEW k, Valued(m, key, k)
  PROVE  \E j \in 1..k : IsFirst(m, key, j)
<1> DEFINE T == {j \in 1..Len(m.headers) : Valued(m, key, j)}
<1>1. Len(m.headers) \in Nat /\ k \in T
  BY MessageFields DEF Valued
<1>2. PICK j \in T : \A y \in T : j <= y
  <2>1. T \subseteq Nat
    BY <1>1
  <2> HIDE DEF T
  <2>2. QED
    BY <1>1, <2>1, NatLeast
<1>3. j \in 1..k /\ Valued(m, key, j)
  BY <1>1, <1>2
<1>4. ASSUME NEW i \in 1..j - 1, Valued(m, key, i)
      PROVE  FALSE
  <2>1. i \in T /\ i < j
    BY <1>1, <1>2, <1>4 DEF Valued
  <2>2. QED
    BY <1>1, <1>2, <2>1
<1>5. QED
  BY <1>3, <1>4 DEF IsFirst

LEMMA BodyLenIs ==
  ASSUME NEW m \in Messages
  PROVE  LET n == First(m, "Content-Length").number
         IN  n \in Int /\ BodyLen(m) = IF n >= 0 THEN n ELSE 0
<1> DEFINE n == First(m, "Content-Length").number
<1>1. n \in Int
  <2>1. CASE \A j \in 1..Len(m.headers) : ~Valued(m, "Content-Length", j)
    BY <2>1, FirstNone
  <2>2. CASE \E k \in 1..Len(m.headers) : Valued(m, "Content-Length", k)
    <3>1. PICK j : IsFirst(m, "Content-Length", j)
      BY <2>2, FirstExists
    <3>2. n = m.headers[j].number /\ j \in 1..Len(m.headers)
      BY <3>1, FirstIs
    <3>3. QED
      BY <3>2, HeaderFields
  <2>3. QED
    BY <2>1, <2>2
<1> HIDE DEF n
<1>2. LET w == IF n >= 0 THEN n ELSE 0
      IN  /\ w \in {0, n} /\ \A y \in {0, n} : w >= y
          /\ \A x \in {0, n} : (\A y \in {0, n} : x >= y) => x = w
  BY <1>1
<1>3. Max({0, n}) = IF n >= 0 THEN n ELSE 0
  BY <1>2 DEF Max
<1>4. QED
  BY <1>1, <1>3 DEF BodyLen, n

\* A line that is no header leaves the context as it is.
LEMMA NoHeaderRead ==
  ASSUME NEW m \in Messages, NEW k \in Int, k + 1 \notin 1..Len(m.headers),
         NEW keys, NEW size, NEW type, ContextRead(m, k, keys, size, type)
  PROVE  ContextRead(m, k + 1, keys, size, type)
<1>1. Len(m.headers) \in Nat
  BY MessageFields
<1>2. \A j \in 1..k + 1 : j <= Len(m.headers) => j \in 1..k
  BY <1>1
<1>3. 1..k \subseteq 1..k + 1
  BY <1>1
<1>4. \A key : (\E j \in 1..k : Valued(m, key, j)) <=> (\E j \in 1..k + 1 : Valued(m, key, j))
  BY <1>1, <1>2, <1>3 DEF Valued
<1>5. KeysRead(m, k + 1, keys)
  BY <1>2, <1>4 DEF ContextRead, KeysRead
<1>6. LengthRead(m, k + 1, keys, size)
  BY <1>3 DEF ContextRead, LengthRead
<1>7. ~m.response => ConnRead(m, k + 1, keys, type)
  BY <1>3 DEF ContextRead, ConnRead
<1>8. QED
  BY <1>5, <1>6, <1>7 DEF ContextRead

\* A header that counts is the first of its key.
LEMMA CountedIsFirst ==
  ASSUME NEW m \in Messages, NEW k \in Nat, k + 1 <= Len(m.headers),
         NEW keys, KeysRead(m, k, keys),
         NEW h, h = m.headers[k + 1], h.key # "none", h.text # "blank", h.key \notin keys
  PROVE  IsFirst(m, h.key, k + 1)
<1>1. Len(m.headers) \in Nat /\ k + 1 \in 1..Len(m.headers) /\ k + 1 - 1 = k
  BY MessageFields
<1>2. h.key \in Keys
  BY <1>1, HeaderFields
<1>3. Valued(m, h.key, k + 1)
  BY <1>1 DEF Valued
<1>4. \A j \in 1..k : ~Valued(m, h.key, j)
  BY <1>2 DEF KeysRead
<1>5. QED
  BY <1>1, <1>3, <1>4 DEF IsFirst

LEMMA KeysStep ==
  ASSUME NEW m \in Messages, NEW k \in Nat, k + 1 <= Len(m.headers),
         NEW keys, KeysRead(m, k, keys),
         NEW h, h = m.headers[k + 1], h.key # "none",
         NEW keys2, keys2 = IF h.text # "blank" /\ h.key \notin keys THEN keys \cup {h.key} ELSE keys
  PROVE  KeysRead(m, k + 1, keys2)
<1>1. Len(m.headers) \in Nat /\ k + 1 \in 1..Len(m.headers)
  BY MessageFields
<1>2. h.key \in Keys
  BY <1>1, HeaderFields
<1>3. \A j \in 1..k + 1 : j \in 1..k \/ j = k + 1
  OBVIOUS
<1>4. k + 1 \in 1..k + 1 /\ \A j \in 1..k : j \in 1..k + 1
  OBVIOUS
<1>5. \A j \in 1..k + 1 : j <= Len(m.headers) => m.headers[j].key # "none"
  BY <1>3 DEF KeysRead
<1>6. \A key : Valued(m, key, k + 1) <=> key = h.key /\ h.text # "blank"
  BY <1>1 DEF Valued
<1>7. ASSUME NEW key \in Keys
      PROVE  key \in keys2 <=> \E j \in 1..k + 1 : Valued(m, key, j)
  <2>1. key \in keys <=> \E j \in 1..k : Valued(m, key, j)
    BY DEF KeysRead
  <2>2. (\E j \in 1..k + 1 : Valued(m, key, j)) <=> (key \in keys \/ Valued(m, key, k + 1))
    BY <1>3, <1>4, <2>1
  <2>3. key \in keys2 <=> key \in keys \/ (key = h.key /\ h.text # "blank")
    OBVIOUS
  <2>4. QED
    BY <1>6, <2>2, <2>3
<1>8. QED
  BY <1>5, <1>7 DEF KeysRead

NewKey(h, keys) == h.text # "blank" /\ h.key \notin keys

\* One more header, as _parse_headers takes it.
LEMMA HeaderStep ==
  ASSUME NEW m \in Messages, NEW k \in Nat, k + 1 <= Len(m.headers),
         NEW keys, NEW size, NEW type, ContextRead(m, k, keys, size, type),
         type \in {"Short", "Single"},
         NEW h, h = m.headers[k + 1], h.key # "none",
         ~(NewKey(h, keys) /\ h.key = "Content-Length" /\ h.text # "number"),
         NEW keys2, keys2 = IF NewKey(h, keys) THEN keys \cup {h.key} ELSE keys,
         NEW size2, size2 = IF NewKey(h, keys) /\ h.key = "Content-Length" THEN h.number ELSE size,
         NEW type2, type2 = IF NewKey(h, keys) /\ h.key = "Connection" /\ h.text = "Keep-Alive"
                              THEN "Single" ELSE type
  PROVE  ContextRead(m, k + 1, keys2, size2, type2)
<1>1. KeysRead(m, k, keys) /\ LengthRead(m, k, keys, size)
      /\ (~m.response => ConnRead(m, k, keys, type))
  BY DEF ContextRead
<1>2. k + 1 \in 1..k + 1 /\ \A j \in 1..k : j \in 1..k + 1
  OBVIOUS
<1>3. KeysRead(m, k + 1, keys2)
  BY <1>1, KeysStep DEF NewKey
<1>4. ASSUME NewKey(h, keys) PROVE IsFirst(m, h.key, k + 1)
  BY <1>1, <1>4, CountedIsFirst DEF NewKey
<1>5. LengthRead(m, k + 1, keys2, size2)
  <2>1. CASE NewKey(h, keys) /\ h.key = "Content-Length"
    <3>1. "Content-Length" \in keys2
      BY <2>1
    <3>2. IsFirst(m, "Content-Length", k + 1)
      BY <1>4, <2>1
    <3>3. m.headers[k + 1].text = "number" /\ m.headers[k + 1].number = size2
      BY <2>1
    <3>4. QED
      BY <1>2, <3>1, <3>2, <3>3 DEF LengthRead
  <2>2. CASE ~(NewKey(h, keys) /\ h.key = "Content-Length")
    <3>1. size2 = size /\ ("Content-Length" \in keys2 <=> "Content-Length" \in keys)
      BY <2>2
    <3>2. QED
      BY <1>1, <1>2, <3>1 DEF LengthRead
  <2>3. QED
    BY <2>1, <2>2
<1>6. ASSUME ~m.response PROVE ConnRead(m, k + 1, keys2, type2)
  <2>0. ConnRead(m, k, keys, type)
    BY <1>1, <1>6
  <2>1. CASE NewKey(h, keys) /\ h.key = "Connection"
    <3>1. "Connection" \in keys2 /\ "Connection" \notin keys
      BY <2>1 DEF NewKey
    <3>2. IsFirst(m, "Connection", k + 1)
      BY <1>4, <2>1
    <3>3. type = "Short"
      BY <2>0, <3>1 DEF ConnRead
    <3>4. type2 = "Single" <=> m.headers[k + 1].text = "Keep-Alive"
      BY <2>1, <3>3
    <3>5. QED
      BY <1>2, <3>1, <3>2, <3>4 DEF ConnRead
  <2>2. CASE ~(NewKey(h, keys) /\ h.key = "Connection")
    <3>1. type2 = type /\ ("Connection" \in keys2 <=> "Connection" \in keys)
      BY <2>2
    <3>2. QED
      BY <1>2, <2>0, <3>1 DEF ConnRead
  <2>3. QED
    BY <2>1, <2>2
<1>7. QED
  BY <1>3, <1>5, <1>6 DEF ContextRead

\* When all headers are read, the context says what the message says.
LEMMA AllRead ==
  ASSUME NEW m \in Messages, NEW k \in Int, k >= Len(m.headers),
         NEW keys, NEW size, NEW type, ContextRead(m, k, keys, size, type)
  PROVE  /\ \A j \in 1..Len(m.headers) : m.headers[j].key # "none"
         /\ First(m, "Content-Length").text \in {"none", "number"}
         /\ First(m, "Content-Length").number = size
         /\ ~m.response => (type = "Single" <=> First(m, "Connection").text = "Keep-Alive")
<1>1. Len(m.headers) \in Nat /\ \A j \in 1..Len(m.headers) : j \in 1..k
  BY MessageFields
<1>2. "Content-Length" \in Keys /\ "Connection" \in Keys
  BY DEF Keys
<1>3. KeysRead(m, k, keys) /\ LengthRead(m, k, keys, size)
      /\ (~m.response => ConnRead(m, k, keys, type))
  BY DEF ContextRead
<1>4. \A j \in 1..Len(m.headers) : m.headers[j].key # "none"
  BY <1>1, <1>3 DEF KeysRead
<1>5. ASSUME NEW key \in Keys, key \notin keys
      PROVE  First(m, key).text = "none" /\ First(m, key).number = 0
  <2>1. \A j \in 1..Len(m.headers) : ~Valued(m, key, j)
    BY <1>1, <1>3, <1>5 DEF KeysRead
  <2>2. QED
    BY <2>1, FirstNone
<1>6. /\ First(m, "Content-Length").text \in {"none", "number"}
      /\ First(m, "Content-Length").number = size
  <2>1. CASE "Content-Length" \in keys
    <3>1. PICK j \in 1..k : /\ IsFirst(m, "Content-Length", j)
                            /\ m.headers[j].text = "number" /\ m.headers[j].number = size
      BY <1>3, <2>1 DEF LengthRead
    <3>2. QED
      BY <3>1, FirstIs
  <2>2. CASE "Content-Length" \notin keys
    BY <1>2, <1>3, <1>5, <2>2 DEF LengthRead
  <2>3. QED
    BY <2>1, <2>2
<1>7. ASSUME ~m.response
      PROVE  type = "Single" <=> First(m, "Connection").text = "Keep-Alive"
  <2>1. CASE "Connection" \in keys
    <3>1. PICK j \in 1..k : /\ IsFirst(m, "Connection", j)
                            /\ type = "Single" <=> m.headers[j].text = "Keep-Alive"
      BY <1>3, <1>7, <2>1 DEF ConnRead
    <3>2. QED
      BY <3>1, FirstIs
  <2>2. CASE "Connection" \notin keys
    BY <1>2, <1>3, <1>5, <1>7, <2>2 DEF ConnRead
  <2>3. QED
    BY <2>1, <2>2
<1>8. QED
  BY <1>4, <1>6, <1>7

-----------------------------------------------------------------------------
(***************************************************************************)
(* Every step keeps the invariant.                                         *)
(***************************************************************************)
\* A context that was just allocated, in front of an empty buffer.
Fresh ==
  /\ msg \in Messages /\ count \in Nat
  /\ proto \in {"Simple", "HTTP"} /\ (msg.response => proto = "HTTP")
  /\ rindex = 0 /\ windex = 0
  /\ stage = FirstStage(msg) /\ conn \in FirstConn(msg)
  /\ named = FALSE /\ known = {} /\ bodySize = 0 /\ view = [begin |-> 0, end |-> 0]
  /\ parsing = FALSE /\ result = "NoEnoughData"

LEMMA TotalIsNat ==
  ASSUME NEW m \in Messages
  PROVE  Total(m) \in Nat /\ BodyAt(m) <= Total(m)
<1>1. BodyAt(m) \in Nat
  BY BodyAtIs
<1>2. BodyLen(m) \in Nat
  BY BodyLenIs
<1>3. QED
  BY <1>1, <1>2 DEF Total

LEMMA FreshInv == Fresh => HttpInv
<1> SUFFICES ASSUME Fresh PROVE HttpInv
  OBVIOUS
<1>1. msg \in Messages /\ msg.response \in BOOLEAN
  BY MessageFields DEF Fresh
<1>2. Total(msg) \in Nat
  BY <1>1, TotalIsNat
<1>3. stage \in {"none", "line"} /\ (stage = "none" <=> ~msg.response)
  BY <1>1 DEF Fresh, FirstStage
<1>4. conn \in {"Short", "Single"} /\ (~msg.response => conn = "Short")
  BY <1>1 DEF Fresh, FirstConn
<1>5. TypeOK
  <2>1. rindex \in Nat /\ windex \in rindex..Total(msg) /\ bodySize \in Int
    BY <1>2 DEF Fresh
  <2>2. view \in [begin : Nat, end : Int]
    BY DEF Fresh
  <2>3. named \in BOOLEAN /\ parsing \in BOOLEAN
    BY Zenon DEF Fresh
  <2>4. QED
    BY <1>1, <1>3, <1>4, <2>1, <2>2, <2>3 DEF Fresh, TypeOK, Verdicts
<1>6. ContextRead(msg, -1, {}, 0, conn)
  BY <1>4 DEF ContextRead, KeysRead, LengthRead, ConnRead
<1>7. LinesRead(1)
  <2>1. 1 - 2 = -1 /\ 1..1 - 1 = {}
    OBVIOUS
  <2>2. rindex = Start(msg, 1)
    BY <1>1, StartIsNext DEF Fresh
  <2>3. ContextRead(msg, 1 - 2, known, bodySize, conn)
    BY <1>6, <2>1 DEF Fresh
  <2>4. QED
    BY <2>1, <2>2, <2>3 DEF LinesRead
<1>8. 1 \in StageLines
  BY <1>3 DEF StageLines
<1>9. FirstLineRead
  BY <1>1, <1>3 DEF FirstLineRead, Fresh
<1>10. BodyRead /\ ResultRight
  BY <1>3 DEF BodyRead, ResultRight, Fresh
<1>11. QED
  BY <1>5, <1>7, <1>8, <1>9, <1>10 DEF HttpInv

LEMMA HttpInit == Init => HttpInv
<1>1. Init => Fresh
  BY MessageFields DEF Init, Fresh
<1>2. QED
  BY <1>1, FreshInv

LEMMA NextMessageInv == HttpInv /\ NextMessage => HttpInv'
<1>1. HttpInv /\ NextMessage => Fresh'
  BY DEF HttpInv, TypeOK, FirstLineRead, ResultRight, NextMessage, Fresh
<1>2. Fresh' => HttpInv'
  BY FreshInv, PTL
<1>3. QED
  BY <1>1, <1>2

\* The buffer of a state of the invariant.
LEMMA BufferOK ==
  ASSUME HttpInv
  PROVE  /\ msg \in Messages
         /\ rindex \in Nat /\ windex \in Nat /\ Readable \in Nat
         /\ Total(msg) \in Nat /\ windex <= Total(msg)
<1>1. msg \in Messages /\ rindex \in Nat /\ windex \in rindex..Total(msg)
  BY DEF HttpInv, TypeOK
<1>2. Total(msg) \in Nat
  BY <1>1, TotalIsNat
<1>3. QED
  BY <1>1, <1>2 DEF Readable

\* data_read_callback comes to a verdict.
LEMMA ReturnInv ==
  ASSUME HttpInv, NEW verdict \in Verdicts, Return(verdict),
         verdict = "Success" => stage = "done" /\ bodySize >= 0,
         verdict \in {"Error", "TryAnotherProtocol", "throws"} => ~Good(msg),
         verdict = "throws" =>
           \/ First(msg, "Content-Length").text \notin {"none", "number"}
           \/ First(msg, "Content-Length").number < 0
  PROVE  HttpInv'
<1>1. TypeOK'
  BY DEF HttpInv, TypeOK, Return, ctx
<1>2. StageLines' = StageLines /\ \A i : LinesRead(i)' = LinesRead(i)
  BY DEF StageLines, LinesRead, Return, ctx
<1>3. FirstLineRead' /\ BodyRead'
  BY DEF HttpInv, FirstLineRead, BodyRead, Readable, Return, ctx
<1>4. ResultRight'
  BY DEF ResultRight, Return, ctx
<1>5. QED
  BY <1>1, <1>2, <1>3, <1>4 DEF HttpInv

LEMMA ReadFdInv ==
  ASSUME HttpInv, NEW n \in 1..Total(msg), ReadFd(n)
  PROVE  HttpInv'
<1>1. rindex \in Nat /\ windex \in Nat /\ Total(msg) \in Nat /\ windex' = windex + n
      /\ windex' \in rindex..Total(msg)
  BY BufferOK DEF HttpInv, TypeOK, ReadFd
<1>2. UNCHANGED <<msg, count, proto, rindex, stage, named, known, bodySize, conn, view, result>>
      /\ parsing' = TRUE /\ result = "NoEnoughData"
  BY DEF ReadFd, ctx
<1>3. TypeOK'
  BY <1>1, <1>2 DEF HttpInv, TypeOK
<1>4. StageLines' = StageLines /\ \A i : LinesRead(i)' = LinesRead(i)
  BY <1>2 DEF StageLines, LinesRead
<1>5. BodyRead'
  BY <1>1, <1>2 DEF HttpInv, TypeOK, BodyRead, Readable
<1>6. FirstLineRead' /\ ResultRight'
  BY <1>2 DEF HttpInv, FirstLineRead, ResultRight
<1>7. QED
  BY <1>3, <1>4, <1>5, <1>6 DEF HttpInv

\* A stage that reads a line stands at its beginning.
LEMMA AtLine ==
  ASSUME HttpInv, stage \in {"line", "headers"}
  PROVE  \E i \in 1..Len(Lines(msg)) :
           /\ LinesRead(i)
           /\ stage = "line" => i = 1
           /\ stage = "headers" => i >= 2
           /\ Current = i /\ LineLen = Lines(msg)[i]
           /\ Lines(msg)[i] \in Nat
<1>1. PICK i \in StageLines : LinesRead(i)
  BY DEF HttpInv
<1>2. msg \in Messages
  BY BufferOK
<1>3. Len(Lines(msg)) \in Nat /\ Len(Lines(msg)) >= 2
      /\ \A j \in 1..Len(Lines(msg)) : Lines(msg)[j] \in Nat
  BY <1>2, LinesAre, MessageFields
<1>4. (stage = "line" => i = 1) /\ (stage = "headers" => i \in 2..Len(Lines(msg)))
  BY <1>1 DEF StageLines
<1>5. i \in 1..Len(Lines(msg)) /\ (stage = "headers" => i >= 2)
  BY <1>3, <1>4
<1>6. Current = i /\ LineLen = Lines(msg)[i]
  BY <1>1, <1>2, <1>5, CurrentIs DEF LinesRead
<1>7. QED
  BY <1>1, <1>3, <1>4, <1>5, <1>6

\* No end of line in the window.
LEMMA NoLineInv ==
  ASSUME HttpInv, stage \in {"line", "headers"}, ~FindCrlf, NoLine
  PROVE  HttpInv'
<1>1. PICK i \in 1..Len(Lines(msg)) :
        LinesRead(i) /\ LineLen = Lines(msg)[i] /\ Lines(msg)[i] \in Nat
  BY AtLine
<1>2. MaxLineSize \in Nat /\ msg \in Messages /\ Readable \in Nat
  BY HttpAssumption, BufferOK
<1>3. DOMAIN Lines(msg) = 1..Len(Lines(msg))
  BY <1>2, LinesAre
<1>4. ASSUME Window = MaxLineSize PROVE ~Good(msg)
  <2>1. ~(Lines(msg)[i] + CrlfLen <= MaxLineSize)
    BY <1>1, <1>4 DEF FindCrlf
  <2>2. QED
    BY <1>1, <1>3, <2>1 DEF Good
<1>5. CASE Window = MaxLineSize
  <2>1. Return("Error")
    BY <1>5 DEF NoLine
  <2>2. QED
    BY <1>4, <1>5, <2>1, ReturnInv DEF Verdicts
<1>6. CASE Window # MaxLineSize
  <2>1. Return("NoEnoughData")
    BY <1>6 DEF NoLine
  <2>2. QED
    BY <2>1, ReturnInv DEF Verdicts
<1>7. QED
  BY <1>5, <1>6

LEMMA TrySimpleInv == HttpInv /\ TrySimple => HttpInv'
<1> SUFFICES ASSUME HttpInv, TrySimple PROVE HttpInv'
  OBVIOUS
<1>1. CASE Return("NoEnoughData")
  BY <1>1, ReturnInv DEF Verdicts
<1>2. CASE /\ proto' = "HTTP"
           /\ UNCHANGED <<msg, count, rindex, windex, stage, ctx, parsing, result>>
  <2>1. TypeOK'
    BY <1>2 DEF HttpInv, TypeOK, ctx
  <2>2. StageLines' = StageLines /\ \A i : LinesRead(i)' = LinesRead(i)
    BY <1>2 DEF StageLines, LinesRead, ctx
  <2>3. FirstLineRead' /\ BodyRead' /\ ResultRight'
    BY <1>2 DEF HttpInv, FirstLineRead, BodyRead, ResultRight, Readable, ctx
  <2>4. QED
    BY <2>1, <2>2, <2>3 DEF HttpInv
<1>3. QED
  BY <1>1, <1>2 DEF TrySimple

LEMMA NewContextInv == HttpInv /\ NewContext => HttpInv'
<1> SUFFICES ASSUME HttpInv, NewContext PROVE HttpInv'
  OBVIOUS
<1>1. stage = "none" /\ ~msg.response /\ rindex \in Nat
  BY BufferOK DEF HttpInv, FirstLineRead, NewContext
<1>2. CASE Return("NoEnoughData")
  BY <1>2, ReturnInv DEF Verdicts
<1>3. CASE msg.head # "method" /\ Return("TryAnotherProtocol")
  <2>1. ~Good(msg)
    BY <1>1, <1>3 DEF Good
  <2>2. QED
    BY <1>3, <2>1, ReturnInv DEF Verdicts
<1>4. CASE msg.head = "method" /\ Advance(0, "line") /\ UNCHANGED ctx
  <2>1. rindex' = rindex /\ stage' = "line"
        /\ UNCHANGED <<msg, count, proto, windex, parsing, result, named, known, bodySize, conn, view>>
    BY <1>1, <1>4 DEF Advance, ctx
  <2>2. TypeOK'
    BY <2>1 DEF HttpInv, TypeOK
  <2>3. StageLines' = StageLines
    BY <1>1, <2>1 DEF StageLines
  <2>4. \A i : LinesRead(i)' = LinesRead(i)
    BY <2>1 DEF LinesRead
  <2>5. FirstLineRead' /\ BodyRead'
    <3>1. proto = "HTTP"
      BY DEF NewContext
    <3>2. QED
      BY <1>4, <2>1, <3>1 DEF FirstLineRead, BodyRead
  <2>6. ResultRight'
    BY <1>1, <2>1 DEF HttpInv, ResultRight
  <2>7. QED
    BY <2>2, <2>3, <2>4, <2>5, <2>6 DEF HttpInv
<1>5. QED
  BY <1>2, <1>3, <1>4 DEF NewContext

\* The steps that leave a line behind: line i was read, and the context is
\* what i lines make it.
LEMMA NextLineRead ==
  ASSUME HttpInv, NEW i \in 1..Len(Lines(msg)), LinesRead(i),
         Lines(msg)[i] + CrlfLen <= Window,
         rindex' = rindex + Lines(msg)[i] + CrlfLen, UNCHANGED <<msg, windex>>,
         ContextRead(msg, i - 1, known', bodySize', conn')
  PROVE  LinesRead(i + 1)' /\ rindex' \in Nat /\ windex' \in rindex'..Total(msg')
<1>1. /\ msg \in Messages /\ rindex \in Nat /\ windex \in Nat /\ Readable \in Nat
      /\ Total(msg) \in Nat /\ windex <= Total(msg) /\ MaxLineSize \in Nat
  BY BufferOK, HttpAssumption
<1>2. Len(Lines(msg)) \in Nat /\ Lines(msg)[i] \in Nat
  BY <1>1, LinesAre, MessageFields
<1>3. Lines(msg)[i] + CrlfLen <= MaxLineSize /\ Lines(msg)[i] + CrlfLen <= Readable
  BY <1>1, <1>2, WindowIs DEF CrlfLen
<1>4. rindex' = Start(msg, i + 1)
  BY <1>1, StartIsNext DEF LinesRead
<1>5. \A j \in 1..i + 1 - 1 : Lines(msg)[j] + CrlfLen <= MaxLineSize
  <2>1. \A j \in 1..i + 1 - 1 : j = i \/ j \in 1..i - 1
    BY <1>2
  <2>2. QED
    BY <1>3, <2>1 DEF LinesRead
<1>6. ContextRead(msg, i + 1 - 2, known', bodySize', conn')
  <2>1. i + 1 - 2 = i - 1
    BY <1>2
  <2>2. QED
    BY <2>1
<1>7. LinesRead(i + 1)'
  BY <1>4, <1>5, <1>6 DEF LinesRead
<1>8. QED
  BY <1>1, <1>2, <1>3, <1>7 DEF Readable, CrlfLen

LEMMA ParseLineInv == HttpInv /\ ParseLine => HttpInv'
<1> SUFFICES ASSUME HttpInv, ParseLine PROVE HttpInv'
  OBVIOUS
<1>1. stage = "line" /\ msg \in Messages /\ msg.response \in BOOLEAN /\ msg.shape \in BOOLEAN
      /\ msg.slash \in BOOLEAN
  BY BufferOK, MessageFields DEF ParseLine
<1>2. CASE ~FindCrlf /\ NoLine
  BY <1>1, <1>2, NoLineInv
<1>3. CASE ~msg.response /\ ~msg.shape /\ Return("Error")
  <2>1. ~Good(msg)
    BY <1>3 DEF Good
  <2>2. QED
    BY <1>3, <2>1, ReturnInv DEF Verdicts
<1>4. CASE /\ FindCrlf
           /\ msg.response \/ msg.shape
           /\ named' = (~msg.response /\ msg.slash)
           /\ Advance(LineLen + CrlfLen, "headers")
           /\ UNCHANGED <<known, bodySize, conn, view>>
  <2>1. PICK i \in 1..Len(Lines(msg)) :
          /\ LinesRead(i) /\ i = 1 /\ LineLen = Lines(msg)[i] /\ Lines(msg)[i] \in Nat
    BY <1>1, AtLine
  <2>2. Len(Lines(msg)) \in Nat /\ Len(Lines(msg)) >= 2
    BY <1>1, LinesAre, MessageFields
  <2>3. stage' = "headers"
        /\ UNCHANGED <<msg, count, proto, windex, parsing, result, known, bodySize, conn, view>>
    BY <1>4 DEF Advance
  <2>4. rindex' = rindex + Lines(msg)[i] + CrlfLen
    <3>1. rindex \in Nat
      BY BufferOK
    <3>2. QED
      BY <1>4, <2>1, <3>1 DEF Advance, CrlfLen
  <2>5. ContextRead(msg, i - 1, known', bodySize', conn')
    <3>1. ContextRead(msg, -1, known, bodySize, conn)
      <4>1. i - 2 = -1
        BY <2>1
      <4>2. QED
        BY <2>1, <4>1 DEF LinesRead
    <3>2. ContextRead(msg, -1 + 1, known, bodySize, conn)
      <4>1. -1 \in Int /\ -1 + 1 \notin 1..Len(msg.headers)
        OBVIOUS
      <4>2. QED
        BY <1>1, <3>1, <4>1, NoHeaderRead
    <3>3. -1 + 1 = i - 1
      BY <2>1
    <3>4. QED
      BY <2>3, <3>2, <3>3
  <2>6. Lines(msg)[i] + CrlfLen <= Window
    BY <1>4, <2>1 DEF FindCrlf
  <2>7. LinesRead(i + 1)' /\ rindex' \in Nat /\ windex' \in rindex'..Total(msg')
    BY <2>1, <2>3, <2>4, <2>5, <2>6, NextLineRead
  <2>8. i + 1 \in StageLines'
    <3>1. i + 1 \in 2..Len(Lines(msg))
      BY <2>1, <2>2
    <3>2. StageLines' = 2..Len(Lines(msg))
      BY <2>3 DEF StageLines
    <3>3. QED
      BY <3>1, <3>2
  <2>9. named' \in BOOLEAN
    BY <1>4, Zenon
  <2>10. TypeOK'
    BY <2>3, <2>7, <2>9 DEF HttpInv, TypeOK
  <2>11. FirstLineRead'
    BY <1>1, <1>4, <2>3 DEF HttpInv, FirstLineRead
  <2>12. BodyRead' /\ ResultRight'
    BY <1>1, <2>3 DEF HttpInv, BodyRead, ResultRight
  <2>13. QED
    BY <2>7, <2>8, <2>10, <2>11, <2>12 DEF HttpInv
<1>5. QED
  BY <1>2, <1>3, <1>4 DEF ParseLine

\* The empty line, which ends the headers.
LEMMA EmptyLineInv ==
  ASSUME HttpInv, stage = "headers", FindCrlf, LineLen = 0,
         Advance(CrlfLen, "body"), UNCHANGED ctx
  PROVE  HttpInv'
<1>1. PICK i \in 1..Len(Lines(msg)) :
        LinesRead(i) /\ i >= 2 /\ LineLen = Lines(msg)[i] /\ Lines(msg)[i] \in Nat
  BY AtLine
<1>2. msg \in Messages /\ rindex \in Nat
  BY BufferOK
<1>3. /\ Len(msg.headers) \in Nat /\ Len(Lines(msg)) = Len(msg.headers) + 2
      /\ \A j \in 1..Len(msg.headers) : Lines(msg)[j + 1] > 0
  BY <1>2, LinesAre, MessageFields, HeaderFields
<1>4. i = Len(msg.headers) + 2
  <2>1. i # Len(msg.headers) + 2 => i - 1 \in 1..Len(msg.headers) /\ i - 1 + 1 = i
    BY <1>1, <1>3
  <2>2. i # Len(msg.headers) + 2 => Lines(msg)[i] > 0
    BY <1>3, <2>1
  <2>3. QED
    BY <1>1, <2>2
<1>5. /\ stage' = "body" /\ rindex' = rindex + Lines(msg)[i] + CrlfLen
      /\ UNCHANGED <<msg, count, proto, windex, parsing, result, named, known, bodySize, conn, view>>
  BY <1>1, <1>2 DEF Advance, ctx, CrlfLen
<1>6. ContextRead(msg, i - 1, known', bodySize', conn')
  <2>1. i - 2 \in Int /\ i - 2 + 1 \notin 1..Len(msg.headers) /\ i - 2 + 1 = i - 1
    BY <1>3, <1>4
  <2>2. ContextRead(msg, i - 2, known, bodySize, conn)
    BY <1>1 DEF LinesRead
  <2>3. ContextRead(msg, i - 2 + 1, known, bodySize, conn)
    BY <1>2, <2>1, <2>2, NoHeaderRead
  <2>4. QED
    BY <1>5, <2>1, <2>3
<1>7. Lines(msg)[i] + CrlfLen <= Window
  BY <1>1 DEF FindCrlf
<1>8. LinesRead(i + 1)' /\ rindex' \in Nat /\ windex' \in rindex'..Total(msg')
  BY <1>1, <1>5, <1>6, <1>7, NextLineRead
<1>9. i + 1 \in StageLines'
  <2>1. StageLines' = {Len(Lines(msg)) + 1}
    BY <1>5 DEF StageLines
  <2>2. QED
    BY <1>3, <1>4, <2>1
<1>10. TypeOK'
  BY <1>5, <1>8 DEF HttpInv, TypeOK
<1>11. FirstLineRead'
  BY <1>5 DEF HttpInv, FirstLineRead
<1>12. BodyRead' /\ ResultRight'
  BY <1>5 DEF HttpInv, BodyRead, ResultRight
<1>13. QED
  BY <1>8, <1>9, <1>10, <1>11, <1>12 DEF HttpInv

\* The header that is not empty at line i.
LEMMA AtHeader ==
  ASSUME HttpInv, stage = "headers", LineLen > 0
  PROVE  \E i \in 2..Len(msg.headers) + 1 :
           /\ LinesRead(i) /\ LineLen = Lines(msg)[i]
           /\ i - 1 \in 1..Len(msg.headers)
           /\ msg.headers[Current - 1] = msg.headers[i - 1]
<1>1. PICK i \in 1..Len(Lines(msg)) :
        LinesRead(i) /\ i >= 2 /\ Current = i /\ LineLen = Lines(msg)[i]
  BY AtLine
<1>2. msg \in Messages
  BY BufferOK
<1>3. /\ Len(msg.headers) \in Nat /\ Len(Lines(msg)) = Len(msg.headers) + 2
      /\ Lines(msg)[Len(msg.headers) + 2] = 0
  BY <1>2, LinesAre, MessageFields
<1>4. i # Len(msg.headers) + 2
  BY <1>1, <1>3
<1>5. i \in 2..Len(msg.headers) + 1 /\ i - 1 \in 1..Len(msg.headers)
  BY <1>1, <1>3, <1>4
<1>6. QED
  BY <1>1, <1>5

LEMMA StoiThrowsRight ==
  ASSUME HttpInv, stage = "headers", LineLen > 0,
         NEW h, h = msg.headers[Current - 1], h.key # "none", StoiThrows(h)
  PROVE  First(msg, "Content-Length").text \notin {"none", "number"}
<1>1. PICK i \in 2..Len(msg.headers) + 1 :
        LinesRead(i) /\ i - 1 \in 1..Len(msg.headers) /\ msg.headers[Current - 1] = msg.headers[i - 1]
  BY AtHeader
<1>2. msg \in Messages /\ Len(msg.headers) \in Nat
  BY BufferOK, MessageFields
<1>3. i - 2 \in Nat /\ i - 2 + 1 <= Len(msg.headers) /\ i - 2 + 1 = i - 1
  BY <1>1, <1>2
<1>4. KeysRead(msg, i - 2, known)
  BY <1>1 DEF LinesRead, ContextRead
<1>5. h.text # "blank" /\ h.key \notin known /\ h.key = "Content-Length" /\ h.text # "number"
  BY DEF StoiThrows, Counts
<1>6. h = msg.headers[i - 2 + 1]
  BY <1>1, <1>3
<1>7. IsFirst(msg, h.key, i - 2 + 1)
  BY <1>2, <1>3, <1>4, <1>5, <1>6, CountedIsFirst
<1>8. First(msg, "Content-Length").text = h.text
  BY <1>2, <1>5, <1>6, <1>7, FirstIs
<1>9. h.text \in Texts
  BY <1>1, <1>2, HeaderFields
<1>10. QED
  BY <1>5, <1>8, <1>9 DEF Texts

LEMMA HeaderLineInv ==
  ASSUME HttpInv, stage = "headers", FindCrlf, LineLen > 0,
         NEW h, h = msg.headers[Current - 1], h.key # "none", ~StoiThrows(h),
         bodySize' = IF Counts(h) /\ h.key = "Content-Length" THEN h.number ELSE bodySize,
         conn' = ConnType(h),
         known' = IF Counts(h) THEN known \cup {h.key} ELSE known,
         Advance(LineLen + CrlfLen, "headers"), UNCHANGED <<named, view>>
  PROVE  HttpInv'
<1>1. PICK i \in 2..Len(msg.headers) + 1 :
        /\ LinesRead(i) /\ LineLen = Lines(msg)[i]
        /\ i - 1 \in 1..Len(msg.headers) /\ msg.headers[Current - 1] = msg.headers[i - 1]
  BY AtHeader
<1>2. msg \in Messages /\ Len(msg.headers) \in Nat /\ Len(Lines(msg)) = Len(msg.headers) + 2
      /\ rindex \in Nat
  BY BufferOK, MessageFields, LinesAre
<1>3. i - 2 \in Nat /\ i - 2 + 1 <= Len(msg.headers) /\ i - 2 + 1 = i - 1
      /\ i \in 1..Len(Lines(msg)) /\ i + 1 \in 2..Len(Lines(msg))
  BY <1>1, <1>2
<1>4. h = msg.headers[i - 2 + 1]
  BY <1>1, <1>3
<1>5. h.key \in Keys /\ h.number \in Int
  BY <1>1, <1>2, HeaderFields
<1>6. known \subseteq Keys /\ bodySize \in Int /\ conn \in {"Short", "Single"}
  BY DEF HttpInv, TypeOK
<1>7. /\ stage' = "headers"
      /\ UNCHANGED <<msg, count, proto, windex, parsing, result, named, view>>
  BY DEF Advance
<1>8. Lines(msg)[i] \in Nat /\ rindex' = rindex + Lines(msg)[i] + CrlfLen
  <2>0. Lines(msg) \in Seq(Nat)
    BY <1>2, LinesAre
  <2>1. Lines(msg)[i] \in Nat
    BY <1>3, <2>0
  <2>2. QED
    BY <1>1, <1>2, <2>1 DEF Advance, CrlfLen
<1>9. ContextRead(msg, i - 1, known', bodySize', conn')
  <2>1. ContextRead(msg, i - 2, known, bodySize, conn)
    BY <1>1 DEF LinesRead
  <2>3. ~(NewKey(h, known) /\ h.key = "Content-Length" /\ h.text # "number")
    BY DEF StoiThrows, Counts, NewKey
  <2>4. known' = IF NewKey(h, known) THEN known \cup {h.key} ELSE known
    BY DEF Counts, NewKey
  <2>5. bodySize' = IF NewKey(h, known) /\ h.key = "Content-Length" THEN h.number ELSE bodySize
    BY DEF Counts, NewKey
  <2>6. conn' = IF NewKey(h, known) /\ h.key = "Connection" /\ h.text = "Keep-Alive"
                  THEN "Single" ELSE conn
    BY DEF Counts, NewKey, ConnType
  <2> DEFINE k == i - 2
  <2>7. k \in Nat /\ k + 1 <= Len(msg.headers) /\ h = msg.headers[k + 1]
        /\ ContextRead(msg, k, known, bodySize, conn)
    BY <1>3, <1>4, <2>1
  <2> HIDE DEF k
  <2>b. ContextRead(msg, k + 1, known', bodySize', conn')
    BY <1>2, <1>6, <2>3, <2>4, <2>5, <2>6, <2>7, HeaderStep
  <2>8. QED
    BY <1>3, <2>b DEF k
<1>10. Lines(msg)[i] + CrlfLen <= Window
  BY <1>1 DEF FindCrlf
<1>11. LinesRead(i + 1)' /\ rindex' \in Nat /\ windex' \in rindex'..Total(msg')
  BY <1>1, <1>3, <1>7, <1>8, <1>9, <1>10, NextLineRead
<1>12. i + 1 \in StageLines'
  <2>1. StageLines' = 2..Len(Lines(msg))
    BY <1>7 DEF StageLines
  <2>2. QED
    BY <1>3, <2>1
<1>13. known' \subseteq Keys /\ bodySize' \in Int /\ conn' \in {"Short", "Single"}
  BY <1>5, <1>6 DEF ConnType
<1>14. TypeOK'
  BY <1>7, <1>11, <1>13 DEF HttpInv, TypeOK
<1>15. FirstLineRead'
  BY <1>7 DEF HttpInv, FirstLineRead
<1>16. BodyRead' /\ ResultRight'
  BY <1>7 DEF HttpInv, BodyRead, ResultRight
<1>17. QED
  BY <1>11, <1>12, <1>14, <1>15, <1>16 DEF HttpInv

LEMMA ParseHeaderInv == HttpInv /\ ParseHeader => HttpInv'
<1> SUFFICES ASSUME HttpInv, ParseHeader PROVE HttpInv'
  OBVIOUS
<1>1. stage = "headers" /\ msg \in Messages
  BY BufferOK DEF ParseHeader
<1>2. CASE ~FindCrlf /\ NoLine
  BY <1>1, <1>2, NoLineInv
<1>3. CASE FindCrlf /\ LineLen = 0 /\ Advance(CrlfLen, "body") /\ UNCHANGED ctx
  BY <1>1, <1>3, EmptyLineInv
<1> DEFINE h == msg.headers[Current - 1]
<1>4. CASE LineLen > 0 /\ h.key = "none" /\ Return("Error")
  <2>1. \E j \in DOMAIN msg.headers : msg.headers[j].key = "none"
    BY <1>1, <1>4, AtHeader, MessageFields
  <2>2. ~Good(msg)
    BY <2>1 DEF Good
  <2>3. QED
    BY <1>4, <2>2, ReturnInv DEF Verdicts
<1>5. CASE LineLen > 0 /\ h.key # "none" /\ StoiThrows(h) /\ Return("throws")
  <2>1. First(msg, "Content-Length").text \notin {"none", "number"}
    BY <1>1, <1>5, StoiThrowsRight
  <2>2. ~Good(msg)
    BY <2>1 DEF Good
  <2>3. QED
    BY <1>5, <2>1, <2>2, ReturnInv DEF Verdicts
<1>6. CASE /\ FindCrlf /\ LineLen > 0 /\ h.key # "none" /\ ~StoiThrows(h)
           /\ bodySize' = IF Counts(h) /\ h.key = "Content-Length" THEN h.number ELSE bodySize
           /\ conn' = ConnType(h)
           /\ known' = IF Counts(h) THEN known \cup {h.key} ELSE known
           /\ Advance(LineLen + CrlfLen, "headers")
           /\ UNCHANGED <<named, view>>
  <2> HIDE DEF h
  <2>1. h = msg.headers[Current - 1]
    BY DEF h
  <2>2. QED
    BY <1>1, <1>6, <2>1, HeaderLineInv
<1>7. QED
  BY <1>2, <1>3, <1>4, <1>5, <1>6 DEF ParseHeader

\* Behind the headers, the context is the message's.
LEMMA AllLinesRead ==
  ASSUME HttpInv, stage \in {"body", "done"}
  PROVE  /\ rindex = BodyAt(msg)
         /\ \A j \in DOMAIN Lines(msg) : Lines(msg)[j] + CrlfLen <= MaxLineSize
         /\ \A j \in DOMAIN msg.headers : msg.headers[j].key # "none"
         /\ First(msg, "Content-Length").text \in {"none", "number"}
         /\ First(msg, "Content-Length").number = bodySize
         /\ ~msg.response => (conn = "Single" <=> First(msg, "Connection").text = "Keep-Alive")
<1>1. PICK i \in StageLines : LinesRead(i)
  BY DEF HttpInv
<1>2. i = Len(Lines(msg)) + 1
  BY <1>1 DEF StageLines
<1>3. msg \in Messages
  BY BufferOK
<1>4. /\ Len(msg.headers) \in Nat /\ Len(Lines(msg)) = Len(msg.headers) + 2
      /\ DOMAIN Lines(msg) = 1..Len(Lines(msg)) /\ DOMAIN msg.headers = 1..Len(msg.headers)
  BY <1>3, LinesAre, MessageFields
<1>5. i - 1 = Len(Lines(msg)) /\ i - 2 \in Int /\ i - 2 >= Len(msg.headers)
  BY <1>2, <1>4
<1>6. ContextRead(msg, i - 2, known, bodySize, conn)
  BY <1>1 DEF LinesRead
<1>7. /\ \A j \in 1..Len(msg.headers) : msg.headers[j].key # "none"
      /\ First(msg, "Content-Length").text \in {"none", "number"}
      /\ First(msg, "Content-Length").number = bodySize
      /\ ~msg.response => (conn = "Single" <=> First(msg, "Connection").text = "Keep-Alive")
  BY <1>3, <1>5, <1>6, AllRead
<1>8. rindex = BodyAt(msg)
  BY <1>1, <1>2 DEF LinesRead, BodyAt
<1>9. \A j \in DOMAIN Lines(msg) : Lines(msg)[j] + CrlfLen <= MaxLineSize
  BY <1>1, <1>4, <1>5 DEF LinesRead
<1>10. QED
  BY <1>4, <1>7, <1>8, <1>9

LEMMA ParseBodyInv == HttpInv /\ ParseBody => HttpInv'
<1> SUFFICES ASSUME HttpInv, ParseBody PROVE HttpInv'
  OBVIOUS
<1>1. CASE Return("NoEnoughData")
  BY <1>1, ReturnInv DEF Verdicts
<1>2. CASE /\ BodyThere
           /\ view' = [begin |-> rindex, end |-> rindex + bodySize]
           /\ Advance(0, "done")
           /\ UNCHANGED <<named, known, bodySize, conn>>
  <2>1. rindex \in Nat /\ bodySize \in Int /\ stage = "body"
    BY BufferOK DEF HttpInv, TypeOK, ParseBody
  <2>2. stage' = "done" /\ rindex' = rindex
        /\ UNCHANGED <<msg, count, proto, windex, parsing, result, named, known, bodySize, conn>>
    BY <1>2, <2>1 DEF Advance
  <2>3. TypeOK'
    <3>1. view' \in [begin : Nat, end : Int]
      BY <1>2, <2>1
    <3>2. QED
      BY <2>2, <3>1 DEF HttpInv, TypeOK
  <2>4. StageLines' = StageLines
    BY <2>1, <2>2 DEF StageLines
  <2>5. \A i : LinesRead(i)' = LinesRead(i)
    BY <2>2 DEF LinesRead
  <2>6. FirstLineRead'
    BY <2>1, <2>2 DEF HttpInv, FirstLineRead
  <2>7. BodyRead'
    BY <1>2, <2>2 DEF BodyRead, BodyThere, Readable
  <2>8. ResultRight'
    BY <2>1, <2>2 DEF HttpInv, ResultRight
  <2>9. QED
    BY <2>3, <2>4, <2>5, <2>6, <2>7, <2>8 DEF HttpInv
<1>3. QED
  BY <1>1, <1>2 DEF ParseBody

LEMMA FinishInv == HttpInv /\ Finish => HttpInv'
<1> SUFFICES ASSUME HttpInv, Finish PROVE HttpInv'
  OBVIOUS
<1>1. stage = "done" /\ rindex \in Nat /\ bodySize \in Int
      /\ view = [begin |-> rindex, end |-> rindex + bodySize]
  BY BufferOK DEF HttpInv, TypeOK, BodyRead, Finish
<1>2. view.end < view.begin <=> bodySize < 0
  BY <1>1
<1>3. CASE view.end < view.begin
  <2>1. First(msg, "Content-Length").number < 0
    BY <1>1, <1>2, <1>3, AllLinesRead
  <2>2. ~Good(msg)
    <3>1. First(msg, "Content-Length").number \in Int
      BY <1>1, AllLinesRead
    <3>2. QED
      BY <2>1, <3>1 DEF Good
  <2>3. Return("throws")
    BY <1>3 DEF Finish
  <2>4. QED
    BY <2>1, <2>2, <2>3, ReturnInv DEF Verdicts
<1>4. CASE ~(view.end < view.begin)
  <2>1. Return("Success") /\ bodySize >= 0
    BY <1>1, <1>2, <1>4 DEF Finish
  <2>2. QED
    BY <1>1, <2>1, ReturnInv DEF Verdicts
<1>5. QED
  BY <1>3, <1>4

LEMMA HttpStep == HttpInv /\ [Next]_vars => HttpInv'
<1>1. ASSUME HttpInv, UNCHANGED vars
      PROVE  HttpInv'
  <2>1. UNCHANGED <<msg, count, proto, rindex, windex, stage, named, known, bodySize, conn,
                    view, parsing, result>>
    BY <1>1 DEF vars, ctx
  <2>2. TypeOK'
    BY <1>1, <2>1 DEF HttpInv, TypeOK
  <2>3. StageLines' = StageLines /\ \A i : LinesRead(i)' = LinesRead(i)
    BY <2>1 DEF StageLines, LinesRead
  <2>4. FirstLineRead' /\ BodyRead' /\ ResultRight'
    BY <1>1, <2>1 DEF HttpInv, FirstLineRead, BodyRead, ResultRight, Readable
  <2>5. QED
    BY <1>1, <2>2, <2>3, <2>4 DEF HttpInv
<1>2. QED
  BY <1>1, ReadFdInv, TrySimpleInv, NewContextInv, ParseLineInv, ParseHeaderInv,
     ParseBodyInv, FinishInv, NextMessageInv DEF Next

LEMMA HttpInvariant == Spec => []HttpInv
<1>1. QED
  BY HttpInit, HttpStep, PTL DEF Spec

-----------------------------------------------------------------------------
(***************************************************************************)
(* The properties.                                                         *)
(***************************************************************************)
\* The conn_type a client packed is what First finds (pack_request).
LEMMA PackedConn ==
  ASSUME NEW m \in Messages, NEW c \in {"Short", "Single"}, NEW n, m = PackRequest(c, n)
  PROVE  First(m, "Connection").text = "Keep-Alive" <=> c = "Single"
<1>1. m.headers = <<Connection(c), ContentType, ContentLength(n)>>
  BY DEF PackRequest
<1>2. Len(m.headers) = 3 /\ m.headers[1] = Connection(c)
  BY <1>1
<1>3. /\ m.headers[1].key = "Connection"
      /\ m.headers[1].text = IF c = "Short" THEN "Close" ELSE "Keep-Alive"
  BY <1>2 DEF Connection
<1>4. IsFirst(m, "Connection", 1)
  BY <1>2, <1>3 DEF IsFirst, Valued
<1>5. First(m, "Connection").text = m.headers[1].text
  BY <1>4, FirstIs
<1>6. QED
  BY <1>3, <1>5

\* The parser stays inside what was read, and what was read inside the
\* message: no retrieve() goes past _windex (_parse_request_line,
\* _parse_headers, _parse_body).
THEOREM HttpTypes == Spec => []TypeOK
<1>1. HttpInv => TypeOK
  BY DEF HttpInv
<1>2. QED
  BY <1>1, HttpInvariant, PTL

\* A message is handed on when its last byte has come and not before, with
\* the payload, the service, the method and the connection type it was sent
\* with, for any message and however it is cut (_parse_request_line,
\* _parse_headers, _parse_body and the reset between two messages).
THEOREM SuccessAlwaysComplete == Spec => []SuccessMeansComplete
<1>1. HttpInv => SuccessMeansComplete
  <2> SUFFICES ASSUME HttpInv, result = "Success"
               PROVE  /\ named = (~msg.response /\ msg.slash)
                      /\ ConnTypeRight
                      /\ windex = Total(msg)
                      /\ view = [begin |-> BodyAt(msg), end |-> Total(msg)]
    BY DEF SuccessMeansComplete
  <2>1. stage = "done" /\ bodySize >= 0 /\ bodySize \in Int /\ conn \in {"Short", "Single"}
    BY DEF HttpInv, TypeOK, ResultRight
  <2>2. named = (~msg.response /\ msg.slash)
    BY <2>1 DEF HttpInv, FirstLineRead
  <2>3. /\ msg \in Messages /\ rindex \in Nat /\ windex \in Nat /\ windex <= Total(msg)
        /\ rindex = BodyAt(msg) /\ First(msg, "Content-Length").number = bodySize
    BY <2>1, BufferOK, AllLinesRead
  <2>4. Total(msg) = rindex + bodySize
    BY <2>1, <2>3, BodyLenIs DEF Total
  <2>5. Readable >= bodySize /\ view = [begin |-> rindex, end |-> rindex + bodySize]
    BY <2>1 DEF HttpInv, BodyRead
  <2>6. windex = Total(msg)
    BY <2>1, <2>3, <2>4, <2>5 DEF Readable
  <2>7. ConnTypeRight
    <3>1. ~msg.response => (conn = "Single" <=> First(msg, "Connection").text = "Keep-Alive")
      BY <2>1, AllLinesRead
    <3>2. ASSUME ~msg.response, NEW c \in {"Short", "Single"}, NEW n \in 0..9,
                 msg = PackRequest(c, n)
          PROVE  conn = c
      <4>1. First(msg, "Connection").text = "Keep-Alive" <=> c = "Single"
        BY <2>3, <3>2, PackedConn
      <4>2. QED
        BY <2>1, <3>1, <3>2, <4>1
    <3>3. QED
      BY <2>1, <3>1, <3>2 DEF ConnTypeRight
  <2>8. QED
    BY <2>2, <2>3, <2>4, <2>5, <2>6, <2>7
<1>2. QED
  BY <1>1, HttpInvariant, PTL

\* No good message is refused, none that is not good is handed on, and stoi
\* and std::string throw for a Content-Length that is no length only, for any
\* message and however it is cut (parse_request, parse_response).
THEOREM VerdictAlwaysRight == Spec => []VerdictRight
<1>1. HttpInv => VerdictRight
  <2> SUFFICES ASSUME HttpInv PROVE VerdictRight
    OBVIOUS
  <2>1. ASSUME result = "Success" PROVE Good(msg)
    <3>1. stage = "done" /\ bodySize >= 0
      BY <2>1 DEF HttpInv, ResultRight
    <3>2. msg.response \/ (msg.head = "method" /\ msg.shape)
      BY <3>1 DEF HttpInv, FirstLineRead
    <3>3. QED
      BY <3>1, <3>2, AllLinesRead DEF Good
  <2>2. QED
    BY <2>1 DEF HttpInv, ResultRight, VerdictRight
<1>2. QED
  BY <1>1, HttpInvariant, PTL

\* A request has the bytes the parser wants to see before it looks for a
\* method: a shorter one is never answered.
RequestsHaveMethod ==
  \A m \in Messages : ~m.response => Total(m) >= HTTPMethodMaxLen

\* More will come, and the line at _rindex may still end in the window.
MoreComes ==
  /\ windex < Total(msg)
  /\ stage \in {"line", "headers"} => Window < MaxLineSize

LEMMA ReturnWaits ==
  ASSUME Return("NoEnoughData"), MoreComes
  PROVE  NoStall'
BY DEF Return, MoreComes, NoStall, Window, Readable

LEMMA FreshWaits == Fresh => NoStall
<1> SUFFICES ASSUME Fresh PROVE NoStall
  OBVIOUS
<1>1. msg \in Messages /\ rindex = 0 /\ windex = 0
  BY DEF Fresh
<1>2. MaxLineSize \in Nat /\ MaxLineSize > 0
  BY HttpAssumption
<1>3. Readable = 0 /\ Window < MaxLineSize
  <2>1. Readable = 0
    BY <1>1 DEF Readable
  <2>2. QED
    BY <1>2, <2>1, WindowIs
<1>4. Total(msg) > 0
  <2>1. Len(Lines(msg)) \in Nat /\ 1 \in 1..Len(Lines(msg)) /\ Lines(msg) \in Seq(Nat)
    BY <1>1, LinesAre, MessageFields
  <2>2. Lines(msg)[1] \in Nat
    BY <2>1
  <2>3. /\ BodyAt(msg) \in Nat /\ Start(msg, 1) \in Nat
        /\ Start(msg, 1 + 1) = Start(msg, 1) + Lines(msg)[1] + CrlfLen
        /\ Start(msg, 1 + 1) <= BodyAt(msg)
    BY <1>1, <2>1, BodyAtIs
  <2>4. Total(msg) \in Nat /\ BodyAt(msg) <= Total(msg)
    BY <1>1, TotalIsNat
  <2>5. QED
    BY <2>2, <2>3, <2>4 DEF CrlfLen
<1>5. QED
  BY <1>1, <1>3, <1>4 DEF NoStall

\* A line whose end is not in the window, which is not full, has more to come.
LEMMA UnendedWaits ==
  ASSUME HttpInv, stage \in {"line", "headers"}, ~FindCrlf, NoLine
  PROVE  NoStall'
<1>1. PICK i \in 1..Len(Lines(msg)) :
        LinesRead(i) /\ LineLen = Lines(msg)[i] /\ Lines(msg)[i] \in Nat
  BY AtLine
<1>2. /\ MaxLineSize \in Nat /\ msg \in Messages /\ rindex \in Nat /\ windex \in Nat
      /\ Readable \in Nat
  BY HttpAssumption, BufferOK
<1>3. CASE Window = MaxLineSize
  BY <1>3 DEF NoLine, Return, NoStall
<1>4. CASE Window # MaxLineSize
  <2>1. Window = Readable /\ Window < MaxLineSize
    BY <1>2, <1>4, WindowIs
  <2>2. Readable < Lines(msg)[i] + CrlfLen
    BY <1>1, <1>2, <2>1 DEF FindCrlf, CrlfLen
  <2>3. /\ BodyAt(msg) \in Nat /\ Start(msg, i) \in Nat
        /\ Start(msg, i + 1) = Start(msg, i) + Lines(msg)[i] + CrlfLen
        /\ Start(msg, i + 1) <= BodyAt(msg)
    BY <1>2, BodyAtIs
  <2>4. Total(msg) \in Nat /\ BodyAt(msg) <= Total(msg) /\ rindex = Start(msg, i)
    BY <1>1, <1>2, TotalIsNat DEF LinesRead
  <2>5. windex < Total(msg)
    BY <1>1, <1>2, <2>2, <2>3, <2>4 DEF Readable, CrlfLen
  <2>6. Return("NoEnoughData")
    BY <1>4 DEF NoLine
  <2>7. QED
    BY <2>1, <2>5, <2>6, ReturnWaits DEF MoreComes
<1>5. QED
  BY <1>3, <1>4

\* Fewer bytes than a protocol wants to see before it looks at a request.
LEMMA ShortWaits ==
  ASSUME RequestsHaveMethod, HttpInv, stage = "none", Readable < HTTPMethodMaxLen
  PROVE  MoreComes
<1>1. msg \in Messages /\ rindex \in Nat /\ windex \in Nat /\ Total(msg) \in Nat
  BY BufferOK
<1>2. Total(msg) >= HTTPMethodMaxLen
  BY <1>1 DEF HttpInv, FirstLineRead, RequestsHaveMethod
<1>3. rindex = 0
  <2>1. PICK i \in StageLines : LinesRead(i)
    BY DEF HttpInv
  <2>2. i = 1
    BY <2>1 DEF StageLines
  <2>3. QED
    BY <1>1, <2>1, <2>2, StartIsNext DEF LinesRead
<1>4. QED
  BY <1>1, <1>2, <1>3 DEF MoreComes, Readable, HTTPMethodMaxLen

LEMMA StallStep ==
  ASSUME RequestsHaveMethod, HttpInv, NoStall, [Next]_vars
  PROVE  NoStall'
<1>1. ASSUME NEW n \in 1..Total(msg), ReadFd(n)
      PROVE  NoStall'
  BY <1>1 DEF ReadFd, NoStall
<1>2. ASSUME parsing, UNCHANGED parsing
      PROVE  NoStall'
  BY <1>2 DEF NoStall
<1>3. CASE TrySimple
  <2>1. CASE Readable < 4 /\ Return("NoEnoughData")
    <3>1. stage = "none" /\ Readable \in Nat
      BY <1>3, BufferOK DEF HttpInv, FirstLineRead, TrySimple
    <3>2. MoreComes
      BY <2>1, <3>1, ShortWaits DEF HTTPMethodMaxLen
    <3>3. QED
      BY <2>1, <3>2, ReturnWaits
  <2>2. QED
    BY <1>2, <1>3, <2>1 DEF TrySimple
<1>4. CASE NewContext
  <2>1. CASE Readable < HTTPMethodMaxLen /\ Return("NoEnoughData")
    BY <1>4, <2>1, ShortWaits, ReturnWaits DEF NewContext
  <2>2. CASE Return("TryAnotherProtocol")
    BY <2>2 DEF Return, NoStall
  <2>3. QED
    BY <1>2, <1>4, <2>1, <2>2 DEF NewContext, Advance
<1>5. CASE ParseLine
  <2>1. CASE ~FindCrlf /\ NoLine
    BY <1>5, <2>1, UnendedWaits DEF ParseLine
  <2>2. CASE Return("Error")
    BY <2>2 DEF Return, NoStall
  <2>3. QED
    BY <1>2, <1>5, <2>1, <2>2 DEF ParseLine, Advance
<1>6. CASE ParseHeader
  <2>1. CASE ~FindCrlf /\ NoLine
    BY <1>6, <2>1, UnendedWaits DEF ParseHeader
  <2>2. CASE Return("Error") \/ Return("throws")
    BY <2>2 DEF Return, NoStall
  <2>3. QED
    BY <1>2, <1>6, <2>1, <2>2 DEF ParseHeader, Advance
<1>7. CASE ParseBody
  <2>1. CASE ~BodyThere /\ Return("NoEnoughData")
    <3>1. /\ msg \in Messages /\ rindex \in Nat /\ windex \in Nat /\ Readable \in Nat
          /\ bodySize \in Int /\ stage = "body"
      BY <1>7, BufferOK DEF HttpInv, TypeOK, ParseBody
    <3>2. rindex = BodyAt(msg) /\ First(msg, "Content-Length").number = bodySize
      BY <3>1, AllLinesRead
    <3>3. Readable < bodySize /\ bodySize >= 0
      BY <2>1, <3>1 DEF BodyThere
    <3>4. Total(msg) = rindex + bodySize
      BY <3>1, <3>2, <3>3, BodyLenIs DEF Total
    <3>5. MoreComes
      BY <3>1, <3>3, <3>4 DEF MoreComes, Readable
    <3>6. QED
      BY <2>1, <3>5, ReturnWaits
  <2>2. QED
    BY <1>2, <1>7, <2>1 DEF ParseBody, Advance
<1>8. CASE Finish
  BY <1>8 DEF Finish, Return, NoStall
<1>9. CASE NextMessage
  <2>1. Fresh'
    BY <1>9 DEF HttpInv, TypeOK, FirstLineRead, ResultRight, NextMessage, Fresh
  <2>2. Fresh' => NoStall'
    BY FreshWaits, PTL
  <2>3. QED
    BY <2>1, <2>2
<1>10. CASE UNCHANGED vars
  BY <1>10 DEF NoStall, Window, Readable, vars
<1>11. QED
  BY <1>1, <1>3, <1>4, <1>5, <1>6, <1>7, <1>8, <1>9, <1>10 DEF Next

\* Once the last byte of a message has come there is a verdict, and there is
\* one when the window is full without an end of line, for any message and
\* however it is cut, if no request is shorter than the seven bytes
\* parse_request wants before it looks for a method.
THEOREM NeverStalls ==
  ASSUME RequestsHaveMethod
  PROVE  Spec => []NoStall
<1>1. Init => NoStall
  <2>1. Init => Fresh
    BY MessageFields DEF Init, Fresh
  <2>2. QED
    BY <2>1, FreshWaits
<1>2. HttpInv /\ NoStall /\ [Next]_vars => NoStall'
  BY StallStep
<1>3. QED
  BY <1>1, <1>2, HttpInvariant, PTL DEF Spec
=============================================================================
