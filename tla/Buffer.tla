------------------------------- MODULE Buffer -------------------------------
(***************************************************************************)
(* Buffer (src/net/buffer.{h,cpp}) as its indexes: what is appended and    *)
(* written to a socket, or read from one and retrieved.  Bytes are counted *)
(* only.  The theorem says for which appends one doubling is enough.       *)
(***************************************************************************)
EXTENDS Integers, TLAPS

CONSTANTS
  InitialBufferSize,
  MaxAppend   \* the longest single append

VARIABLES
  size,        \* _data.size()
  rindex,      \* _rindex
  windex,      \* _windex
  extraSize,   \* _extra_data.size()
  extraIndex   \* _extra_index

data == <<size, rindex, windex>>
extra == <<extraSize, extraIndex>>
vars == <<data, extra>>

Readable == windex - rindex
Writeable == size - windex
Extraable == extraSize - extraIndex

Init ==
  /\ size = InitialBufferSize
  /\ rindex = 0 /\ windex = 0
  /\ extraSize = 0 /\ extraIndex = 0

\* _append: one doubling, whatever the length.
Append(n) ==
  /\ size' = IF Writeable < n THEN size * 2 ELSE size
  /\ windex' = windex + n
  /\ UNCHANGED <<rindex, extra>>

\* append_extra leaves _extra_index: pack_request and pack_response call it on
\* a buffer that is new or was cleared.
AppendExtra(n) ==
  /\ extraIndex = 0
  /\ extraSize' = n
  /\ UNCHANGED <<data, extraIndex>>

\* write_fd: what the socket took of either part.
WriteFd(n, m) ==
  /\ n <= Readable /\ m <= Extraable
  /\ rindex' = rindex + n
  /\ extraIndex' = extraIndex + m
  /\ UNCHANGED <<size, windex, extraSize>>

\* read_fd: a full buffer is doubled, then takes what fits.
ReadFd(n) ==
  /\ size' = IF Writeable = 0 THEN size * 2 ELSE size
  /\ windex + n <= size'
  /\ windex' = windex + n
  /\ UNCHANGED <<rindex, extra>>

\* retrieve: no more than is there, which is the caller's duty
\* (SimpleProtocol.tla shows when its parsers keep to it).
Retrieve(n) ==
  /\ n <= Readable
  /\ rindex' = rindex + n
  /\ UNCHANGED <<size, windex, extra>>

\* clear: _extra_data itself is kept.
Clear ==
  /\ rindex' = 0 /\ windex' = 0 /\ extraIndex' = 0
  /\ UNCHANGED <<size, extraSize>>

Next ==
  \/ \E n \in 0..MaxAppend : Append(n)
  \/ \E n \in Nat : AppendExtra(n) \/ ReadFd(n) \/ Retrieve(n)
  \/ \E n, m \in Nat : WriteFd(n, m)
  \/ Clear

Spec == Init /\ [][Next]_vars
-----------------------------------------------------------------------------
\* readable(), writeable() and extraable(), differences of unsigned numbers,
\* do not wrap around, and memcpy and ::read stay inside _data.
Inside ==
  /\ size \in Nat /\ rindex \in Nat /\ windex \in Nat
  /\ extraSize \in Nat /\ extraIndex \in Nat
  /\ InitialBufferSize <= size
  /\ rindex <= windex /\ windex <= size
  /\ extraIndex <= extraSize

\* Every step keeps the indexes inside.
LEMMA StepInside ==
  ASSUME InitialBufferSize \in Nat, MaxAppend \in Nat,
         MaxAppend <= InitialBufferSize,
         Inside, [Next]_vars
  PROVE  Inside'
<1>1. ASSUME NEW n \in 0..MaxAppend, Append(n)
      PROVE  Inside'
  <2>1. n \in Nat /\ n <= size
    BY DEF Inside
  <2>2. CASE Writeable < n
    BY <1>1, <2>1, <2>2 DEF Inside, Append, Writeable, extra
  <2>3. CASE ~(Writeable < n)
    BY <1>1, <2>1, <2>3 DEF Inside, Append, Writeable, extra
  <2>4. QED
    BY <2>2, <2>3
<1>2. ASSUME NEW n \in Nat, AppendExtra(n)
      PROVE  Inside'
  BY <1>2 DEF Inside, AppendExtra, data
<1>3. ASSUME NEW n \in Nat, ReadFd(n)
      PROVE  Inside'
  BY <1>3 DEF Inside, ReadFd, Writeable, extra
<1>4. ASSUME NEW n \in Nat, Retrieve(n)
      PROVE  Inside'
  BY <1>4 DEF Inside, Retrieve, Readable, extra
<1>5. ASSUME NEW n \in Nat, NEW m \in Nat, WriteFd(n, m)
      PROVE  Inside'
  BY <1>5 DEF Inside, WriteFd, Readable, Extraable
<1>6. CASE Clear
  BY <1>6 DEF Inside, Clear
<1>7. CASE UNCHANGED vars
  BY <1>7 DEF Inside, vars, data, extra
<1>8. QED
  BY <1>1, <1>2, <1>3, <1>4, <1>5, <1>6, <1>7 DEF Next

\* If no single append is longer than a new buffer, one doubling is always
\* enough: nothing is ever copied behind the end of _data, whatever was
\* appended, written, read, retrieved and cleared before (_append, read_fd,
\* write_fd, retrieve, clear).
THEOREM AppendStaysInside ==
  ASSUME InitialBufferSize \in Nat, MaxAppend \in Nat,
         MaxAppend <= InitialBufferSize
  PROVE  Spec => []Inside
<1>1. Init => Inside
  BY DEF Init, Inside
<1>2. Inside /\ [Next]_vars => Inside'
  BY StepInside
<1>3. QED
  BY <1>1, <1>2, PTL DEF Spec
=============================================================================
