------------------------- MODULE FixedBuffer_proofs -------------------------
(***************************************************************************)
(* What the operations of FixedBuffer keep and return, for every size of   *)
(* the buffer.                                                             *)
(***************************************************************************)
EXTENDS FixedBuffer, TLAPS

\* append keeps _buf <= mReadPtr <= mWritePtr <= _end (Buffer.h:97), also when
\* it has to move the content.
THEOREM AppendInBounds ==
    ASSUME NEW Cell, NEW b \in Buffers(Cell), NEW str \in Seq(Cell), InBounds(b)
    PROVE  append(b, str) \in Buffers(Cell) /\ InBounds(append(b, str))
<1>1. Len(b.data) \in Nat /\ Len(str) \in Nat /\ b.at \in Nat /\ kBufferSize \in Nat
    BY SizeAssumption DEF Buffers
<1>2. b.data \o str \in Seq(Cell) /\ Len(b.data \o str) = Len(b.data) + Len(str)
    BY DEF Buffers
<1>3. CASE Tailroom(b) > Len(str)
    <2>1. append(b, str) = [data |-> b.data \o str, at |-> b.at]
        BY <1>3 DEF append
    <2> QED
        BY <1>1, <1>2, <1>3, <2>1 DEF InBounds, Buffers, Tailroom, avail
<1>4. CASE ~(Tailroom(b) > Len(str)) /\ avail(b) >= Len(str)
    <2>1. append(b, str) = [data |-> b.data \o str, at |-> 0]
        BY <1>4 DEF append
    <2> QED
        BY <1>1, <1>2, <1>4, <2>1 DEF InBounds, Buffers, avail
<1>5. CASE ~(Tailroom(b) > Len(str)) /\ ~(avail(b) >= Len(str))
    BY <1>5 DEF append
<1> QED
    BY <1>3, <1>4, <1>5

\* append is all or nothing: str is added whole exactly when it fits what is
\* free in the whole array, wherever the content lies, and dropped otherwise.
THEOREM AppendAllOrNothing ==
    ASSUME NEW Cell, NEW b \in Buffers(Cell), NEW str \in Seq(Cell), InBounds(b)
    PROVE  append(b, str).data = IF Len(str) <= avail(b) THEN b.data \o str ELSE b.data
<1>1. Len(b.data) \in Nat /\ Len(str) \in Nat /\ b.at \in Nat /\ kBufferSize \in Nat
    BY SizeAssumption DEF Buffers
<1>2. CASE Tailroom(b) > Len(str)
    <2>1. append(b, str).data = b.data \o str
        BY <1>2 DEF append
    <2>2. Len(str) <= avail(b)
        BY <1>1, <1>2 DEF Tailroom, avail
    <2> QED
        BY <2>1, <2>2
<1>3. CASE ~(Tailroom(b) > Len(str)) /\ avail(b) >= Len(str)
    <2>1. append(b, str).data = b.data \o str
        BY <1>3 DEF append
    <2>2. Len(str) <= avail(b)
        BY <1>1, <1>3 DEF avail
    <2> QED
        BY <2>1, <2>2
<1>4. CASE ~(Tailroom(b) > Len(str)) /\ ~(avail(b) >= Len(str))
    <2>1. append(b, str) = b
        BY <1>4 DEF append
    <2>2. ~(Len(str) <= avail(b))
        BY <1>1, <1>4 DEF avail
    <2> QED
        BY <2>1, <2>2
<1> QED
    BY <1>2, <1>3, <1>4

\* readFd, which never asks recv for more than is free, stays within the
\* array however many times it has to move the content.
THEOREM ReceiveInBounds ==
    ASSUME NEW Cell, NEW b \in Buffers(Cell), NEW bytes \in Seq(Cell),
           InBounds(b), Len(bytes) <= avail(b)
    PROVE  Receive(b, bytes) \in Buffers(Cell) /\ InBounds(Receive(b, bytes))
<1>1. Len(b.data) \in Nat /\ Len(bytes) \in Nat /\ b.at \in Nat /\ kBufferSize \in Nat
    BY SizeAssumption DEF Buffers
<1>2. b.data \o bytes \in Seq(Cell) /\ Len(b.data \o bytes) = Len(b.data) + Len(bytes)
    BY DEF Buffers
<1>3. CASE Len(bytes) >= Tailroom(b)
    <2>1. Receive(b, bytes) = [data |-> b.data \o bytes, at |-> 0]
        BY <1>3 DEF Receive
    <2> QED
        BY <1>1, <1>2, <2>1 DEF InBounds, Buffers, avail
<1>4. CASE ~(Len(bytes) >= Tailroom(b))
    <2>1. Receive(b, bytes) = [data |-> b.data \o bytes, at |-> b.at]
        BY <1>4 DEF Receive
    <2> QED
        BY <1>1, <1>2, <1>4, <2>1 DEF InBounds, Buffers, avail, Tailroom
<1> QED
    BY <1>3, <1>4

\* readPtrMove by at most used() bytes, as all of its callers do, stays within
\* the array and leaves mWritePtr where it was.
THEOREM MoveInBounds ==
    ASSUME NEW Cell, NEW b \in Buffers(Cell), NEW len \in 0 .. Len(b.data),
           InBounds(b)
    PROVE  /\ readPtrMove(b, len) \in Buffers(Cell)
           /\ InBounds(readPtrMove(b, len))
           /\ Tailroom(readPtrMove(b, len)) = Tailroom(b)
<1>1. Len(b.data) \in Nat /\ b.at \in Nat /\ kBufferSize \in Nat /\ b.data \in Seq(Cell)
    BY SizeAssumption DEF Buffers
<1> DEFINE rest == SubSeq(b.data, len + 1, Len(b.data))
<1>2. rest \in Seq(Cell) /\ Len(rest) = Len(b.data) - len
    BY <1>1
<1>3. readPtrMove(b, len) = [data |-> rest, at |-> b.at + len]
    BY DEF readPtrMove
<1> HIDE DEF rest
<1> QED
    BY <1>1, <1>2, <1>3 DEF InBounds, Buffers, Tailroom, avail
=============================================================================
