---------------------------- MODULE FixedBuffer ----------------------------
(***************************************************************************)
(* base/Buffer.h and Buffer.cpp: the buffer between a socket and the code  *)
(* that reads or fills it.  Of the four pointers, data is what lies        *)
(* between mReadPtr and mWritePtr, and at is mReadPtr - _buf; the content  *)
(* of the rest of the array is never looked at.  Bytes are cells: what a   *)
(* cell stands for is the user's choice.                                   *)
(***************************************************************************)
EXTENDS Naturals, Sequences

CONSTANT kBufferSize   \* 1024 in the code

ASSUME SizeAssumption == kBufferSize \in Nat \ {0}

Buffers(Cell) == [data : Seq(Cell), at : 0 .. kBufferSize]

\* _buf <= mReadPtr <= mWritePtr <= _end
InBounds(b) == b.at + Len(b.data) <= kBufferSize

NewBuffer == [data |-> <<>>, at |-> 0]

\* Fault: the room that is left includes the byte past the end.
Fault_avail(b) == (kBufferSize + 1) - Len(b.data)

avail(b) == kBufferSize - Len(b.data)

\* _end - mWritePtr: what fits before the content has to be moved.
Tailroom(b) == avail(b) - b.at

\* All of str or nothing.  The content moves to the front when str does not
\* end strictly before _end.
append(b, str) ==
    IF Tailroom(b) > Len(str) THEN [data |-> b.data \o str, at |-> b.at]
    ELSE IF avail(b) >= Len(str) THEN [data |-> b.data \o str, at |-> 0]
    ELSE b

\* The caller has written bytes at mWritePtr and takes them in.
add(b, bytes) ==
    IF Len(bytes) > avail(b) THEN b ELSE [b EXCEPT !.data = @ \o bytes]

\* Fault: one byte of what was used stays.
Fault_readPtrMove(b, len) == [data |-> SubSeq(b.data, len, Len(b.data)),
                              at |-> (b.at + len) - 1]

readPtrMove(b, len) == [data |-> SubSeq(b.data, len + 1, Len(b.data)),
                        at |-> b.at + len]

\* readFd with n <= avail(b) bytes received: the content moves to the front
\* once the end is reached and there is still room.
Receive(b, bytes) == [data |-> b.data \o bytes,
                      at |-> IF Len(bytes) >= Tailroom(b) THEN 0 ELSE b.at]
=============================================================================
