------------------------------- MODULE Buffer -------------------------------
(***************************************************************************)
(* src/network/Buffer: a vector with a prependable part, a readable part   *)
(* and a writable part, as a record of its size, m_readerIdx and what is   *)
(* readable.  The bytes outside the readable part are never read, so that  *)
(* only their number is kept.  A byte is any value.                        *)
(***************************************************************************)
EXTENDS Naturals, Sequences

CONSTANTS kCheapPrepend, kInitialSize

ASSUME BufferAssumption == kCheapPrepend \in Nat /\ kInitialSize \in Nat

\* The fields of a buffer of given bytes.
Buffer(Byte) == [size : Nat, reader : Nat, content : Seq(Byte)]

EmptyBuffer ==
  [size |-> kCheapPrepend + kInitialSize, reader |-> kCheapPrepend, content |-> <<>>]

readableBytes(b) == Len(b.content)

m_writerIdx(b) == b.reader + readableBytes(b)

writableBytes(b) == b.size - m_writerIdx(b)

prependableBytes(b) == b.reader

retrieveAll(b) == [b EXCEPT !.reader = kCheapPrepend, !.content = <<>>]

retrieve(b, len) ==
  IF len < readableBytes(b)
  THEN [b EXCEPT !.reader = @ + len, !.content = SubSeq(@, len + 1, Len(@))]
  ELSE retrieveAll(b)

\* What retrieveAllAsString() leaves; it returns the content.
retrieveAllAsString(b) == retrieve(b, readableBytes(b))

\* Mutant: the prependable part is taken for free space as a whole.
makeSpace_NoPrepend(b, len) ==
  IF writableBytes(b) + prependableBytes(b) < len
  THEN [b EXCEPT !.size = m_writerIdx(b) + len]
  ELSE [b EXCEPT !.reader = kCheapPrepend]

\* The vector grows, or the readable part moves down to kCheapPrepend.
makeSpace(b, len) ==
  IF writableBytes(b) + prependableBytes(b) < len + kCheapPrepend
  THEN [b EXCEPT !.size = m_writerIdx(b) + len]
  ELSE [b EXCEPT !.reader = kCheapPrepend]

ensureWritableBytes(b, len) == IF writableBytes(b) < len THEN makeSpace(b, len) ELSE b

hasWritten(b, bytes) == [b EXCEPT !.content = @ \o bytes]

append(b, bytes) == hasWritten(ensureWritableBytes(b, Len(bytes)), bytes)

\* readFd() when readv() returned bytes: what the writable part cannot take
\* was read into the local array and is appended.
readFd(b, bytes) ==
  LET writable == writableBytes(b)
  IN IF Len(bytes) < writable
     THEN hasWritten(b, bytes)
     ELSE append(hasWritten(b, SubSeq(bytes, 1, writable)),
                 SubSeq(bytes, writable + 1, Len(bytes)))

\* What the class comment draws: 0 <= reader <= writer <= size, with a
\* prependable part that never gets smaller than kCheapPrepend.
IndicesOrdered(b) == kCheapPrepend <= b.reader /\ m_writerIdx(b) <= b.size
=============================================================================
