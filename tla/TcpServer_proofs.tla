-------------------------- MODULE TcpServer_proofs --------------------------
(***************************************************************************)
(* Buffer keeps a sequence of bytes within its vector, for any sizes; and  *)
(* the life of the connections of TcpServer, for any numbers of clients,   *)
(* connections, messages and loops.                                        *)
(***************************************************************************)
EXTENDS TcpServer, SequenceTheorems, FiniteSetTheorems, TLAPS

-----------------------------------------------------------------------------
(* Buffer.                                                                 *)

\* A buffer of some bytes with its indices in order, as EmptyBuffer is.
Valid(b, Byte) == b \in Buffer(Byte) /\ IndicesOrdered(b)

LEMMA EmptyIsValid == ASSUME NEW Byte PROVE Valid(EmptyBuffer, Byte)
BY BufferAssumption DEF Valid, Buffer, EmptyBuffer, IndicesOrdered, m_writerIdx, readableBytes

LEMMA SizesOf ==
  ASSUME NEW Byte, NEW b, Valid(b, Byte)
  PROVE  /\ b.size \in Nat /\ b.reader \in Nat /\ kCheapPrepend \in Nat
         /\ b.content \in Seq(Byte) /\ Len(b.content) \in Nat
         /\ kCheapPrepend <= b.reader /\ b.reader + Len(b.content) <= b.size
         /\ b = [size |-> b.size, reader |-> b.reader, content |-> b.content]
BY BufferAssumption DEF Valid, Buffer, IndicesOrdered, m_writerIdx, readableBytes

LEMMA WithContent ==
  ASSUME NEW Byte, NEW b \in Buffer(Byte), NEW r, NEW c
  PROVE  /\ [b EXCEPT !.content = c] = [size |-> b.size, reader |-> b.reader, content |-> c]
         /\ [b EXCEPT !.reader = r, !.content = c] = [size |-> b.size, reader |-> r, content |-> c]
<1> DEFINE S == Seq(Byte)
<1>1. b \in [size : Nat, reader : Nat, content : S]
  BY DEF Buffer
<1> HIDE DEF S
<1>2. [b EXCEPT !.content = c] = [size |-> b.size, reader |-> b.reader, content |-> c]
  BY <1>1
<1> DEFINE m == [b EXCEPT !.reader = r]
<1>3. m = [size |-> b.size, reader |-> r, content |-> b.content]
  BY <1>1
<1> HIDE DEF m
<1>4. [m EXCEPT !.content = c] = [size |-> b.size, reader |-> r, content |-> c]
  BY <1>3
<1> QED BY <1>2, <1>4 DEF m

\* makeSpace (Buffer.h:122) leaves room for what it was asked for, whether it
\* grew the vector or moved the bytes down, and does not touch the bytes.
LEMMA RoomIsMade ==
  ASSUME NEW Byte, NEW b, Valid(b, Byte), NEW len \in Nat
  PROVE  LET e == ensureWritableBytes(b, len)
         IN Valid(e, Byte) /\ writableBytes(e) >= len /\ e.content = b.content
<1> DEFINE m == makeSpace(b, len)
<1>1. CASE writableBytes(b) >= len
  BY <1>1, SizesOf DEF ensureWritableBytes, writableBytes, m_writerIdx, readableBytes
<1>2. CASE ~(writableBytes(b) >= len)
  <2>1. ensureWritableBytes(b, len) = m
    BY <1>2, SizesOf DEF ensureWritableBytes, writableBytes, m_writerIdx, readableBytes
  <2>2. CASE writableBytes(b) + prependableBytes(b) < len + kCheapPrepend
    <3>1. m = [size |-> b.reader + Len(b.content) + len, reader |-> b.reader, content |-> b.content]
      BY <2>2, SizesOf DEF makeSpace, m_writerIdx, readableBytes
    <3> QED
      BY <2>1, <3>1, SizesOf
      DEF Valid, Buffer, IndicesOrdered, writableBytes, m_writerIdx, readableBytes
  <2>3. CASE ~(writableBytes(b) + prependableBytes(b) < len + kCheapPrepend)
    <3>1. m = [size |-> b.size, reader |-> kCheapPrepend, content |-> b.content]
      BY <2>3, SizesOf DEF makeSpace
    <3>2. b.size - Len(b.content) >= len + kCheapPrepend
      BY <2>3, SizesOf DEF writableBytes, prependableBytes, m_writerIdx, readableBytes
    <3> QED
      BY <2>1, <3>1, <3>2, SizesOf
      DEF Valid, Buffer, IndicesOrdered, writableBytes, m_writerIdx, readableBytes
  <2> QED BY <2>2, <2>3
<1> QED BY <1>1, <1>2

\* Bytes written where there is room stay within the vector.
LEMMA WrittenInRoom ==
  ASSUME NEW Byte, NEW b, Valid(b, Byte), NEW bytes \in Seq(Byte), writableBytes(b) >= Len(bytes)
  PROVE  /\ Valid(hasWritten(b, bytes), Byte)
         /\ hasWritten(b, bytes).content = b.content \o bytes
<1> DEFINE w == hasWritten(b, bytes)
<1>1. w = [size |-> b.size, reader |-> b.reader, content |-> b.content \o bytes]
  BY WithContent DEF hasWritten, Valid
<1>2. /\ b.content \o bytes \in Seq(Byte) /\ Len(bytes) \in Nat
      /\ Len(b.content \o bytes) = Len(b.content) + Len(bytes)
  BY SizesOf
<1> QED
  BY <1>1, <1>2, SizesOf
  DEF Valid, Buffer, IndicesOrdered, writableBytes, m_writerIdx, readableBytes

\* append (Buffer.h:82) puts the bytes after those that are there, and writes
\* none outside the vector.
THEOREM AppendKeepsOrder ==
  ASSUME NEW Byte, NEW b, Valid(b, Byte), NEW bytes \in Seq(Byte)
  PROVE  Valid(append(b, bytes), Byte) /\ append(b, bytes).content = b.content \o bytes
<1> DEFINE e == ensureWritableBytes(b, Len(bytes))
<1>1. Len(bytes) \in Nat
  OBVIOUS
<1>2. Valid(e, Byte) /\ writableBytes(e) >= Len(bytes) /\ e.content = b.content
  BY <1>1, RoomIsMade
<1> HIDE DEF e
<1>3. Valid(hasWritten(e, bytes), Byte) /\ hasWritten(e, bytes).content = e.content \o bytes
  BY <1>2, WrittenInRoom
<1>4. append(b, bytes) = hasWritten(e, bytes)
  BY DEF append, e
<1> QED BY <1>2, <1>3, <1>4

\* retrieve (Buffer.h:54) takes the first bytes, or all if there are fewer.
THEOREM RetrieveIsTail ==
  ASSUME NEW Byte, NEW b, Valid(b, Byte), NEW len \in Nat
  PROVE  /\ Valid(retrieve(b, len), Byte)
         /\ retrieve(b, len).content =
              IF len < Len(b.content) THEN SubSeq(b.content, len + 1, Len(b.content)) ELSE <<>>
<1> DEFINE r == retrieve(b, len)
           s == SubSeq(b.content, len + 1, Len(b.content))
<1>1. CASE len < Len(b.content)
  <2>1. r = [size |-> b.size, reader |-> b.reader + len, content |-> s]
    BY <1>1, WithContent DEF retrieve, readableBytes, Valid
  <2>2. s \in Seq(Byte) /\ Len(s) = Len(b.content) - len
    BY <1>1, SizesOf
  <2> HIDE DEF r, s
  <2>3. Valid(r, Byte) /\ r.content = s
    BY <1>1, <2>1, <2>2, SizesOf DEF Valid, Buffer, IndicesOrdered, m_writerIdx, readableBytes
  <2> QED BY <1>1, <2>3 DEF r, s
<1>2. CASE ~(len < Len(b.content))
  <2>1. r = [size |-> b.size, reader |-> kCheapPrepend, content |-> <<>>]
    BY <1>2, WithContent DEF retrieve, retrieveAll, readableBytes, Valid
  <2>2. <<>> \in Seq(Byte) /\ Len(<<>>) = 0
    OBVIOUS
  <2> QED
    BY <1>2, <2>1, <2>2, SizesOf DEF Valid, Buffer, IndicesOrdered, m_writerIdx, readableBytes
<1> QED BY <1>1, <1>2

\* readFd (Buffer.cpp:8) keeps all that readv returned, in order, whatever part
\* of it had to go through the array on the stack.
THEOREM ReadFdKeepsOrder ==
  ASSUME NEW Byte, NEW b, Valid(b, Byte), NEW bytes \in Seq(Byte)
  PROVE  Valid(readFd(b, bytes), Byte) /\ readFd(b, bytes).content = b.content \o bytes
<1> DEFINE w    == writableBytes(b)
           head == SubSeq(bytes, 1, w)
           tail == SubSeq(bytes, w + 1, Len(bytes))
           h    == hasWritten(b, head)
<1>1. w \in Nat /\ Len(bytes) \in Nat
  BY SizesOf DEF writableBytes, m_writerIdx, readableBytes
<1>2. CASE Len(bytes) < w
  <2>1. readFd(b, bytes) = hasWritten(b, bytes)
    BY <1>2 DEF readFd
  <2> QED BY <1>1, <1>2, <2>1, WrittenInRoom
<1>3. CASE ~(Len(bytes) < w)
  <2> HIDE DEF w
  <2>1. /\ head \in Seq(Byte) /\ tail \in Seq(Byte) /\ Len(head) = w
        /\ Len(tail) = Len(bytes) - w
    BY <1>1, <1>3
  <2>2. \A i \in 1 .. w : head[i] = bytes[i]
    BY <1>1, <1>3
  <2>3. \A i \in 1 .. Len(tail) : tail[i] = bytes[w + i]
    BY <1>1, <1>3
  <2> HIDE DEF head, tail
  <2>4. Valid(h, Byte) /\ h.content = b.content \o head
    BY <1>1, <2>1, WrittenInRoom DEF w
  <2>5. readFd(b, bytes) = append(h, tail)
    BY <1>3 DEF readFd, w, head, tail
  <2> HIDE DEF h
  <2>6. Valid(append(h, tail), Byte) /\ append(h, tail).content = h.content \o tail
    BY <2>1, <2>4, AppendKeepsOrder, Zenon
  <2>7. head \o tail = bytes
    <3>1. head \o tail \in Seq(Byte) /\ Len(head \o tail) = Len(bytes)
      BY <1>1, <1>3, <2>1
    <3>2. ASSUME NEW i \in 1 .. Len(bytes) PROVE (head \o tail)[i] = bytes[i]
      <4>1. CASE i <= w
        BY <1>1, <1>3, <2>1, <2>2, <4>1
      <4>2. CASE ~(i <= w)
        <5>1. i - w \in 1 .. Len(tail) /\ w + (i - w) = i
          BY <1>1, <1>3, <2>1, <4>2
        <5>2. (head \o tail)[i] = tail[i - w]
          BY <1>1, <2>1, <4>2, <5>1
        <5> QED BY <2>3, <5>1, <5>2
      <4> QED BY <4>1, <4>2
    <3> QED BY <3>1, <3>2, SeqEqual
  <2>8. (b.content \o head) \o tail = b.content \o (head \o tail)
    <3> DEFINE c == b.content
    <3>1. c \in Seq(Byte) /\ head \in Seq(Byte) /\ tail \in Seq(Byte)
      BY <2>1, SizesOf
    <3> HIDE DEF c
    <3>2. (c \o head) \o tail = c \o (head \o tail)
      BY <3>1
    <3> QED BY <3>2 DEF c
  <2> QED BY <2>4, <2>5, <2>6, <2>7, <2>8
<1> QED BY <1>2, <1>3

-----------------------------------------------------------------------------
(* Queues of functors.                                                     *)

Est(c) == <<"connectEstablished", c>>
Des(c) == <<"connectDestoryed", c>>
Rem(c) == <<"removeConnectionInLoop", c>>

In(s, f) == \E i \in DOMAIN s : s[i] = f

Once(s) == \A i, j \in DOMAIN s : s[i] = s[j] => i = j

\* A connection is established before it is destroyed.
EstFirst(s) == \A c \in Conn : \A i, j \in DOMAIN s : s[i] = Est(c) /\ s[j] = Des(c) => i < j

\* The loop that runs a functor.
Place(cn, f) == IF f[1] = "removeConnectionInLoop" THEN Base ELSE cn[f[2]].loop

\* Queues q of the functors of connections before n, with fields cn.
Well(q, n, cn) ==
  /\ q \in [Loop -> Seq(Functor)]
  /\ \A l \in Loop : Once(q[l]) /\ EstFirst(q[l])
  /\ \A l \in Loop : \A f \in Functor : In(q[l], f) => f[2] < n /\ l = Place(cn, f)

LEMMA Kinds ==
  /\ \A c \in Conn : Est(c) \in Functor /\ Des(c) \in Functor /\ Rem(c) \in Functor
  /\ \A f \in Functor : f[2] \in Conn /\ (f = Est(f[2]) \/ f = Des(f[2]) \/ f = Rem(f[2]))
  /\ \A c, d \in Conn : /\ Est(c) # Des(d) /\ Des(c) # Rem(d) /\ Est(c) # Rem(d)
                        /\ Est(c) = Est(d) <=> c = d
                        /\ Des(c) = Des(d) <=> c = d
                        /\ Rem(c) = Rem(d) <=> c = d
  /\ \A c \in Conn : Est(c)[2] = c /\ Des(c)[2] = c /\ Rem(c)[2] = c
  /\ \A cn : \A c \in Conn : /\ Place(cn, Est(c)) = cn[c].loop /\ Place(cn, Des(c)) = cn[c].loop
                             /\ Place(cn, Rem(c)) = Base
BY DEF Est, Des, Rem, Functor, Place

LEMMA AppendIn ==
  ASSUME NEW s \in Seq(Functor), NEW f \in Functor, Once(s), EstFirst(s), ~In(s, f),
         \A c \in Conn : f = Est(c) => ~In(s, Des(c))
  PROVE  /\ Append(s, f) \in Seq(Functor) /\ Once(Append(s, f)) /\ EstFirst(Append(s, f))
         /\ \A g : In(Append(s, f), g) <=> In(s, g) \/ g = f
<1> DEFINE t == Append(s, f)
           n == Len(s)
<1>1. /\ t \in Seq(Functor) /\ n \in Nat /\ DOMAIN s = 1..n /\ DOMAIN t = 1..(n + 1)
      /\ t[n + 1] = f /\ \A i \in 1..n : t[i] = s[i]
  OBVIOUS
<1> HIDE DEF t, n
<1>2. \A g : In(t, g) <=> In(s, g) \/ g = f
  BY <1>1 DEF In
<1>3. Once(t)
  BY <1>1 DEF Once, In
<1>4. EstFirst(t)
  BY <1>1, Kinds DEF EstFirst, In
<1> QED BY <1>1, <1>2, <1>3, <1>4 DEF t

LEMMA TailIn ==
  ASSUME NEW s \in Seq(Functor), s # <<>>, Once(s), EstFirst(s)
  PROVE  /\ Tail(s) \in Seq(Functor) /\ Once(Tail(s)) /\ EstFirst(Tail(s))
         /\ \A g : In(Tail(s), g) <=> In(s, g) /\ g # Head(s)
         /\ Head(s) \in Functor /\ In(s, Head(s))
         /\ \A c \in Conn : Head(s) = Des(c) => ~In(s, Est(c))
<1> DEFINE t == Tail(s)
           n == Len(s)
<1>1. /\ t \in Seq(Functor) /\ n \in Nat /\ n >= 1 /\ DOMAIN s = 1..n /\ DOMAIN t = 1..(n - 1)
      /\ \A i \in 1..(n - 1) : t[i] = s[i + 1]
      /\ Head(s) = s[1] /\ s[1] \in Functor
  OBVIOUS
<1> HIDE DEF t, n
<1>2. ASSUME NEW g PROVE In(t, g) <=> In(s, g) /\ g # s[1]
  <2>1. ASSUME In(t, g) PROVE In(s, g) /\ g # s[1]
    <3>1. PICK i \in 1..(n - 1) : s[i + 1] = g
      BY <1>1, <2>1 DEF In
    <3>2. i + 1 \in 1..n /\ 1 \in 1..n /\ i + 1 # 1
      BY <1>1
    <3> QED BY <1>1, <3>1, <3>2 DEF In, Once
  <2>2. ASSUME In(s, g), g # s[1] PROVE In(t, g)
    <3>1. PICK i \in 1..n : s[i] = g
      BY <1>1, <2>2 DEF In
    <3>2. i - 1 \in 1..(n - 1) /\ (i - 1) + 1 = i
      BY <1>1, <2>2, <3>1
    <3>3. t[i - 1] = g
      BY <1>1, <3>1, <3>2
    <3> QED BY <1>1, <3>2, <3>3 DEF In
  <2> QED BY <2>1, <2>2
<1>3. \A i \in 1..(n - 1) : i + 1 \in 1..n
  BY <1>1
<1>4. Once(t)
  <2> SUFFICES ASSUME NEW i \in 1..(n - 1), NEW j \in 1..(n - 1), t[i] = t[j] PROVE i = j
    BY <1>1 DEF Once
  <2>1. i + 1 = j + 1
    BY <1>1, <1>3 DEF Once
  <2> QED BY <2>1
<1>5. EstFirst(t)
  <2> SUFFICES ASSUME NEW c \in Conn, NEW i \in 1..(n - 1), NEW j \in 1..(n - 1),
                      t[i] = Est(c), t[j] = Des(c)
               PROVE  i < j
    BY <1>1 DEF EstFirst
  <2>1. i + 1 < j + 1
    BY <1>1, <1>3 DEF EstFirst
  <2> QED BY <2>1
<1>6. \A c \in Conn : s[1] = Des(c) => ~In(s, Est(c))
  <2> SUFFICES ASSUME NEW c \in Conn, s[1] = Des(c), NEW i \in 1..n, s[i] = Est(c) PROVE FALSE
    BY <1>1 DEF In
  <2>1. 1 \in 1..n /\ ~(i < 1)
    BY <1>1
  <2> QED BY <1>1, <2>1 DEF EstFirst
<1>7. In(s, s[1])
  BY <1>1 DEF In
<1> QED BY <1>1, <1>2, <1>4, <1>5, <1>6, <1>7 DEF t

\* The functors of connections in the order o, after those of s.
LEMMA ConcatIn ==
  ASSUME NEW s \in Seq(Functor), Once(s), EstFirst(s), NEW S \in SUBSET Conn,
         NEW o \in SetToSeqs(S), \A c \in S : ~In(s, Des(c))
  PROVE  LET t == s \o [i \in DOMAIN o |-> <<"connectDestoryed", o[i]>>]
         IN  /\ t \in Seq(Functor) /\ Once(t) /\ EstFirst(t) /\ Len(s) <= Len(t)
             /\ \A g : In(t, g) <=> In(s, g) \/ \E c \in S : g = Des(c)
<1> DEFINE n == Len(s)
           m == Cardinality(S)
           d == [i \in DOMAIN o |-> <<"connectDestoryed", o[i]>>]
           t == s \o d
<1>1. IsFiniteSet(S) /\ m \in Nat
  <2>1. IsFiniteSet(Conn)
    BY ServerAssumption, FS_Interval DEF Conn
  <2> QED BY <2>1, FS_Subset, FS_CardinalityType
<1>2. o \in [1..m -> S] /\ \A i, j \in 1..m : i # j => o[i] # o[j]
  BY DEF SetToSeqs
<1>3. \A c \in S : \E i \in 1..m : o[i] = c
  <2>1. o \in Injection(1..m, S)
    BY <1>2 DEF Injection, IsInjective
  <2>2. Cardinality(1..m) = m
    BY <1>1, FS_Interval
  <2>3. o \in Surjection(1..m, S)
    BY <1>1, <2>1, <2>2, FS_Injection
  <2> QED BY <2>3 DEF Surjection
<1>4. /\ d \in Seq(Functor) /\ Len(d) = m /\ DOMAIN d = 1..m
      /\ \A i \in 1..m : d[i] = Des(o[i])
  <2>1. DOMAIN o = 1..m /\ \A i \in 1..m : d[i] = Des(o[i]) /\ Des(o[i]) \in Functor
    BY <1>2, Kinds DEF Des
  <2>2. d \in [1..m -> Functor]
    BY <2>1
  <2> HIDE DEF d, m
  <2> QED BY <1>1, <2>1, <2>2
<1> HIDE DEF d, m
<1>5. /\ t \in Seq(Functor) /\ n \in Nat /\ DOMAIN s = 1..n /\ Len(t) = n + m /\ DOMAIN t = 1..(n + m)
      /\ \A i \in 1..n : t[i] = s[i]
      /\ \A i \in (n + 1)..(n + m) : t[i] = d[i - n]
  BY <1>1, <1>4
<1> HIDE DEF t, n
<1>6. \A i \in (n + 1)..(n + m) : i - n \in 1..m
  BY <1>1, <1>5
<1>7. \A i \in (n + 1)..(n + m) : t[i] = Des(o[i - n]) /\ o[i - n] \in S
  BY <1>2, <1>4, <1>5, <1>6
<1>8. \A i \in 1..(n + m) : i \in 1..n \/ i \in (n + 1)..(n + m)
  BY <1>1, <1>5
<1>9. \A i \in 1..m : i + n \in (n + 1)..(n + m) /\ (i + n) - n = i /\ i + n \in 1..(n + m)
  BY <1>1, <1>5
<1>10. ASSUME NEW g PROVE In(t, g) <=> In(s, g) \/ \E c \in S : g = Des(c)
  <2>1. ASSUME In(t, g) PROVE In(s, g) \/ \E c \in S : g = Des(c)
    BY <1>5, <1>7, <1>8, <2>1 DEF In
  <2>2. ASSUME In(s, g) PROVE In(t, g)
    <3>1. \A i \in 1..n : i \in 1..(n + m)
      BY <1>1, <1>5
    <3> QED BY <1>5, <2>2, <3>1 DEF In
  <2>3. ASSUME NEW c \in S, g = Des(c) PROVE In(t, g)
    <3>1. PICK i \in 1..m : o[i] = c
      BY <1>3
    <3>2. t[i + n] = g
      BY <1>7, <1>9, <2>3, <3>1
    <3> QED BY <1>5, <1>9, <3>2 DEF In
  <2> QED BY <2>1, <2>2, <2>3
<1>11. \A i \in 1..n : \A j \in (n + 1)..(n + m) : s[i] # t[j] /\ i < j
  <2> SUFFICES ASSUME NEW i \in 1..n, NEW j \in (n + 1)..(n + m) PROVE s[i] # t[j] /\ i < j
    OBVIOUS
  <2>1. i < j
    BY <1>1, <1>5
  <2> QED BY <1>5, <1>7, <2>1 DEF In
<1>12. Once(t)
  <2> SUFFICES ASSUME NEW i \in 1..(n + m), NEW j \in 1..(n + m), t[i] = t[j] PROVE i = j
    BY <1>5 DEF Once
  <2>1. CASE i \in 1..n /\ j \in 1..n
    BY <1>5, <2>1 DEF Once
  <2>2. CASE i \in (n + 1)..(n + m) /\ j \in (n + 1)..(n + m)
    <3>1. o[i - n] = o[j - n]
      <4>1. o[i - n] \in Conn /\ o[j - n] \in Conn
        BY <1>7, <2>2
      <4> QED BY <1>7, <2>2, <4>1, Kinds
    <3>2. i - n = j - n
      BY <1>2, <1>6, <2>2, <3>1
    <3> QED BY <1>5, <3>2
  <2> QED BY <1>5, <1>8, <1>11, <2>1, <2>2
<1>13. EstFirst(t)
  <2> SUFFICES ASSUME NEW c \in Conn, NEW i \in 1..(n + m), NEW j \in 1..(n + m),
                      t[i] = Est(c), t[j] = Des(c)
               PROVE  i < j
    BY <1>5 DEF EstFirst
  <2>1. i \in 1..n
    <3> SUFFICES ASSUME i \in (n + 1)..(n + m) PROVE FALSE
      BY <1>8
    <3>1. o[i - n] \in Conn /\ t[i] = Des(o[i - n])
      BY <1>7
    <3> QED BY <3>1, Kinds
  <2>2. CASE j \in 1..n
    BY <1>5, <2>1, <2>2 DEF EstFirst
  <2> QED BY <1>8, <1>11, <2>1, <2>2
<1>14. n <= n + m
  BY <1>1, <1>5
<1> QED BY <1>5, <1>10, <1>12, <1>13, <1>14 DEF t, n, d
-----------------------------------------------------------------------------
(* Channels.                                                               *)

LEMMA ChannelParts ==
  ASSUME NEW ch \in Channel
  PROVE  /\ ch.events \in SUBSET {"read", "write"} /\ ch.index \in {"kNew", "kAdded", "kDeleted"}
         /\ ch.watched \in BOOLEAN
         /\ \A e, i, w : /\ [ch EXCEPT !.events = e] =
                              [events |-> e, index |-> ch.index, watched |-> ch.watched]
                         /\ [[ch EXCEPT !.watched = w] EXCEPT !.index = i] =
                              [events |-> ch.events, index |-> i, watched |-> w]
                         /\ [ch EXCEPT !.index = i] =
                              [events |-> ch.events, index |-> i, watched |-> ch.watched]
<1>1. /\ ch.events \in SUBSET {"read", "write"} /\ ch.index \in {"kNew", "kAdded", "kDeleted"}
      /\ ch.watched \in BOOLEAN
      /\ ch = [events |-> ch.events, index |-> ch.index, watched |-> ch.watched]
  BY DEF Channel, Index
<1>2. ASSUME NEW e, NEW i, NEW w
      PROVE  /\ [ch EXCEPT !.events = e] = [events |-> e, index |-> ch.index, watched |-> ch.watched]
             /\ [[ch EXCEPT !.watched = w] EXCEPT !.index = i] =
                  [events |-> ch.events, index |-> i, watched |-> w]
             /\ [ch EXCEPT !.index = i] = [events |-> ch.events, index |-> i, watched |-> ch.watched]
  <2>1. [ch EXCEPT !.events = e] = [events |-> e, index |-> ch.index, watched |-> ch.watched]
    BY <1>1
  <2>2. [ch EXCEPT !.index = i] = [events |-> ch.events, index |-> i, watched |-> ch.watched]
    BY <1>1
  <2> DEFINE m == [ch EXCEPT !.watched = w]
  <2>3. m = [events |-> ch.events, index |-> ch.index, watched |-> w]
    BY <1>1
  <2> HIDE DEF m
  <2>4. [m EXCEPT !.index = i] = [events |-> ch.events, index |-> i, watched |-> w]
    BY <2>3
  <2> QED BY <2>1, <2>2, <2>4 DEF m
<1> QED BY <1>1, <1>2

LEMMA UpdateKeeps ==
  ASSUME NEW ch \in Channel, ch.watched <=> ch.index = "kAdded"
  PROVE  LET u == updateChannel(ch)
         IN  /\ u \in Channel /\ IndexMatchesKernel(u) /\ u.events = ch.events
             /\ ch.index = "kAdded" /\ ch.events = {} => u.index = "kDeleted"
<1> DEFINE e == ch.events
           u == updateChannel(ch)
<1>1. \/ u = [events |-> e, index |-> "kAdded", watched |-> TRUE] /\ ch.index # "kAdded"
      \/ u = [events |-> e, index |-> "kDeleted", watched |-> FALSE] /\ ch.index = "kAdded" /\ e = {}
      \/ u = ch /\ ch.index = "kAdded" /\ e # {}
  <2>1. CASE ch.index \in {"kNew", "kDeleted"}
    <3>1. u = [[ch EXCEPT !.watched = TRUE] EXCEPT !.index = "kAdded"]
      BY <2>1 DEF updateChannel, EPOLL_CTL_ADD
    <3> HIDE DEF u
    <3> QED BY <2>1, <3>1, ChannelParts
  <2>2. CASE ~(ch.index \in {"kNew", "kDeleted"}) /\ e = {}
    <3>1. u = [[ch EXCEPT !.watched = FALSE] EXCEPT !.index = "kDeleted"]
      BY <2>2 DEF updateChannel, EPOLL_CTL_DEL, isNoneEvent
    <3>2. u = [events |-> e, index |-> "kDeleted", watched |-> FALSE]
      <4> HIDE DEF u
      <4>1. \A i, w : [[ch EXCEPT !.watched = w] EXCEPT !.index = i] =
                        [events |-> ch.events, index |-> i, watched |-> w]
        BY ChannelParts
      <4> QED BY <3>1, <4>1, Zenon
    <3> HIDE DEF u
    <3>3. ch.index = "kAdded"
      BY <2>2, ChannelParts
    <3> QED BY <2>2, <3>2, <3>3
  <2>3. CASE ~(ch.index \in {"kNew", "kDeleted"}) /\ e # {}
    <3>1. u = ch
      BY <2>3 DEF updateChannel, isNoneEvent
    <3> HIDE DEF u
    <3> QED BY <2>3, <3>1, ChannelParts
  <2> QED BY <2>1, <2>2, <2>3
<1>2. e \in SUBSET {"read", "write"}
  BY ChannelParts
<1> HIDE DEF u
<1>3. CASE u = [events |-> e, index |-> "kAdded", watched |-> TRUE] /\ ch.index # "kAdded"
  BY <1>2, <1>3 DEF Channel, Index, IndexMatchesKernel, u
<1>4. CASE u = [events |-> e, index |-> "kDeleted", watched |-> FALSE] /\ ch.index = "kAdded" /\ e = {}
  BY <1>2, <1>4 DEF Channel, Index, IndexMatchesKernel, u
<1>5. CASE u = ch /\ ch.index = "kAdded" /\ e # {}
  BY <1>5 DEF IndexMatchesKernel, u
<1> QED BY <1>1, <1>3, <1>4, <1>5

\* The poller's record of a channel matches the kernel's (EpollPoller.cpp:64).
LEMMA ChannelKeeps ==
  ASSUME NEW ch \in Channel, IndexMatchesKernel(ch)
  PROVE  /\ enableReading(ch) \in Channel /\ IndexMatchesKernel(enableReading(ch))
         /\ isWriting(enableReading(ch)) = isWriting(ch)
         /\ enableWriting(ch) \in Channel /\ IndexMatchesKernel(enableWriting(ch))
         /\ isWriting(enableWriting(ch))
         /\ disableWriting(ch) \in Channel /\ IndexMatchesKernel(disableWriting(ch))
         /\ ~isWriting(disableWriting(ch))
         /\ disableAll(ch) \in Channel /\ IndexMatchesKernel(disableAll(ch))
         /\ ch.index = "kAdded" => disableAll(ch).index = "kDeleted"
         /\ removeChannel(ch) \in Channel /\ IndexMatchesKernel(removeChannel(ch))
         /\ removeChannel(ch).index = "kNew"
<1> DEFINE With(e) == [ch EXCEPT !.events = e]
<1>1. ASSUME NEW e \in SUBSET {"read", "write"}
      PROVE  /\ updateChannel(With(e)) \in Channel /\ IndexMatchesKernel(updateChannel(With(e)))
             /\ updateChannel(With(e)).events = e
             /\ ch.index = "kAdded" /\ e = {} => updateChannel(With(e)).index = "kDeleted"
  <2> DEFINE w == With(e)
  <2>1. w = [events |-> e, index |-> ch.index, watched |-> ch.watched]
    BY ChannelParts
  <2> HIDE DEF w
  <2>2. w \in Channel /\ w.events = e /\ w.index = ch.index /\ (w.watched <=> w.index = "kAdded")
    BY <2>1, ChannelParts DEF Channel, Index, IndexMatchesKernel
  <2> QED BY <2>2, UpdateKeeps DEF w
<1>2. /\ ch.events \cup {"read"} \in SUBSET {"read", "write"}
      /\ ch.events \cup {"write"} \in SUBSET {"read", "write"}
      /\ ch.events \ {"write"} \in SUBSET {"read", "write"}
      /\ {} \in SUBSET {"read", "write"}
  BY ChannelParts
<1>3. /\ enableReading(ch) = updateChannel(With(ch.events \cup {"read"}))
      /\ enableWriting(ch) = updateChannel(With(ch.events \cup {"write"}))
      /\ disableWriting(ch) = updateChannel(With(ch.events \ {"write"}))
      /\ disableAll(ch) = updateChannel(With({}))
  BY DEF enableReading, enableWriting, disableWriting, disableAll
<1> HIDE DEF With
<1>4. /\ enableReading(ch) \in Channel /\ IndexMatchesKernel(enableReading(ch))
      /\ enableReading(ch).events = ch.events \cup {"read"}
  BY <1>1, <1>2, <1>3
<1>5. /\ enableWriting(ch) \in Channel /\ IndexMatchesKernel(enableWriting(ch))
      /\ enableWriting(ch).events = ch.events \cup {"write"}
  BY <1>1, <1>2, <1>3
<1>6. /\ disableWriting(ch) \in Channel /\ IndexMatchesKernel(disableWriting(ch))
      /\ disableWriting(ch).events = ch.events \ {"write"}
  BY <1>1, <1>2, <1>3
<1>7. /\ disableAll(ch) \in Channel /\ IndexMatchesKernel(disableAll(ch))
      /\ ch.index = "kAdded" => disableAll(ch).index = "kDeleted"
  BY <1>1, <1>2, <1>3
<1>8. /\ removeChannel(ch) \in Channel /\ IndexMatchesKernel(removeChannel(ch))
      /\ removeChannel(ch).index = "kNew"
  <2> DEFINE x == removeChannel(ch)
  <2>1. CASE ch.index = "kAdded"
    <3>1. x = [[ch EXCEPT !.watched = FALSE] EXCEPT !.index = "kNew"]
      BY <2>1 DEF removeChannel, EPOLL_CTL_DEL
    <3> HIDE DEF x
    <3>2. x = [events |-> ch.events, index |-> "kNew", watched |-> FALSE]
      BY <3>1, ChannelParts
    <3>3. ch.events \in SUBSET {"read", "write"}
      BY ChannelParts
    <3>4. x \in Channel /\ IndexMatchesKernel(x) /\ x.index = "kNew"
      BY <3>2, <3>3 DEF Channel, Index, IndexMatchesKernel
    <3> QED BY <3>4 DEF x
  <2>2. CASE ch.index # "kAdded"
    <3>1. x = [ch EXCEPT !.index = "kNew"]
      BY <2>2 DEF removeChannel
    <3> HIDE DEF x
    <3>2. x = [events |-> ch.events, index |-> "kNew", watched |-> FALSE]
      BY <2>2, <3>1, ChannelParts DEF IndexMatchesKernel
    <3>3. ch.events \in SUBSET {"read", "write"}
      BY ChannelParts
    <3>4. x \in Channel /\ IndexMatchesKernel(x) /\ x.index = "kNew"
      BY <3>2, <3>3 DEF Channel, Index, IndexMatchesKernel
    <3> QED BY <3>4 DEF x
  <2> QED BY <2>1, <2>2
<1>9. /\ isWriting(enableReading(ch)) = isWriting(ch)
      /\ isWriting(enableWriting(ch)) /\ ~isWriting(disableWriting(ch))
  BY <1>4, <1>5, <1>6 DEF isWriting
<1> QED BY <1>4, <1>5, <1>6, <1>7, <1>8, <1>9

LEMMA NewChannelMatches ==
  /\ NewChannel \in Channel /\ IndexMatchesKernel(NewChannel) /\ ~isWriting(NewChannel)
  /\ NewChannel.index = "kNew" /\ ~NewChannel.watched
BY DEF NewChannel, Channel, Index, IndexMatchesKernel, isWriting

-----------------------------------------------------------------------------
(* The record of a connection.                                             *)

ConnFields == [loop : Loop, peer : Nat, state : State, ch : Channel, input : Buffer(Nat),
               output : Buffer(Nat), sent : Nat, owed : Seq(Nat)]

IsConn(r) == /\ r \in ConnFields /\ IndexMatchesKernel(r.ch)
             /\ Valid(r.input, Nat) /\ Valid(r.output, Nat)

SockFields == [data : 0..MaxData, fin : BOOLEAN, rst : BOOLEAN, wshut : BOOLEAN]

\* The record with given fields.
Rec(lp, p, st, ch, i, o, n, w) ==
  [loop |-> lp, peer |-> p, state |-> st, ch |-> ch, input |-> i, output |-> o, sent |-> n, owed |-> w]

\* What of r's stream the application and the kernel rely on, with a socket
\* that is reset or shut down: the output is what is owed, somebody waits for
\* EPOLLOUT while there is any, and none is left at the shutdown.
StreamOf(r, rst, wshut) ==
  /\ r.state \in {"kConnecting", "kConnected", "kDisconnecting"} /\ ~rst =>
       r.output.content = r.owed /\ (isWriting(r.ch) \/ r.owed = <<>>)
  /\ wshut => r.state \in {"kDisconnecting", "kDisconnected"}
  /\ wshut /\ ~rst => r.owed = <<>>

\* What a handler leaves of r: it may have gone on to kDisconnecting.
Handled(r, o) ==
  /\ IsConn(o) /\ o.loop = r.loop /\ o.peer = r.peer
  /\ o.state = r.state \/ (r.state = "kConnected" /\ o.state = "kDisconnecting")

LEMMA IsConnParts ==
  ASSUME NEW r, IsConn(r)
  PROVE  /\ r.loop \in Loop /\ r.peer \in Nat /\ r.state \in State /\ r.ch \in Channel
         /\ r.input \in Buffer(Nat) /\ r.output \in Buffer(Nat) /\ r.sent \in Nat /\ r.owed \in Seq(Nat)
         /\ Valid(r.input, Nat) /\ Valid(r.output, Nat) /\ IndexMatchesKernel(r.ch)
         /\ r = Rec(r.loop, r.peer, r.state, r.ch, r.input, r.output, r.sent, r.owed)
<1> DEFINE B == Buffer(Nat)
           S == Seq(Nat)
<1>1. r \in [loop : Loop, peer : Nat, state : State, ch : Channel, input : B, output : B, sent : Nat, owed : S]
  BY DEF IsConn, ConnFields
<1> HIDE DEF B, S
<1>2. /\ r.loop \in Loop /\ r.peer \in Nat /\ r.state \in State /\ r.ch \in Channel
      /\ r.input \in B /\ r.output \in B /\ r.sent \in Nat /\ r.owed \in S
      /\ r = Rec(r.loop, r.peer, r.state, r.ch, r.input, r.output, r.sent, r.owed)
  BY <1>1 DEF Rec
<1> QED BY <1>2 DEF B, S, IsConn

LEMMA MakeConn ==
  ASSUME NEW lp \in Loop, NEW p \in Nat, NEW st \in State, NEW ch \in Channel, IndexMatchesKernel(ch),
         NEW i, Valid(i, Nat), NEW o, Valid(o, Nat), NEW n \in Nat, NEW w \in Seq(Nat)
  PROVE  IsConn(Rec(lp, p, st, ch, i, o, n, w))
<1> DEFINE B == Buffer(Nat)
           S == Seq(Nat)
           r == Rec(lp, p, st, ch, i, o, n, w)
<1>1. i \in B /\ o \in B /\ w \in S
  BY DEF Valid
<1> HIDE DEF B, S
<1>2. r \in [loop : Loop, peer : Nat, state : State, ch : Channel, input : B, output : B, sent : Nat, owed : S]
  BY <1>1 DEF Rec
<1>3. r.ch = ch /\ r.input = i /\ r.output = o
  BY DEF Rec
<1> QED BY <1>2, <1>3 DEF B, S, IsConn, ConnFields

LEMMA RecWith ==
  \A lp, p, st, ch, i, o, n, w, v :
    /\ [Rec(lp, p, st, ch, i, o, n, w) EXCEPT !.state = v] = Rec(lp, p, v, ch, i, o, n, w)
    /\ [Rec(lp, p, st, ch, i, o, n, w) EXCEPT !.ch = v] = Rec(lp, p, st, v, i, o, n, w)
    /\ [Rec(lp, p, st, ch, i, o, n, w) EXCEPT !.input = v] = Rec(lp, p, st, ch, v, o, n, w)
    /\ [Rec(lp, p, st, ch, i, o, n, w) EXCEPT !.output = v] = Rec(lp, p, st, ch, i, v, n, w)
    /\ [Rec(lp, p, st, ch, i, o, n, w) EXCEPT !.sent = v] = Rec(lp, p, st, ch, i, o, v, w)
    /\ [Rec(lp, p, st, ch, i, o, n, w) EXCEPT !.owed = v] = Rec(lp, p, st, ch, i, o, n, v)
BY DEF Rec

LEMMA RecParts ==
  \A lp, p, st, ch, i, o, n, w :
    LET r == Rec(lp, p, st, ch, i, o, n, w)
    IN  /\ r.loop = lp /\ r.peer = p /\ r.state = st /\ r.ch = ch /\ r.input = i /\ r.output = o
        /\ r.sent = n /\ r.owed = w
BY DEF Rec

\* The records that handlers make of r.
LEMMA WithInput ==
  ASSUME NEW r, IsConn(r), NEW u PROVE [r EXCEPT !.input = u] = Rec(r.loop, r.peer, r.state, r.ch, u, r.output, r.sent, r.owed)
<1>1. r = Rec(r.loop, r.peer, r.state, r.ch, r.input, r.output, r.sent, r.owed)
  BY IsConnParts
<1> QED BY <1>1, RecWith

LEMMA WithCh ==
  ASSUME NEW r, IsConn(r), NEW u PROVE [r EXCEPT !.ch = u] = Rec(r.loop, r.peer, r.state, u, r.input, r.output, r.sent, r.owed)
<1>1. r = Rec(r.loop, r.peer, r.state, r.ch, r.input, r.output, r.sent, r.owed)
  BY IsConnParts
<1> QED BY <1>1, RecWith

LEMMA WithState ==
  ASSUME NEW r, IsConn(r), NEW u PROVE [r EXCEPT !.state = u] = Rec(r.loop, r.peer, u, r.ch, r.input, r.output, r.sent, r.owed)
<1>1. r = Rec(r.loop, r.peer, r.state, r.ch, r.input, r.output, r.sent, r.owed)
  BY IsConnParts
<1> QED BY <1>1, RecWith

LEMMA WithOutput ==
  ASSUME NEW r, IsConn(r), NEW u PROVE [r EXCEPT !.output = u] = Rec(r.loop, r.peer, r.state, r.ch, r.input, u, r.sent, r.owed)
<1>1. r = Rec(r.loop, r.peer, r.state, r.ch, r.input, r.output, r.sent, r.owed)
  BY IsConnParts
<1> QED BY <1>1, RecWith

LEMMA WithSentOwed ==
  ASSUME NEW r, IsConn(r), NEW u, NEW v
  PROVE  [r EXCEPT !.sent = u, !.owed = v] = Rec(r.loop, r.peer, r.state, r.ch, r.input, r.output, u, v)
<1> DEFINE a == [r EXCEPT !.sent = u]
<1>1. a = Rec(r.loop, r.peer, r.state, r.ch, r.input, r.output, u, r.owed)
  <2>1. r = Rec(r.loop, r.peer, r.state, r.ch, r.input, r.output, r.sent, r.owed)
    BY IsConnParts
  <2> QED BY <2>1, RecWith
<1> HIDE DEF a
<1>2. [a EXCEPT !.owed = v] = Rec(r.loop, r.peer, r.state, r.ch, r.input, r.output, u, v)
  BY <1>1, RecWith
<1> QED BY <1>2 DEF a

LEMMA WithOutputCh ==
  ASSUME NEW r, IsConn(r), NEW u, NEW v
  PROVE  [r EXCEPT !.output = u, !.ch = v] = Rec(r.loop, r.peer, r.state, v, r.input, u, r.sent, r.owed)
<1> DEFINE a == [r EXCEPT !.output = u]
<1>1. a = Rec(r.loop, r.peer, r.state, r.ch, r.input, u, r.sent, r.owed)
  <2>1. r = Rec(r.loop, r.peer, r.state, r.ch, r.input, r.output, r.sent, r.owed)
    BY IsConnParts
  <2> QED BY <2>1, RecWith
<1> HIDE DEF a
<1>2. [a EXCEPT !.ch = v] = Rec(r.loop, r.peer, r.state, v, r.input, u, r.sent, r.owed)
  BY <1>1, RecWith
<1> QED BY <1>2 DEF a

LEMMA WithOutputOwed ==
  ASSUME NEW r, IsConn(r), NEW u, NEW v
  PROVE  [r EXCEPT !.output = u, !.owed = v] = Rec(r.loop, r.peer, r.state, r.ch, r.input, u, r.sent, v)
<1> DEFINE a == [r EXCEPT !.output = u]
<1>1. a = Rec(r.loop, r.peer, r.state, r.ch, r.input, u, r.sent, r.owed)
  <2>1. r = Rec(r.loop, r.peer, r.state, r.ch, r.input, r.output, r.sent, r.owed)
    BY IsConnParts
  <2> QED BY <2>1, RecWith
<1> HIDE DEF a
<1>2. [a EXCEPT !.owed = v] = Rec(r.loop, r.peer, r.state, r.ch, r.input, u, r.sent, v)
  BY <1>1, RecWith
<1> QED BY <1>2 DEF a

LEMMA WithStateCh ==
  ASSUME NEW r, IsConn(r), NEW u, NEW v
  PROVE  [r EXCEPT !.state = u, !.ch = v] = Rec(r.loop, r.peer, u, v, r.input, r.output, r.sent, r.owed)
<1> DEFINE a == [r EXCEPT !.state = u]
<1>1. a = Rec(r.loop, r.peer, u, r.ch, r.input, r.output, r.sent, r.owed)
  <2>1. r = Rec(r.loop, r.peer, r.state, r.ch, r.input, r.output, r.sent, r.owed)
    BY IsConnParts
  <2> QED BY <2>1, RecWith
<1> HIDE DEF a
<1>2. [a EXCEPT !.ch = v] = Rec(r.loop, r.peer, u, v, r.input, r.output, r.sent, r.owed)
  BY <1>1, RecWith
<1> QED BY <1>2 DEF a

LEMMA OutcomeParts ==
  \A x, w : /\ Outcome(x, w).r = x /\ Outcome(x, w).wshut = w
            /\ shutdownWrite(Outcome(x, w)) = Outcome(x, TRUE)
<1>1. ASSUME NEW x, NEW w
      PROVE  \A v : Outcome(x, w).r = x /\ Outcome(x, w).wshut = w /\ [Outcome(x, w) EXCEPT !.wshut = v] = Outcome(x, v)
  BY DEF Outcome
<1>2. ASSUME NEW x, NEW w PROVE [Outcome(x, w) EXCEPT !.wshut = TRUE] = Outcome(x, TRUE)
  BY <1>1, Zenon
<1> QED BY <1>1, <1>2, Zenon DEF shutdownWrite

\* What a handler makes of a record and a socket.
Serves(r, s, o) ==
  /\ Handled(r, o.r) /\ o.wshut \in BOOLEAN
  /\ ~Refuses /\ StreamOf(r, s.rst, s.wshut) => StreamOf(o.r, s.rst, o.wshut)

LEMMA SockParts ==
  ASSUME NEW s \in SockFields
  PROVE  s.data \in 0..MaxData /\ s.fin \in BOOLEAN /\ s.rst \in BOOLEAN /\ s.wshut \in BOOLEAN
BY DEF SockFields

LEMMA Returned ==
  ASSUME NEW s, NEW len \in Nat, NEW n \in WriteReturns(s, len)
  PROVE  n \in {-1, 1, len} /\ (n = -1 => s.rst \/ Refuses)
<1>1. CASE s.rst
  BY <1>1 DEF WriteReturns
<1>2. CASE ~s.rst
  BY <1>2 DEF WriteReturns
<1> QED BY <1>1, <1>2

LEMMA Rest ==
  ASSUME NEW msg \in Seq(Nat), NEW n \in 0..Len(msg)
  PROVE  SubSeq(msg, n + 1, Len(msg)) \in Seq(Nat) /\ (SubSeq(msg, n + 1, Len(msg)) = <<>> <=> n = Len(msg))
<1> DEFINE t == SubSeq(msg, n + 1, Len(msg))
<1>1. n \in Nat /\ n <= Len(msg) /\ Len(msg) \in Nat
  OBVIOUS
<1>2. \A i \in (n + 1)..Len(msg) : msg[i] \in Nat
  <2>1. \A i \in (n + 1)..Len(msg) : i \in 1..Len(msg)
    BY <1>1
  <2> QED BY <2>1, ElementOfSeq
<1>3. n + 1 \in Int /\ Len(msg) \in Int
  BY <1>1
<1>4. /\ t \in Seq(Nat)
      /\ Len(t) = IF n + 1 <= Len(msg) THEN Len(msg) - (n + 1) + 1 ELSE 0
  <2> HIDE DEF t
  <2> QED BY <1>2, <1>3, SubSeqProperties DEF t
<1> HIDE DEF t
<1>5. t = <<>> <=> Len(t) = 0
  BY <1>4, EmptySeq
<1>6. t = <<>> <=> n = Len(msg)
  BY <1>1, <1>4, <1>5
<1> QED BY <1>4, <1>6 DEF t

LEMMA WithGarbage ==
  ASSUME NEW msg \in Seq(Nat) PROVE <<Garbage>> \o msg \in Seq(Nat) /\ <<Garbage>> \o msg # <<>>
<1> DEFINE g == <<Garbage>>
           t == g \o msg
<1>1. g \in Seq(Nat) /\ Len(g) = 1 /\ Len(msg) \in Nat
  BY DEF Garbage
<1> HIDE DEF g
<1>2. t \in Seq(Nat) /\ Len(t) = Len(g) + Len(msg)
  BY <1>1, ConcatProperties
<1> HIDE DEF t
<1>3. Len(t) # 0
  BY <1>1, <1>2
<1> QED BY <1>2, <1>3, EmptySeq DEF g, t

\* sendInLoop (TcpConnection.cpp:84) buffers what the kernel did not take.
LEMMA SendKeeps ==
  ASSUME NEW r, IsConn(r), r.state = "kConnected", NEW s \in SockFields, NEW o \in sendInLoop(r, s)
  PROVE  Serves(r, s, o) /\ o = Outcome(o.r, s.wshut)
<1> DEFINE m      == r.sent + 1
           msg    == [i \in 1..MsgLen |-> m]
           direct == ~isWriting(r.ch) /\ readableBytes(r.output) = 0
           left(n)  == LeftToSend(msg, n)
           u(n)     == SubSeq(msg, (IF n < 0 THEN 0 ELSE n) + 1, MsgLen)
           r1(n)    == [r EXCEPT !.sent = m, !.owed = @ \o u(n)]
           r2(n)    == [r1(n) EXCEPT !.output = append(@, left(n)),
                                     !.ch = IF isWriting(@) THEN @ ELSE enableWriting(@)]
<1>1. PICK n \in IF direct THEN WriteReturns(s, MsgLen) ELSE {0} :
        o = IF left(n) = <<>> THEN Outcome(r1(n), s.wshut) ELSE Outcome(r2(n), s.wshut)
  BY DEF sendInLoop
<1>2. n \in {-1, 0, 1, 3} /\ (n = -1 => s.rst \/ Refuses) /\ (n # 0 => direct)
  <2>1. MsgLen \in Nat /\ MsgLen = 3
    BY DEF MsgLen
  <2>2. CASE direct
    BY <1>1, <2>1, <2>2, Returned
  <2>3. CASE ~direct
    BY <1>1, <2>3
  <2> QED BY <2>2, <2>3
<1>3. /\ r.sent \in Nat /\ r.owed \in Seq(Nat) /\ r.ch \in Channel /\ IndexMatchesKernel(r.ch)
      /\ Valid(r.output, Nat) /\ Valid(r.input, Nat) /\ r.loop \in Loop /\ r.peer \in Nat
  BY IsConnParts
<1> DEFINE a == left(n)
           b == u(n)
<1>4. /\ a \in Seq(Nat) /\ b \in Seq(Nat) /\ m \in Nat
      /\ n >= 0 => a = b
      /\ a = <<>> => n = 3 /\ b = <<>>
  <2>1. msg \in Seq(Nat) /\ Len(msg) = 3 /\ MsgLen = 3 /\ m \in Nat
    BY <1>3 DEF MsgLen
  <2> HIDE DEF msg, m
  <2>2. CASE n = -1
    <3>1. b = SubSeq(msg, 0 + 1, 3) /\ a = <<Garbage>> \o msg
      BY <2>1, <2>2 DEF LeftToSend
    <3> HIDE DEF a, b
    <3> QED BY <2>1, <2>2, <3>1, Rest, WithGarbage
  <2>3. CASE n # -1
    <3>1. n \in 0..Len(msg) /\ n >= 0 /\ ~(n < 0)
      BY <1>2, <2>1, <2>3
    <3>2. b = SubSeq(msg, n + 1, Len(msg)) /\ a = SubSeq(msg, n + 1, Len(msg))
      BY <2>1, <3>1 DEF LeftToSend
    <3> HIDE DEF a, b
    <3>3. b \in Seq(Nat) /\ (b = <<>> <=> n = Len(msg)) /\ a = b
      BY <2>1, <3>1, <3>2, Rest
    <3> QED BY <2>1, <3>3
  <2> QED BY <2>2, <2>3
<1>5. /\ r1(n) = Rec(r.loop, r.peer, r.state, r.ch, r.input, r.output, m, r.owed \o b)
      /\ r.owed \o b \in Seq(Nat)
  <2> HIDE DEF m, msg, b
  <2>1. r.owed \o b \in Seq(Nat)
    BY <1>3, <1>4
  <2> QED BY <2>1, WithSentOwed DEF b
<1> DEFINE x == r1(n)
<1> HIDE DEF r1, m, msg, left, u, a, b
<1>6. IsConn(x)
  BY <1>3, <1>4, <1>5, MakeConn DEF State
<1>7. /\ x.loop = r.loop /\ x.peer = r.peer /\ x.state = r.state /\ x.ch = r.ch /\ x.input = r.input
      /\ x.output = r.output /\ x.owed = r.owed \o b
  BY <1>5 DEF Rec
<1>8. CASE a = <<>>
  <2>1. o = Outcome(x, s.wshut)
    BY <1>1, <1>8 DEF a
  <2>2. o.r = x /\ o.wshut = s.wshut
    BY <2>1, OutcomeParts
  <2>3. ASSUME ~Refuses, StreamOf(r, s.rst, s.wshut) PROVE StreamOf(x, s.rst, s.wshut)
    <3>1. direct /\ b = <<>>
      BY <1>2, <1>4, <1>8
    <3>2. ASSUME ~s.rst PROVE r.owed = <<>> /\ r.output.content = <<>> /\ r.owed \o b = <<>>
      <4>1. r.output.content = <<>>
        BY <1>3, <3>1, SizesOf DEF readableBytes
      <4>2. r.owed = <<>>
        BY <2>3, <3>2, <4>1 DEF StreamOf
      <4> QED BY <3>1, <4>1, <4>2
    <3> QED BY <1>7, <2>3, <3>2 DEF StreamOf
  <2> QED BY <1>6, <1>7, <2>1, <2>2, <2>3, SockParts DEF Serves, Handled
<1>9. CASE a # <<>>
  <2> DEFINE out == append(r.output, a)
             ch  == IF isWriting(r.ch) THEN r.ch ELSE enableWriting(r.ch)
             y   == Rec(r.loop, r.peer, r.state, ch, r.input, out, m, r.owed \o b)
  <2>1. Valid(out, Nat) /\ out.content = r.output.content \o a
    BY <1>3, <1>4, AppendKeepsOrder
  <2>2. ch \in Channel /\ IndexMatchesKernel(ch) /\ isWriting(ch)
    BY <1>3, ChannelKeeps
  <2>3. r2(n) = y
    <3>1. r2(n) = [x EXCEPT !.output = append(x.output, a),
                            !.ch = IF isWriting(x.ch) THEN x.ch ELSE enableWriting(x.ch)]
      BY DEF a
    <3>2. r2(n) = [x EXCEPT !.output = out, !.ch = ch]
      BY <1>7, <3>1, Zenon
    <3>3. x.sent = m
      BY <1>5 DEF Rec
    <3> HIDE DEF r2, out, ch, x
    <3>4. r2(n) = Rec(x.loop, x.peer, x.state, ch, x.input, out, x.sent, x.owed)
      BY <1>6, <3>2, WithOutputCh, Zenon
    <3> QED BY <1>7, <3>3, <3>4
  <2> HIDE DEF out, ch, r2, x
  <2>4. IsConn(y)
    BY <1>3, <1>4, <1>5, <2>1, <2>2, MakeConn DEF State
  <2>5. /\ y.loop = r.loop /\ y.peer = r.peer /\ y.state = r.state /\ y.ch = ch
        /\ y.output = out /\ y.owed = r.owed \o b
    BY DEF Rec
  <2>6. o = Outcome(y, s.wshut)
    BY <1>1, <1>9, <2>3 DEF a
  <2>7. o.r = y /\ o.wshut = s.wshut
    BY <2>6, OutcomeParts
  <2> HIDE DEF y
  <2>8. ASSUME ~Refuses, StreamOf(r, s.rst, s.wshut) PROVE StreamOf(y, s.rst, s.wshut)
    <3>1. ASSUME ~s.rst PROVE a = b
      BY <1>2, <1>4, <2>8, <3>1
    <3> QED BY <2>1, <2>2, <2>5, <2>8, <3>1 DEF StreamOf
  <2> QED BY <2>4, <2>5, <2>6, <2>7, <2>8, SockParts DEF Serves, Handled
<1> QED BY <1>8, <1>9

\* send() does nothing of a connection that is not connected.
LEMMA SendServes ==
  ASSUME NEW r, IsConn(r), NEW s \in SockFields, NEW o \in send(r, s)
  PROVE  Serves(r, s, o) /\ o = Outcome(o.r, s.wshut)
<1>1. CASE o = Outcome(r, s.wshut)
  <2>1. o.r = r /\ o.wshut = s.wshut
    BY <1>1, OutcomeParts
  <2> QED BY <1>1, <2>1, SockParts DEF Serves, Handled
<1>2. CASE r.state = "kConnected" /\ o \in sendInLoop(r, s)
  BY <1>2, SendKeeps
<1> QED BY <1>1, <1>2 DEF send

LEMMA Disconnecting ==
  \A x, w : [Outcome(x, w) EXCEPT !.r.state = "kDisconnecting"] =
              Outcome([x EXCEPT !.state = "kDisconnecting"], w)
BY DEF Outcome

\* shutdown (TcpConnection.cpp:147) leaves the socket to handleWrite() while
\* there is something to be written.
LEMMA ShutdownServes ==
  ASSUME NEW r, NEW s \in SockFields, NEW o, Serves(r, s, o), o = Outcome(o.r, s.wshut)
  PROVE  Serves(r, s, shutdown(o))
<1>1. CASE o.r.state # "kConnected"
  <2>1. shutdown(o) = o
    BY <1>1 DEF shutdown
  <2> QED BY <2>1
<1>2. CASE o.r.state = "kConnected"
  <2> DEFINE x == o.r
             y == [x EXCEPT !.state = "kDisconnecting"]
             p == Outcome(y, s.wshut)
  <2>1. shutdown(o) = IF isWriting(p.r.ch) THEN p ELSE shutdownWrite(p)
    <3>1. [o EXCEPT !.r.state = "kDisconnecting"] = p
      <4>1. [Outcome(x, s.wshut) EXCEPT !.r.state = "kDisconnecting"] = p
        BY Disconnecting
      <4> QED BY <4>1
    <3>2. shutdown(o) = shutdownInLoop(p)
      BY <1>2, <3>1 DEF shutdown
    <3> QED BY <3>2 DEF shutdownInLoop
  <2>2. IsConn(x) /\ x.loop = r.loop /\ x.peer = r.peer /\ r.state = "kConnected" /\ x.state = "kConnected"
    BY <1>2 DEF Serves, Handled
  <2>3. y = Rec(x.loop, x.peer, "kDisconnecting", x.ch, x.input, x.output, x.sent, x.owed)
    BY <2>2, WithState
  <2>4. IsConn(y)
    <3>1. "kDisconnecting" \in State
      BY DEF State
    <3>2. /\ x.loop \in Loop /\ x.peer \in Nat /\ x.ch \in Channel /\ IndexMatchesKernel(x.ch)
          /\ Valid(x.input, Nat) /\ Valid(x.output, Nat) /\ x.sent \in Nat /\ x.owed \in Seq(Nat)
      BY <2>2, IsConnParts
    <3> HIDE DEF x, y
    <3> QED BY <2>3, <3>1, <3>2, MakeConn
  <2>5. /\ y.loop = r.loop /\ y.peer = r.peer /\ y.state = "kDisconnecting" /\ y.ch = x.ch
        /\ y.output = x.output /\ y.owed = x.owed
    BY <2>2, <2>3 DEF Rec
  <2>6. p.r = y /\ p.wshut = s.wshut /\ shutdownWrite(p) = Outcome(y, TRUE)
    BY OutcomeParts
  <2>7. PICK w \in {s.wshut, TRUE} : shutdown(o) = Outcome(y, w) /\ (w # s.wshut => ~isWriting(x.ch))
    <3>1. CASE isWriting(x.ch)
      BY <2>1, <2>5, <2>6, <3>1
    <3>2. CASE ~isWriting(x.ch)
      BY <2>1, <2>5, <2>6, <3>2
    <3> QED BY <3>1, <3>2
  <2>8. o.wshut = s.wshut
    BY OutcomeParts
  <2>9. w \in BOOLEAN
    BY SockParts
  <2>10. ASSUME ~Refuses, StreamOf(r, s.rst, s.wshut) PROVE StreamOf(y, s.rst, w)
    <3>1. StreamOf(x, s.rst, s.wshut)
      BY <2>8, <2>10 DEF Serves
    <3> HIDE DEF x, y
    <3> QED BY <2>2, <2>5, <2>7, <3>1 DEF StreamOf
  <2> HIDE DEF y
  <2>11. shutdown(o).r = y /\ shutdown(o).wshut = w
    BY <2>7, OutcomeParts
  <2> QED BY <2>2, <2>4, <2>5, <2>9, <2>10, <2>11 DEF Serves, Handled
<1> QED BY <1>1, <1>2

\* handleRead (TcpConnection.cpp:186) with data, and what the application does.
LEMMA ReadServes ==
  ASSUME NEW r, IsConn(r), NEW s \in SockFields, NEW bytes \in Seq(Nat),
         NEW o \in messageCallback([r EXCEPT !.input = readFd(r.input, bytes)], s)
  PROVE  Serves(r, s, o)
<1> DEFINE i1   == readFd(r.input, bytes)
           x    == [r EXCEPT !.input = i1]
           i2   == retrieveAllAsString(i1)
           read == [x EXCEPT !.input = retrieveAllAsString(x.input)]
<1>1. r.loop \in Loop /\ r.peer \in Nat /\ r.state \in State /\ r.ch \in Channel /\ IndexMatchesKernel(r.ch)
      /\ Valid(r.input, Nat) /\ Valid(r.output, Nat) /\ r.sent \in Nat /\ r.owed \in Seq(Nat)
  BY IsConnParts
<1>2. Valid(i1, Nat)
  BY <1>1, ReadFdKeepsOrder
<1>3. x = Rec(r.loop, r.peer, r.state, r.ch, i1, r.output, r.sent, r.owed)
  BY WithInput
<1> HIDE DEF i1
<1>4. Valid(i2, Nat)
  <2>1. readableBytes(i1) \in Nat
    BY <1>2, SizesOf DEF readableBytes
  <2> QED BY <1>2, <2>1, RetrieveIsTail DEF retrieveAllAsString
<1>5. read = Rec(r.loop, r.peer, r.state, r.ch, i2, r.output, r.sent, r.owed)
  <2>1. x.input = i1
    BY <1>3 DEF Rec
  <2>2. read = [x EXCEPT !.input = i2]
    BY <2>1
  <2> HIDE DEF x, read, i2
  <2> QED BY <1>3, <2>2, RecWith
<1>6. IsConn(read)
  <2> HIDE DEF x, read, i2
  <2> QED BY <1>1, <1>4, <1>5, MakeConn
<1>7. /\ read.loop = r.loop /\ read.peer = r.peer /\ read.state = r.state /\ read.ch = r.ch
      /\ read.output = r.output /\ read.owed = r.owed
  <2> HIDE DEF x, read, i2
  <2> QED BY <1>5 DEF Rec
<1>8. PICK p \in {Outcome(read, s.wshut)} \cup send(read, s) : o \in {p, shutdown(p)}
  <2>1. messageCallback(x, s) = LET replies == {Outcome(read, s.wshut)} \cup send(read, s)
                                IN  replies \cup {shutdown(q) : q \in replies}
    BY DEF messageCallback
  <2> DEFINE replies == {Outcome(read, s.wshut)} \cup send(read, s)
  <2>2. o \in replies \cup {shutdown(q) : q \in replies}
    BY <2>1 DEF i1
  <2> HIDE DEF replies
  <2>3. \E p \in replies : o \in {p, shutdown(p)}
    BY <2>2
  <2> QED BY <2>3 DEF replies
<1> HIDE DEF read, x
<1>9. Serves(read, s, p) /\ p = Outcome(p.r, s.wshut)
  <2>1. CASE p \in send(read, s)
    BY <1>6, <2>1, SendServes
  <2>2. CASE p = Outcome(read, s.wshut)
    <3>1. p.r = read /\ p.wshut = s.wshut
      BY <2>2, OutcomeParts
    <3> QED BY <1>6, <2>2, <3>1, SockParts DEF Serves, Handled
  <2> QED BY <1>8, <2>1, <2>2
<1>10. Serves(read, s, o)
  BY <1>8, <1>9, ShutdownServes
<1>11. StreamOf(r, s.rst, s.wshut) => StreamOf(read, s.rst, s.wshut)
  BY <1>7 DEF StreamOf
<1> QED BY <1>7, <1>10, <1>11 DEF Serves, Handled

\* handleWrite (TcpConnection.cpp:210), and the shutdown that waited for it.
LEMMA WriteServes ==
  ASSUME NEW r, IsConn(r), isWriting(r.ch), NEW s \in SockFields,
         NEW n \in WriteReturns(s, readableBytes(r.output))
  PROVE  Serves(r, s, afterWrite(r, s, n))
<1> DEFINE len == readableBytes(r.output)
           out == retrieve(r.output, IF n < 0 THEN len ELSE n)
           ow  == IF n < 0 THEN r.owed ELSE SubSeq(r.owed, n + 1, Len(r.owed))
           r1  == [r EXCEPT !.output = out, !.owed = ow]
           off == disableWriting(r.ch)
           r2  == [r1 EXCEPT !.ch = disableWriting(r1.ch)]
<1>1. r.loop \in Loop /\ r.peer \in Nat /\ r.state \in State /\ r.ch \in Channel /\ IndexMatchesKernel(r.ch)
      /\ Valid(r.input, Nat) /\ Valid(r.output, Nat) /\ r.sent \in Nat /\ r.owed \in Seq(Nat)
  BY IsConnParts
<1>2. len \in Nat /\ n \in {-1, 1, len} /\ (n = -1 => s.rst \/ Refuses)
  <2>1. len \in Nat
    BY <1>1, SizesOf DEF readableBytes
  <2> QED BY <2>1, Returned
<1>3. /\ Valid(out, Nat) /\ ow \in Seq(Nat)
      /\ n >= 0 /\ r.output.content = r.owed => out.content = ow
      /\ r.owed = <<>> => ow = <<>>
  <2>1. CASE n = -1
    <3>1. Valid(out, Nat)
      BY <1>1, <1>2, <2>1, RetrieveIsTail
    <3> QED BY <1>1, <2>1, <3>1
  <2>2. CASE n >= 0
    <3>1. n \in Nat /\ ~(n < 0) /\ Len(r.owed) \in Nat
      BY <1>1, <1>2, <2>2
    <3>2. out = retrieve(r.output, n) /\ ow = SubSeq(r.owed, n + 1, Len(r.owed))
      BY <3>1
    <3>3. /\ Valid(out, Nat)
          /\ out.content = IF n < Len(r.output.content)
                           THEN SubSeq(r.output.content, n + 1, Len(r.output.content)) ELSE <<>>
      <4> HIDE DEF out
      <4> QED BY <1>1, <3>1, <3>2, RetrieveIsTail
    <3> HIDE DEF out, ow
    <3>4. ow \in Seq(Nat) /\ (n >= Len(r.owed) => ow = <<>>)
      <4>1. \A i \in (n + 1)..Len(r.owed) : r.owed[i] \in Nat
        <5>1. \A i \in (n + 1)..Len(r.owed) : i \in 1..Len(r.owed)
          BY <3>1
        <5> QED BY <1>1, <5>1, ElementOfSeq
      <4>2. n + 1 \in Int /\ Len(r.owed) \in Int
        BY <3>1
      <4>3. ow \in Seq(Nat) /\ Len(ow) = IF n + 1 <= Len(r.owed) THEN Len(r.owed) - (n + 1) + 1 ELSE 0
        BY <3>2, <4>1, <4>2, SubSeqProperties
      <4>4. n >= Len(r.owed) => Len(ow) = 0
        BY <3>1, <4>3
      <4> QED BY <4>3, <4>4, EmptySeq
    <3>5. r.owed = <<>> => n >= Len(r.owed)
      BY <3>1
    <3>6. ASSUME r.output.content = r.owed PROVE out.content = ow
      <4>1. CASE n < Len(r.owed)
        BY <3>2, <3>3, <3>6, <4>1
      <4>2. CASE n >= Len(r.owed)
        <5>1. ~(n < Len(r.owed))
          BY <3>1, <4>2
        <5> QED BY <3>3, <3>4, <3>6, <4>2, <5>1
      <4> QED BY <3>1, <4>1, <4>2
    <3> QED BY <3>3, <3>4, <3>5, <3>6
  <2> QED BY <1>2, <2>1, <2>2
<1>4. off \in Channel /\ IndexMatchesKernel(off) /\ ~isWriting(off)
  BY <1>1, ChannelKeeps
<1>5. afterWrite(r, s, n) =
        IF readableBytes(r1.output) > 0 THEN Outcome(r1, s.wshut)
        ELSE IF r.state = "kDisconnecting" THEN shutdownInLoop(Outcome(r2, s.wshut))
        ELSE Outcome(r2, s.wshut)
  BY DEF afterWrite
<1> HIDE DEF out, ow, off
<1>6. r1 = Rec(r.loop, r.peer, r.state, r.ch, r.input, out, r.sent, ow)
  BY WithOutputOwed
<1>7. r2 = Rec(r.loop, r.peer, r.state, off, r.input, out, r.sent, ow)
  <2>1. r1.ch = r.ch
    BY <1>6 DEF Rec
  <2>2. r2 = [r1 EXCEPT !.ch = off]
    BY <2>1 DEF off
  <2> HIDE DEF r1, r2
  <2> QED BY <1>6, <2>2, RecWith
<1> HIDE DEF r1, r2
<1>8. IsConn(r1) /\ IsConn(r2)
  BY <1>1, <1>3, <1>4, <1>6, <1>7, MakeConn
<1>9. /\ r1.loop = r.loop /\ r1.peer = r.peer /\ r1.state = r.state /\ r1.ch = r.ch
      /\ r1.output = out /\ r1.owed = ow
  BY <1>6 DEF Rec
<1>10. /\ r2.loop = r.loop /\ r2.peer = r.peer /\ r2.state = r.state /\ r2.ch = off
       /\ r2.output = out /\ r2.owed = ow
  BY <1>7 DEF Rec
<1>11. ~Refuses /\ ~s.rst => n >= 0
  BY <1>2
<1>12. s.wshut \in BOOLEAN
  BY SockParts
<1>13. CASE readableBytes(out) > 0
  <2>1. afterWrite(r, s, n) = Outcome(r1, s.wshut)
    BY <1>5, <1>9, <1>13
  <2>2. afterWrite(r, s, n).r = r1 /\ afterWrite(r, s, n).wshut = s.wshut
    BY <2>1, OutcomeParts
  <2>3. ~Refuses /\ StreamOf(r, s.rst, s.wshut) => StreamOf(r1, s.rst, s.wshut)
    BY <1>3, <1>9, <1>11 DEF StreamOf
  <2> QED BY <1>8, <1>9, <1>12, <2>2, <2>3 DEF Serves, Handled
<1>14. CASE ~(readableBytes(out) > 0)
  <2>1. out.content = <<>>
    <3>1. out.content \in Seq(Nat) /\ Len(out.content) \in Nat
      BY <1>3, SizesOf
    <3>2. Len(out.content) = 0
      BY <1>14, <3>1 DEF readableBytes
    <3> QED BY <3>1, <3>2, EmptySeq
  <2>2. PICK w \in {s.wshut, TRUE} :
          /\ afterWrite(r, s, n) = Outcome(r2, w)
          /\ w # s.wshut => r.state = "kDisconnecting"
    <3>1. Outcome(r2, s.wshut).r = r2 /\ shutdownWrite(Outcome(r2, s.wshut)) = Outcome(r2, TRUE)
      BY OutcomeParts
    <3>2. CASE r.state = "kDisconnecting"
      <4>1. shutdownInLoop(Outcome(r2, s.wshut)) = Outcome(r2, TRUE)
        BY <1>4, <1>10, <3>1 DEF shutdownInLoop
      <4> QED BY <1>5, <1>9, <1>14, <3>2, <4>1
    <3>3. CASE r.state # "kDisconnecting"
      BY <1>5, <1>9, <1>14, <3>3
    <3> QED BY <3>2, <3>3
  <2>3. afterWrite(r, s, n).r = r2 /\ afterWrite(r, s, n).wshut = w
    BY <2>2, OutcomeParts
  <2>4. ASSUME ~Refuses, StreamOf(r, s.rst, s.wshut) PROVE StreamOf(r2, s.rst, w)
    <3>1. ASSUME ~s.rst, r.state \in {"kConnecting", "kConnected", "kDisconnecting"} PROVE ow = <<>>
      BY <1>3, <1>11, <2>1, <2>4, <3>1 DEF StreamOf
    <3>2. ASSUME ~s.rst, s.wshut PROVE ow = <<>>
      BY <1>3, <2>4, <3>2 DEF StreamOf
    <3>3. w => s.wshut \/ r.state = "kDisconnecting"
      BY <2>2
    <3>4. s.wshut => r.state \in {"kDisconnecting", "kDisconnected"}
      BY <2>4 DEF StreamOf
    <3> QED BY <1>10, <2>1, <3>1, <3>2, <3>3, <3>4 DEF StreamOf
  <2>5. w \in BOOLEAN
    BY <1>12
  <2> QED BY <1>8, <1>10, <2>3, <2>4, <2>5 DEF Serves, Handled
<1> QED BY <1>13, <1>14

-----------------------------------------------------------------------------
(* Steps of the queues.                                                    *)

\* The functor f may be put at the end of queue l of q, which makes it p.
MayPush(q, n, cn, l, f) ==
  /\ Well(q, n, cn) /\ f \in Functor /\ l \in Loop
  /\ l = Place(cn, f) /\ f[2] < n /\ ~In(q[l], f)
  /\ \A c \in Conn : f = Est(c) => ~In(q[l], Des(c))

Pushed(p, q, n, cn, l, f) ==
  /\ Well(p, n, cn)
  /\ \A k \in Loop : \A g : In(p[k], g) <=> In(q[k], g) \/ (k = l /\ g = f)
  /\ \A k \in Loop : Len(q[k]) <= Len(p[k])

LEMMA PushWell ==
  ASSUME NEW q, NEW n, NEW cn, NEW l, NEW f, MayPush(q, n, cn, l, f)
  PROVE  Pushed(Push(q, l, f), q, n, cn, l, f)
<1> DEFINE t == Append(q[l], f)
           p == Push(q, l, f)
<1>1. /\ q \in [Loop -> Seq(Functor)] /\ \A k \in Loop : Once(q[k]) /\ EstFirst(q[k])
      /\ f \in Functor /\ l \in Loop /\ l = Place(cn, f) /\ f[2] < n /\ ~In(q[l], f)
      /\ \A c \in Conn : f = Est(c) => ~In(q[l], Des(c))
  BY DEF MayPush, Well
<1>2. /\ t \in Seq(Functor) /\ Once(t) /\ EstFirst(t)
      /\ \A g : In(t, g) <=> In(q[l], g) \/ g = f
  BY <1>1, AppendIn
<1>3. Len(q[l]) <= Len(t)
  BY <1>1
<1>4. p = [q EXCEPT ![l] = t]
  BY DEF Push
<1> HIDE DEF t, p
<1>5. /\ p \in [Loop -> Seq(Functor)] /\ p[l] = t
      /\ \A k \in Loop : k # l => p[k] = q[k]
  BY <1>1, <1>2, <1>4
<1>6. \A k \in Loop : Once(p[k]) /\ EstFirst(p[k])
  BY <1>1, <1>2, <1>5
<1>7. \A k \in Loop : \A g : In(p[k], g) <=> In(q[k], g) \/ (k = l /\ g = f)
  BY <1>2, <1>5
<1>8. \A k \in Loop : Len(q[k]) <= Len(p[k])
  <2>1. \A k \in Loop : Len(q[k]) \in Nat
    BY <1>1
  <2> QED BY <1>3, <1>5, <2>1
<1>9. \A k \in Loop : \A g \in Functor : In(p[k], g) => g[2] < n /\ k = Place(cn, g)
  BY <1>1, <1>7 DEF MayPush, Well
<1>10. Well(p, n, cn)
  BY <1>5, <1>6, <1>9 DEF Well
<1> QED BY <1>7, <1>8, <1>10 DEF Pushed, p

LEMMA PopWell ==
  ASSUME NEW q, NEW n, NEW cn, Well(q, n, cn), NEW l \in Loop, q[l] # <<>>
  PROVE  LET p == [q EXCEPT ![l] = Tail(q[l])]
             h == Head(q[l])
         IN  /\ Well(p, n, cn)
             /\ \A k \in Loop : \A g : In(p[k], g) <=> In(q[k], g) /\ ~(k = l /\ g = h)
             /\ h \in Functor /\ In(q[l], h) /\ h[2] < n /\ l = Place(cn, h)
             /\ \A c \in Conn : h = Des(c) => ~In(q[l], Est(c))
             /\ \A k \in Loop : Len(p[k]) = IF k = l THEN Len(q[k]) - 1 ELSE Len(q[k])
<1> DEFINE t == Tail(q[l])
           p == [q EXCEPT ![l] = t]
           h == Head(q[l])
<1>1. q \in [Loop -> Seq(Functor)] /\ \A k \in Loop : Once(q[k]) /\ EstFirst(q[k])
  BY DEF Well
<1>2. /\ t \in Seq(Functor) /\ Once(t) /\ EstFirst(t)
      /\ \A g : In(t, g) <=> In(q[l], g) /\ g # h
      /\ h \in Functor /\ In(q[l], h)
      /\ \A c \in Conn : h = Des(c) => ~In(q[l], Est(c))
  BY <1>1, TailIn
<1>3. Len(t) = Len(q[l]) - 1
  BY <1>1
<1> HIDE DEF t, h
<1>4. /\ p \in [Loop -> Seq(Functor)] /\ p[l] = t
      /\ \A k \in Loop : k # l => p[k] = q[k]
  BY <1>1, <1>2
<1> HIDE DEF p
<1>5. \A k \in Loop : Once(p[k]) /\ EstFirst(p[k])
  BY <1>1, <1>2, <1>4
<1>6. \A k \in Loop : \A g : In(p[k], g) <=> In(q[k], g) /\ ~(k = l /\ g = h)
  BY <1>2, <1>4
<1>7. \A k \in Loop : \A g \in Functor : In(p[k], g) => g[2] < n /\ k = Place(cn, g)
  BY <1>6 DEF Well
<1>8. h[2] < n /\ l = Place(cn, h)
  BY <1>2 DEF Well
<1>9. Well(p, n, cn)
  BY <1>4, <1>5, <1>7 DEF Well
<1>10. \A k \in Loop : Len(p[k]) = IF k = l THEN Len(q[k]) - 1 ELSE Len(q[k])
  BY <1>3, <1>4
<1> QED BY <1>2, <1>6, <1>8, <1>9, <1>10 DEF p, t, h

\* Queues stay well as connections are added and none changes its loop.
LEMMA WellMono ==
  ASSUME NEW q, NEW n \in Nat, NEW cn, Well(q, n, cn), NEW n2 \in Nat, n <= n2, NEW cn2,
         \A c \in Conn : c < n => cn2[c].loop = cn[c].loop
  PROVE  Well(q, n2, cn2)
<1> SUFFICES ASSUME NEW l \in Loop, NEW f \in Functor, In(q[l], f)
             PROVE  f[2] < n2 /\ l = Place(cn2, f)
  BY DEF Well
<1>1. f[2] < n /\ l = Place(cn, f) /\ f[2] \in Conn
  BY Kinds DEF Well
<1>2. f[2] \in Nat
  BY <1>1, ServerAssumption DEF Conn
<1>3. cn2[f[2]].loop = cn[f[2]].loop
  BY <1>1
<1> QED BY <1>1, <1>2, <1>3 DEF Place

\* Who holds a pointer to c.
LEMMA HeldIs ==
  ASSUME NEW q, NEW n, NEW cn, Well(q, n, cn), NEW c \in Conn, cn[c].loop \in Loop
  PROVE  Held(q, c) <=> \/ In(q[cn[c].loop], Est(c)) \/ In(q[cn[c].loop], Des(c))
                        \/ In(q[Base], Rem(c))
<1>1. Base \in Loop
  BY DEF Loop
<1>2. ASSUME NEW l \in Loop, NEW f \in Functor, f[2] = c, In(q[l], f) PROVE Held(q, c)
  BY <1>2 DEF Held, In
<1>3. ASSUME Held(q, c)
      PROVE  \/ In(q[cn[c].loop], Est(c)) \/ In(q[cn[c].loop], Des(c)) \/ In(q[Base], Rem(c))
  <2>1. PICK l \in Loop : \E i \in DOMAIN q[l] : q[l][i][2] = c
    BY <1>3 DEF Held
  <2>2. PICK i \in DOMAIN q[l] : q[l][i][2] = c
    BY <2>1
  <2> DEFINE f == q[l][i]
  <2>3. f \in Functor /\ In(q[l], f)
    <3>1. q[l] \in Seq(Functor)
      BY DEF Well
    <3> QED BY <3>1 DEF In
  <2>4. l = Place(cn, f)
    BY <2>3 DEF Well
  <2> HIDE DEF f
  <2>5. f = Est(c) \/ f = Des(c) \/ f = Rem(c)
    BY <2>2, <2>3, Kinds DEF f
  <2> QED BY <2>3, <2>4, <2>5, Kinds
<1> QED BY <1>1, <1>2, <1>3, Kinds

-----------------------------------------------------------------------------
(* The ids of the clients.                                                 *)

Peered == /\ next_user_id \in Nat /\ First <= next_user_id /\ DOMAIN peer_map \subseteq Peers
          /\ PeerIdsDistinct

LEMMA AddPeer ==
  ASSUME Peered, NEW p \in Peers, add_peer(p)
  PROVE  Peered' /\ DOMAIN peer_map' = DOMAIN peer_map \cup {p}
<1>1. CASE p \in DOMAIN peer_map
  BY <1>1 DEF add_peer, Peered, PeerIdsDistinct, peerVars
<1>2. CASE p \notin DOMAIN peer_map
  <2> DEFINE D   == DOMAIN peer_map
             ids == {peer_map[q] : q \in D}
             last == IF free_peer_id = {} THEN next_user_id + 1 ELSE next_user_id
  <2>1. PICK id \in FreeIds :
          /\ peer_map' = [q \in D \cup {p} |-> IF q = p THEN id ELSE peer_map[q]]
          /\ free_peer_id' = free_peer_id \ {id}
          /\ next_user_id' = last
    BY <1>2 DEF add_peer
  <2>2. First \in Nat /\ next_user_id \in Nat /\ First <= next_user_id
    BY PeerAssumption DEF Peered
  <2>3. First..(next_user_id - 1) = free_peer_id \cup ids
    BY DEF Peered, PeerIdsDistinct
  <2>4. id \notin ids
    <3>1. CASE free_peer_id = {}
      <4>1. id = next_user_id /\ next_user_id \notin First..(next_user_id - 1)
        BY <2>2, <3>1 DEF FreeIds
      <4> QED BY <2>3, <4>1
    <3>2. CASE free_peer_id # {}
      BY <3>2 DEF FreeIds, Peered, PeerIdsDistinct
    <3> QED BY <3>1, <3>2
  <2>5. First..(last - 1) = (free_peer_id \ {id}) \cup ids \cup {id}
    <3>1. CASE free_peer_id = {}
      <4>1. id = next_user_id /\ last = next_user_id + 1
        BY <3>1 DEF FreeIds
      <4>2. First..(last - 1) = First..(next_user_id - 1) \cup {next_user_id}
        BY <2>2, <4>1
      <4> QED BY <2>3, <3>1, <4>1, <4>2
    <3>2. CASE free_peer_id # {}
      <4>1. id \in free_peer_id /\ last = next_user_id
        BY <3>2 DEF FreeIds
      <4> QED BY <2>3, <4>1
    <3> QED BY <3>1, <3>2
  <2>6. /\ DOMAIN peer_map' = D \cup {p} /\ peer_map'[p] = id
        /\ \A q \in D : q # p /\ peer_map'[q] = peer_map[q]
    BY <1>2, <2>1
  <2> HIDE DEF last
  <2>7. {peer_map'[q] : q \in DOMAIN peer_map'} = ids \cup {id}
    BY <2>6
  <2>8. /\ \A q, r \in D : peer_map[q] = peer_map[r] => q = r
        /\ \A q \in D : peer_map[q] \notin free_peer_id
    BY DEF Peered, PeerIdsDistinct
  <2>9. /\ \A q, r \in DOMAIN peer_map' : peer_map'[q] = peer_map'[r] => q = r
        /\ \A q \in DOMAIN peer_map' : peer_map'[q] \notin free_peer_id'
    BY <2>1, <2>4, <2>6, <2>8
  <2>10. First..(next_user_id' - 1) = free_peer_id' \cup {peer_map'[q] : q \in DOMAIN peer_map'}
    BY <2>1, <2>5, <2>7
  <2>11. last \in Nat /\ First <= last
    BY <2>2 DEF last
  <2>12. DOMAIN peer_map' \subseteq Peers
    BY <2>6 DEF Peered
  <2> QED BY <2>1, <2>6, <2>9, <2>10, <2>11, <2>12 DEF Peered, PeerIdsDistinct
<1> QED BY <1>1, <1>2

LEMMA RemovePeer ==
  ASSUME Peered, NEW p \in Peers, remove_peer(p)
  PROVE  Peered' /\ DOMAIN peer_map' = DOMAIN peer_map \ {p}
<1>1. CASE p \notin DOMAIN peer_map
  BY <1>1 DEF remove_peer, Peered, PeerIdsDistinct, peerVars
<1>2. CASE p \in DOMAIN peer_map
  <2> DEFINE D   == DOMAIN peer_map
             ids == {peer_map[q] : q \in D}
  <2>1. /\ peer_map' = [q \in D \ {p} |-> peer_map[q]]
        /\ free_peer_id' = free_peer_id \cup {peer_map[p]}
        /\ next_user_id' = next_user_id
    BY <1>2 DEF remove_peer
  <2>2. DOMAIN peer_map' = D \ {p} /\ \A q \in D \ {p} : peer_map'[q] = peer_map[q]
    BY <2>1
  <2>3. /\ \A q, r \in D : peer_map[q] = peer_map[r] => q = r
        /\ \A q \in D : peer_map[q] \notin free_peer_id
        /\ First..(next_user_id - 1) = free_peer_id \cup ids
    BY DEF Peered, PeerIdsDistinct
  <2>4. {peer_map'[q] : q \in DOMAIN peer_map'} \cup {peer_map[p]} = ids
    BY <1>2, <2>2
  <2>5. First..(next_user_id' - 1) = free_peer_id' \cup {peer_map'[q] : q \in DOMAIN peer_map'}
    BY <2>1, <2>3, <2>4
  <2>6. /\ \A q, r \in DOMAIN peer_map' : peer_map'[q] = peer_map'[r] => q = r
        /\ \A q \in DOMAIN peer_map' : peer_map'[q] \notin free_peer_id'
    BY <1>2, <2>1, <2>2, <2>3
  <2>7. DOMAIN peer_map' \subseteq Peers
    BY <2>2 DEF Peered
  <2> QED BY <2>1, <2>2, <2>5, <2>6, <2>7 DEF Peered, PeerIdsDistinct
<1> QED BY <1>1, <1>2

LEMMA SamePeers ==
  ASSUME Peered, UNCHANGED peerVars PROVE Peered' /\ DOMAIN peer_map' = DOMAIN peer_map
BY DEF Peered, PeerIdsDistinct, peerVars

-----------------------------------------------------------------------------
(* The inductive invariant.                                                *)

Calls == [up : Nat, down : Nat, destroyed : Nat]

Fields ==
  /\ conn \in [Conn -> ConnFields] /\ \A c \in Conn : IsConn(conn[c])
  /\ sock \in [Conn -> SockFields] /\ calls \in [Conn -> Calls]
  /\ m_nextConnId \in 1..(MaxConns + 1) /\ m_connections \in SUBSET Conn

\* The base loop's side: the acceptor listens while the server is started, and
\* m_next is the index of a loop.
Started ==
  /\ acceptor \in Channel /\ IndexMatchesKernel(acceptor)
  /\ server \in {"made", "started", "destroyed"}
  /\ server # "started" => acceptor.index = "kNew"
  /\ server = "made" => acceptor = NewAcceptor /\ m_next = 0
  /\ server = "destroyed" => m_connections = {}
  /\ m_numThreads \in ThreadCounts \cup {0} /\ m_next \in Nat
  /\ m_numThreads # 0 => m_next < m_numThreads

Queues == Well(queue, m_nextConnId, conn)

Batches == batch \in [Loop -> Nat] /\ \A l \in Loop : batch[l] <= Len(queue[l])

Unborn ==
  \A c \in Conn : c >= m_nextConnId =>
    /\ conn[c].state = "none" /\ conn[c].ch = NewChannel /\ c \notin m_connections
    /\ calls[c] = [up |-> 0, down |-> 0, destroyed |-> 0]

\* The life of a connection with record x and calls k: whether a functor that
\* establishes it (e), destroys it (d) or takes it off the map (t) is queued,
\* whether it is in the map (m), and whether the server is over.
LifeOf(e, d, t, m, over, x, k) ==
  /\ x.state # "none" /\ x.peer \in Peers
  /\ e <=> x.state = "kConnecting"
  /\ e => x.loop # Base /\ x.ch = NewChannel
  /\ k.up = IF e THEN 0 ELSE 1
  /\ t => x.state = "kDisconnected" /\ x.loop # Base
  /\ k.destroyed \in {0, 1}
  /\ k.destroyed = 0 /\ ~m <=> d
  /\ m => k.destroyed = 0
  /\ x.state = "gone" => k.destroyed = 1 /\ ~t
  /\ k.destroyed = 1 => x.state = "gone" \/ (x.state = "kDisconnected" /\ t)
  /\ k.destroyed = 1 => x.ch.index = "kNew"
  /\ x.state = "kDisconnected" => x.ch.index # "kAdded"
  /\ ~over => (t => m) /\ (~m => x.state \in {"kDisconnected", "gone"})

E(c) == In(queue[conn[c].loop], Est(c))
D(c) == In(queue[conn[c].loop], Des(c))
T(c) == In(queue[Base], Rem(c))

Life(c) == LifeOf(E(c), D(c), T(c), c \in m_connections, server = "destroyed", conn[c], calls[c])

Lives == \A c \in Conn : c < m_nextConnId => Life(c)

Ups == \A c \in Conn : calls[c].up = 1 /\ calls[c].down = 0 =>
         \/ conn[c].peer \in DOMAIN peer_map
         \/ \E d \in Conn \ {c} : d # c /\ conn[d].peer = conn[c].peer /\ calls[d].down > 0

Streams == \A c \in Conn : StreamOf(conn[c], sock[c].rst, sock[c].wshut)

IInv == /\ Fields /\ Started /\ Queues /\ Batches /\ Unborn /\ Lives /\ Peered /\ Ups
        /\ ~Refuses => Streams

LEMMA ConnIsNat == Conn \subseteq Nat \ {0} /\ Base \in Loop /\ MaxConns \in Nat /\ MaxData \in Nat
BY ServerAssumption DEF Conn, Loop

LEMMA PeerIsNat == Peers \subseteq Nat \ {0}
BY ServerAssumption DEF NoPeer

\* What the invariant says of the promises.
LEMMA AliveIs ==
  ASSUME Fields, Queues, NEW c \in Conn
  PROVE  Alive(c) <=> c \in m_connections \/ E(c) \/ D(c) \/ T(c)
<1>1. conn[c].loop \in Loop
  BY IsConnParts DEF Fields
<1> QED BY <1>1, HeldIs DEF Alive, Queues, E, D, T

LEMMA UnbornIsFree ==
  ASSUME Fields, Queues, Unborn, NEW c \in Conn, c >= m_nextConnId
  PROVE  ~E(c) /\ ~D(c) /\ ~T(c)
<1>1. conn[c].loop \in Loop /\ Base \in Loop
  BY IsConnParts, ConnIsNat DEF Fields
<1>2. ~(c < m_nextConnId)
  BY ConnIsNat DEF Fields
<1> QED BY <1>1, <1>2, Kinds DEF Queues, Well, E, D, T

LEMMA Born ==
  ASSUME Fields, NEW c \in Conn
  PROVE  c < m_nextConnId \/ c >= m_nextConnId
BY ConnIsNat DEF Fields

\* A connection whose channel is watched stands, and is not about to be
\* destroyed unless by the server's destructor.
LEMMA WatchedStands ==
  ASSUME Fields, Unborn, Lives, NEW c \in Conn, conn[c].ch.watched
  PROVE  /\ c < m_nextConnId /\ Life(c) /\ ~E(c) /\ ~T(c)
         /\ conn[c].state \in {"kConnected", "kDisconnecting"}
         /\ conn[c].ch.index = "kAdded"
         /\ calls[c].destroyed = 0 /\ calls[c].up = 1
         /\ server # "destroyed" => c \in m_connections
<1>1. /\ conn[c].ch.index = "kAdded" /\ conn[c].state \in State
  BY IsConnParts DEF Fields, IndexMatchesKernel
<1>2. conn[c].ch # NewChannel
  BY NewChannelMatches
<1>3. c < m_nextConnId /\ Life(c)
  BY <1>2, Born DEF Unborn, Lives
<1> QED BY <1>1, <1>2, <1>3 DEF Life, LifeOf, State

LEMMA PollerFollows ==
  ASSUME Fields, Started, Queues, Unborn, Lives PROVE PollerMeetsLiveConnections
<1>1. IndexMatchesKernel(acceptor) /\ (server = "destroyed" => acceptor.index = "kNew")
  BY DEF Started
<1>2. ASSUME NEW c \in Conn
      PROVE  /\ IndexMatchesKernel(conn[c].ch)
             /\ conn[c].state \in {"none", "gone"} <=> ~Alive(c)
             /\ conn[c].ch.index # "kNew" => Alive(c)
  <2>1. IndexMatchesKernel(conn[c].ch)
    BY IsConnParts DEF Fields
  <2>2. CASE c < m_nextConnId
    BY <2>1, <2>2, AliveIs DEF Lives, Life, LifeOf
  <2>3. CASE c >= m_nextConnId
    BY <2>1, <2>3, AliveIs, UnbornIsFree, NewChannelMatches DEF Unborn
  <2> QED BY <2>2, <2>3, Born
<1> QED BY <1>1, <1>2 DEF PollerMeetsLiveConnections, hasChannel

LEMMA OnceFollows ==
  ASSUME Fields, Unborn, Lives PROVE EstablishedAndDestroyedOnce
<1> SUFFICES ASSUME NEW c \in Conn
             PROVE  /\ calls[c].up <= 1 /\ calls[c].destroyed <= 1
                    /\ calls[c].destroyed <= calls[c].up
                    /\ calls[c].destroyed = 1 => conn[c].ch.index = "kNew"
  BY DEF EstablishedAndDestroyedOnce
<1>1. CASE c < m_nextConnId
  BY <1>1 DEF Lives, Life, LifeOf
<1>2. CASE c >= m_nextConnId
  BY <1>2 DEF Unborn
<1> QED BY <1>1, <1>2, Born

LEMMA OwedFollows ==
  ASSUME Fields, Streams PROVE OutputIsOwed
<1> SUFFICES ASSUME NEW c \in Conn
             PROVE  /\ conn[c].state \in {"kConnected", "kDisconnecting"} /\ ~sock[c].rst =>
                         conn[c].output.content = conn[c].owed
                    /\ IndicesOrdered(conn[c].output) /\ IndicesOrdered(conn[c].input)
  BY DEF OutputIsOwed
<1>1. Valid(conn[c].output, Nat) /\ Valid(conn[c].input, Nat)
  BY IsConnParts DEF Fields
<1> QED BY <1>1 DEF Valid, Streams, StreamOf

LEMMA TypesFollow ==
  ASSUME Fields, Started, Queues, Batches, Peered PROVE TypeOK
<1>1. queue \in [Loop -> Seq(Functor)]
  BY DEF Queues, Well
<1>2. ASSUME NEW l \in Loop PROVE batch[l] \in 0..Len(queue[l])
  <2>1. batch[l] \in Nat /\ batch[l] <= Len(queue[l]) /\ Len(queue[l]) \in Nat
    BY <1>1 DEF Batches
  <2> QED BY <2>1
<1>3. \A c \in Conn :
       /\ conn[c].state \in State /\ conn[c].loop \in Loop
       /\ conn[c].ch \in Channel
       /\ conn[c].input \in Buffer(Nat) /\ conn[c].output \in Buffer(Nat)
  BY IsConnParts DEF Fields
<1>4. \A c \in Conn : sock[c].data \in 0..MaxData
  BY SockParts DEF Fields
<1> QED BY <1>1, <1>2, <1>3, <1>4 DEF TypeOK, Fields, Started, Peered

-----------------------------------------------------------------------------
(* The initial state.                                                      *)

LEMMA NoConnIs == NoConn = Rec(Base, NoPeer, "none", NewChannel, EmptyBuffer, EmptyBuffer, 0, <<>>)
<1> DEFINE x == NewConn(Base, NoPeer)
<1>1. x = Rec(Base, NoPeer, "kConnecting", NewChannel, EmptyBuffer, EmptyBuffer, 0, <<>>)
  BY DEF NewConn, Rec
<1> HIDE DEF x
<1>2. [x EXCEPT !.state = "none"] = Rec(Base, NoPeer, "none", NewChannel, EmptyBuffer, EmptyBuffer, 0, <<>>)
  BY <1>1, RecWith
<1> QED BY <1>2 DEF NoConn, x

LEMMA NoConnOK ==
  /\ IsConn(NoConn) /\ NoConn \in ConnFields /\ NoConn.state = "none" /\ NoConn.ch = NewChannel
  /\ NoConn.loop = Base
<1>1. "none" \in State /\ NoPeer \in Nat /\ <<>> \in Seq(Nat) /\ 0 \in Nat /\ Base \in Loop
  BY ConnIsNat DEF State, NoPeer
<1>2. IsConn(NoConn)
  BY <1>1, NoConnIs, MakeConn, NewChannelMatches, EmptyIsValid
<1>3. NoConn.state = "none" /\ NoConn.ch = NewChannel /\ NoConn.loop = Base
  BY NoConnIs DEF Rec
<1> QED BY <1>2, <1>3 DEF IsConn

LEMMA NewSockOK ==
  NewSock \in SockFields /\ NewSock.rst = FALSE /\ NewSock.wshut = FALSE
BY ConnIsNat DEF NewSock, SockFields

LEMMA InitIInv == ASSUME Init PROVE IInv
<1>1. Fields
  <2>1. 1 \in 1..(MaxConns + 1)
    BY ConnIsNat
  <2>2. [c \in Conn |-> NoConn] \in [Conn -> ConnFields]
    BY NoConnOK
  <2>3. [c \in Conn |-> NewSock] \in [Conn -> SockFields]
    BY NewSockOK
  <2>4. [c \in Conn |-> [up |-> 0, down |-> 0, destroyed |-> 0]] \in [Conn -> Calls]
    BY DEF Calls
  <2> QED BY <2>1, <2>2, <2>3, <2>4, NoConnOK DEF Init, ServerInit, Fields
<1>2. Started
  BY NewChannelMatches DEF Init, ServerInit, Started, NewAcceptor
<1>3. Queues
  <2>1. \A l \in Loop : queue[l] = <<>>
    BY DEF Init
  <2>2. queue \in [Loop -> Seq(Functor)]
    BY DEF Init
  <2>3. \A l \in Loop : \A f : ~In(queue[l], f)
    BY <2>1 DEF In
  <2>4. \A l \in Loop : Once(queue[l]) /\ EstFirst(queue[l])
    BY <2>1 DEF Once, EstFirst
  <2> QED BY <2>2, <2>3, <2>4 DEF Queues, Well
<1>4. Batches
  <2>1. \A l \in Loop : queue[l] = <<>> /\ batch[l] = 0
    BY DEF Init
  <2>2. batch \in [Loop -> Nat]
    BY DEF Init
  <2> QED BY <2>1, <2>2 DEF Batches
<1>5. Unborn
  BY NoConnOK DEF Init, ServerInit, Unborn
<1>6. Lives
  BY ConnIsNat DEF Init, ServerInit, Lives
<1>7. Peered
  <2>1. DOMAIN peer_map = {} /\ free_peer_id = {} /\ next_user_id = First
    BY DEF Init, PeerInit
  <2>2. First \in Nat /\ First..(next_user_id - 1) = {}
    BY <2>1, PeerAssumption
  <2> QED BY <2>1, <2>2 DEF Peered, PeerIdsDistinct
<1>8. Ups
  <2>1. \A c \in Conn : calls[c].up = 0
    BY DEF Init
  <2> QED BY <2>1 DEF Ups
<1>9. Streams
  <2>1. \A c \in Conn : conn[c].state = "none" /\ sock[c].wshut = FALSE
    BY NoConnOK, NewSockOK DEF Init
  <2> QED BY <2>1 DEF Streams, StreamOf
<1> QED BY <1>1, <1>2, <1>3, <1>4, <1>5, <1>6, <1>7, <1>8, <1>9 DEF IInv

-----------------------------------------------------------------------------
(* What steps of one connection have in common.                            *)

LEMMA ConnSet ==
  ASSUME Fields, NEW c \in Conn, NEW x, IsConn(x)
  PROVE  LET y == [conn EXCEPT ![c] = x]
         IN  /\ y \in [Conn -> ConnFields] /\ \A d \in Conn : IsConn(y[d])
             /\ y[c] = x /\ \A d \in Conn \ {c} : y[d] = conn[d]
<1> DEFINE y == [conn EXCEPT ![c] = x]
<1>1. y \in [Conn -> ConnFields] /\ y[c] = x /\ \A d \in Conn \ {c} : y[d] = conn[d]
  <2>1. conn \in [Conn -> ConnFields] /\ x \in ConnFields
    BY DEF Fields, IsConn
  <2> HIDE DEF ConnFields
  <2> QED BY <2>1
<1> HIDE DEF y
<1>2. \A d \in Conn : IsConn(y[d])
  BY <1>1 DEF Fields
<1> QED BY <1>1, <1>2 DEF y

LEMMA SockSet ==
  ASSUME Fields, NEW c \in Conn, NEW s \in SockFields
  PROVE  LET y == [sock EXCEPT ![c] = s]
         IN  y \in [Conn -> SockFields] /\ y[c] = s /\ \A d \in Conn \ {c} : y[d] = sock[d]
BY DEF Fields

LEMMA CallsSet ==
  ASSUME Fields, NEW c \in Conn, NEW k \in Calls
  PROVE  LET y == [calls EXCEPT ![c] = k]
         IN  y \in [Conn -> Calls] /\ y[c] = k /\ \A d \in Conn \ {c} : y[d] = calls[d]
BY DEF Fields

LEMMA CallUp ==
  ASSUME Fields, NEW c \in Conn
  PROVE  LET y == [calls EXCEPT ![c].up = @ + 1]
         IN  /\ y \in [Conn -> Calls] /\ \A d \in Conn \ {c} : y[d] = calls[d]
             /\ y[c].up = calls[c].up + 1 /\ y[c].down = calls[c].down
             /\ y[c].destroyed = calls[c].destroyed
<1> DEFINE k == [calls[c] EXCEPT !.up = @ + 1]
<1>1. calls[c] \in Calls
  BY DEF Fields
<1>2. /\ k \in Calls /\ k.up = calls[c].up + 1 /\ k.down = calls[c].down
      /\ k.destroyed = calls[c].destroyed
  BY <1>1 DEF Calls
<1> HIDE DEF k
<1>3. [calls EXCEPT ![c].up = @ + 1] = [calls EXCEPT ![c] = k]
  BY DEF k
<1> QED BY <1>2, <1>3, CallsSet

LEMMA CallDown ==
  ASSUME Fields, NEW c \in Conn
  PROVE  LET y == [calls EXCEPT ![c].down = @ + 1]
         IN  /\ y \in [Conn -> Calls] /\ \A d \in Conn \ {c} : y[d] = calls[d]
             /\ y[c].up = calls[c].up /\ y[c].down = calls[c].down + 1
             /\ y[c].destroyed = calls[c].destroyed
<1> DEFINE k == [calls[c] EXCEPT !.down = @ + 1]
<1>1. calls[c] \in Calls
  BY DEF Fields
<1>2. /\ k \in Calls /\ k.up = calls[c].up /\ k.down = calls[c].down + 1
      /\ k.destroyed = calls[c].destroyed
  BY <1>1 DEF Calls
<1> HIDE DEF k
<1>3. [calls EXCEPT ![c].down = @ + 1] = [calls EXCEPT ![c] = k]
  BY DEF k
<1> QED BY <1>2, <1>3, CallsSet

LEMMA CallDestroyed ==
  ASSUME Fields, NEW c \in Conn, NEW down \in BOOLEAN
  PROVE  LET y == [calls EXCEPT ![c].destroyed = @ + 1, ![c].down = IF down THEN @ + 1 ELSE @]
         IN  /\ y \in [Conn -> Calls] /\ \A d \in Conn \ {c} : y[d] = calls[d]
             /\ y[c].up = calls[c].up /\ y[c].destroyed = calls[c].destroyed + 1
             /\ y[c].down = IF down THEN calls[c].down + 1 ELSE calls[c].down
<1> DEFINE y1 == [calls EXCEPT ![c].destroyed = @ + 1]
           n  == IF down THEN calls[c].down + 1 ELSE calls[c].down
           y  == [y1 EXCEPT ![c].down = n]
<1>1. calls[c] \in Calls
  BY DEF Fields
<1> DEFINE k == [calls[c] EXCEPT !.destroyed = @ + 1]
<1>2. /\ k \in Calls /\ k.up = calls[c].up /\ k.down = calls[c].down
      /\ k.destroyed = calls[c].destroyed + 1
  BY <1>1 DEF Calls
<1> HIDE DEF k
<1>3. y1 = [calls EXCEPT ![c] = k]
  BY DEF k
<1>4. y1 \in [Conn -> Calls] /\ y1[c] = k /\ \A d \in Conn \ {c} : y1[d] = calls[d]
  BY <1>2, <1>3, CallsSet
<1>5. n \in Nat
  BY <1>1 DEF Calls
<1> HIDE DEF y1, n
<1>6. /\ y \in [Conn -> Calls] /\ \A d \in Conn \ {c} : y[d] = y1[d]
      /\ y[c].up = k.up /\ y[c].destroyed = k.destroyed /\ y[c].down = n
  BY <1>2, <1>4, <1>5 DEF Calls
<1>7. y = [calls EXCEPT ![c].destroyed = @ + 1, ![c].down = IF down THEN @ + 1 ELSE @]
  BY DEF y1, n
<1> HIDE DEF y
<1>8. n = IF down THEN calls[c].down + 1 ELSE calls[c].down
  BY DEF n
<1> QED BY <1>2, <1>4, <1>6, <1>7, <1>8

\* A step that changes what concerns c, and nothing of the other connections.
LEMMA OneConn ==
  ASSUME IInv, NEW c \in Conn, c < m_nextConnId,
         UNCHANGED <<server, acceptor, m_numThreads, m_next, m_nextConnId>>,
         NEW x, IsConn(x), x.loop = conn[c].loop, conn' = [conn EXCEPT ![c] = x],
         sock' \in [Conn -> SockFields], \A d \in Conn \ {c} : sock'[d] = sock[d],
         calls' \in [Conn -> Calls], \A d \in Conn \ {c} : calls'[d] = calls[d],
         m_connections' \subseteq m_connections,
         \A d \in Conn \ {c} : d \in m_connections => d \in m_connections',
         Well(queue', m_nextConnId, conn),
         \A l \in Loop : \A f \in Functor : f[2] # c => (In(queue'[l], f) <=> In(queue[l], f)),
         LifeOf(In(queue'[conn[c].loop], Est(c)), In(queue'[conn[c].loop], Des(c)),
                In(queue'[Base], Rem(c)), c \in m_connections', server = "destroyed", x, calls'[c]),
         ~Refuses => StreamOf(x, sock'[c].rst, sock'[c].wshut)
  PROVE  Fields' /\ Started' /\ Queues' /\ Unborn' /\ Lives' /\ (~Refuses => Streams')
<1>1. Fields /\ Started /\ Queues /\ Unborn /\ Lives /\ (~Refuses => Streams)
  BY DEF IInv
<1>2. /\ conn' \in [Conn -> ConnFields] /\ \A d \in Conn : IsConn(conn'[d])
      /\ conn'[c] = x /\ \A d \in Conn \ {c} : conn'[d] = conn[d]
  BY <1>1, ConnSet
<1>3. Fields'
  BY <1>1, <1>2 DEF Fields
<1>4. Started'
  BY <1>1 DEF Started
<1>5. Queues'
  <2>1. \A d \in Conn : conn'[d].loop = conn[d].loop
    BY <1>2
  <2>2. m_nextConnId \in Nat /\ m_nextConnId <= m_nextConnId
    BY <1>1, ConnIsNat DEF Fields
  <2>3. Well(queue', m_nextConnId, conn')
    <3>1. \A d \in Conn : d < m_nextConnId => conn'[d].loop = conn[d].loop
      BY <2>1
    <3> QED BY <2>2, <3>1, WellMono
  <2> QED BY <2>3 DEF Queues
<1>6. ASSUME NEW d \in Conn \ {c}
      PROVE  /\ conn'[d] = conn[d] /\ calls'[d] = calls[d]
             /\ d \in m_connections' <=> d \in m_connections
             /\ E(d)' <=> E(d)
             /\ D(d)' <=> D(d)
             /\ T(d)' <=> T(d)
  <2>1. conn[d].loop \in Loop /\ Base \in Loop
    BY <1>1, IsConnParts, ConnIsNat DEF Fields
  <2>2. conn'[d] = conn[d] /\ calls'[d] = calls[d] /\ (d \in m_connections' <=> d \in m_connections)
    BY <1>2
  <2>3. /\ Est(d) \in Functor /\ Des(d) \in Functor /\ Rem(d) \in Functor
        /\ Est(d)[2] # c /\ Des(d)[2] # c /\ Rem(d)[2] # c
    BY Kinds
  <2> QED BY <2>1, <2>2, <2>3 DEF E, D, T
<1>7. Unborn'
  <2> SUFFICES ASSUME NEW d \in Conn, d >= m_nextConnId
               PROVE  /\ conn'[d].state = "none" /\ conn'[d].ch = NewChannel /\ d \notin m_connections'
                      /\ calls'[d] = [up |-> 0, down |-> 0, destroyed |-> 0]
    BY DEF Unborn
  <2>1. d # c
    BY <1>1, ConnIsNat DEF Fields
  <2> QED BY <1>1, <1>6, <2>1 DEF Unborn
<1>8. Lives'
  <2> SUFFICES ASSUME NEW d \in Conn, d < m_nextConnId PROVE Life(d)'
    BY DEF Lives
  <2>1. CASE d = c
    BY <1>2, <2>1 DEF Life, E, D, T
  <2>2. CASE d # c
    <3>1. Life(d)
      BY <1>1 DEF Lives
    <3> QED BY <1>6, <2>2, <3>1 DEF Life, LifeOf
  <2> QED BY <2>1, <2>2
<1>9. ~Refuses => Streams'
  BY <1>1, <1>2 DEF Streams
<1> QED BY <1>3, <1>4, <1>5, <1>7, <1>8, <1>9

\* The clients' ids, when a step of connection c has given its address an id or
\* taken the id away.
LEMMA UpsStep ==
  ASSUME Ups, NEW c \in Conn,
         \A d \in Conn \ {c} : conn'[d].peer = conn[d].peer /\ calls'[d] = calls[d],
         calls[c].down > 0 => calls'[c].down > 0 /\ conn'[c].peer = conn[c].peer,
         calls'[c].up = 1 /\ calls'[c].down = 0 =>
           \/ conn'[c].peer \in DOMAIN peer_map'
           \/ /\ calls[c].up = 1 /\ calls[c].down = 0 /\ conn'[c].peer = conn[c].peer
              /\ DOMAIN peer_map \subseteq DOMAIN peer_map',
         \/ DOMAIN peer_map \subseteq DOMAIN peer_map'
         \/ /\ DOMAIN peer_map \ {conn[c].peer} \subseteq DOMAIN peer_map'
            /\ calls'[c].down > 0 /\ conn'[c].peer = conn[c].peer
  PROVE  Ups'
<1> SUFFICES ASSUME NEW d \in Conn, calls'[d].up = 1, calls'[d].down = 0,
                    conn'[d].peer \notin DOMAIN peer_map'
             PROVE  \E b \in Conn \ {d} : b # d /\ conn'[b].peer = conn'[d].peer /\ calls'[b].down > 0
  BY DEF Ups
<1>1. calls[d].up = 1 /\ calls[d].down = 0 /\ conn'[d].peer = conn[d].peer
  BY DEF Ups
<1>2. ASSUME NEW b \in Conn \ {d}, conn[b].peer = conn[d].peer, calls[b].down > 0
      PROVE  conn'[b].peer = conn'[d].peer /\ calls'[b].down > 0
  BY <1>1, <1>2
<1>3. CASE conn[d].peer \notin DOMAIN peer_map
  BY <1>1, <1>2, <1>3 DEF Ups
<1>4. CASE conn[d].peer \in DOMAIN peer_map
  <2>1. conn[d].peer = conn[c].peer /\ calls'[c].down > 0 /\ conn'[c].peer = conn[c].peer
    BY <1>1, <1>4
  <2>2. c # d
    BY <2>1
  <2> QED BY <1>1, <2>1, <2>2
<1> QED BY <1>3, <1>4

-----------------------------------------------------------------------------
(* The steps of the connections.                                           *)

\* The records that the callbacks of TcpServer make of r.
LEMMA Established ==
  ASSUME NEW r, IsConn(r)
  PROVE  LET x == [r EXCEPT !.state = "kConnected", !.ch = enableReading(@)]
         IN  /\ IsConn(x) /\ x.loop = r.loop /\ x.peer = r.peer /\ x.state = "kConnected"
             /\ x.ch = enableReading(r.ch) /\ x.output = r.output /\ x.owed = r.owed
<1> DEFINE ch == enableReading(r.ch)
           x  == [r EXCEPT !.state = "kConnected", !.ch = ch]
<1>1. /\ r.loop \in Loop /\ r.peer \in Nat /\ r.ch \in Channel /\ IndexMatchesKernel(r.ch)
      /\ Valid(r.input, Nat) /\ Valid(r.output, Nat) /\ r.sent \in Nat /\ r.owed \in Seq(Nat)
  BY IsConnParts
<1>2. ch \in Channel /\ IndexMatchesKernel(ch)
  BY <1>1, ChannelKeeps
<1> HIDE DEF ch
<1>3. x = Rec(r.loop, r.peer, "kConnected", ch, r.input, r.output, r.sent, r.owed)
  BY WithStateCh
<1>4. "kConnected" \in State
  BY DEF State
<1> HIDE DEF x
<1>5. IsConn(x)
  BY <1>1, <1>2, <1>3, <1>4, MakeConn
<1>6. /\ x.loop = r.loop /\ x.peer = r.peer /\ x.state = "kConnected" /\ x.ch = ch
      /\ x.output = r.output /\ x.owed = r.owed
  BY <1>3 DEF Rec
<1> QED BY <1>5, <1>6 DEF x, ch

LEMMA Disconnected ==
  ASSUME NEW r, IsConn(r)
  PROVE  LET x == [r EXCEPT !.state = "kDisconnected", !.ch = disableAll(@)]
         IN  /\ IsConn(x) /\ x.loop = r.loop /\ x.peer = r.peer /\ x.state = "kDisconnected"
             /\ r.ch.index = "kAdded" => x.ch.index = "kDeleted"
             /\ x.owed = r.owed
<1> DEFINE ch == disableAll(r.ch)
           x  == [r EXCEPT !.state = "kDisconnected", !.ch = ch]
<1>1. /\ r.loop \in Loop /\ r.peer \in Nat /\ r.ch \in Channel /\ IndexMatchesKernel(r.ch)
      /\ Valid(r.input, Nat) /\ Valid(r.output, Nat) /\ r.sent \in Nat /\ r.owed \in Seq(Nat)
  BY IsConnParts
<1>2. ch \in Channel /\ IndexMatchesKernel(ch) /\ (r.ch.index = "kAdded" => ch.index = "kDeleted")
  BY <1>1, ChannelKeeps
<1> HIDE DEF ch
<1>3. x = Rec(r.loop, r.peer, "kDisconnected", ch, r.input, r.output, r.sent, r.owed)
  BY WithStateCh
<1>4. "kDisconnected" \in State
  BY DEF State
<1> HIDE DEF x
<1>5. IsConn(x)
  BY <1>1, <1>2, <1>3, <1>4, MakeConn
<1>6. /\ x.loop = r.loop /\ x.peer = r.peer /\ x.state = "kDisconnected" /\ x.ch = ch /\ x.owed = r.owed
  BY <1>3 DEF Rec
<1> QED BY <1>2, <1>5, <1>6 DEF x, ch

\* connectDestoryed, and the destructor if the last pointer is gone.
LEMMA Removed ==
  ASSUME NEW r, IsConn(r), NEW down \in BOOLEAN
  PROVE  LET x == [r EXCEPT !.ch = removeChannel(IF down THEN disableAll(@) ELSE @)]
         IN  /\ IsConn(x) /\ x.loop = r.loop /\ x.peer = r.peer /\ x.state = r.state
             /\ x.ch.index = "kNew" /\ x.output = r.output /\ x.owed = r.owed
             /\ IsConn(Gone(x)) /\ Gone(x).loop = r.loop /\ Gone(x).peer = r.peer
             /\ Gone(x).state = "gone" /\ Gone(x).ch.index = "kNew"
<1> DEFINE off == IF down THEN disableAll(r.ch) ELSE r.ch
           ch  == removeChannel(off)
           x   == [r EXCEPT !.ch = ch]
           g   == Gone(x)
<1>1. /\ r.loop \in Loop /\ r.peer \in Nat /\ r.ch \in Channel /\ IndexMatchesKernel(r.ch)
      /\ Valid(r.input, Nat) /\ Valid(r.output, Nat) /\ r.sent \in Nat /\ r.owed \in Seq(Nat)
      /\ r.state \in State
  BY IsConnParts
<1>2. off \in Channel /\ IndexMatchesKernel(off)
  BY <1>1, ChannelKeeps
<1>3. ch \in Channel /\ IndexMatchesKernel(ch) /\ ch.index = "kNew"
  <2> HIDE DEF off
  <2> QED BY <1>2, ChannelKeeps
<1> HIDE DEF off, ch
<1>4. x = Rec(r.loop, r.peer, r.state, ch, r.input, r.output, r.sent, r.owed)
  BY WithCh
<1> HIDE DEF x
<1>5. IsConn(x)
  BY <1>1, <1>3, <1>4, MakeConn
<1>6. /\ x.loop = r.loop /\ x.peer = r.peer /\ x.state = r.state /\ x.ch = ch
      /\ x.output = r.output /\ x.owed = r.owed /\ x.sent = r.sent
  BY <1>4 DEF Rec
<1>7. g = Rec(r.loop, r.peer, "gone", ch, EmptyBuffer, EmptyBuffer, r.sent, <<>>)
  <2> DEFINE a == NewConn(r.loop, r.peer)
             b == [a EXCEPT !.state = "gone"]
             d == [b EXCEPT !.ch = ch]
             e == [d EXCEPT !.sent = r.sent]
  <2>1. a = Rec(r.loop, r.peer, "kConnecting", NewChannel, EmptyBuffer, EmptyBuffer, 0, <<>>)
    BY DEF NewConn, Rec
  <2> HIDE DEF a
  <2>2. b = Rec(r.loop, r.peer, "gone", NewChannel, EmptyBuffer, EmptyBuffer, 0, <<>>)
    BY <2>1, RecWith
  <2> HIDE DEF b
  <2>3. d = Rec(r.loop, r.peer, "gone", ch, EmptyBuffer, EmptyBuffer, 0, <<>>)
    BY <2>2, RecWith
  <2> HIDE DEF d
  <2>4. e = Rec(r.loop, r.peer, "gone", ch, EmptyBuffer, EmptyBuffer, r.sent, <<>>)
    BY <2>3, RecWith
  <2>5. g = [NewConn(x.loop, x.peer) EXCEPT !.state = "gone", !.ch = x.ch, !.sent = x.sent]
    BY DEF Gone
  <2>6. g = [NewConn(r.loop, r.peer) EXCEPT !.state = "gone", !.ch = ch, !.sent = r.sent]
    BY <1>6, <2>5, Zenon
  <2> HIDE DEF g
  <2> QED BY <2>4, <2>6 DEF a, b, d, e
<1>8. "gone" \in State /\ <<>> \in Seq(Nat)
  BY DEF State
<1> HIDE DEF g
<1>9. IsConn(g)
  BY <1>1, <1>3, <1>7, <1>8, EmptyIsValid, MakeConn
<1>10. g.loop = r.loop /\ g.peer = r.peer /\ g.state = "gone" /\ g.ch = ch
  BY <1>7 DEF Rec
<1> QED BY <1>3, <1>5, <1>6, <1>9, <1>10 DEF x, g, ch, off

\* What every handler of a channel of c may rely on.
LEMMA PolledStands ==
  ASSUME IInv, NEW c \in Conn, Polled(c)
  PROVE  /\ c < m_nextConnId /\ Life(c) /\ ~E(c) /\ ~T(c)
         /\ conn[c].state \in {"kConnected", "kDisconnecting"}
         /\ conn[c].ch.index = "kAdded"
         /\ calls[c].destroyed = 0 /\ calls[c].up = 1
         /\ server # "destroyed" => c \in m_connections
         /\ conn[c].loop = Base => server # "destroyed"
         /\ conn[c].peer \in Peers /\ IsConn(conn[c]) /\ sock[c] \in SockFields
<1>1. Fields /\ Unborn /\ Lives
  BY DEF IInv
<1>2. conn[c].ch.watched /\ (conn[c].loop = Base => server # "destroyed")
  BY DEF Polled, Handles, Runs
<1>3. /\ c < m_nextConnId /\ Life(c) /\ ~E(c) /\ ~T(c)
      /\ conn[c].state \in {"kConnected", "kDisconnecting"}
      /\ conn[c].ch.index = "kAdded"
      /\ calls[c].destroyed = 0 /\ calls[c].up = 1
      /\ server # "destroyed" => c \in m_connections
  BY <1>1, <1>2, WatchedStands
<1>4. conn[c].peer \in Peers
  BY <1>3 DEF Life, LifeOf
<1> QED BY <1>1, <1>2, <1>3, <1>4 DEF Fields

\* A handler that serves c leaves its place in the life of connections.
LEMMA ServedLife ==
  ASSUME IInv, NEW c \in Conn, Polled(c), NEW x, Handled(conn[c], x),
         conn' = [conn EXCEPT ![c] = x],
         sock' \in [Conn -> SockFields], \A d \in Conn \ {c} : sock'[d] = sock[d],
         ~Refuses => StreamOf(x, sock'[c].rst, sock'[c].wshut),
         UNCHANGED <<serverVars, loopVars, calls>>
  PROVE  /\ Fields' /\ Started' /\ Queues' /\ Batches' /\ Unborn' /\ Lives' /\ (~Refuses => Streams')
         /\ conn'[c] = x /\ \A d \in Conn \ {c} : conn'[d] = conn[d]
<1>1. /\ c < m_nextConnId /\ Life(c) /\ ~E(c) /\ ~T(c)
      /\ conn[c].state \in {"kConnected", "kDisconnecting"}
      /\ calls[c].destroyed = 0 /\ calls[c].up = 1
      /\ server # "destroyed" => c \in m_connections
      /\ conn[c].peer \in Peers
  BY PolledStands
<1>2. Fields /\ Queues /\ Batches
  BY DEF IInv
<1>3. /\ UNCHANGED <<server, acceptor, m_numThreads, m_next, m_nextConnId>>
      /\ queue' = queue /\ batch' = batch /\ m_connections' = m_connections /\ calls' = calls
  BY DEF serverVars, loopVars
<1>4. calls' \in [Conn -> Calls]
  BY <1>2, <1>3 DEF Fields
<1>5. Well(queue', m_nextConnId, conn)
  BY <1>2, <1>3 DEF Queues
<1>6. IsConn(x) /\ x.loop = conn[c].loop /\ x.peer = conn[c].peer /\ x.state \in {"kConnected", "kDisconnecting"}
  BY <1>1 DEF Handled
<1>7. LifeOf(In(queue'[conn[c].loop], Est(c)), In(queue'[conn[c].loop], Des(c)),
             In(queue'[Base], Rem(c)), c \in m_connections', server = "destroyed", x, calls'[c])
  BY <1>1, <1>3, <1>6 DEF Life, LifeOf, E, D, T
<1>8. Fields' /\ Started' /\ Queues' /\ Unborn' /\ Lives' /\ (~Refuses => Streams')
  BY <1>1, <1>3, <1>4, <1>5, <1>6, <1>7, OneConn
<1>9. Batches'
  BY <1>2, <1>3 DEF Batches
<1>10. conn'[c] = x /\ \A d \in Conn \ {c} : conn'[d] = conn[d]
  BY <1>2, <1>6, ConnSet
<1> QED BY <1>8, <1>9, <1>10

LEMMA HandleReadKeeps == ASSUME IInv, NEW c \in Conn, HandleRead(c) PROVE IInv'
<1> DEFINE r     == conn[c]
           s     == sock[c]
           n     == MsgLen * s.data
           bytes == [i \in 1..n |-> Garbage]
<1>1. /\ Polled(c) /\ OnMessage(r.peer) /\ UNCHANGED <<serverVars, loopVars, calls>>
      /\ \E o \in messageCallback([r EXCEPT !.input = readFd(r.input, bytes)], s) : TakeOutcome(c, o)
  BY DEF HandleRead
<1>2. r.peer \in Peers /\ IsConn(r) /\ s \in SockFields /\ calls[c].up = 1
  BY <1>1, PolledStands
<1>3. bytes \in Seq(Nat)
  <2>1. n \in Nat
    BY <1>2, SockParts, ConnIsNat DEF MsgLen
  <2>2. Garbage \in Nat
    BY DEF Garbage
  <2> HIDE DEF n
  <2>3. bytes \in [1..n -> Nat]
    BY <2>2
  <2> HIDE DEF bytes
  <2> QED BY <2>1, <2>3
<1> HIDE DEF bytes
<1>4. PICK o \in messageCallback([r EXCEPT !.input = readFd(r.input, bytes)], s) : TakeOutcome(c, o)
  BY <1>1
<1>5. Serves(r, s, o)
  BY <1>2, <1>3, <1>4, ReadServes
<1> DEFINE t == [s EXCEPT !.wshut = o.wshut, !.data = 0]
<1>6. t \in SockFields /\ t.rst = s.rst /\ t.wshut = o.wshut
  <2>1. o.wshut \in BOOLEAN /\ 0 \in 0..MaxData
    BY <1>5, ConnIsNat DEF Serves
  <2> DEFINE u == [s EXCEPT !.wshut = o.wshut]
  <2>2. u \in SockFields /\ u.rst = s.rst /\ u.wshut = o.wshut
    BY <1>2, <2>1 DEF SockFields
  <2> HIDE DEF u
  <2>3. LET v == [u EXCEPT !.data = 0] IN v \in SockFields /\ v.rst = u.rst /\ v.wshut = u.wshut
    BY <2>1, <2>2 DEF SockFields
  <2> QED BY <2>2, <2>3 DEF u
<1>7. conn' = [conn EXCEPT ![c] = o.r] /\ sock' = [sock EXCEPT ![c] = t]
  BY <1>4 DEF TakeOutcome
<1> HIDE DEF t
<1>8. sock' \in [Conn -> SockFields] /\ sock'[c] = t /\ \A d \in Conn \ {c} : sock'[d] = sock[d]
  <2>1. Fields
    BY DEF IInv
  <2> QED BY <1>6, <1>7, <2>1, SockSet
<1>9. ~Refuses => StreamOf(o.r, sock'[c].rst, sock'[c].wshut)
  BY <1>5, <1>6, <1>8 DEF IInv, Streams, Serves
<1>10. /\ Fields' /\ Started' /\ Queues' /\ Batches' /\ Unborn' /\ Lives' /\ (~Refuses => Streams')
       /\ conn'[c] = o.r /\ \A d \in Conn \ {c} : conn'[d] = conn[d]
  BY <1>1, <1>5, <1>7, <1>8, <1>9, ServedLife DEF Serves
<1>11. Peered' /\ DOMAIN peer_map \subseteq DOMAIN peer_map'
  <2>1. Peered
    BY DEF IInv
  <2> QED BY <1>1, <1>2, <2>1, AddPeer, SamePeers DEF OnMessage
<1>12. Ups'
  <2>1. Ups /\ calls' = calls /\ conn'[c].peer = conn[c].peer
    BY <1>1, <1>5, <1>10 DEF IInv, Serves, Handled
  <2> QED BY <1>10, <1>11, <2>1, UpsStep
<1> QED BY <1>10, <1>11, <1>12 DEF IInv

LEMMA HandleWriteKeeps == ASSUME IInv, NEW c \in Conn, HandleWrite(c) PROVE IInv'
<1> DEFINE r == conn[c]
           s == sock[c]
<1>1. /\ Polled(c) /\ isWriting(r.ch) /\ UNCHANGED <<serverVars, loopVars, calls, peerVars>>
      /\ \E n \in WriteReturns(s, readableBytes(r.output)) :
           /\ conn' = [conn EXCEPT ![c] = afterWrite(r, s, n).r]
           /\ sock' = [sock EXCEPT ![c].wshut = afterWrite(r, s, n).wshut]
  BY DEF HandleWrite, writeFd
<1>2. IsConn(r) /\ s \in SockFields
  BY <1>1, PolledStands
<1>3. PICK n \in WriteReturns(s, readableBytes(r.output)) :
           /\ conn' = [conn EXCEPT ![c] = afterWrite(r, s, n).r]
           /\ sock' = [sock EXCEPT ![c].wshut = afterWrite(r, s, n).wshut]
  BY <1>1
<1> DEFINE o == afterWrite(r, s, n)
           t == [s EXCEPT !.wshut = o.wshut]
<1>4. Serves(r, s, o)
  BY <1>1, <1>2, WriteServes
<1>5. sock' = [sock EXCEPT ![c] = t] /\ conn' = [conn EXCEPT ![c] = o.r]
  BY <1>3
<1> HIDE DEF o
<1>6. t \in SockFields /\ t.rst = s.rst /\ t.wshut = o.wshut
  BY <1>2, <1>4 DEF SockFields, Serves
<1> HIDE DEF t
<1>7. sock' \in [Conn -> SockFields] /\ sock'[c] = t /\ \A d \in Conn \ {c} : sock'[d] = sock[d]
  <2>1. Fields
    BY DEF IInv
  <2> QED BY <1>5, <1>6, <2>1, SockSet
<1>8. ~Refuses => StreamOf(o.r, sock'[c].rst, sock'[c].wshut)
  BY <1>4, <1>6, <1>7 DEF IInv, Streams, Serves
<1>9. /\ Fields' /\ Started' /\ Queues' /\ Batches' /\ Unborn' /\ Lives' /\ (~Refuses => Streams')
      /\ conn'[c] = o.r /\ \A d \in Conn \ {c} : conn'[d] = conn[d]
  <2>1. UNCHANGED <<serverVars, loopVars, calls>>
    BY <1>1
  <2> QED BY <1>1, <1>4, <1>5, <1>7, <1>8, <2>1, ServedLife DEF Serves
<1>10. Peered' /\ DOMAIN peer_map' = DOMAIN peer_map
  <2>1. Peered
    BY DEF IInv
  <2> QED BY <1>1, <2>1, SamePeers
<1>11. Ups'
  <2>1. Ups /\ calls' = calls /\ conn'[c].peer = conn[c].peer
    BY <1>1, <1>4, <1>9 DEF IInv, Serves, Handled
  <2> QED BY <1>9, <1>10, <2>1, UpsStep
<1> QED BY <1>9, <1>10, <1>11 DEF IInv

\* Peers that came or went with connection c, when nothing else did.
LEMMA Left ==
  ASSUME IInv, NEW c \in Conn, remove_peer(conn[c].peer), conn[c].peer \in Peers,
         \A d \in Conn \ {c} : conn'[d] = conn[d] /\ calls'[d] = calls[d],
         conn'[c].peer = conn[c].peer, calls'[c].down > 0
  PROVE  Peered' /\ Ups'
<1>1. Peered /\ Ups
  BY DEF IInv
<1>2. Peered' /\ DOMAIN peer_map' = DOMAIN peer_map \ {conn[c].peer}
  BY <1>1, RemovePeer
<1>3. calls'[c].down # 0
  OBVIOUS
<1>4. Ups'
  BY <1>1, <1>2, <1>3, UpsStep
<1> QED BY <1>2, <1>4

LEMMA HandleCloseKeeps == ASSUME IInv, NEW c \in Conn, HandleClose(c) PROVE IInv'
<1> DEFINE r == conn[c]
           x == [r EXCEPT !.state = "kDisconnected", !.ch = disableAll(@)]
<1>1. /\ Polled(c) /\ conn' = [conn EXCEPT ![c] = x]
      /\ calls' = [calls EXCEPT ![c].down = @ + 1]
      /\ remove_peer(r.peer) /\ removeConnection(c)
      /\ UNCHANGED <<server, acceptor, m_numThreads, m_next, m_nextConnId>>
      /\ batch' = batch /\ sock' = sock
  BY DEF HandleClose, handleClose, OnConnection
<1>2. /\ c < m_nextConnId /\ Life(c) /\ ~E(c) /\ ~T(c)
      /\ r.ch.index = "kAdded" /\ calls[c].destroyed = 0 /\ calls[c].up = 1
      /\ server # "destroyed" => c \in m_connections
      /\ r.loop = Base => server # "destroyed"
      /\ r.peer \in Peers /\ IsConn(r)
  BY <1>1, PolledStands
<1>4. Fields /\ Well(queue, m_nextConnId, conn) /\ Batches
  BY DEF IInv, Queues
<1>5. /\ IsConn(x) /\ x.loop = r.loop /\ x.peer = r.peer /\ x.state = "kDisconnected"
      /\ x.ch.index = "kDeleted" /\ x.owed = r.owed
  BY <1>2, Disconnected
<1> HIDE DEF x
<1>6. /\ calls' \in [Conn -> Calls] /\ \A d \in Conn \ {c} : calls'[d] = calls[d]
      /\ calls'[c].up = calls[c].up /\ calls'[c].down = calls[c].down + 1
      /\ calls'[c].destroyed = calls[c].destroyed
  BY <1>1, <1>4, CallDown
<1>7. r.loop \in Loop /\ Base \in Loop
  BY <1>2, IsConnParts, ConnIsNat
<1>8. /\ Des(c) \in Functor /\ Rem(c) \in Functor /\ Des(c)[2] = c /\ Rem(c)[2] = c
      /\ Place(conn, Des(c)) = r.loop /\ Place(conn, Rem(c)) = Base
      /\ \A d \in Conn : Des(c) # Est(d) /\ Rem(c) # Est(d)
      /\ Est(c) # Des(c) /\ Des(c) # Rem(c) /\ Est(c) # Rem(c)
  BY Kinds
<1>9. /\ m_connections' \subseteq m_connections
      /\ \A d \in Conn \ {c} : d \in m_connections => d \in m_connections'
      /\ Well(queue', m_nextConnId, conn)
      /\ \A l \in Loop : \A f \in Functor : f[2] # c => (In(queue'[l], f) <=> In(queue[l], f))
      /\ \A l \in Loop : Len(queue[l]) <= Len(queue'[l])
      /\ LifeOf(In(queue'[r.loop], Est(c)), In(queue'[r.loop], Des(c)),
                In(queue'[Base], Rem(c)), c \in m_connections', server = "destroyed", x, calls'[c])
  <2>1. CASE r.loop = Base
    <3>1. m_connections' = m_connections \ {c} /\ queue' = Push(queue, Base, Des(c))
      BY <1>1, <2>1 DEF removeConnection, removeConnectionInLoop, Des
    <3>2. c \in m_connections /\ ~D(c)
      BY <1>2, <2>1 DEF Life, LifeOf
    <3>3. /\ Well(queue', m_nextConnId, conn)
          /\ \A k \in Loop : \A g : In(queue'[k], g) <=> In(queue[k], g) \/ (k = Base /\ g = Des(c))
          /\ \A k \in Loop : Len(queue[k]) <= Len(queue'[k])
      <4>1. MayPush(queue, m_nextConnId, conn, Base, Des(c))
        BY <1>2, <1>4, <1>7, <1>8, <2>1, <3>2 DEF MayPush, D
      <4>2. Pushed(Push(queue, Base, Des(c)), queue, m_nextConnId, conn, Base, Des(c))
        BY <4>1, PushWell
      <4> QED BY <3>1, <4>2 DEF Pushed
    <3>4. ~In(queue'[Base], Est(c)) /\ In(queue'[Base], Des(c)) /\ ~In(queue'[Base], Rem(c))
      BY <1>2, <1>7, <1>8, <2>1, <3>3 DEF E, T
    <3>5. LifeOf(In(queue'[r.loop], Est(c)), In(queue'[r.loop], Des(c)),
                 In(queue'[Base], Rem(c)), c \in m_connections', server = "destroyed", x, calls'[c])
      BY <1>2, <1>5, <1>6, <2>1, <3>1, <3>4 DEF LifeOf
    <3>6. \A l \in Loop : \A f \in Functor : f[2] # c => (In(queue'[l], f) <=> In(queue[l], f))
      BY <1>8, <3>3
    <3> QED BY <3>1, <3>3, <3>5, <3>6
  <2>2. CASE r.loop # Base
    <3>1. m_connections' = m_connections /\ queue' = Push(queue, Base, Rem(c))
      BY <1>1, <2>2 DEF removeConnection, Rem
    <3>2. ~In(queue[Base], Rem(c))
      BY <1>2 DEF T
    <3>3. /\ Well(queue', m_nextConnId, conn)
          /\ \A k \in Loop : \A g : In(queue'[k], g) <=> In(queue[k], g) \/ (k = Base /\ g = Rem(c))
          /\ \A k \in Loop : Len(queue[k]) <= Len(queue'[k])
      <4>1. MayPush(queue, m_nextConnId, conn, Base, Rem(c))
        BY <1>2, <1>4, <1>7, <1>8, <3>2 DEF MayPush
      <4>2. Pushed(Push(queue, Base, Rem(c)), queue, m_nextConnId, conn, Base, Rem(c))
        BY <4>1, PushWell
      <4> QED BY <3>1, <4>2 DEF Pushed
    <3>4. /\ ~In(queue'[r.loop], Est(c)) /\ In(queue'[Base], Rem(c))
          /\ In(queue'[r.loop], Des(c)) <=> D(c)
      BY <1>2, <1>7, <1>8, <3>3 DEF E, D
    <3>5. LifeOf(In(queue'[r.loop], Est(c)), In(queue'[r.loop], Des(c)),
                 In(queue'[Base], Rem(c)), c \in m_connections', server = "destroyed", x, calls'[c])
      BY <1>2, <1>5, <1>6, <2>2, <3>1, <3>4 DEF Life, LifeOf
    <3>6. \A l \in Loop : \A f \in Functor : f[2] # c => (In(queue'[l], f) <=> In(queue[l], f))
      BY <1>8, <3>3
    <3> QED BY <3>1, <3>3, <3>5, <3>6
  <2> QED BY <2>1, <2>2
<1>10. ~Refuses => StreamOf(x, sock'[c].rst, sock'[c].wshut)
  BY <1>1, <1>5 DEF IInv, Streams, StreamOf
<1>11. Fields' /\ Started' /\ Queues' /\ Unborn' /\ Lives' /\ (~Refuses => Streams')
  <2>1. sock' \in [Conn -> SockFields] /\ \A d \in Conn \ {c} : sock'[d] = sock[d]
    BY <1>1, <1>4 DEF Fields
  <2> QED BY <1>1, <1>2, <1>5, <1>6, <1>9, <1>10, <2>1, OneConn
<1>12. Batches'
  <2>1. \A l \in Loop : batch[l] \in Nat /\ Len(queue[l]) \in Nat /\ Len(queue'[l]) \in Nat
    BY <1>4, <1>9 DEF Batches, Well
  <2> QED BY <1>1, <1>4, <1>9, <2>1 DEF Batches
<1>13. conn'[c] = x /\ \A d \in Conn \ {c} : conn'[d] = conn[d]
  BY <1>1, <1>4, <1>5, ConnSet
<1>14. calls'[c].down > 0
  BY <1>4, <1>6 DEF Fields, Calls
<1>15. Peered' /\ Ups'
  BY <1>1, <1>2, <1>5, <1>6, <1>13, <1>14, Left
<1> QED BY <1>11, <1>12, <1>15 DEF IInv

-----------------------------------------------------------------------------
(* The steps of the clients, and of the loops' functors.                   *)

LEMMA ClientKeeps ==
  ASSUME IInv, NEW c \in Conn, ClientSends(c) \/ ClientCloses(c) \/ ClientResets(c)
  PROVE  IInv'
<1> DEFINE s == sock[c]
<1>1. Fields /\ s \in SockFields
  BY DEF IInv, Fields
<1>2. PICK t : /\ t \in SockFields /\ t.wshut = s.wshut /\ (s.rst => t.rst)
               /\ sock' = [sock EXCEPT ![c] = t]
               /\ UNCHANGED <<serverVars, loopVars, conn, calls, peerVars>>
  <2>1. CASE ClientSends(c)
    <3> DEFINE t == [s EXCEPT !.data = @ + 1]
    <3>1. s.data + 1 \in 0..MaxData
      BY <1>1, <2>1, SockParts, ConnIsNat DEF ClientSends
    <3>2. t \in SockFields /\ t.wshut = s.wshut /\ t.rst = s.rst
      BY <1>1, <3>1 DEF SockFields
    <3> QED BY <2>1, <3>2 DEF ClientSends, ClientActs
  <2>2. CASE ClientCloses(c)
    <3> DEFINE t == [s EXCEPT !.fin = TRUE]
    <3>1. t \in SockFields /\ t.wshut = s.wshut /\ t.rst = s.rst
      BY <1>1 DEF SockFields
    <3> QED BY <2>2, <3>1 DEF ClientCloses, ClientActs
  <2>3. CASE ClientResets(c)
    <3> DEFINE t == [s EXCEPT !.rst = TRUE]
    <3>1. t \in SockFields /\ t.wshut = s.wshut /\ t.rst
      BY <1>1 DEF SockFields
    <3> QED BY <2>3, <3>1 DEF ClientResets, ClientActs
  <2> QED BY <2>1, <2>2, <2>3
<1>3. sock' \in [Conn -> SockFields] /\ sock'[c] = t /\ \A d \in Conn \ {c} : sock'[d] = sock[d]
  BY <1>1, <1>2, SockSet
<1>4. Fields'
  BY <1>1, <1>2, <1>3 DEF Fields, serverVars
<1>5. ~Refuses => Streams'
  <2> SUFFICES ASSUME ~Refuses, NEW d \in Conn PROVE StreamOf(conn[d], sock'[d].rst, sock'[d].wshut)
    BY <1>2 DEF Streams
  <2>1. StreamOf(conn[d], sock[d].rst, sock[d].wshut)
    BY DEF IInv, Streams
  <2> QED BY <1>2, <1>3, <2>1 DEF StreamOf
<1>6. Started' /\ Queues' /\ Batches' /\ Unborn'
  BY <1>2 DEF IInv, Started, Queues, Batches, Unborn, serverVars, loopVars
<1>7. Lives'
  BY <1>2 DEF IInv, Lives, Life, E, D, T, serverVars, loopVars
<1>8. Peered' /\ Ups'
  BY <1>2 DEF IInv, Peered, PeerIdsDistinct, Ups, peerVars
<1> QED BY <1>4, <1>5, <1>6, <1>7, <1>8 DEF IInv

LEMMA BeginPendingKeeps == ASSUME IInv, NEW l \in Loop, BeginPending(l) PROVE IInv'
<1>1. batch' = [batch EXCEPT ![l] = Len(queue[l])] /\ queue' = queue
  BY DEF BeginPending
<1>2. UNCHANGED <<serverVars, connVars, peerVars>>
  BY DEF BeginPending
<1>3. Batches'
  <2>1. Batches /\ \A k \in Loop : Len(queue[k]) \in Nat
    BY DEF IInv, Queues, Well
  <2> QED BY <1>1, <2>1 DEF Batches
<1>4. Fields' /\ Started' /\ Queues' /\ Unborn'
  BY <1>1, <1>2 DEF IInv, Fields, Started, Queues, Unborn, serverVars, connVars
<1>5. Lives'
  BY <1>1, <1>2 DEF IInv, Lives, Life, E, D, T, serverVars, connVars
<1>6. Peered' /\ Ups' /\ (~Refuses => Streams')
  BY <1>2 DEF IInv, Peered, PeerIdsDistinct, Ups, Streams, peerVars, connVars
<1> QED BY <1>3, <1>4, <1>5, <1>6 DEF IInv

\* The queues without the functor that is run next, and what it was.
Popped(l) == [queue EXCEPT ![l] = Tail(queue[l])]

LEMMA RunPops ==
  ASSUME IInv, NEW l \in Loop, RunFunctor(l)
  PROVE  LET h == Head(queue[l])
             c == h[2]
             p == Popped(l)
         IN  /\ h \in Functor /\ c \in Conn /\ c < m_nextConnId /\ Life(c) /\ l = Place(conn, h)
             /\ In(queue[l], h) /\ \A d \in Conn : h = Des(d) => ~In(queue[l], Est(d))
             /\ h = <<h[1], c>>
             /\ Well(p, m_nextConnId, conn)
             /\ \A k \in Loop : \A g : In(p[k], g) <=> In(queue[k], g) /\ ~(k = l /\ g = h)
             /\ batch' \in [Loop -> Nat] /\ \A k \in Loop : batch'[k] <= Len(p[k])
             /\ l = Base => server # "destroyed"
             /\ UNCHANGED <<server, acceptor, m_numThreads, m_next, m_nextConnId>>
             /\ conn[c].loop \in Loop /\ IsConn(conn[c])
<1> DEFINE h == Head(queue[l])
           c == h[2]
           p == [queue EXCEPT ![l] = Tail(queue[l])]
<1>1. /\ Fields /\ Well(queue, m_nextConnId, conn) /\ Lives
      /\ batch \in [Loop -> Nat] /\ \A k \in Loop : batch[k] <= Len(queue[k])
  BY DEF IInv, Queues, Batches
<1>2. /\ batch[l] > 0 /\ batch' = [batch EXCEPT ![l] = batch[l] - 1]
      /\ l = Base => server # "destroyed"
      /\ UNCHANGED <<server, acceptor, m_numThreads, m_next, m_nextConnId>>
  BY DEF RunFunctor, Runs
<1>3. \A k \in Loop : queue[k] \in Seq(Functor) /\ Len(queue[k]) \in Nat
  BY <1>1 DEF Well
<1>4. queue[l] # <<>>
  BY <1>1, <1>2, <1>3
<1>5. /\ Well(p, m_nextConnId, conn)
      /\ \A k \in Loop : \A g : In(p[k], g) <=> In(queue[k], g) /\ ~(k = l /\ g = h)
      /\ h \in Functor /\ In(queue[l], h) /\ h[2] < m_nextConnId /\ l = Place(conn, h)
      /\ \A d \in Conn : h = Des(d) => ~In(queue[l], Est(d))
      /\ \A k \in Loop : Len(p[k]) = IF k = l THEN Len(queue[k]) - 1 ELSE Len(queue[k])
  BY <1>1, <1>4, PopWell
<1> HIDE DEF h, p
<1>6. batch' \in [Loop -> Nat] /\ \A k \in Loop : batch'[k] <= Len(p[k])
  BY <1>1, <1>2, <1>3, <1>5
<1>7. c \in Conn /\ h = <<h[1], c>>
  BY <1>5 DEF Functor
<1>8. Life(c) /\ conn[c].loop \in Loop /\ IsConn(conn[c])
  <2> HIDE DEF c
  <2>1. IsConn(conn[c]) /\ c < m_nextConnId
    BY <1>1, <1>5, <1>7 DEF Fields, c
  <2> QED BY <1>1, <1>7, <2>1, IsConnParts DEF Lives
<1> QED BY <1>2, <1>5, <1>6, <1>7, <1>8 DEF h, p, Popped

LEMMA EstablishKeeps ==
  ASSUME IInv, NEW l \in Loop, RunFunctor(l), Head(queue[l])[1] = "connectEstablished"
  PROVE  IInv'
<1> DEFINE c == Head(queue[l])[2]
           r == conn[c]
           x == [r EXCEPT !.state = "kConnected", !.ch = enableReading(@)]
<1>1. /\ conn' = [conn EXCEPT ![c] = x] /\ calls' = [calls EXCEPT ![c].up = @ + 1]
      /\ add_peer(r.peer) /\ queue' = Popped(l) /\ m_connections' = m_connections /\ sock' = sock
  BY DEF RunFunctor, connectEstablished, OnConnection, Popped
<1>2. /\ c \in Conn /\ c < m_nextConnId /\ Life(c) /\ Head(queue[l]) = Est(c)
      /\ l = Place(conn, Est(c)) /\ In(queue[l], Est(c))
      /\ Well(Popped(l), m_nextConnId, conn)
      /\ \A k \in Loop : \A g : In(Popped(l)[k], g) <=> In(queue[k], g) /\ ~(k = l /\ g = Est(c))
      /\ batch' \in [Loop -> Nat] /\ \A k \in Loop : batch'[k] <= Len(Popped(l)[k])
      /\ UNCHANGED <<server, acceptor, m_numThreads, m_next, m_nextConnId>>
      /\ IsConn(r) /\ r.loop \in Loop
  <2>1. Head(queue[l]) = Est(c)
    BY RunPops DEF Est
  <2> QED BY <2>1, RunPops
<1> HIDE DEF c, x
<1>3. Fields /\ Peered /\ Ups
  BY DEF IInv
<1>4. r.loop = l /\ E(c) /\ Base \in Loop
  BY <1>2, Kinds, ConnIsNat DEF E
<1>5. r.state = "kConnecting" /\ r.peer \in Peers /\ ~T(c) /\ calls[c].up = 0
  BY <1>2, <1>4 DEF Life, LifeOf
<1>6. /\ IsConn(x) /\ x.loop = r.loop /\ x.peer = r.peer /\ x.state = "kConnected"
      /\ x.ch = enableReading(r.ch) /\ x.output = r.output /\ x.owed = r.owed
  BY <1>2, Established DEF x
<1>7. /\ calls' \in [Conn -> Calls] /\ \A d \in Conn \ {c} : calls'[d] = calls[d]
      /\ calls'[c].up = calls[c].up + 1 /\ calls'[c].down = calls[c].down
      /\ calls'[c].destroyed = calls[c].destroyed
  BY <1>1, <1>2, <1>3, CallUp
<1>8. LifeOf(In(queue'[r.loop], Est(c)), In(queue'[r.loop], Des(c)),
             In(queue'[Base], Rem(c)), c \in m_connections', server = "destroyed", x, calls'[c])
  <2>1. ~In(queue'[r.loop], Est(c))
    BY <1>1, <1>2, <1>4
  <2>2. /\ In(queue'[r.loop], Des(c)) <=> D(c)
        /\ In(queue'[Base], Rem(c)) <=> T(c)
    BY <1>1, <1>2, <1>4, Kinds DEF D, T
  <2> QED BY <1>1, <1>2, <1>4, <1>5, <1>6, <1>7, <2>1, <2>2 DEF Life, LifeOf
<1>9. ~Refuses => StreamOf(x, sock'[c].rst, sock'[c].wshut)
  <2>1. isWriting(x.ch) = isWriting(r.ch)
    <3>1. r.ch \in Channel /\ IndexMatchesKernel(r.ch)
      BY <1>2, IsConnParts
    <3> QED BY <1>6, <3>1, ChannelKeeps
  <2>2. ~Refuses => StreamOf(r, sock[c].rst, sock[c].wshut)
    BY <1>2 DEF IInv, Streams
  <2> QED BY <1>1, <1>5, <1>6, <2>1, <2>2 DEF StreamOf
<1>10. Fields' /\ Started' /\ Queues' /\ Unborn' /\ Lives' /\ (~Refuses => Streams')
  <2>1. sock' \in [Conn -> SockFields] /\ \A d \in Conn \ {c} : sock'[d] = sock[d]
    BY <1>1, <1>3 DEF Fields
  <2>2. Well(queue', m_nextConnId, conn)
    BY <1>1, <1>2
  <2>3. \A k \in Loop : \A f \in Functor : f[2] # c => (In(queue'[k], f) <=> In(queue[k], f))
    BY <1>1, <1>2, Kinds
  <2> QED BY <1>1, <1>2, <1>6, <1>7, <1>8, <1>9, <2>1, <2>2, <2>3, OneConn
<1>11. Batches'
  BY <1>1, <1>2 DEF Batches
<1>12. conn'[c] = x /\ \A d \in Conn \ {c} : conn'[d] = conn[d]
  BY <1>1, <1>2, <1>3, <1>6, ConnSet
<1>13. Peered' /\ DOMAIN peer_map' = DOMAIN peer_map \cup {r.peer}
  BY <1>1, <1>3, <1>5, AddPeer
<1>14. Ups'
  BY <1>2, <1>3, <1>6, <1>7, <1>12, <1>13, UpsStep
<1> QED BY <1>10, <1>11, <1>13, <1>14 DEF IInv

LEMMA DestroyedKeeps ==
  ASSUME IInv, NEW l \in Loop, RunFunctor(l), Head(queue[l])[1] = "connectDestoryed"
  PROVE  IInv'
<1> DEFINE c    == Head(queue[l])[2]
           r    == conn[c]
           down == r.state = "kDisconnected"
           p    == Popped(l)
           last == c \notin m_connections /\ ~Held(p, c)
           y    == [r EXCEPT !.ch = removeChannel(IF down THEN disableAll(@) ELSE @)]
           x    == IF last THEN Gone(y) ELSE y
<1>1. /\ conn' = [conn EXCEPT ![c] = x]
      /\ calls' = [calls EXCEPT ![c].destroyed = @ + 1, ![c].down = IF down THEN @ + 1 ELSE @]
      /\ sock' = IF last THEN [sock EXCEPT ![c] = NewSock] ELSE sock
      /\ IF down THEN remove_peer(r.peer) ELSE UNCHANGED peerVars
      /\ queue' = p /\ m_connections' = m_connections
  BY DEF RunFunctor, connectDestoryed, OnConnection, Popped
<1>2. /\ c \in Conn /\ c < m_nextConnId /\ Life(c) /\ Head(queue[l]) = Des(c)
      /\ l = Place(conn, Des(c)) /\ In(queue[l], Des(c)) /\ ~In(queue[l], Est(c))
      /\ Well(p, m_nextConnId, conn)
      /\ \A k \in Loop : \A g : In(p[k], g) <=> In(queue[k], g) /\ ~(k = l /\ g = Des(c))
      /\ batch' \in [Loop -> Nat] /\ \A k \in Loop : batch'[k] <= Len(p[k])
      /\ UNCHANGED <<server, acceptor, m_numThreads, m_next, m_nextConnId>>
      /\ IsConn(r) /\ r.loop \in Loop
  <2>1. Head(queue[l]) = Des(c)
    BY RunPops DEF Des
  <2> QED BY <2>1, RunPops
<1> DEFINE dn == down
<1>3. Fields /\ Peered /\ Ups
  BY DEF IInv
<1>4. /\ IsConn(y) /\ y.loop = r.loop /\ y.peer = r.peer /\ y.state = r.state
      /\ y.ch.index = "kNew" /\ y.output = r.output /\ y.owed = r.owed
      /\ IsConn(Gone(y)) /\ Gone(y).loop = r.loop /\ Gone(y).peer = r.peer
      /\ Gone(y).state = "gone" /\ Gone(y).ch.index = "kNew"
  <2>1. down \in BOOLEAN
    OBVIOUS
  <2> QED BY <1>2, <2>1, Removed
<1>5. /\ calls' \in [Conn -> Calls] /\ \A d \in Conn \ {c} : calls'[d] = calls[d]
      /\ calls'[c].up = calls[c].up /\ calls'[c].destroyed = calls[c].destroyed + 1
      /\ calls'[c].down = IF down THEN calls[c].down + 1 ELSE calls[c].down
  <2>1. down \in BOOLEAN
    OBVIOUS
  <2>2. c \in Conn
    BY <1>2
  <2>3. calls' = [calls EXCEPT ![c].destroyed = @ + 1, ![c].down = IF down THEN @ + 1 ELSE @]
    BY <1>1
  <2> HIDE DEF down, c
  <2> QED BY <1>3, <2>1, <2>2, <2>3, CallDestroyed
<1> HIDE DEF c, y
<1>6. r.loop = l /\ ~E(c) /\ D(c) /\ Base \in Loop
  BY <1>2, Kinds, ConnIsNat DEF E, D
<1>7. /\ r.peer \in Peers /\ c \notin m_connections /\ calls[c].destroyed = 0 /\ calls[c].up = 1
      /\ T(c) => r.state = "kDisconnected" /\ r.loop # Base
      /\ server # "destroyed" => ~T(c)
  BY <1>2, <1>6 DEF Life, LifeOf
<1>8. /\ ~In(p[r.loop], Est(c)) /\ ~In(p[r.loop], Des(c))
      /\ In(p[Base], Rem(c)) <=> T(c)
  BY <1>2, <1>6, Kinds DEF E, T
<1>9. last <=> ~T(c)
  BY <1>2, <1>7, <1>8, HeldIs
<1> HIDE DEF p, last
<1>10. /\ IsConn(x) /\ x.loop = r.loop /\ x.peer = r.peer /\ x.ch.index = "kNew"
       /\ T(c) => x = y /\ x.state = "kDisconnected"
       /\ ~T(c) => x.state = "gone"
  BY <1>4, <1>7, <1>9
<1> HIDE DEF x
<1>11. LifeOf(In(queue'[r.loop], Est(c)), In(queue'[r.loop], Des(c)),
              In(queue'[Base], Rem(c)), c \in m_connections', server = "destroyed", x, calls'[c])
  <2>1. calls'[c].destroyed = 1 /\ calls'[c].up = 1
    BY <1>5, <1>7
  <2> QED BY <1>1, <1>7, <1>8, <1>10, <2>1 DEF LifeOf
<1>12. /\ sock' \in [Conn -> SockFields] /\ \A d \in Conn \ {c} : sock'[d] = sock[d]
       /\ sock'[c] = IF last THEN NewSock ELSE sock[c]
  <2>1. CASE last
    BY <1>1, <1>2, <1>3, <2>1, NewSockOK, SockSet
  <2>2. CASE ~last
    BY <1>1, <1>3, <2>2 DEF Fields
  <2> QED BY <2>1, <2>2
<1>13. ~Refuses => StreamOf(x, sock'[c].rst, sock'[c].wshut)
  <2>1. ~Refuses => StreamOf(r, sock[c].rst, sock[c].wshut)
    BY <1>2 DEF IInv, Streams
  <2>2. CASE T(c)
    BY <1>4, <1>7, <1>9, <1>10, <1>12, <2>1, <2>2 DEF StreamOf
  <2>3. CASE ~T(c)
    BY <1>9, <1>10, <1>12, <2>3, NewSockOK DEF StreamOf
  <2> QED BY <2>2, <2>3
<1>14. Fields' /\ Started' /\ Queues' /\ Unborn' /\ Lives' /\ (~Refuses => Streams')
  <2>1. Well(queue', m_nextConnId, conn)
    BY <1>1, <1>2
  <2>2. \A k \in Loop : \A f \in Functor : f[2] # c => (In(queue'[k], f) <=> In(queue[k], f))
    BY <1>1, <1>2, Kinds
  <2> QED BY <1>1, <1>2, <1>5, <1>10, <1>11, <1>12, <1>13, <2>1, <2>2, OneConn
<1>15. Batches'
  BY <1>1, <1>2 DEF Batches
<1>16. conn'[c] = x /\ \A d \in Conn \ {c} : conn'[d] = conn[d]
  BY <1>1, <1>2, <1>3, <1>10, ConnSet
<1>17. calls[c].down \in Nat
  BY <1>2, <1>3 DEF Fields, Calls
<1>18. Peered' /\ Ups'
  <2>1. CASE down
    <3>1. calls'[c].down > 0
      BY <1>5, <1>17, <2>1
    <3> QED BY <1>1, <1>2, <1>5, <1>7, <1>10, <1>16, <2>1, <3>1, Left
  <2>2. CASE ~down
    <3>1. Peered' /\ DOMAIN peer_map' = DOMAIN peer_map
      BY <1>1, <1>3, <2>2, SamePeers
    <3>2. calls'[c].down = calls[c].down
      BY <1>5, <2>2
    <3> QED BY <1>2, <1>3, <1>5, <1>10, <1>16, <3>1, <3>2, UpsStep
  <2> QED BY <2>1, <2>2
<1> QED BY <1>14, <1>15, <1>18 DEF IInv

LEMMA RemoveKeeps ==
  ASSUME IInv, NEW l \in Loop, RunFunctor(l), Head(queue[l])[1] = "removeConnectionInLoop"
  PROVE  IInv'
<1> DEFINE c == Head(queue[l])[2]
           r == conn[c]
           p == Popped(l)
           f == Des(c)
           q == Push(p, r.loop, f)
<1>1. /\ m_connections' = m_connections \ {c} /\ queue' = q
      /\ UNCHANGED <<conn, sock, calls, peerVars>>
  BY DEF RunFunctor, removeConnectionInLoop, Popped, Des
<1>2. /\ c \in Conn /\ c < m_nextConnId /\ Life(c) /\ Head(queue[l]) = Rem(c)
      /\ l = Place(conn, Rem(c)) /\ In(queue[l], Rem(c))
      /\ Well(p, m_nextConnId, conn)
      /\ \A k \in Loop : \A g : In(p[k], g) <=> In(queue[k], g) /\ ~(k = l /\ g = Rem(c))
      /\ batch' \in [Loop -> Nat] /\ \A k \in Loop : batch'[k] <= Len(p[k])
      /\ UNCHANGED <<server, acceptor, m_numThreads, m_next, m_nextConnId>>
      /\ l = Base => server # "destroyed"
      /\ IsConn(r) /\ r.loop \in Loop
  <2>1. Head(queue[l]) = Rem(c)
    BY RunPops DEF Rem
  <2> QED BY <2>1, RunPops
<1> HIDE DEF c
<1>3. Fields /\ Peered /\ Ups
  BY DEF IInv
<1>4. l = Base /\ T(c) /\ Base \in Loop
  BY <1>2, Kinds, ConnIsNat DEF T
<1>5. /\ server # "destroyed" /\ c \in m_connections /\ ~D(c) /\ ~E(c)
      /\ r.state = "kDisconnected" /\ r.loop # Base /\ calls[c].destroyed = 0
  BY <1>2, <1>4 DEF Life, LifeOf
<1>6. /\ f \in Functor /\ f[2] = c /\ Place(conn, f) = r.loop
      /\ \A d \in Conn : f # Est(d)
      /\ f # Est(c) /\ f # Rem(c)
  BY <1>2, Kinds
<1>7. ~In(p[r.loop], f)
  BY <1>2, <1>5 DEF D
<1> HIDE DEF p, f
<1>8. /\ Well(q, m_nextConnId, conn)
      /\ \A k \in Loop : \A g : In(q[k], g) <=> In(p[k], g) \/ (k = r.loop /\ g = f)
      /\ \A k \in Loop : Len(p[k]) <= Len(q[k])
  <2>1. MayPush(p, m_nextConnId, conn, r.loop, f)
    BY <1>2, <1>6, <1>7 DEF MayPush
  <2>2. Pushed(q, p, m_nextConnId, conn, r.loop, f)
    BY <2>1, PushWell
  <2> QED BY <2>2 DEF Pushed
<1> HIDE DEF q
<1>9. LifeOf(In(queue'[r.loop], Est(c)), In(queue'[r.loop], Des(c)),
             In(queue'[Base], Rem(c)), c \in m_connections', server = "destroyed", r, calls'[c])
  <2>1. ~In(q[r.loop], Est(c))
    BY <1>2, <1>5, <1>6, <1>8 DEF E
  <2>2. In(q[r.loop], Des(c)) /\ ~In(q[Base], Rem(c))
    BY <1>2, <1>4, <1>6, <1>8 DEF f
  <2> QED BY <1>1, <1>2, <1>5, <2>1, <2>2 DEF Life, LifeOf
<1>10. ~Refuses => StreamOf(r, sock'[c].rst, sock'[c].wshut)
  BY <1>1, <1>2 DEF IInv, Streams
<1>11. conn' = [conn EXCEPT ![c] = r]
  BY <1>1, <1>3 DEF Fields
<1>12. Fields' /\ Started' /\ Queues' /\ Unborn' /\ Lives' /\ (~Refuses => Streams')
  <2>1. /\ sock' \in [Conn -> SockFields] /\ \A d \in Conn \ {c} : sock'[d] = sock[d]
        /\ calls' \in [Conn -> Calls] /\ \A d \in Conn \ {c} : calls'[d] = calls[d]
    BY <1>1, <1>3 DEF Fields
  <2>2. \A k \in Loop : \A g \in Functor : g[2] # c => (In(queue'[k], g) <=> In(queue[k], g))
    <3>1. Rem(c)[2] = c
      BY <1>2, Kinds
    <3> QED BY <1>1, <1>2, <1>6, <1>8, <3>1
  <2>3. m_connections' \subseteq m_connections /\ \A d \in Conn \ {c} : d \in m_connections => d \in m_connections'
    BY <1>1
  <2>4. Well(queue', m_nextConnId, conn)
    BY <1>1, <1>8
  <2> QED BY <1>2, <1>9, <1>10, <1>11, <2>1, <2>2, <2>3, <2>4, OneConn
<1>13. Batches'
  <2>1. \A k \in Loop : batch'[k] \in Nat /\ Len(p[k]) \in Nat /\ Len(q[k]) \in Nat
    BY <1>2, <1>8 DEF Well
  <2> QED BY <1>1, <1>2, <1>8, <2>1 DEF Batches
<1>14. Peered' /\ Ups'
  BY <1>1, <1>3 DEF Peered, PeerIdsDistinct, Ups, peerVars
<1> QED BY <1>12, <1>13, <1>14 DEF IInv

LEMMA RunFunctorKeeps == ASSUME IInv, NEW l \in Loop, RunFunctor(l) PROVE IInv'
BY EstablishKeeps, DestroyedKeeps, RemoveKeeps DEF RunFunctor

-----------------------------------------------------------------------------
(* The base loop's steps.                                                  *)

LEMMA StartKeeps == ASSUME IInv, NEW n \in ThreadCounts, Start(n) PROVE IInv'
<1>1. /\ server = "made" /\ server' = "started" /\ m_numThreads' = n
      /\ acceptor' = enableReading(acceptor)
      /\ UNCHANGED <<m_next, m_nextConnId, m_connections, loopVars, connVars, peerVars>>
  BY DEF Start, StartLoops, listen
<1>2. Started'
  <2>1. Started /\ n \in Nat
    BY ServerAssumption DEF IInv
  <2>2. acceptor' \in Channel /\ IndexMatchesKernel(acceptor)'
    <3>1. acceptor \in Channel /\ IndexMatchesKernel(acceptor)
      BY <2>1 DEF Started
    <3>2. enableReading(acceptor) \in Channel /\ IndexMatchesKernel(enableReading(acceptor))
      BY <3>1, ChannelKeeps
    <3> QED BY <1>1, <3>2
  <2>3. n # 0 => m_next < n
    BY <1>1, <2>1 DEF Started
  <2> QED BY <1>1, <2>1, <2>2, <2>3 DEF Started
<1>3. Fields' /\ Queues' /\ Batches' /\ Unborn'
  BY <1>1 DEF IInv, Fields, Queues, Batches, Unborn, loopVars, connVars
<1>4. Lives'
  BY <1>1 DEF IInv, Lives, Life, LifeOf, E, D, T, loopVars, connVars
<1>5. Peered' /\ Ups' /\ (~Refuses => Streams')
  BY <1>1 DEF IInv, Peered, PeerIdsDistinct, Ups, Streams, peerVars, connVars
<1> QED BY <1>2, <1>3, <1>4, <1>5 DEF IInv

\* getNextLoop (EventLoopThreadPool.cpp:38) stays within the loops there are.
LEMMA NextLoop ==
  ASSUME Started
  PROVE  /\ getNextLoop \in Loop
         /\ LET n == IF m_numThreads = 0 THEN m_next ELSE (m_next + 1) % m_numThreads
            IN  n \in Nat /\ (m_numThreads # 0 => n < m_numThreads)
<1>1. m_numThreads \in Nat /\ m_next \in Nat /\ (m_numThreads # 0 => m_next < m_numThreads)
  BY ServerAssumption DEF Started
<1>2. CASE m_numThreads = 0
  BY <1>1, <1>2, ConnIsNat DEF getNextLoop
<1>3. CASE m_numThreads # 0
  <2>1. m_next + 1 \in 1..m_numThreads
    BY <1>1, <1>3
  <2>2. getAllLoops(m_numThreads) = 1..m_numThreads /\ m_numThreads \in ThreadCounts
    BY <1>3 DEF getAllLoops, Started
  <2>3. m_next + 1 \in Loop
    BY <2>1, <2>2 DEF Loop
  <2>4. (m_next + 1) % m_numThreads \in 0..(m_numThreads - 1)
    BY <1>1, <1>3
  <2> QED BY <1>1, <1>3, <2>3, <2>4 DEF getNextLoop
<1> QED BY <1>2, <1>3

LEMMA AcceptKeeps == ASSUME IInv, NEW p \in Peers, Accept(p) PROVE IInv'
<1>0. PICK c \in Conn : c = m_nextConnId
  BY DEF Accept, newConnection
<1> DEFINE l  == getNextLoop
           r  == NewConn(l, p)
           up == [r EXCEPT !.state = "kConnected", !.ch = enableReading(@)]
           x  == IF l = Base THEN up ELSE r
<1>1. /\ c \in Conn /\ m_nextConnId' = c + 1
      /\ m_next' = IF m_numThreads = 0 THEN m_next ELSE (m_next + 1) % m_numThreads
      /\ m_connections' = m_connections \cup {c}
      /\ sock' = [sock EXCEPT ![c] = NewSock]
      /\ UNCHANGED <<server, acceptor, m_numThreads, batch>>
      /\ acceptor.watched
  BY <1>0 DEF Accept, newConnection
<1>2. /\ l = Base => /\ conn' = [conn EXCEPT ![c] = up] /\ calls' = [calls EXCEPT ![c].up = @ + 1]
                     /\ add_peer(r.peer) /\ queue' = queue
      /\ l # Base => /\ conn' = [conn EXCEPT ![c] = r] /\ queue' = Push(queue, l, Est(c))
                     /\ calls' = calls /\ UNCHANGED peerVars
  BY <1>0 DEF Accept, newConnection, connectEstablished, OnConnection, Est
<1>3. /\ Fields /\ Started /\ Well(queue, c, conn) /\ Batches /\ Unborn /\ Lives /\ Peered /\ Ups
      /\ ~Refuses => Streams
  BY <1>0 DEF IInv, Queues
<1>4. server = "started"
  BY <1>1, <1>3 DEF Started, IndexMatchesKernel
<1>5. l \in Loop /\ Base \in Loop
  BY <1>3, NextLoop, ConnIsNat
<1>6. Started'
  <2> DEFINE n == IF m_numThreads = 0 THEN m_next ELSE (m_next + 1) % m_numThreads
  <2>1. n \in Nat /\ (m_numThreads # 0 => n < m_numThreads) /\ m_next' = n
    BY <1>1, <1>3, NextLoop
  <2> HIDE DEF n
  <2> QED BY <1>1, <1>3, <1>4, <2>1 DEF Started
<1> HIDE DEF l
<1>7. /\ IsConn(r) /\ r.loop = l /\ r.peer = p /\ r.state = "kConnecting" /\ r.ch = NewChannel
      /\ r.output = EmptyBuffer /\ r.owed = <<>>
  <2>1. r = Rec(l, p, "kConnecting", NewChannel, EmptyBuffer, EmptyBuffer, 0, <<>>)
    BY DEF NewConn, Rec
  <2>2. "kConnecting" \in State /\ p \in Nat /\ <<>> \in Seq(Nat) /\ 0 \in Nat
    BY PeerIsNat DEF State
  <2> HIDE DEF r
  <2>3. IsConn(r)
    BY <1>5, <2>1, <2>2, NewChannelMatches, EmptyIsValid, MakeConn
  <2> QED BY <2>1, <2>3 DEF Rec
<1> HIDE DEF r
<1>8. /\ IsConn(up) /\ up.loop = l /\ up.peer = p /\ up.state = "kConnected"
      /\ up.ch = enableReading(NewChannel) /\ up.output = EmptyBuffer /\ up.owed = <<>>
  BY <1>7, Established
<1> HIDE DEF up
<1>9. /\ IsConn(x) /\ x.loop = l /\ x.peer = p /\ x.output = EmptyBuffer /\ x.owed = <<>>
      /\ x.state = IF l = Base THEN "kConnected" ELSE "kConnecting"
      /\ l # Base => x.ch = NewChannel
  BY <1>7, <1>8
<1>10. conn' = [conn EXCEPT ![c] = x]
  BY <1>2
<1> HIDE DEF x
<1>11. /\ conn' \in [Conn -> ConnFields] /\ \A d \in Conn : IsConn(conn'[d])
       /\ conn'[c] = x /\ \A d \in Conn \ {c} : conn'[d] = conn[d]
  BY <1>1, <1>3, <1>9, <1>10, ConnSet
<1>12. /\ sock' \in [Conn -> SockFields] /\ sock'[c] = NewSock
       /\ \A d \in Conn \ {c} : sock'[d] = sock[d]
  BY <1>1, <1>3, NewSockOK, SockSet
<1>13. calls[c] = [up |-> 0, down |-> 0, destroyed |-> 0] /\ c \notin m_connections
  BY <1>0, <1>1, <1>3, ConnIsNat DEF Unborn, Fields
<1>14. /\ calls' \in [Conn -> Calls] /\ \A d \in Conn \ {c} : calls'[d] = calls[d]
       /\ calls'[c].up = (IF l = Base THEN 1 ELSE 0) /\ calls'[c].down = 0 /\ calls'[c].destroyed = 0
  <2>1. CASE l = Base
    <3>1. calls' = [calls EXCEPT ![c].up = @ + 1] /\ c \in Conn
      BY <1>1, <1>2, <2>1
    <3>2. /\ calls' \in [Conn -> Calls] /\ \A d \in Conn \ {c} : calls'[d] = calls[d]
          /\ calls'[c].up = calls[c].up + 1 /\ calls'[c].down = calls[c].down
          /\ calls'[c].destroyed = calls[c].destroyed
      BY <1>3, <3>1, CallUp
    <3> QED BY <1>13, <2>1, <3>2
  <2>2. CASE l # Base
    BY <1>2, <1>3, <1>13, <2>2 DEF Fields
  <2> QED BY <2>1, <2>2
<1>15. c \in Nat /\ c + 1 \in 1..(MaxConns + 1) /\ c <= c + 1 /\ \A d \in Conn : d < c + 1 => d = c \/ d < c
  BY <1>1, ConnIsNat DEF Conn
<1>16. \A d \in Conn : d >= c + 1 => d # c /\ d >= c
  BY <1>15, ConnIsNat
<1>17. Fields'
  BY <1>1, <1>3, <1>11, <1>12, <1>14, <1>15 DEF Fields
<1>18. Unborn'
  BY <1>0, <1>1, <1>3, <1>11, <1>14, <1>16 DEF Unborn
<1>19. /\ Est(c) \in Functor /\ Est(c)[2] = c /\ Place(conn', Est(c)) = l
       /\ \A d \in Conn : Est(c) = Est(d) <=> d = c
  BY <1>1, <1>9, <1>11, Kinds
<1>20. \A k \in Loop : \A f \in Functor : f[2] = c => ~In(queue[k], f)
  <2>1. ~(c < c)
    BY <1>15
  <2> QED BY <1>3, <2>1 DEF Well
<1>21. Well(queue, c + 1, conn')
  <2>1. \A d \in Conn : d < c => conn'[d].loop = conn[d].loop
    BY <1>11, <1>15
  <2>2. c + 1 \in Nat
    BY <1>15
  <2> QED BY <1>3, <1>15, <2>1, <2>2, WellMono
<1>22. /\ Well(queue', c + 1, conn')
       /\ \A k \in Loop : \A g : In(queue'[k], g) <=> In(queue[k], g) \/ (l # Base /\ k = l /\ g = Est(c))
       /\ \A k \in Loop : Len(queue[k]) <= Len(queue'[k])
  <2>1. CASE l = Base
    <3>1. \A k \in Loop : Len(queue[k]) \in Nat
      BY <1>3 DEF Well
    <3> QED BY <1>2, <1>21, <2>1, <3>1
  <2>2. CASE l # Base
    <3> DEFINE f == Est(c)
               q == Push(queue, l, f)
    <3>1. MayPush(queue, c + 1, conn', l, f)
      BY <1>1, <1>5, <1>15, <1>19, <1>20, <1>21, Kinds DEF MayPush
    <3>2. queue' = q
      BY <1>2, <2>2
    <3> HIDE DEF f
    <3>3. Pushed(q, queue, c + 1, conn', l, f)
      BY <3>1, PushWell
    <3>4. /\ Well(q, c + 1, conn')
          /\ \A k \in Loop : \A g : In(q[k], g) <=> In(queue[k], g) \/ (k = l /\ g = f)
          /\ \A k \in Loop : Len(queue[k]) <= Len(q[k])
      BY <3>3 DEF Pushed
    <3> HIDE DEF q
    <3> QED BY <2>2, <3>2, <3>4 DEF f
  <2> QED BY <2>1, <2>2
<1>23. Queues'
  BY <1>1, <1>22 DEF Queues
<1>24. Batches'
  <2>1. \A k \in Loop : batch[k] \in Nat /\ Len(queue[k]) \in Nat /\ Len(queue'[k]) \in Nat
    BY <1>3, <1>22 DEF Batches, Well
  <2> QED BY <1>1, <1>3, <1>22, <2>1 DEF Batches
<1>25. Life(c)'
  <2>1. /\ In(queue'[l], Est(c)) <=> l # Base
        /\ ~In(queue'[l], Des(c)) /\ ~In(queue'[Base], Rem(c))
    <3>1. /\ ~In(queue[l], Est(c)) /\ ~In(queue[l], Des(c)) /\ ~In(queue[Base], Rem(c))
          /\ Des(c) # Est(c) /\ Rem(c) # Est(c)
      BY <1>1, <1>5, <1>20, Kinds
    <3> QED BY <1>5, <1>22, <3>1
  <2>2. LifeOf(In(queue'[l], Est(c)), In(queue'[l], Des(c)), In(queue'[Base], Rem(c)),
               TRUE, FALSE, x, calls'[c])
    BY <1>9, <1>14, <2>1 DEF LifeOf
  <2>3. c \in m_connections' /\ server' # "destroyed"
    BY <1>1, <1>4
  <2>4. Life(c)' <=> LifeOf(In(queue'[conn'[c].loop], Est(c)), In(queue'[conn'[c].loop], Des(c)),
                            In(queue'[Base], Rem(c)), c \in m_connections', server' = "destroyed",
                            conn'[c], calls'[c])
    BY DEF Life, E, D, T
  <2> QED BY <1>9, <1>11, <2>2, <2>3, <2>4 DEF LifeOf
<1>26. Lives'
  <2> SUFFICES ASSUME NEW d \in Conn, d < c, d # c PROVE Life(d)'
    <3>1. ASSUME NEW d \in Conn, d < c + 1 PROVE d = c \/ (d < c /\ d # c)
      BY <1>15, <3>1, ConnIsNat
    <3> QED BY <1>1, <1>25, <3>1 DEF Lives
  <2>1. Life(d) /\ conn'[d] = conn[d] /\ calls'[d] = calls[d]
    BY <1>0, <1>3, <1>11, <1>14 DEF Lives
  <2>2. (d \in m_connections' <=> d \in m_connections) /\ server' = server
    BY <1>1
  <2>3. conn[d].loop \in Loop
    BY <1>3, IsConnParts DEF Fields
  <2>4. Est(c) # Est(d) /\ Est(c) # Des(d) /\ Est(c) # Rem(d)
    BY <1>1, Kinds
  <2>5. (E(d)' <=> E(d)) /\ (D(d)' <=> D(d)) /\ (T(d)' <=> T(d))
    BY <1>5, <1>22, <2>1, <2>3, <2>4 DEF E, D, T
  <2> QED BY <2>1, <2>2, <2>5 DEF Life, LifeOf
<1>27. ~Refuses => Streams'
  <2>1. StreamOf(x, NewSock.rst, NewSock.wshut)
    BY <1>9, NewSockOK DEF StreamOf, EmptyBuffer
  <2> QED BY <1>3, <1>11, <1>12, <2>1 DEF Streams
<1>28. Peered' /\ DOMAIN peer_map \subseteq DOMAIN peer_map' /\ (l = Base => p \in DOMAIN peer_map')
  <2>1. CASE l = Base
    BY <1>2, <1>3, <1>7, <2>1, AddPeer
  <2>2. CASE l # Base
    BY <1>2, <1>3, <2>2, SamePeers
  <2> QED BY <2>1, <2>2
<1>29. Ups'
  <2>1. ~(calls[c].down > 0)
    BY <1>13
  <2>2. calls'[c].up = 1 => x.peer \in DOMAIN peer_map'
    BY <1>9, <1>14, <1>28
  <2> QED BY <1>1, <1>3, <1>11, <1>14, <1>28, <2>1, <2>2, UpsStep
<1> QED BY <1>6, <1>17, <1>18, <1>23, <1>24, <1>26, <1>27, <1>28, <1>29 DEF IInv

LEMMA DestroyKeeps == ASSUME IInv, Destroy PROVE IInv'
<1>1. /\ server = "started" /\ server' = "destroyed" /\ m_connections' = {}
      /\ acceptor' = removeChannel(disableAll(acceptor))
      /\ UNCHANGED <<m_numThreads, m_next, m_nextConnId, batch, connVars, peerVars>>
  BY DEF Destroy, Unlisten
<1>2. PICK order \in [Loop -> UNION {SetToSeqs(OfLoop(l)) : l \in Loop}] :
        /\ \A l \in Loop : order[l] \in SetToSeqs(OfLoop(l))
        /\ queue' = [l \in Loop |->
                       queue[l] \o [i \in DOMAIN order[l] |-> <<"connectDestoryed", order[l][i]>>]]
  BY DEF Destroy
<1>3. /\ Fields /\ Started /\ Well(queue, m_nextConnId, conn) /\ Batches /\ Unborn /\ Lives
      /\ m_connections \subseteq Conn
  BY DEF IInv, Queues, Fields
<1>4. \A c \in m_connections : c < m_nextConnId /\ Life(c) /\ ~D(c)
  BY <1>3, Born DEF Unborn, Lives, Life, LifeOf
<1>5. ASSUME NEW l \in Loop
      PROVE  /\ queue'[l] \in Seq(Functor) /\ Once(queue'[l]) /\ EstFirst(queue'[l])
             /\ Len(queue[l]) <= Len(queue'[l])
             /\ \A g : In(queue'[l], g) <=> In(queue[l], g) \/ \E c \in OfLoop(l) : g = Des(c)
  <2> DEFINE s == queue[l]
             S == OfLoop(l)
             o == order[l]
  <2>1. s \in Seq(Functor) /\ Once(s) /\ EstFirst(s)
    BY <1>3 DEF Well
  <2>2. S \in SUBSET Conn /\ o \in SetToSeqs(S)
    BY <1>2, <1>3 DEF OfLoop
  <2>3. \A c \in S : ~In(s, Des(c))
    BY <1>4 DEF OfLoop, D
  <2>4. queue'[l] = s \o [i \in DOMAIN o |-> <<"connectDestoryed", o[i]>>]
    BY <1>2
  <2> HIDE DEF s, S, o
  <2>5. LET t == s \o [i \in DOMAIN o |-> <<"connectDestoryed", o[i]>>]
        IN  /\ t \in Seq(Functor) /\ Once(t) /\ EstFirst(t) /\ Len(s) <= Len(t)
            /\ \A g : In(t, g) <=> In(s, g) \/ \E c \in S : g = Des(c)
    BY <2>1, <2>2, <2>3, ConcatIn
  <2> QED BY <2>4, <2>5 DEF s, S
<1>6. conn' = conn /\ sock' = sock /\ calls' = calls /\ m_nextConnId' = m_nextConnId /\ batch' = batch
  BY <1>1 DEF connVars
<1>7. Queues'
  <2>1. queue' \in [Loop -> Seq(Functor)]
    BY <1>2, <1>5
  <2>2. ASSUME NEW l \in Loop, NEW f \in Functor, In(queue'[l], f)
        PROVE  f[2] < m_nextConnId /\ l = Place(conn, f)
    <3>1. CASE In(queue[l], f)
      BY <1>3, <3>1 DEF Well
    <3>2. ASSUME NEW c \in OfLoop(l), f = Des(c) PROVE f[2] < m_nextConnId /\ l = Place(conn, f)
      <4>1. c \in Conn /\ c \in m_connections /\ conn[c].loop = l
        BY <1>3 DEF OfLoop
      <4> QED BY <1>4, <3>2, <4>1, Kinds
    <3> QED BY <1>5, <2>2, <3>1, <3>2
  <2> QED BY <1>5, <1>6, <2>1, <2>2 DEF Queues, Well
<1>8. Batches'
  <2>1. \A k \in Loop : batch[k] \in Nat /\ Len(queue[k]) \in Nat /\ Len(queue'[k]) \in Nat
    BY <1>3, <1>5 DEF Batches, Well
  <2>2. ASSUME NEW k \in Loop PROVE batch[k] <= Len(queue'[k])
    <3>1. batch[k] <= Len(queue[k])
      BY <1>3 DEF Batches
    <3>2. Len(queue[k]) <= Len(queue'[k])
      BY <1>5
    <3> QED BY <2>1, <3>1, <3>2
  <2> QED BY <1>3, <1>6, <2>2 DEF Batches
<1>9. Started'
  <2>1. acceptor' \in Channel /\ IndexMatchesKernel(acceptor)' /\ acceptor'.index = "kNew"
    <3> DEFINE a == disableAll(acceptor)
    <3>1. a \in Channel /\ IndexMatchesKernel(a)
      BY <1>3, ChannelKeeps DEF Started
    <3> HIDE DEF a
    <3>2. /\ removeChannel(a) \in Channel /\ IndexMatchesKernel(removeChannel(a))
          /\ removeChannel(a).index = "kNew"
      BY <3>1, ChannelKeeps
    <3> QED BY <1>1, <3>2 DEF a
  <2> QED BY <1>1, <1>3, <2>1 DEF Started
<1>10. Fields' /\ Unborn'
  BY <1>1, <1>3, <1>6 DEF Fields, Unborn
<1>11. Lives'
  <2> SUFFICES ASSUME NEW c \in Conn, c < m_nextConnId PROVE Life(c)'
    BY <1>6 DEF Lives
  <2>1. Life(c) /\ conn[c].loop \in Loop /\ Base \in Loop
    BY <1>3, IsConnParts, ConnIsNat DEF Lives, Fields
  <2>2. E(c)' <=> E(c)
    <3>1. \A d \in OfLoop(conn[c].loop) : Est(c) # Des(d)
      BY <1>3, Kinds DEF OfLoop
    <3> QED BY <1>5, <1>6, <2>1, <3>1 DEF E
  <2>3. T(c)' <=> T(c)
    <3>1. \A d \in OfLoop(Base) : Rem(c) # Des(d)
      BY <1>3, Kinds DEF OfLoop
    <3> QED BY <1>5, <1>6, <2>1, <3>1 DEF T
  <2>4. D(c)' <=> D(c) \/ c \in m_connections
    <3>1. (\E d \in OfLoop(conn[c].loop) : Des(c) = Des(d)) <=> c \in m_connections
      BY <1>3, Kinds DEF OfLoop
    <3> QED BY <1>5, <1>6, <2>1, <3>1 DEF D
  <2>5. c \notin m_connections' /\ server' = "destroyed" /\ server # "destroyed"
    BY <1>1
  <2> QED BY <1>6, <2>1, <2>2, <2>3, <2>4, <2>5 DEF Life, LifeOf
<1>12. Peered' /\ Ups' /\ (~Refuses => Streams')
  BY <1>1, <1>6 DEF IInv, Peered, PeerIdsDistinct, Ups, Streams, peerVars
<1> QED BY <1>7, <1>8, <1>9, <1>10, <1>11, <1>12 DEF IInv

LEMMA StutterKeeps == ASSUME IInv, UNCHANGED vars PROVE IInv'
<1>1. UNCHANGED <<serverVars, loopVars, connVars, peerVars>>
  BY DEF vars
<1>2. Fields' /\ Started' /\ Queues' /\ Batches' /\ Unborn' /\ Ups' /\ Peered' /\ (~Refuses => Streams')
  BY <1>1 DEF IInv, Fields, Started, Queues, Batches, Unborn, Ups, Peered, PeerIdsDistinct, Streams,
              serverVars, loopVars, connVars, peerVars
<1>3. Lives'
  BY <1>1 DEF IInv, Lives, Life, E, D, T, serverVars, loopVars, connVars
<1> QED BY <1>2, <1>3 DEF IInv

LEMMA StepKeeps == ASSUME IInv, [Next]_vars PROVE IInv'
<1>1. CASE Next
  BY <1>1, StartKeeps, AcceptKeeps, DestroyKeeps, BeginPendingKeeps, RunFunctorKeeps, HandleReadKeeps,
     HandleCloseKeeps, HandleWriteKeeps, ClientKeeps
  DEF Next, LoopStep, ReadStep
<1> QED BY <1>1, StutterKeeps

-----------------------------------------------------------------------------
(* The theorems.                                                           *)

\* Every variable keeps its type: in particular no functor of a loop is
\* counted to be run that is not queued.
THEOREM TypeCorrect == Spec => []TypeOK
<1>1. IInv => TypeOK
  BY TypesFollow DEF IInv
<1> QED BY <1>1, InitIInv, StepKeeps, PTL DEF Spec

\* The poller never meets a dead connection (Channel.cpp:52, TcpServer.cpp:39):
\* whatever is on the kernel's list is held by the map or by a functor, also
\* while the destructor and a close race for the connection.
THEOREM PollerIsSafe == Spec => []PollerMeetsLiveConnections
<1>1. IInv => PollerMeetsLiveConnections
  BY PollerFollows DEF IInv
<1> QED BY <1>1, InitIInv, StepKeeps, PTL DEF Spec

\* connectEstablished and connectDestoryed are called at most once, in this
\* order, by a close and by the destructor of the server together
\* (TcpConnection.h:62).
THEOREM CalledOnce == Spec => []EstablishedAndDestroyedOnce
<1>1. IInv => EstablishedAndDestroyedOnce
  BY OnceFollows DEF IInv
<1> QED BY <1>1, InitIInv, StepKeeps, PTL DEF Spec

\* Clients have distinct ids from the time their connection is up until it, or
\* another of the same address, goes down (trans_server.cpp:94).
THEOREM ClientsAreKnown == Spec => []IdsIdentifyClients
<1>1. IInv => IdsIdentifyClients
  BY DEF IInv, Peered, Ups, IdsIdentifyClients
<1> QED BY <1>1, InitIInv, StepKeeps, PTL DEF Spec

\* While no write finds the socket full (which sendInLoop takes for success),
\* the output buffer holds what is owed to the peer, in order
\* (TcpConnection.cpp:84, 210).
THEOREM OutputIsKept == ASSUME Refuses = FALSE PROVE Spec => []OutputIsOwed
<1>1. IInv => OutputIsOwed
  BY OwedFollows DEF IInv
<1> QED BY <1>1, InitIInv, StepKeeps, PTL DEF Spec

\* In the same case, shutdown() closes the socket for writing when nothing is
\* owed any more (TcpConnection.cpp:147).
THEOREM ShutdownWaits == ASSUME Refuses = FALSE PROVE Spec => []ShutdownAfterOutput
<1>1. IInv => ShutdownAfterOutput
  BY DEF IInv, Streams, StreamOf, ShutdownAfterOutput
<1> QED BY <1>1, InitIInv, StepKeeps, PTL DEF Spec
=============================================================================
