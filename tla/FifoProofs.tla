----------------------------- MODULE FifoProofs -----------------------------
(***************************************************************************)
(* For every buffer size and every set of bytes: the ring of buffer.c keeps *)
(* its indices inside the allocation and implements the bounded queue of    *)
(* ByteQueue.                                                               *)
(***************************************************************************)
EXTENDS Fifo, SequenceTheorems, TLAPS

\* The two values an index advanced by at most one turn of the ring can take.
LEMMA AdvanceValue ==
  ASSUME NEW i \in 0..Size, NEW n \in 0..Size
  PROVE  /\ Advance(i, n) = IF i + n >= bufsize THEN i + n - bufsize ELSE i + n
         /\ Advance(i, n) \in 0..Size
BY FifoAssumption DEF Advance, bufsize

\* The two availability functions of buffer.c share out the requested size.
LEMMA AvailFacts ==
  ASSUME TypeOK
  PROVE  /\ rsnd_fifo_read_avail \in 0..Size
         /\ rsnd_fifo_write_avail = Size - rsnd_fifo_read_avail
BY FifoAssumption
   DEF TypeOK, rsnd_fifo_read_avail, rsnd_fifo_write_avail, unrolledEnd, bufsize

\* A block is a sequence of at most Size bytes.
LEMMA BlockFacts ==
  ASSUME NEW data \in Blocks
  PROVE  /\ data \in Seq(Byte)
         /\ Len(data) \in 0..Size
         /\ \A i \in 1..Len(data) : data[i] \in Byte
BY FifoAssumption DEF Blocks

\* The bytes waiting in the ring form a sequence of read_avail bytes.
ContentsOK ==
  /\ rsnd_fifo_read_avail \in 0..Size
  /\ Contents \in Seq(Byte)
  /\ Len(Contents) = rsnd_fifo_read_avail
  /\ \A i \in 1..rsnd_fifo_read_avail :
       Contents[i] = buffer[IF first + i - 1 >= bufsize THEN first + i - 1 - bufsize
                            ELSE first + i - 1]

\* In every type-correct state the mapped queue is well formed.
LEMMA ContentsFacts == TypeOK => ContentsOK
<1> SUFFICES ASSUME TypeOK PROVE ContentsOK
  OBVIOUS
<1>1. rsnd_fifo_read_avail \in 0..Size
  BY AvailFacts
<1>2. \A i \in 1..rsnd_fifo_read_avail :
        (IF first + i - 1 >= bufsize THEN first + i - 1 - bufsize ELSE first + i - 1) \in 0..Size
  BY <1>1, FifoAssumption DEF TypeOK, bufsize
<1>3. Contents \in [1..rsnd_fifo_read_avail -> Byte]
  BY <1>2 DEF Contents, TypeOK
<1> QED
  BY <1>1, <1>3, FifoAssumption DEF Contents, ContentsOK

\* What the two memcpy calls of rsnd_fifo_write leave in each cell of the ring.
LEMMA WrittenCells ==
  ASSUME TypeOK, NEW data \in Blocks, rsnd_fifo_write(data)
  PROVE  /\ FirstPart(end, Len(data)) \in 0..Len(data)
         /\ buffer' \in [0..Size -> Byte]
         /\ \A k \in 0..Size :
              buffer'[k] = IF k < Len(data) - FirstPart(end, Len(data))
                             THEN data[k + FirstPart(end, Len(data)) + 1]
                           ELSE IF end <= k /\ k < end + FirstPart(end, Len(data))
                             THEN data[k - end + 1]
                           ELSE buffer[k]
<1> DEFINE fw == FirstPart(end, Len(data))
<1>1. fw \in 0..Len(data)
  BY BlockFacts, FifoAssumption DEF FirstPart, bufsize, TypeOK
<1>2. buffer' = CopyIn(CopyIn(buffer, end, data, 0, fw), 0, data, fw, Len(data) - fw)
  BY DEF rsnd_fifo_write
<1> HIDE DEF fw
<1>3. \A k \in 0..Size :
        buffer'[k] = IF k < Len(data) - fw THEN data[k + fw + 1]
                     ELSE IF end <= k /\ k < end + fw THEN data[k - end + 1]
                     ELSE buffer[k]
  BY <1>1, <1>2, BlockFacts, FifoAssumption DEF CopyIn, TypeOK
<1>4. \A k \in 0..Size : buffer'[k] \in Byte
  <2> SUFFICES ASSUME NEW k \in 0..Size PROVE buffer'[k] \in Byte
    OBVIOUS
  <2>1. CASE k < Len(data) - fw
    <3>1. k + fw + 1 \in 1..Len(data)
      BY <1>1, <2>1, BlockFacts, FifoAssumption
    <3> QED BY <1>3, <2>1, <3>1, BlockFacts
  <2>2. CASE ~(k < Len(data) - fw) /\ end <= k /\ k < end + fw
    <3>1. k - end + 1 \in 1..Len(data)
      BY <1>1, <2>2, BlockFacts, FifoAssumption DEF TypeOK
    <3> QED BY <1>3, <2>2, <3>1, BlockFacts
  <2>3. CASE ~(k < Len(data) - fw) /\ ~(end <= k /\ k < end + fw)
    BY <1>3, <2>3 DEF TypeOK
  <2> QED BY <2>1, <2>2, <2>3
<1>5. buffer' \in [0..Size -> Byte]
  BY <1>2, <1>4 DEF CopyIn
<1> QED
  BY <1>1, <1>3, <1>5 DEF fw

-----------------------------------------------------------------------------
\* A write appends its block to the queue, wherever the ring cuts it.
LEMMA WriteAppends ==
  ASSUME TypeOK, NEW data \in Blocks, rsnd_fifo_write(data)
  PROVE  TypeOK' /\ Queue!Put(data)
<1> DEFINE size == Len(data)
           L == rsnd_fifo_read_avail
           fw == FirstPart(end, size)
<1>1. /\ size \in 0..Size
      /\ L \in 0..Size
      /\ L + size <= Size
  BY AvailFacts, BlockFacts, FifoAssumption DEF rsnd_fifo_write
<1>2. /\ end' = IF end + size >= bufsize THEN end + size - bufsize ELSE end + size
      /\ end' \in 0..Size
      /\ first' = first
      /\ out' = out
  BY <1>1, AdvanceValue DEF rsnd_fifo_write, TypeOK
<1>3. TypeOK'
  BY <1>2, WrittenCells DEF TypeOK
<1>4. ContentsOK /\ ContentsOK'
  BY <1>3, ContentsFacts, PTL
<1>5. /\ fw \in 0..size
      /\ fw = IF end + size > bufsize THEN bufsize - end ELSE size
      /\ \A k \in 0..Size :
           buffer'[k] = IF k < size - fw THEN data[k + fw + 1]
                        ELSE IF end <= k /\ k < end + fw THEN data[k - end + 1]
                        ELSE buffer[k]
  BY WrittenCells DEF FirstPart
<1> HIDE DEF size, fw
<1>6. rsnd_fifo_read_avail' = rsnd_fifo_read_avail + size
  <2>1. rsnd_fifo_read_avail = IF end < first THEN end + Size + 1 - first ELSE end - first
    BY FifoAssumption DEF rsnd_fifo_read_avail, unrolledEnd, bufsize, TypeOK
  <2>2. rsnd_fifo_read_avail' = IF end' < first THEN end' + Size + 1 - first ELSE end' - first
    BY <1>2, FifoAssumption DEF rsnd_fifo_read_avail, unrolledEnd, bufsize, TypeOK
  <2> QED
    BY <1>1, <1>2, <2>1, <2>2, FifoAssumption DEF bufsize, TypeOK
<1>7. ASSUME NEW i \in 1..rsnd_fifo_read_avail
      PROVE  Contents'[i] = Contents[i]
  <2> DEFINE c == IF first + i - 1 >= bufsize THEN first + i - 1 - bufsize ELSE first + i - 1
  <2>1. Contents[i] = buffer[c]
    BY <1>4 DEF ContentsOK
  <2>2. Contents'[i] = buffer'[c]
    BY <1>1, <1>2, <1>4, <1>6 DEF ContentsOK
  <2>3. /\ c \in 0..Size
        /\ ~(c < size - fw)
        /\ ~(end <= c /\ c < end + fw)
    BY <1>1, <1>5, FifoAssumption DEF rsnd_fifo_read_avail, unrolledEnd, bufsize, TypeOK
  <2> QED
    BY <1>5, <2>1, <2>2, <2>3
<1>8. ASSUME NEW j \in 1..size
      PROVE  Contents'[rsnd_fifo_read_avail + j] = data[j]
  <2> DEFINE i == rsnd_fifo_read_avail + j
             c == IF first + i - 1 >= bufsize THEN first + i - 1 - bufsize ELSE first + i - 1
             d == IF end + j - 1 >= bufsize THEN end + j - 1 - bufsize ELSE end + j - 1
  <2>1. Contents'[i] = buffer'[c]
    BY <1>1, <1>2, <1>4, <1>6 DEF ContentsOK
  <2>2. c = d
    BY <1>1, FifoAssumption DEF rsnd_fifo_read_avail, unrolledEnd, bufsize, TypeOK
  <2>3. CASE j <= fw
    <3>1. d = end + j - 1
      BY <1>1, <1>5, <2>3, FifoAssumption DEF bufsize, TypeOK
    <3>2. /\ d \in 0..Size
          /\ ~(d < size - fw)
          /\ end <= d /\ d < end + fw
          /\ d - end + 1 = j
      BY <1>1, <1>5, <2>3, <3>1, FifoAssumption DEF bufsize, TypeOK
    <3> QED BY <1>5, <2>1, <2>2, <3>2
  <2>4. CASE ~(j <= fw)
    <3>1. d = j - fw - 1
      BY <1>1, <1>5, <2>4, FifoAssumption DEF bufsize, TypeOK
    <3>2. /\ d \in 0..Size
          /\ d < size - fw
          /\ d + fw + 1 = j
      BY <1>1, <1>5, <2>4, <3>1, FifoAssumption DEF bufsize, TypeOK
    <3> QED BY <1>5, <2>1, <2>2, <3>2
  <2> QED BY <2>3, <2>4
<1>9. Contents' = Contents \o data
  <2>1. /\ Contents' \in Seq(Byte) /\ Contents \in Seq(Byte) /\ data \in Seq(Byte)
        /\ Len(Contents) = rsnd_fifo_read_avail /\ Len(data) = size
        /\ Len(Contents') = rsnd_fifo_read_avail + size
    BY <1>4, <1>6, BlockFacts DEF ContentsOK, size
  <2>2. /\ Contents \o data \in Seq(Byte)
        /\ Len(Contents \o data) = rsnd_fifo_read_avail + size
    BY <2>1, ConcatProperties
  <2>3. ASSUME NEW i \in 1..(rsnd_fifo_read_avail + size)
        PROVE  Contents'[i] = (Contents \o data)[i]
    <3>1. CASE i <= rsnd_fifo_read_avail
      BY <1>1, <1>7, <2>1, <3>1, ConcatProperties
    <3>2. CASE ~(i <= rsnd_fifo_read_avail)
      <4>1. i - rsnd_fifo_read_avail \in 1..size
        BY <1>1, <3>2
      <4>2. Contents'[rsnd_fifo_read_avail + (i - rsnd_fifo_read_avail)]
              = data[i - rsnd_fifo_read_avail]
        BY <1>8, <4>1
      <4>3. rsnd_fifo_read_avail + (i - rsnd_fifo_read_avail) = i
        BY <1>1
      <4> QED BY <1>1, <2>1, <3>2, <4>2, <4>3, ConcatProperties
    <3> QED BY <3>1, <3>2
  <2> QED
    BY <2>1, <2>2, <2>3, SeqEqual
<1> QED
  BY <1>1, <1>2, <1>3, <1>4, <1>9 DEF Queue!Put, ContentsOK, size
-----------------------------------------------------------------------------
\* A read returns the oldest bytes and leaves the others, in order.
LEMMA ReadTakesOldest ==
  ASSUME TypeOK, NEW size \in 0..Size, rsnd_fifo_read(size)
  PROVE  TypeOK' /\ Queue!Get(size)
<1> DEFINE fr == FirstPart(first, size)
           L == rsnd_fifo_read_avail
<1>1. L \in 0..Size /\ size <= L
  BY AvailFacts, FifoAssumption DEF rsnd_fifo_read
<1>2. /\ first' = IF first + size >= bufsize THEN first + size - bufsize ELSE first + size
      /\ first' \in 0..Size
      /\ end' = end
      /\ buffer' = buffer
  BY AdvanceValue DEF rsnd_fifo_read, TypeOK
<1>3. /\ fr \in 0..size
      /\ fr = IF first + size > bufsize THEN bufsize - first ELSE size
  BY FifoAssumption DEF FirstPart, bufsize, TypeOK
<1>4. ContentsOK
  BY ContentsFacts
<1>5. /\ out' = [i \in 1..size |-> IF i <= fr THEN buffer[first + i - 1]
                                   ELSE buffer[i - fr - 1]]
  BY DEF rsnd_fifo_read
<1> HIDE DEF fr
<1>6. ASSUME NEW i \in 1..size
      PROVE  out'[i] = Contents[i] /\ out'[i] \in Byte
  <2> DEFINE c == IF first + i - 1 >= bufsize THEN first + i - 1 - bufsize ELSE first + i - 1
  <2>1. Contents[i] = buffer[c] /\ Contents[i] \in Byte
    BY <1>1, <1>4 DEF ContentsOK
  <2>2. c = IF i <= fr THEN first + i - 1 ELSE i - fr - 1
    BY <1>1, <1>3, FifoAssumption DEF bufsize, TypeOK
  <2> QED BY <1>5, <2>1, <2>2
<1>7. out' \in [1..size -> Byte]
  BY <1>5, <1>6
<1>8. TypeOK'
  BY <1>2, <1>7, FifoAssumption DEF TypeOK, Blocks
<1>9. ContentsOK'
  BY <1>8, ContentsFacts, PTL
<1>10. rsnd_fifo_read_avail' = L - size
  <2>1. L = IF end < first THEN end + Size + 1 - first ELSE end - first
    BY FifoAssumption DEF rsnd_fifo_read_avail, unrolledEnd, bufsize, TypeOK
  <2>2. rsnd_fifo_read_avail' = IF end < first' THEN end + Size + 1 - first' ELSE end - first'
    BY <1>2, FifoAssumption DEF rsnd_fifo_read_avail, unrolledEnd, bufsize, TypeOK
  <2> QED
    BY <1>1, <1>2, <2>1, <2>2, FifoAssumption DEF bufsize, TypeOK
<1>11. out' = SubSeq(Contents, 1, size)
  <2>1. \A i \in 1..size : Contents[i] \in Byte
    BY <1>1, <1>4 DEF ContentsOK
  <2>2. /\ SubSeq(Contents, 1, size) \in Seq(Byte)
        /\ Len(SubSeq(Contents, 1, size)) = size
        /\ \A i \in 1..size : SubSeq(Contents, 1, size)[i] = Contents[i]
    BY <2>1, SubSeqProperties, FifoAssumption
  <2>3. out' \in Seq(Byte) /\ Len(out') = size
    BY <1>7, FifoAssumption
  <2> QED BY <1>6, <2>2, <2>3, SeqEqual
<1>12. Contents' = SubSeq(Contents, size + 1, L)
  <2>1. \A i \in (size + 1)..L : Contents[i] \in Byte
    BY <1>1, <1>4 DEF ContentsOK
  <2>2. /\ SubSeq(Contents, size + 1, L) \in Seq(Byte)
        /\ Len(SubSeq(Contents, size + 1, L)) = L - size
        /\ \A i \in 1..(L - size) : SubSeq(Contents, size + 1, L)[i] = Contents[size + i]
    <3> HIDE DEF L
    <3>1. /\ SubSeq(Contents, size + 1, L) \in Seq(Byte)
          /\ Len(SubSeq(Contents, size + 1, L)) = IF size + 1 <= L THEN L - (size + 1) + 1 ELSE 0
          /\ \A i \in 1..(L - (size + 1) + 1) :
               SubSeq(Contents, size + 1, L)[i] = Contents[(size + 1) + i - 1]
      BY <1>1, <2>1, SubSeqProperties, FifoAssumption
    <3> QED BY <1>1, <3>1, FifoAssumption
  <2>3. ASSUME NEW i \in 1..(L - size)
        PROVE  Contents'[i] = Contents[size + i]
    <3>1. Contents'[i] = buffer[IF first' + i - 1 >= bufsize THEN first' + i - 1 - bufsize
                                ELSE first' + i - 1]
      BY <1>2, <1>9, <1>10 DEF ContentsOK
    <3>2. Contents[size + i] = buffer[IF first + (size + i) - 1 >= bufsize
                                      THEN first + (size + i) - 1 - bufsize
                                      ELSE first + (size + i) - 1]
      BY <1>1, <1>4, FifoAssumption DEF ContentsOK
    <3>3. (IF first' + i - 1 >= bufsize THEN first' + i - 1 - bufsize ELSE first' + i - 1)
            = IF first + (size + i) - 1 >= bufsize THEN first + (size + i) - 1 - bufsize
              ELSE first + (size + i) - 1
      <4>1. i \in Nat /\ i >= 1 /\ i + size <= Size
        BY <1>1, FifoAssumption
      <4>2. first \in Nat /\ first <= Size /\ size \in Nat /\ bufsize = Size + 1
        BY FifoAssumption DEF TypeOK, bufsize
      <4>3. CASE first + size >= bufsize
        <5>1. first' = first + size - bufsize
          BY <1>2, <4>3
        <5> QED BY <4>1, <4>2, <4>3, <5>1, FifoAssumption
      <4>4. CASE ~(first + size >= bufsize)
        <5>1. first' = first + size
          BY <1>2, <4>4
        <5> QED BY <4>1, <4>2, <4>4, <5>1, FifoAssumption
      <4> QED BY <4>3, <4>4
    <3> QED BY <3>1, <3>2, <3>3
  <2>4. Contents' \in Seq(Byte) /\ Len(Contents') = L - size
    BY <1>9, <1>10 DEF ContentsOK
  <2> QED BY <2>2, <2>3, <2>4, SeqEqual
<1> QED
  BY <1>1, <1>4, <1>8, <1>11, <1>12 DEF Queue!Get, ContentsOK

-----------------------------------------------------------------------------
(***************************************************************************)
(* The read and write indices of rsnd_fifo_write and rsnd_fifo_read stay    *)
(* inside the allocation for every buffer size.                             *)
(***************************************************************************)
THEOREM TypeCorrect == Spec => []TypeOK
<1>1. rsnd_fifo_new => TypeOK
  BY FifoAssumption DEF rsnd_fifo_new, TypeOK, Blocks
<1>2. TypeOK /\ [Next]_vars => TypeOK'
  <2> SUFFICES ASSUME TypeOK, [Next]_vars PROVE TypeOK'
    OBVIOUS
  <2>1. CASE \E data \in Blocks : rsnd_fifo_write(data)
    BY <2>1, WriteAppends
  <2>2. CASE \E size \in 0..Size : rsnd_fifo_read(size)
    BY <2>2, ReadTakesOldest
  <2>3. CASE UNCHANGED vars
    BY <2>3 DEF vars, TypeOK
  <2> QED BY <2>1, <2>2, <2>3 DEF Next
<1> QED BY <1>1, <1>2, PTL DEF Spec

(***************************************************************************)
(* buffer.c implements the bounded FIFO queue for every size: reads return  *)
(* the bytes written, once, in order, and a write never overruns unread     *)
(* bytes, wherever the wrap-around falls.                                   *)
(***************************************************************************)
THEOREM Implementation == Spec => ImplementsByteQueue
<1>1. rsnd_fifo_new => Queue!Init
  <2> SUFFICES ASSUME rsnd_fifo_new PROVE Queue!Init
    OBVIOUS
  <2>1. rsnd_fifo_read_avail = 0
    BY DEF rsnd_fifo_new, rsnd_fifo_read_avail, unrolledEnd
  <2>2. Contents = << >>
    BY <2>1 DEF Contents
  <2> QED BY <2>2 DEF Queue!Init, rsnd_fifo_new
<1>2. TypeOK /\ [Next]_vars => [Queue!Next]_(Queue!vars)
  <2> SUFFICES ASSUME TypeOK, [Next]_vars PROVE [Queue!Next]_(Queue!vars)
    OBVIOUS
  <2>1. CASE \E data \in Blocks : rsnd_fifo_write(data)
    BY <2>1, WriteAppends DEF Queue!Next, Queue!Blocks, Blocks
  <2>2. CASE \E size \in 0..Size : rsnd_fifo_read(size)
    BY <2>2, ReadTakesOldest DEF Queue!Next
  <2>3. CASE UNCHANGED vars
    BY <2>3 DEF vars, Queue!vars, Contents, rsnd_fifo_read_avail, unrolledEnd
  <2> QED BY <2>1, <2>2, <2>3 DEF Next
<1> QED
  BY <1>1, <1>2, TypeCorrect, PTL DEF Spec, Queue!Spec, ImplementsByteQueue
=============================================================================
