---------------------------- MODULE DriversProofs ----------------------------
(***************************************************************************)
(* What the drivers that keep audio between two threads promise, for every  *)
(* number of channels and buffers and every size of ring, chunk and cycle.  *)
(***************************************************************************)
EXTENDS Drivers, TLAPS

-----------------------------------------------------------------------------
(***************************************************************************)
(* JACK.  The two threads use the rings without a lock; what they have      *)
(* measured stays true because only the reader takes from a ring and only   *)
(* the writer adds to it: Measured and Spacious below say so, and are what  *)
(* makes the invariant inductive.                                           *)
(***************************************************************************)
Channels == 1..Chans

\* The types that the proof needs.
JTypes ==
  /\ ring \in [Channels -> Seq(Int)] /\ jheard \in [Channels -> Seq(Int)]
  /\ jwriter \in {"idle", "space", "write", "failed", "closed"} /\ wchan \in Channels
  /\ wavail \in Int /\ jsent \in Nat
  /\ jprocess \in {"idle", "measure", "read"} /\ pchan \in Channels /\ pavail \in Nat

\* A port has played the first bytes of its channel, its ring holds the next.
InOrder ==
  WholeFrames => \A c \in Channels :
    /\ \A i \in 1..Len(jheard[c]) : jheard[c][i] = StreamByte(c, i)
    /\ \A i \in 1..Len(ring[c]) : ring[c][i] = StreamByte(c, Len(jheard[c]) + i)

\* What the calls before this one have written to each channel.
Written == jsent * RowBytes

\* What was written to channel c: the current chunk is in the first ones.
Put(c) == Written + (IF jwriter = "write" /\ c < wchan THEN RowBytes ELSE 0)

Complete == \A c \in Channels : Len(jheard[c]) + Len(ring[c]) = Put(c)

\* What the writer measured holds until it has written.
Spacious ==
  /\ jwriter = "space" => \A c \in Channels : c < wchan => wavail <= RingBytes - Len(ring[c])
  /\ jwriter = "write" => \A c \in Channels : c >= wchan => RowBytes <= RingBytes - Len(ring[c])

\* What the reader measured holds until it has read.
Measured ==
  /\ jprocess = "measure" => \A c \in Channels : c < pchan => pavail <= Len(ring[c])
  /\ jprocess = "read" => \A c \in Channels : c >= pchan => pavail <= Len(ring[c])

\* The ports are together but for the channels a cycle has read already.
Together ==
  \A c, d \in Channels :
    Len(jheard[c]) - (IF jprocess = "read" /\ c < pchan THEN pavail ELSE 0)
      = Len(jheard[d]) - (IF jprocess = "read" /\ d < pchan THEN pavail ELSE 0)

JInv == JTypes /\ InOrder /\ Complete /\ Spacious /\ Measured /\ Together

-----------------------------------------------------------------------------
(* Sequences *)

\* A sequence that gets another one behind it.
LEMMA ConcatFacts ==
  ASSUME NEW s \in Seq(Int), NEW t \in Seq(Int)
  PROVE  /\ s \o t \in Seq(Int) /\ Len(s \o t) = Len(s) + Len(t)
         /\ \A i \in 1..Len(s) : (s \o t)[i] = s[i]
         /\ \A i \in 1..Len(t) : (s \o t)[Len(s) + i] = t[i]
  OBVIOUS

\* The first n elements.
LEMMA HeadFacts ==
  ASSUME NEW s \in Seq(Int), NEW n \in 0..Len(s)
  PROVE  /\ SubSeq(s, 1, n) \in Seq(Int) /\ Len(SubSeq(s, 1, n)) = n
         /\ \A i \in 1..n : SubSeq(s, 1, n)[i] = s[i]
  OBVIOUS

\* What is left without the first n.
LEMMA RestFacts ==
  ASSUME NEW s \in Seq(Int), NEW n \in 0..Len(s)
  PROVE  /\ SubSeq(s, n + 1, Len(s)) \in Seq(Int) /\ Len(SubSeq(s, n + 1, Len(s))) = Len(s) - n
         /\ \A i \in 1..(Len(s) - n) : SubSeq(s, n + 1, Len(s))[i] = s[n + i]
  OBVIOUS

\* The lesser of two.
LEMMA AtMostFacts ==
  ASSUME NEW a \in Int, NEW b \in Int
  PROVE  AtMost(a, b) \in Int /\ AtMost(a, b) <= a /\ AtMost(a, b) <= b
  BY DEF AtMost

\* What moves from a ring to its port.
LEMMA Moved ==
  ASSUME NEW a \in Int, NEW b \in Int, NEW n \in Int
  PROVE  (a + n) + (b - n) = a + b /\ a + (b + n) = (a + b) + n
  OBVIOUS

\* What the steps need to know of the numbers.
LEMMA JackNumbers ==
  /\ Chans \in Nat \ {0} /\ RowBytes \in Nat /\ RingBytes \in Nat /\ RowBytes <= RingBytes
  /\ Cycle \in Nat /\ ChunkSamples \in Nat /\ SampleSize = 4
<1>1. \A k \in Nat, d \in Nat \ {0} : k \div d \in Nat
  OBVIOUS
<1>2. ChunkSamples * SampleSize \in Nat
  BY JackAssumption DEF SampleSize
<1>3. RowBytes \in Nat
  BY <1>1, <1>2, JackAssumption DEF RowBytes
<1> QED
  BY <1>3, JackAssumption DEF SampleSize

\* A chunk of whole frames gives each ring its samples, in whole.
LEMMA WholeRows ==
  ASSUME WholeFrames
  PROVE  ChunkFrames \in Nat /\ ChunkSamples = ChunkFrames * Chans /\ RowBytes = 4 * ChunkFrames
<1>1. /\ ChunkSamples \in Nat /\ Chans \in Nat \ {0}
  BY JackAssumption
<1>2. \A k \in Nat, d \in Nat \ {0} : k \div d \in Nat /\ k = d * (k \div d) + (k % d)
  OBVIOUS
<1>3. ChunkFrames \in Nat /\ ChunkSamples = (Chans * ChunkFrames) + (ChunkSamples % Chans)
  BY <1>1, <1>2 DEF ChunkFrames
<1>4. ChunkSamples = ChunkFrames * Chans
  BY <1>1, <1>3 DEF WholeFrames
<1>5. \A f \in Nat, d \in Nat \ {0} : ((f * d) * 4) \div d = 4 * f
  <2> SUFFICES ASSUME NEW f \in Nat, NEW d \in Nat \ {0} PROVE ((f * d) * 4) \div d = 4 * f
    OBVIOUS
  <2>1. (f * d) * 4 = d * (4 * f)
    OBVIOUS
  <2>2. \A k \in Nat : (d * k) \div d = k
    OBVIOUS
  <2> QED
    BY <2>1, <2>2
<1>6. RowBytes = 4 * ChunkFrames
  BY <1>1, <1>3, <1>4, <1>5 DEF RowBytes, SampleSize
<1> QED
  BY <1>3, <1>4, <1>6

\* Byte j of a row of whole frames is byte Written + j of the channel.
LEMMA RowIsStream ==
  ASSUME WholeFrames, NEW c \in Channels, jsent \in Nat, NEW j \in 1..RowBytes
  PROVE  Deinterleaved(c)[j] = StreamByte(c, Written + j)
<1> DEFINE F == ChunkFrames
           frame == (j - 1) \div 4
<1>1. /\ F \in Nat /\ ChunkSamples = F * Chans /\ RowBytes = 4 * F /\ Chans \in Nat /\ c \in Int
      /\ Written = jsent * (4 * F)
  BY WholeRows, JackNumbers DEF Channels, Written
<1>2. j \in 1..(4 * F)
  BY <1>1
<1> HIDE DEF F
<1>3. frame \in Nat /\ frame < F
  BY <1>1, <1>2
<1>4. /\ ((jsent * (4 * F)) + j - 1) \div 4 = (jsent * F) + frame
      /\ ((jsent * (4 * F)) + j - 1) % 4 = (j - 1) % 4
  <2>1. jsent * (4 * F) = 4 * (jsent * F) /\ jsent * F \in Nat
    BY <1>1
  <2>2. \A m, k \in Nat : ((4 * m) + k) \div 4 = m + (k \div 4) /\ ((4 * m) + k) % 4 = k % 4
    OBVIOUS
  <2>3. (j - 1) \in Nat /\ (jsent * (4 * F)) + j - 1 = (4 * (jsent * F)) + (j - 1)
    BY <1>2, <2>1
  <2> QED
    BY <2>1, <2>2, <2>3
<1> HIDE DEF frame
<1>5. ((jsent * F) + frame) * Chans = (jsent * (F * Chans)) + (frame * Chans)
  BY <1>1, <1>3
<1>6. StreamByte(c, Written + j) = ByteOf((((jsent * F) + frame) * Chans) + c, ((j - 1) % 4) + 1)
  BY <1>1, <1>4 DEF StreamByte, SampleSize
<1>7. Deinterleaved(c)[j] = ByteOf((jsent * (F * Chans)) + (frame * Chans) + c, ((j - 1) % 4) + 1)
  BY <1>1, <1>3 DEF Deinterleaved, SampleSize, frame, F
<1> QED
  BY <1>5, <1>6, <1>7

\* What a ring is given of a chunk.
LEMMA DeinterleavedFacts ==
  ASSUME NEW c \in Channels, jsent \in Nat
  PROVE  /\ Deinterleaved(c) \in Seq(Int) /\ Len(Deinterleaved(c)) = RowBytes
         /\ SubSeq(Deinterleaved(c), 1, RowBytes) = Deinterleaved(c)
         /\ WholeFrames => \A j \in 1..RowBytes : Deinterleaved(c)[j] = StreamByte(c, Written + j)
<1> DEFINE byte(j) ==
      LET frame == (j - 1) \div SampleSize IN
      IF frame < ChunkFrames
      THEN ByteOf((jsent * ChunkSamples) + (frame * Chans) + c, ((j - 1) % SampleSize) + 1)
      ELSE 0
<1>1. RowBytes \in Nat /\ Chans \in Nat /\ ChunkSamples \in Nat /\ c \in Int
  BY JackNumbers DEF Channels
<1>2. ASSUME NEW j \in 1..RowBytes PROVE byte(j) \in Int
  <2> DEFINE frame == (j - 1) \div 4
             rem == (j - 1) % 4
  <2>1. frame \in Int /\ rem \in Int /\ jsent * ChunkSamples \in Int
    BY <1>1
  <2>2. frame * Chans \in Int
    BY <1>1, <2>1
  <2> HIDE DEF frame, rem
  <2>3. ByteOf((jsent * ChunkSamples) + (frame * Chans) + c, rem + 1) \in Int
    BY <1>1, <2>1, <2>2 DEF ByteOf, SampleSize
  <2> QED
    BY <2>3 DEF frame, rem, SampleSize
<1>3. Deinterleaved(c) = [j \in 1..RowBytes |-> byte(j)]
  BY DEF Deinterleaved
<1> HIDE DEF byte
<1>4. Deinterleaved(c) \in Seq(Int) /\ Len(Deinterleaved(c)) = RowBytes
  BY <1>1, <1>2, <1>3
<1>5. SubSeq(Deinterleaved(c), 1, RowBytes) = Deinterleaved(c)
  BY <1>4
<1> QED
  BY <1>4, <1>5, RowIsStream

-----------------------------------------------------------------------------
(* The steps *)

LEMMA JInitInv == JInit => JInv
  BY JackNumbers DEF JInit, JInv, JTypes, InOrder, Put, Written, Complete, Spacious, Measured, Together, Channels

\* Steps that leave the rings and what was played alone.
LEMMA WriterLooks ==
  ASSUME JInv, jack_write \/ WriteSpace \/ GivesUp \/ jack_close
  PROVE  JInv'
<1>1. /\ JTypes /\ Chans \in Nat /\ RingBytes \in Nat /\ RowBytes \in Nat /\ wchan \in Channels
      /\ wavail \in Int /\ 1 \in Channels
      /\ \A c \in Channels : Len(ring[c]) \in Nat
  BY JackNumbers DEF JInv, JTypes, Channels
<1>2. UNCHANGED <<ring, process, jsent>>
  BY DEF jack_write, WriteSpace, GivesUp, jack_close, process
<1>3. InOrder' /\ Measured' /\ Together'
  BY <1>2 DEF JInv, InOrder, Measured, Together, process, StreamByte, ByteOf
<1>4. CASE jack_write \/ GivesUp \/ jack_close
  <2>1. JTypes'
    BY <1>1, <1>2, <1>4 DEF JTypes, jack_write, GivesUp, jack_close, process
  <2>2. jwriter # "write" /\ jwriter' # "write"
    BY <1>4 DEF jack_write, GivesUp, jack_close
  <2>3. Complete'
    BY <1>2, <2>2 DEF JInv, Complete, Put, Written, process
  <2>4. jwriter' = "space" => wchan' = 1
    BY <1>4 DEF jack_write, GivesUp, jack_close
  <2>5. Spacious'
    BY <2>2, <2>4 DEF Spacious, Channels
  <2> QED
    BY <1>3, <2>1, <2>3, <2>5 DEF JInv
<1>5. CASE WriteSpace
  <2> DEFINE least == AtMost(wavail, RingBytes - Len(ring[wchan]))
  <2>1. least \in Int /\ least <= wavail /\ least <= RingBytes - Len(ring[wchan])
    <3>1. RingBytes - Len(ring[wchan]) \in Int
      BY <1>1
    <3> QED
      BY <3>1, <1>1, AtMostFacts
  <2>2. \A c \in Channels : c < wchan => wavail <= RingBytes - Len(ring[c])
    BY <1>5 DEF JInv, Spacious, WriteSpace
  <2>3. \A c \in Channels : c <= wchan => least <= RingBytes - Len(ring[c])
    BY <1>1, <2>1, <2>2 DEF Channels
  <2>4. \/ wchan < Chans /\ wavail' = least /\ wchan' = wchan + 1 /\ jwriter' = "space"
        \/ wchan = Chans /\ least >= RowBytes /\ jwriter' = "write" /\ wavail' = least /\ wchan' = 1
        \/ wchan = Chans /\ wavail' = RingBytes /\ wchan' = 1 /\ jwriter' = "space"
    BY <1>1, <1>5 DEF WriteSpace, Channels
  <2> HIDE DEF least
  <2>5. wavail' \in Int /\ wchan' \in Channels /\ jwriter' \in {"space", "write"}
    BY <1>1, <2>1, <2>4 DEF Channels
  <2>6. JTypes'
    BY <1>1, <1>2, <2>5 DEF JTypes, process
  <2>7. Complete'
    <3>1. \A c \in Channels : Put(c)' = Put(c)
      BY <1>2, <1>5, <2>4 DEF Put, Written, WriteSpace, Channels
    <3> QED
      BY <1>2, <3>1 DEF JInv, Complete, process
  <2>8. Spacious'
    <3>1. CASE wchan < Chans
      <4>1. wavail' = least /\ wchan' = wchan + 1 /\ jwriter' = "space"
        BY <3>1, <1>1, <2>4
      <4>2. \A c \in Channels : c < wchan + 1 => c <= wchan
        BY <1>1 DEF Channels
      <4> QED
        BY <4>1, <4>2, <2>3, <1>2 DEF Spacious
    <3>2. CASE ~(wchan < Chans)
      <4>1. wchan' = 1 /\ (jwriter' = "write" => least >= RowBytes)
        BY <3>2, <1>1, <2>4
      <4>2. \A c \in Channels : c <= wchan /\ ~(c < 1)
        BY <3>2, <1>1 DEF Channels
      <4>3. jwriter' = "write" => \A c \in Channels : RowBytes <= RingBytes - Len(ring[c])
        BY <4>1, <4>2, <2>1, <2>3, <1>1
      <4> QED
        BY <4>1, <4>2, <4>3, <1>2 DEF Spacious
    <3> QED
      BY <3>1, <3>2
  <2> QED
    BY <1>3, <2>6, <2>7, <2>8 DEF JInv
<1> QED
  BY <1>4, <1>5

LEMMA ReaderLooks ==
  ASSUME JInv, process_cb \/ ReadSpace \/ shutdown_cb
  PROVE  JInv'
<1>1. /\ JTypes /\ Chans \in Nat /\ RingBytes \in Nat /\ Cycle \in Nat /\ pchan \in Channels
      /\ pavail \in Nat /\ 1 \in Channels
      /\ \A c \in Channels : Len(ring[c]) \in Nat /\ Len(jheard[c]) \in Nat
  BY JackNumbers DEF JInv, JTypes, Channels
<1>2. UNCHANGED <<ring, writer, jheard>>
  BY DEF process_cb, ReadSpace, shutdown_cb, writer, process
<1>3. InOrder' /\ Spacious' /\ Complete'
  BY <1>2 DEF JInv, InOrder, Spacious, Complete, Put, Written, writer, StreamByte, ByteOf
<1>4. CASE process_cb \/ shutdown_cb
  <2>1. JTypes' /\ jprocess # "read" /\ jprocess' # "read"
    BY <1>1, <1>2, <1>4 DEF JTypes, process_cb, shutdown_cb, writer, process
  <2>2. jprocess' = "measure" => pchan' = 1
    BY <1>4 DEF process_cb, shutdown_cb, process
  <2>3. Measured'
    BY <2>1, <2>2 DEF Measured, Channels
  <2>4. Together'
    BY <1>2, <2>1 DEF JInv, Together
  <2> QED
    BY <1>3, <2>1, <2>3, <2>4 DEF JInv
<1>5. CASE ReadSpace
  <2> DEFINE least == AtMost(pavail, Len(ring[pchan]))
  <2>1. least \in Nat /\ least <= pavail /\ least <= Len(ring[pchan])
    BY <1>1 DEF AtMost
  <2>2. \A c \in Channels : c < pchan => pavail <= Len(ring[c])
    BY <1>5 DEF JInv, Measured, ReadSpace
  <2>3. \A c \in Channels : c <= pchan => least <= Len(ring[c])
    BY <1>1, <2>1, <2>2 DEF Channels
  <2>4. /\ SampleSize * AtMost(least \div SampleSize, Cycle) \in Nat
        /\ SampleSize * AtMost(least \div SampleSize, Cycle) <= least
    <3>1. \A k \in Nat : k \div 4 \in Nat /\ 4 * (k \div 4) <= k
      OBVIOUS
    <3>2. least \div 4 \in Nat /\ 4 * (least \div 4) <= least
      BY <2>1, <3>1
    <3> DEFINE m == AtMost(least \div 4, Cycle)
    <3>3. m \in Nat /\ m <= least \div 4
      <4> DEFINE k == least \div 4
      <4>1. k \in Nat /\ Cycle \in Nat
        BY <1>1, <3>2
      <4> HIDE DEF k
      <4>2. AtMost(k, Cycle) \in Nat /\ AtMost(k, Cycle) <= k
        BY <4>1 DEF AtMost
      <4> QED
        BY <4>2 DEF k
    <3> HIDE DEF m, least
    <3>4. 4 * m \in Nat /\ 4 * m <= least
      BY <2>1, <3>2, <3>3
    <3> QED
      BY <3>4 DEF m, SampleSize
  <2>5. \/ pchan < Chans /\ pavail' = least /\ pchan' = pchan + 1 /\ jprocess' = "measure"
        \/ pchan = Chans /\ pavail' = SampleSize * AtMost(least \div SampleSize, Cycle) /\ pchan' = 1 /\ jprocess' = "read"
    BY <1>1, <1>5 DEF ReadSpace, Channels
  <2> HIDE DEF least
  <2>6. JTypes'
    <3>1. pavail' \in Nat /\ pchan' \in Channels /\ jprocess' \in {"measure", "read"}
      BY <1>1, <2>1, <2>4, <2>5 DEF Channels
    <3> QED
      BY <3>1, <1>1, <1>2 DEF JTypes, writer
  <2>7. Measured'
    <3>1. CASE pchan < Chans
      <4>1. pavail' = least /\ pchan' = pchan + 1 /\ jprocess' = "measure"
        BY <3>1, <1>1, <2>5
      <4>2. \A c \in Channels : c < pchan + 1 => c <= pchan
        BY <1>1 DEF Channels
      <4> QED
        BY <4>1, <4>2, <2>3, <1>2 DEF Measured
    <3>2. CASE ~(pchan < Chans)
      <4>1. pavail' <= least /\ pavail' \in Nat /\ jprocess' = "read"
        BY <3>2, <1>1, <2>4, <2>5
      <4>2. \A c \in Channels : c <= pchan
        BY <3>2, <1>1 DEF Channels
      <4>3. \A c \in Channels : pavail' <= Len(ring[c])
        BY <4>1, <4>2, <2>1, <2>3, <1>1
      <4> QED
        BY <4>1, <4>3, <1>2 DEF Measured
    <3> QED
      BY <3>1, <3>2
  <2>8. Together'
    <3>1. jprocess # "read"
      BY <1>5 DEF ReadSpace
    <3>2. \A c, d \in Channels : Len(jheard[c]) = Len(jheard[d])
      BY <3>1, <1>1 DEF JInv, Together
    <3>3. \A c \in Channels : ~(jprocess' = "read" /\ c < pchan')
      BY <1>1, <2>5 DEF Channels
    <3> QED
      BY <3>2, <3>3, <1>1, <1>2 DEF Together
  <2> QED
    BY <1>3, <2>6, <2>7, <2>8 DEF JInv
<1> QED
  BY <1>4, <1>5

LEMMA WriterWrites ==
  ASSUME JInv, WriteChannel
  PROVE  JInv'
<1> DEFINE r == ring[wchan]
           t == Deinterleaved(wchan)
<1>1. /\ JTypes /\ jwriter = "write" /\ wchan \in Channels /\ r \in Seq(Int) /\ jsent \in Nat
      /\ Len(r) + RowBytes <= RingBytes /\ Len(r) \in Nat
      /\ RowBytes \in Nat /\ RingBytes \in Nat /\ Chans \in Nat
  BY JackNumbers DEF JInv, JTypes, Spacious, WriteChannel, Channels
<1>2. AtMost(RingBytes - Len(r), RowBytes) = RowBytes
  BY <1>1 DEF AtMost
<1>3. /\ t \in Seq(Int) /\ Len(t) = RowBytes
      /\ WholeFrames => \A j \in 1..RowBytes : t[j] = StreamByte(wchan, Written + j)
  BY <1>1, DeinterleavedFacts
<1>4. ring' = [ring EXCEPT ![wchan] = r \o t]
  BY <1>1, <1>2, DeinterleavedFacts DEF WriteChannel
<1> HIDE DEF t
<1>5. /\ r \o t \in Seq(Int) /\ Len(r \o t) = Len(r) + RowBytes
      /\ \A i \in 1..Len(r) : (r \o t)[i] = r[i]
      /\ \A i \in 1..RowBytes : (r \o t)[Len(r) + i] = t[i]
  BY <1>1, <1>3, ConcatFacts
<1>6. /\ ring'[wchan] = r \o t
      /\ \A c \in Channels : c # wchan => ring'[c] = ring[c]
      /\ \A c \in Channels : ring[c] \in Seq(Int) /\ Len(ring[c]) \in Nat
      /\ \A c \in Channels : ring'[c] \in Seq(Int) /\ Len(ring'[c]) \in Nat /\ Len(ring'[c]) >= Len(ring[c])
  <2>1. \A c \in Channels : ring[c] \in Seq(Int) /\ Len(ring[c]) \in Nat
    BY <1>1 DEF JTypes
  <2>2. ring'[wchan] = r \o t /\ \A c \in Channels : c # wchan => ring'[c] = ring[c]
    BY <1>1, <1>4 DEF JTypes
  <2>3. Len(r \o t) \in Nat /\ Len(r \o t) >= Len(r)
    BY <1>1, <1>5
  <2> QED
    <3>1. ASSUME NEW c \in Channels
          PROVE  ring'[c] \in Seq(Int) /\ Len(ring'[c]) \in Nat /\ Len(ring'[c]) >= Len(ring[c])
      <4>1. CASE c = wchan
        BY <4>1, <1>5, <2>2, <2>3
      <4>2. CASE c # wchan
        <5>1. Len(ring[c]) >= Len(ring[c])
          BY <2>1
        <5> QED
          BY <4>2, <5>1, <2>1, <2>2
      <4> QED
        BY <4>1, <4>2
    <3> QED
      BY <3>1, <2>1, <2>2
<1>7. process' = process /\ wavail' = wavail
  BY DEF WriteChannel
<1>8. JTypes'
  <2>1. ring' \in [Channels -> Seq(Int)]
    BY <1>1, <1>4, <1>5 DEF JTypes
  <2> QED
    <3>1. wchan' \in Channels /\ jwriter' \in {"write", "idle"} /\ jsent' \in Nat
      BY <1>1 DEF WriteChannel, Channels
    <3> QED
      BY <1>1, <1>7, <2>1, <3>1 DEF JTypes, process
<1>9. Len(jheard[wchan]) + Len(r) = Written /\ Len(jheard[wchan]) \in Nat /\ Written \in Nat
  BY <1>1 DEF JInv, Complete, Put, Written, JTypes, Channels
<1>15. /\ wchan < Chans => Written' = Written
       /\ ~(wchan < Chans) => Written' = Written + RowBytes
  <2>1. \A k \in Nat : (k + 1) * RowBytes = (k * RowBytes) + RowBytes
    BY JackNumbers
  <2>2. wchan < Chans => jsent' = jsent
    BY DEF WriteChannel
  <2>3. ~(wchan < Chans) => jsent' = jsent + 1
    BY DEF WriteChannel
  <2> QED
    BY <1>1, <2>1, <2>2, <2>3 DEF Written
<1>10. InOrder'
  <2> SUFFICES ASSUME WholeFrames, NEW c \in Channels
               PROVE  /\ \A i \in 1..Len(jheard[c]) : jheard[c][i] = StreamByte(c, i)
                      /\ \A i \in 1..Len(ring'[c]) : ring'[c][i] = StreamByte(c, Len(jheard[c]) + i)
    BY <1>7 DEF InOrder, process, StreamByte, ByteOf
  <2>1. CASE c # wchan
    BY <2>1, <1>6 DEF JInv, InOrder
  <2>2. CASE c = wchan
    <3> SUFFICES ASSUME NEW i \in 1..Len(ring'[c])
                 PROVE  ring'[c][i] = StreamByte(c, Len(jheard[c]) + i)
      BY <2>2 DEF JInv, InOrder
    <3>1. CASE i <= Len(r)
      <4>1. i \in 1..Len(r)
        BY <3>1, <2>2, <1>1, <1>5, <1>6
      <4>2. ring'[c][i] = r[i]
        BY <4>1, <2>2, <1>5, <1>6
      <4> QED
        BY <4>1, <4>2, <2>2 DEF JInv, InOrder
    <3>2. CASE i > Len(r)
      <4> DEFINE j == i - Len(r)
      <4>1. j \in 1..RowBytes /\ Len(r) + j = i
        BY <3>2, <2>2, <1>1, <1>5, <1>6
      <4>2. Len(jheard[c]) + i = Written + j
        <5>1. Len(jheard[wchan]) + i = Written + j
          <6> DEFINE l == Len(r)
                     k == Len(jheard[wchan])
          <6>1. l \in Int /\ j \in Int /\ i \in Int /\ k \in Int /\ Written \in Int
            BY <1>1, <1>9
          <6>2. l + j = i /\ k + l = Written
            BY <4>1, <1>9
          <6> HIDE DEF j, l, k
          <6>3. k + i = Written + j
            BY <6>1, <6>2
          <6> QED
            BY <6>3 DEF k
        <5> QED
          BY <5>1, <2>2
      <4> HIDE DEF j
      <4>3. ring'[c][i] = t[j]
        BY <4>1, <2>2, <1>5, <1>6
      <4> QED
        BY <4>1, <4>2, <4>3, <1>3, <2>2
    <3> QED
      BY <3>1, <3>2, <1>1
  <2> QED
    BY <2>1, <2>2
<1>11. Complete'
  <2> SUFFICES ASSUME NEW c \in Channels
               PROVE  Len(jheard[c]) + Len(ring'[c]) = Put(c)'
    BY <1>7 DEF Complete, process
  <2>1. Len(jheard[c]) + Len(ring[c]) = Put(c) /\ Len(jheard[c]) \in Nat /\ Len(ring[c]) \in Nat
    BY <1>1 DEF JInv, Complete, JTypes
  <2>2. Len(ring'[c]) = IF c = wchan THEN Len(ring[c]) + RowBytes ELSE Len(ring[c])
    BY <1>5, <1>6
  <2>3. CASE wchan < Chans
    <3>1. wchan' = wchan + 1 /\ jwriter' = "write" /\ Written' = Written
      BY <2>3, <1>1, <1>15 DEF WriteChannel
    <3>2. c < wchan + 1 <=> c < wchan \/ c = wchan
      BY <1>1 DEF Channels
    <3>3. Put(c)' = (IF c < wchan + 1 THEN Written + RowBytes ELSE Written + 0)
      BY <3>1 DEF Put
    <3>4. Put(c) = (IF c < wchan THEN Written + RowBytes ELSE Written + 0) /\ ~(wchan < wchan)
      BY <1>1 DEF Put, Written, Channels
    <3>5. CASE c = wchan
      <4>1. Len(jheard[c]) + Len(ring[c]) = Written /\ Len(ring'[c]) = Len(ring[c]) + RowBytes
        <5>1. Written + 0 = Written
          BY <1>9
        <5>2. Put(c) = Written
          BY <5>1, <3>4, <3>5
        <5> QED
          BY <5>2, <3>5, <2>1, <2>2
      <4>2. Put(c)' = Written + RowBytes
        BY <3>2, <3>3, <3>4, <3>5
      <4>3. Len(jheard[c]) + (Len(ring[c]) + RowBytes) = (Len(jheard[c]) + Len(ring[c])) + RowBytes
        <5>1. Len(jheard[c]) \in Int /\ Len(ring[c]) \in Int /\ RowBytes \in Int
          BY <2>1, <1>1
        <5> QED
          BY <5>1, Moved
      <4> QED
        BY <4>1, <4>2, <4>3
    <3>6. CASE c # wchan
      BY <3>2, <3>3, <3>4, <3>6, <2>1, <2>2, <1>1
    <3> QED
      BY <3>5, <3>6
  <2>4. CASE ~(wchan < Chans)
    <3>1. wchan' = 1 /\ jwriter' = "idle" /\ Written' = Written + RowBytes /\ wchan = Chans
      BY <2>4, <1>1, <1>15 DEF WriteChannel, Channels
    <3>2. c < wchan \/ c = wchan
      BY <3>1, <1>1 DEF Channels
    <3>3. Put(c)' = Written + RowBytes
      BY <3>1, <1>1 DEF Put
    <3>4. Put(c) = (IF c < wchan THEN Written + RowBytes ELSE Written + 0) /\ ~(wchan < wchan)
      BY <1>1 DEF Put, Written, Channels
    <3>5. CASE c = wchan
      <4>1. Len(jheard[c]) + Len(ring[c]) = Written /\ Len(ring'[c]) = Len(ring[c]) + RowBytes
        <5>1. Written + 0 = Written
          BY <1>9
        <5>2. Put(c) = Written
          BY <5>1, <3>4, <3>5
        <5> QED
          BY <5>2, <3>5, <2>1, <2>2
      <4>2. Put(c)' = Written + RowBytes
        BY <3>3, <3>4, <3>5
      <4>3. Len(jheard[c]) + (Len(ring[c]) + RowBytes) = (Len(jheard[c]) + Len(ring[c])) + RowBytes
        <5>1. Len(jheard[c]) \in Int /\ Len(ring[c]) \in Int /\ RowBytes \in Int
          BY <2>1, <1>1
        <5> QED
          BY <5>1, Moved
      <4> QED
        BY <4>1, <4>2, <4>3
    <3>6. CASE c # wchan
      BY <3>2, <3>3, <3>4, <3>6, <2>1, <2>2, <1>1
    <3> QED
      BY <3>5, <3>6
  <2> QED
    BY <2>3, <2>4
<1>12. Spacious'
  <2>1. CASE wchan < Chans
    <3>1. wchan' = wchan + 1 /\ jwriter' = "write"
      BY <2>1, <1>1 DEF WriteChannel
    <3>2. \A c \in Channels : c >= wchan + 1 => c # wchan /\ c >= wchan
      BY <1>1 DEF Channels
    <3>3. \A c \in Channels : c >= wchan + 1 => RowBytes <= RingBytes - Len(ring'[c])
      BY <3>2, <1>1, <1>6 DEF JInv, Spacious
    <3> QED
      BY <3>1, <3>3 DEF Spacious
  <2>2. CASE ~(wchan < Chans)
    BY <2>2 DEF WriteChannel, Spacious
  <2> QED
    BY <2>1, <2>2
<1>13. Measured'
  <2>1. pavail \in Nat
    BY <1>1 DEF JTypes
  <2> QED
    BY <2>1, <1>6, <1>7 DEF JInv, Measured, process
<1>14. Together'
  BY <1>7 DEF JInv, Together, process
<1> QED
  BY <1>8, <1>10, <1>11, <1>12, <1>13, <1>14 DEF JInv

LEMMA ReaderReads ==
  ASSUME JInv, ReadChannel
  PROVE  JInv'
<1> DEFINE r == ring[pchan]
           n == pavail
           h == jheard[pchan]
<1>1. /\ JTypes /\ jprocess = "read" /\ pchan \in Channels /\ r \in Seq(Int) /\ h \in Seq(Int)
      /\ Len(r) \in Nat /\ Len(h) \in Nat /\ n \in 0..Len(r) /\ Chans \in Nat
  BY JackNumbers DEF JInv, JTypes, Measured, ReadChannel, Channels
<1>2. AtMost(pavail, Len(r)) = n
  BY <1>1 DEF AtMost
<1>3. /\ ring' = [ring EXCEPT ![pchan] = SubSeq(r, n + 1, Len(r))]
      /\ jheard' = [jheard EXCEPT ![pchan] = h \o SubSeq(r, 1, n)]
  BY <1>2 DEF ReadChannel
<1> DEFINE q == SubSeq(r, n + 1, Len(r))
           t == SubSeq(r, 1, n)
<1>4. q \in Seq(Int) /\ Len(q) = Len(r) - n /\ \A i \in 1..(Len(r) - n) : q[i] = r[n + i]
  BY <1>1, RestFacts
<1>5. t \in Seq(Int) /\ Len(t) = n /\ \A i \in 1..n : t[i] = r[i]
  BY <1>1, HeadFacts
<1>6. ring' = [ring EXCEPT ![pchan] = q] /\ jheard' = [jheard EXCEPT ![pchan] = h \o t]
  BY <1>3
<1> HIDE DEF q, t, n
<1>7. /\ h \o t \in Seq(Int) /\ Len(h \o t) = Len(h) + n
      /\ \A i \in 1..Len(h) : (h \o t)[i] = h[i]
      /\ \A i \in 1..n : (h \o t)[Len(h) + i] = t[i]
  BY <1>1, <1>5, ConcatFacts
<1>8. /\ ring'[pchan] = q /\ jheard'[pchan] = h \o t
      /\ \A c \in Channels : c # pchan => ring'[c] = ring[c] /\ jheard'[c] = jheard[c]
      /\ \A c \in Channels : Len(ring[c]) \in Nat /\ Len(jheard[c]) \in Nat
  BY <1>1, <1>6 DEF JTypes
<1>9. \A c \in Channels : /\ Len(ring'[c]) = IF c = pchan THEN Len(ring[c]) - n ELSE Len(ring[c])
                          /\ Len(jheard'[c]) = IF c = pchan THEN Len(jheard[c]) + n ELSE Len(jheard[c])
  BY <1>4, <1>7, <1>8
<1>10. writer' = writer /\ pavail' = pavail /\ n = pavail
  BY DEF ReadChannel, n
<1>11. JTypes'
  <2>1. ring' \in [Channels -> Seq(Int)] /\ jheard' \in [Channels -> Seq(Int)]
    BY <1>1, <1>4, <1>6, <1>7 DEF JTypes
  <2>2. pchan' \in Channels /\ jprocess' \in {"idle", "measure", "read"}
    BY <1>1 DEF ReadChannel, Channels
  <2> QED
    BY <1>1, <1>10, <2>1, <2>2 DEF JTypes, writer
<1>12. InOrder'
  <2> SUFFICES ASSUME WholeFrames, NEW c \in Channels
               PROVE  /\ \A i \in 1..Len(jheard'[c]) : jheard'[c][i] = StreamByte(c, i)
                      /\ \A i \in 1..Len(ring'[c]) : ring'[c][i] = StreamByte(c, Len(jheard'[c]) + i)
    BY DEF InOrder, StreamByte, ByteOf
  <2>1. CASE c # pchan
    BY <2>1, <1>8 DEF JInv, InOrder
  <2>2. CASE c = pchan
    <3>1. /\ \A i \in 1..Len(h) : h[i] = StreamByte(c, i)
          /\ \A i \in 1..Len(r) : r[i] = StreamByte(c, Len(h) + i)
      BY <2>2 DEF JInv, InOrder
    <3>2. ASSUME NEW i \in 1..(Len(h) + n) PROVE (h \o t)[i] = StreamByte(c, i)
      <4>1. CASE i <= Len(h)
        BY <4>1, <3>1, <1>1, <1>7
      <4>2. CASE i > Len(h)
        <5> DEFINE j == i - Len(h)
        <5>1. j \in 1..n /\ j \in 1..Len(r) /\ Len(h) + j = i
          BY <4>2, <1>1
        <5> HIDE DEF j
        <5> QED
          BY <5>1, <3>1, <1>5, <1>7
      <4>3. i <= Len(h) \/ i > Len(h)
        <5>1. i \in Int /\ Len(h) \in Int
          BY <1>1
        <5> HIDE DEF h
        <5> QED
          BY <5>1
      <4> QED
        BY <4>1, <4>2, <4>3
    <3>3. ASSUME NEW i \in 1..(Len(r) - n) PROVE q[i] = StreamByte(c, Len(h) + n + i)
      <4>1. n + i \in 1..Len(r) /\ Len(h) + (n + i) = Len(h) + n + i
        <5>1. \A a, b, k \in Nat : \A x \in 1..(a - b) : b + x \in 1..a /\ k + (b + x) = k + b + x
          OBVIOUS
        <5>2. n \in Nat
          BY <1>1
        <5> QED
          BY <5>1, <5>2, <1>1
      <4> QED
        BY <4>1, <3>1, <1>4
    <3> HIDE DEF h, r
    <3>4. jheard'[c] = h \o t /\ ring'[c] = q
      BY <2>2, <1>8
    <3>5. /\ Len(jheard'[c]) = Len(h) + n
          /\ Len(ring'[c]) = Len(r) - n
      BY <3>4, <1>4, <1>7
    <3>6. \A i \in 1..Len(jheard'[c]) : jheard'[c][i] = StreamByte(c, i)
      BY <3>2, <3>4, <3>5
    <3>7. \A i \in 1..Len(ring'[c]) : ring'[c][i] = StreamByte(c, Len(jheard'[c]) + i)
      BY <3>3, <3>4, <3>5
    <3> QED
      BY <3>6, <3>7
  <2> QED
    BY <2>1, <2>2
<1>13. Complete'
  <2>1. \A c \in Channels : Put(c)' = Put(c)
    BY <1>10 DEF Put, Written, writer
  <2>2. \A c \in Channels : Len(jheard'[c]) + Len(ring'[c]) = Len(jheard[c]) + Len(ring[c])
    <3> SUFFICES ASSUME NEW c \in Channels
                 PROVE  Len(jheard'[c]) + Len(ring'[c]) = Len(jheard[c]) + Len(ring[c])
      OBVIOUS
    <3>1. CASE c = pchan
      <4>1. Len(ring'[c]) = Len(ring[c]) - n /\ Len(jheard'[c]) = Len(jheard[c]) + n
        BY <3>1, <1>9
      <4>2. n \in Int /\ Len(ring[c]) \in Int /\ Len(jheard[c]) \in Int
        BY <1>1, <1>8
      <4>3. (Len(jheard[c]) + n) + (Len(ring[c]) - n) = Len(jheard[c]) + Len(ring[c])
        BY <4>2, Moved
      <4> QED
        BY <4>1, <4>3
    <3>2. CASE c # pchan
      BY <3>2, <1>8
    <3> QED
      BY <3>1, <3>2
  <2> QED
    BY <2>1, <2>2 DEF JInv, Complete
<1>14. Spacious'
  <2>1. \A c \in Channels : Len(ring'[c]) <= Len(ring[c]) /\ Len(ring'[c]) \in Int
    <3>1. \A a, k \in Nat : a - k <= a /\ a - k \in Int /\ a <= a
      OBVIOUS
    <3>2. n \in Nat
      BY <1>1
    <3> QED
      BY <3>1, <3>2, <1>8, <1>9
  <2>2. RingBytes \in Int /\ RowBytes \in Int /\ wavail \in Int
    BY <1>1, JackNumbers DEF JTypes
  <2> QED
    <3>1. jwriter' = jwriter /\ wchan' = wchan /\ wavail' = wavail
      BY <1>10 DEF writer
    <3>2. \A c \in Channels : /\ wavail <= RingBytes - Len(ring[c]) => wavail <= RingBytes - Len(ring'[c])
                              /\ RowBytes <= RingBytes - Len(ring[c]) => RowBytes <= RingBytes - Len(ring'[c])
      <4>1. \A a, b, v, x \in Int : b <= a /\ v <= x - a => v <= x - b
        OBVIOUS
      <4>2. \A c \in Channels : Len(ring[c]) \in Int
        BY <1>8
      <4> QED
        BY <4>1, <4>2, <2>1, <2>2
    <3> QED
      BY <3>1, <3>2 DEF JInv, Spacious
<1>17. /\ n \in Int /\ Len(h) \in Int
       /\ \A c \in Channels : Len(jheard'[c]) = IF c < pchan \/ c = pchan THEN Len(h) + n ELSE Len(h)
  <2> SUFFICES ASSUME NEW c \in Channels
               PROVE  Len(jheard'[c]) = IF c < pchan \/ c = pchan THEN Len(h) + n ELSE Len(h)
    <3>1. n \in Int
      BY <1>1
    <3>2. Len(h) \in Int
      BY <1>1
    <3> HIDE DEF h
    <3> QED
      BY <3>1, <3>2
  <2>1. Len(jheard[c]) - (IF c < pchan THEN n ELSE 0) = Len(h) - 0
    <3>1. ~(pchan < pchan)
      BY <1>1 DEF Channels
    <3> QED
      BY <3>1, <1>1, <1>10 DEF JInv, Together
  <2>2. Len(jheard[c]) \in Int /\ Len(h) \in Int /\ n \in Int /\ ~(pchan < pchan)
    BY <1>1, <1>8 DEF Channels
  <2>3. Len(jheard'[c]) = IF c = pchan THEN Len(h) + n ELSE Len(jheard[c])
    BY <1>9
  <2> HIDE DEF h
  <2> QED
    BY <2>1, <2>2, <2>3
<1> HIDE DEF h
<1>15. CASE pchan < Chans
  <2>1. pchan' = pchan + 1 /\ jprocess' = "read"
    BY <1>1, <1>15 DEF ReadChannel
  <2>2. Measured'
    <3>1. \A c \in Channels : c >= pchan + 1 => c # pchan /\ c >= pchan
      BY <1>1 DEF Channels
    <3> QED
      BY <3>1, <2>1, <1>1, <1>8, <1>10 DEF JInv, Measured
  <2>3. \A c \in Channels : c < pchan + 1 <=> c < pchan \/ c = pchan
    BY <1>1 DEF Channels
  <2>4. Together'
    <3>1. ASSUME NEW c \in Channels
          PROVE  Len(jheard'[c]) - (IF jprocess' = "read" /\ c < pchan' THEN pavail' ELSE 0) = Len(h)
      <4>1. CASE c < pchan + 1
        <5>1. Len(jheard'[c]) = Len(h) + n
          BY <4>1, <2>3, <1>17
        <5>2. (Len(h) + n) - n = Len(h)
          BY <1>17
        <5> QED
          BY <4>1, <5>1, <5>2, <2>1, <1>10
      <4>2. CASE ~(c < pchan + 1)
        <5>1. Len(jheard'[c]) = Len(h)
          BY <4>2, <2>3, <1>17
        <5>2. Len(h) - 0 = Len(h)
          BY <1>17
        <5> QED
          BY <4>2, <5>1, <5>2, <2>1
      <4> QED
        BY <4>1, <4>2
    <3> QED
      BY <3>1 DEF Together
  <2> QED
    BY <2>2, <2>4, <1>11, <1>12, <1>13, <1>14 DEF JInv
<1>16. CASE ~(pchan < Chans)
  <2>1. pchan' = 1 /\ jprocess' = "idle" /\ pchan = Chans
    BY <1>1, <1>16 DEF ReadChannel, Channels
  <2>2. Measured'
    BY <2>1 DEF Measured
  <2>3. \A c \in Channels : c < pchan \/ c = pchan
    BY <2>1, <1>1 DEF Channels
  <2>4. Together'
    BY <2>1, <2>3, <1>17, <1>8, <1>10 DEF Together
  <2> QED
    BY <2>2, <2>4, <1>11, <1>12, <1>13, <1>14 DEF JInv
<1> QED
  BY <1>15, <1>16

LEMMA JNextInv == JInv /\ [JNext]_jvars => JInv'
<1> SUFFICES ASSUME JInv, [JNext]_jvars PROVE JInv'
  OBVIOUS
<1>1. CASE UNCHANGED jvars
  BY <1>1 DEF jvars, JInv, JTypes, InOrder, Put, Written, Complete, Spacious, Measured, Together, StreamByte, ByteOf
<1> QED
  BY <1>1, WriterLooks, ReaderLooks, WriterWrites, ReaderReads DEF JNext

LEMMA InvTogether == JInv => JHeardTogether
<1> SUFFICES ASSUME JInv PROVE JHeardTogether
  OBVIOUS
<1>1. 1 \in Channels
  BY JackNumbers DEF Channels
<1>2. \A c \in Channels : Len(jheard[c]) \in Nat /\ Len(ring[c]) \in Nat
  BY DEF JInv, JTypes
<1>3. WholeFrames => \A c \in Channels : \A i \in 1..Len(jheard[c]) : jheard[c][i] = StreamByte(c, i)
  BY DEF JInv, InOrder
<1>4. jprocess = "idle" => \A c \in Channels : Len(jheard[c]) = Len(jheard[1])
  BY <1>1, <1>2 DEF JInv, Together
<1>5. jwriter = "idle" => \A c \in Channels : Len(jheard[c]) + Len(ring[c]) = jsent * RowBytes
  <2>1. Written + 0 = Written
    BY JackNumbers DEF JInv, JTypes, Written
  <2>2. jwriter = "idle" => \A c \in Channels : Put(c) = Written + 0
    BY DEF Put
  <2> QED
    BY <2>1, <2>2 DEF JInv, Complete, Written
<1> QED
  BY <1>3, <1>4, <1>5 DEF JHeardTogether, Channels

-----------------------------------------------------------------------------
(***************************************************************************)
(* CoreAudio.  The ring is a whole number of chunks, so a chunk starts at   *)
(* a multiple of ChunkSize and no copy into the ring wraps; only then is    *)
(* every byte put where it is looked for (Copied: a copy that wrapped would *)
(* take its second part from beyond the chunk).                             *)
(***************************************************************************)
InWrite == ca_writer \in {"write", "wait"}

\* What a call has written so far.
Into == IF InWrite THEN buf ELSE 0

\* Where offset k of the ring is, for less than two turns.
Wrapped(k) == IF k < BufferSize THEN k ELSE k - BufferSize

\* Where a chunk may start.
IsStart(s) == s \in 0..(BufferSize - 1) /\ \E p \in Nat : s = ChunkSize * p

CATypes ==
  /\ ca_buffer \in [0..(BufferSize - 1) -> Int] /\ ca_heard \in Seq(Int)
  /\ read_ptr \in 0..(BufferSize - 1) /\ valid_size \in 0..BufferSize
  /\ ca_writer \in {"idle", "write", "wait", "closed"}
  /\ size \in Nat /\ buf \in Nat /\ ca_sent \in Nat
  /\ InWrite => size > 0 /\ size + buf = ChunkSize

\* The ring holds what follows what was played.
Holds ==
  \A k \in 0..(valid_size - 1) : ca_buffer[Wrapped(read_ptr + k)] = Len(ca_heard) + k + 1

\* The next byte goes behind what this call has written.
OnStart == \E s \in 0..(BufferSize - 1) : IsStart(s) /\ Wrapped(read_ptr + valid_size) = s + Into

CAInv == CATypes /\ CAHeardInOrder /\ Holds /\ OnStart

\* The driver's sizes are positive.
LEMMA CASizes == BufferSize \in Nat \ {0} /\ ChunkSize \in Nat \ {0}
  BY CoreAudioAssumption

\* Less than two turns round the ring are what the modulus says they are.
LEMMA WrapFacts ==
  ASSUME NEW a \in Nat, a < 2 * BufferSize
  PROVE  a % BufferSize = Wrapped(a) /\ Wrapped(a) \in 0..(BufferSize - 1)
<1> DEFINE b == BufferSize
<1>1. b \in Nat \ {0} /\ a < 2 * b
  BY CASizes
<1> HIDE DEF b
<1>2. a % b = IF a < b THEN a ELSE a - b
  BY <1>1
<1>3. (IF a < b THEN a ELSE a - b) \in 0..(b - 1)
  BY <1>1
<1> QED
  BY <1>2, <1>3 DEF b, Wrapped

\* A multiple that is below another one is below it by a whole unit.
LEMMA NextMultiple ==
  ASSUME NEW p \in Nat, NEW q \in Int, NEW c \in Nat \ {0}, c * p < c * q
  PROVE  c * p + c <= c * q
<1>1. CASE q <= p
  <2>1. PICK d \in Nat : p = q + d
    <3>1. p - q \in Nat /\ p = q + (p - q)
      BY <1>1
    <3> QED
      BY <3>1
  <2>2. c * p = c * q + c * d /\ c * d \in Nat
    BY <2>1
  <2> QED
    BY <2>2
<1>2. CASE p < q
  <2>1. PICK d \in Nat : q = p + 1 + d
    <3>1. q - p - 1 \in Nat /\ q = p + 1 + (q - p - 1)
      BY <1>2
    <3> QED
      BY <3>1
  <2>2. c * q = c * p + c + c * d /\ c * d \in Nat
    BY <2>1
  <2> QED
    BY <2>2
<1> QED
  BY <1>1, <1>2

\* From where a chunk may start it fits before the end of the ring, and where
\* it ends the next one may start.
LEMMA NextStart ==
  ASSUME NEW s, IsStart(s)
  PROVE  /\ s + ChunkSize \in 1..BufferSize
         /\ IsStart(Wrapped(s + ChunkSize))
<1>1. PICK p \in Nat : s = ChunkSize * p
  BY DEF IsStart
<1>2. s \in Nat /\ s < BufferSize
  BY CASizes DEF IsStart
<1>3. \E q \in Int : BufferSize = ChunkSize * q
  <2> DEFINE q == BufferSize \div ChunkSize
  <2>1. q \in Int
    BY CASizes
  <2>2. BufferSize = ChunkSize * q
    BY CASizes, CoreAudioAssumption
  <2> QED
    BY <2>1, <2>2
<1>4. PICK q \in Int : BufferSize = ChunkSize * q
  BY <1>3
<1>5. s + ChunkSize <= BufferSize
  BY <1>1, <1>2, <1>4, CASizes, NextMultiple
<1>6. s + ChunkSize \in 1..BufferSize
  BY <1>2, <1>5, CASizes
<1>7. s + ChunkSize = ChunkSize * (p + 1) /\ 0 = ChunkSize * 0
  BY <1>1, CASizes
<1>8. Wrapped(s + ChunkSize) = IF s + ChunkSize < BufferSize THEN s + ChunkSize ELSE 0
  BY <1>2, <1>6, CASizes DEF Wrapped
<1>9. CASE s + ChunkSize < BufferSize
  <2>1. Wrapped(s + ChunkSize) = ChunkSize * (p + 1) /\ p + 1 \in Nat
    BY <1>7, <1>8, <1>9
  <2>2. Wrapped(s + ChunkSize) \in 0..(BufferSize - 1)
    BY <1>6, <1>8, <1>9, CASizes
  <2> QED
    BY <1>6, <2>1, <2>2 DEF IsStart
<1>10. CASE s + ChunkSize >= BufferSize
  <2>1. Wrapped(s + ChunkSize) = ChunkSize * 0 /\ 0 \in Nat /\ 0 \in 0..(BufferSize - 1)
    BY <1>7, <1>8, <1>10, <1>2, CASizes
  <2>2. Wrapped(s + ChunkSize) \in 0..(BufferSize - 1)
    BY <1>7, <2>1
  <2> QED
    BY <1>6, <2>1, <2>2 DEF IsStart
<1> QED
  BY <1>9, <1>10, <1>2, CASizes

LEMMA CAInitInv == CAInit => CAInv
<1> SUFFICES ASSUME CAInit PROVE CAInv
  OBVIOUS
<1>1. CATypes /\ CAHeardInOrder /\ Holds
  BY CASizes DEF CAInit, CATypes, CAHeardInOrder, Holds, InWrite
<1>2. IsStart(0)
  <2>1. 0 = ChunkSize * 0 /\ 0 \in Nat /\ 0 \in 0..(BufferSize - 1)
    BY CASizes
  <2> QED
    BY <2>1 DEF IsStart
<1>3. Wrapped(read_ptr + valid_size) = 0 + Into
  BY CASizes DEF CAInit, Wrapped, Into, InWrite
<1> QED
  BY <1>1, <1>2, <1>3 DEF CAInv, OnStart, IsStart

\* Steps of the writer that leave the ring alone, and the signal.
LEMMA CAOthers ==
  ASSUME CAInv, coreaudio_write \/ CondWait \/ CondSignal \/ coreaudio_close \/ UNCHANGED cavars
  PROVE  CAInv'
<1>1. UNCHANGED <<ca_buffer, ca_heard, read_ptr, valid_size, ca_sent>>
  BY DEF coreaudio_write, CondWait, CondSignal, coreaudio_close, cavars
<1>2. ca_writer' \in {"idle", "write", "wait", "closed"} /\ Into' = Into
  BY DEF CAInv, CATypes, coreaudio_write, CondWait, CondSignal, coreaudio_close, cavars, Into, InWrite
<1>3. size' \in Nat /\ buf' \in Nat /\ (InWrite' => size' > 0 /\ size' + buf' = ChunkSize)
  <2>1. CASE coreaudio_write
    BY <2>1, CASizes DEF coreaudio_write
  <2>2. CASE CondWait \/ CondSignal \/ coreaudio_close \/ UNCHANGED cavars
    BY <2>2 DEF CAInv, CATypes, CondWait, CondSignal, coreaudio_close, cavars, InWrite
  <2> QED
    BY <2>1, <2>2
<1>4. CATypes'
  BY <1>1, <1>2, <1>3 DEF CAInv, CATypes
<1>5. CAHeardInOrder'
  BY <1>1, <1>2 DEF CAInv, CAHeardInOrder, Into, InWrite
<1>6. Holds' /\ OnStart'
  BY <1>1, <1>2 DEF CAInv, Holds, OnStart, Wrapped, IsStart
<1> QED
  BY <1>4, <1>5, <1>6 DEF CAInv

\* A turn of the writer's loop: what it copies goes behind what is in the ring,
\* before the ring's end and before what is still to be read.
LEMMA CAFill ==
  ASSUME CAInv, Fill
  PROVE  CAInv'
<1> DEFINE n == IF BufferSize - valid_size > size THEN size ELSE BufferSize - valid_size
           w == Wrapped(read_ptr + valid_size)
           played == Len(ca_heard)
<1>1. /\ CATypes /\ ca_writer = "write" /\ InWrite /\ Into = buf
      /\ BufferSize \in Nat /\ ChunkSize \in Nat /\ size \in Nat /\ buf \in Nat /\ ca_sent \in Nat
      /\ read_ptr \in 0..(BufferSize - 1) /\ valid_size \in 0..BufferSize /\ played \in Nat
  BY CASizes DEF CAInv, CATypes, Fill, InWrite, Into
<1>2. /\ n \in 1..size /\ valid_size + n <= BufferSize
  BY <1>1 DEF Fill
<1>3. size + buf = ChunkSize /\ played + valid_size = ca_sent + buf
  BY <1>1 DEF CAInv, CATypes, CAHeardInOrder, InWrite
<1>4. PICK s \in 0..(BufferSize - 1) : IsStart(s) /\ w = s + buf
  BY <1>1 DEF CAInv, OnStart
<1>5. s + ChunkSize \in 1..BufferSize /\ IsStart(Wrapped(s + ChunkSize))
  BY <1>4, NextStart
<1>6. w \in 0..(BufferSize - 1) /\ w + n <= BufferSize
  BY <1>1, <1>2, <1>3, <1>4, <1>5
<1>7. (read_ptr + valid_size) % BufferSize = w
  <2>1. read_ptr + valid_size \in Nat /\ read_ptr + valid_size < 2 * BufferSize
    BY <1>1
  <2> QED
    BY <2>1, WrapFacts
<1>8. /\ ca_buffer' = Copied(w, n) /\ valid_size' = valid_size + n /\ size' = size - n /\ buf' = buf + n
      /\ IF size = n THEN ca_writer' = "idle" /\ ca_sent' = ca_sent + ChunkSize
                     ELSE UNCHANGED <<ca_writer, ca_sent>>
      /\ UNCHANGED <<read_ptr, ca_heard>>
  BY <1>7 DEF Fill
<1>9. w = IF read_ptr + valid_size < BufferSize THEN read_ptr + valid_size ELSE read_ptr + valid_size - BufferSize
  BY <1>1 DEF Wrapped
<1> HIDE DEF n, w, played
<1>10. \A i \in 0..(BufferSize - 1) :
         ca_buffer'[i] = IF i \in w..(w + n - 1) THEN ca_sent + buf + (i - w) + 1 ELSE ca_buffer[i]
  <2> SUFFICES ASSUME NEW i \in 0..(BufferSize - 1)
               PROVE  ca_buffer'[i] = IF i \in w..(w + n - 1) THEN ca_sent + buf + (i - w) + 1 ELSE ca_buffer[i]
    OBVIOUS
  <2>1. ~(w + n > BufferSize) /\ n - n = 0 /\ ~(i < 0) /\ i \in Int
    BY <1>1, <1>2, <1>6
  <2>2. ca_buffer'[i] = IF i \in w..(w + n - 1) THEN InChunk(buf + i - w) ELSE ca_buffer[i]
    BY <1>8, <2>1 DEF Copied
  <2>3. ASSUME i \in w..(w + n - 1) PROVE InChunk(buf + i - w) = ca_sent + buf + (i - w) + 1
    <3>1. buf + i - w < ChunkSize /\ ca_sent + (buf + i - w) + 1 = ca_sent + buf + (i - w) + 1
      BY <1>1, <1>2, <1>3, <1>6, <2>1, <2>3
    <3> QED
      BY <3>1 DEF InChunk
  <2> QED
    BY <2>2, <2>3
<1>11. ca_buffer' \in [0..(BufferSize - 1) -> Int]
  <2>1. \A i \in 0..(BufferSize - 1) : ca_buffer'[i] \in Int
    <3> SUFFICES ASSUME NEW i \in 0..(BufferSize - 1) PROVE ca_buffer'[i] \in Int
      OBVIOUS
    <3>1. ca_buffer[i] \in Int /\ ca_sent + buf + (i - w) + 1 \in Int
      BY <1>1, <1>6 DEF CATypes
    <3> QED
      BY <3>1, <1>10
  <2>2. ca_buffer' = [i \in 0..(BufferSize - 1) |-> ca_buffer'[i]]
    BY <1>8 DEF Copied
  <2> QED
    BY <2>1, <2>2
<1>12. valid_size' \in 0..BufferSize /\ size' \in Nat /\ buf' \in Nat /\ ca_sent' \in Nat
  BY <1>1, <1>2, <1>8
<1>13. InWrite' => size' > 0 /\ size' + buf' = ChunkSize
  BY <1>1, <1>2, <1>3, <1>8 DEF InWrite
<1>14. CATypes'
  BY <1>1, <1>8, <1>11, <1>12, <1>13 DEF CATypes
<1>15. CAHeardInOrder'
  <2>1. played + valid_size' = ca_sent' + Into'
    BY <1>1, <1>2, <1>3, <1>8 DEF Into, InWrite
  <2> QED
    BY <2>1, <1>8 DEF CAInv, CAHeardInOrder, Into, InWrite, played
<1>16. Holds'
  <2>0. read_ptr' = read_ptr /\ valid_size' = valid_size + n /\ Len(ca_heard') = played
    BY <1>8 DEF played
  <2> SUFFICES ASSUME NEW k \in 0..(valid_size' - 1)
               PROVE  ca_buffer'[Wrapped(read_ptr' + k)] = Len(ca_heard') + k + 1
    BY DEF Holds, Wrapped
  <2> SUFFICES ca_buffer'[Wrapped(read_ptr + k)] = played + k + 1
    BY <2>0
  <2>1. k \in Nat /\ k < BufferSize /\ k < valid_size + n
    BY <1>1, <1>2, <2>0
  <2>2. Wrapped(read_ptr + k) \in 0..(BufferSize - 1)
    BY <1>1, <2>1 DEF Wrapped
  <2>3. CASE k < valid_size
    <3>1. Wrapped(read_ptr + k) \notin w..(w + n - 1)
      BY <1>1, <1>2, <1>6, <1>9, <2>1, <2>3 DEF Wrapped
    <3>2. k \in 0..(valid_size - 1)
      BY <2>1, <2>3, <1>1
    <3>3. ca_buffer[Wrapped(read_ptr + k)] = played + k + 1
      BY <3>2 DEF CAInv, Holds, played
    <3> QED
      BY <2>2, <3>1, <3>3, <1>10
  <2>4. CASE k >= valid_size
    <3>1. Wrapped(read_ptr + k) = w + (k - valid_size)
      BY <1>1, <1>2, <1>6, <1>9, <2>1, <2>4 DEF Wrapped
    <3>2. w + (k - valid_size) \in w..(w + n - 1)
      BY <1>1, <1>2, <1>6, <2>1, <2>4
    <3>3. ca_sent + buf + ((w + (k - valid_size)) - w) + 1 = played + k + 1
      BY <1>1, <1>3, <1>6, <2>1
    <3> QED
      BY <2>2, <3>1, <3>2, <3>3, <1>10
  <2> QED
    BY <2>3, <2>4, <2>1, <1>1
<1>17. OnStart'
  <2>1. read_ptr' + valid_size' = read_ptr + valid_size + n
    BY <1>1, <1>2, <1>8
  <2>2. CASE size = n
    <3>1. Wrapped(read_ptr + valid_size + n) = Wrapped(s + ChunkSize)
      BY <1>1, <1>2, <1>3, <1>4, <1>6, <1>9, <2>2 DEF Wrapped
    <3>2. Into' = 0 /\ Wrapped(s + ChunkSize) \in 0..(BufferSize - 1)
      BY <1>5, <1>8, <2>2 DEF Into, InWrite, IsStart
    <3>3. Wrapped(s + ChunkSize) = Wrapped(s + ChunkSize) + 0
      BY <3>2, CASizes
    <3>4. \E t \in 0..(BufferSize - 1) : IsStart(t) /\ Wrapped(read_ptr + valid_size + n) = t + 0
      BY <3>1, <3>2, <3>3, <1>5
    <3> QED
      BY <2>1, <3>2, <3>4 DEF OnStart, Wrapped, IsStart
  <2>3. CASE size # n
    <3>1. w + n < BufferSize
      BY <1>1, <1>2, <1>3, <1>4, <1>5, <2>3
    <3>2. Wrapped(read_ptr + valid_size + n) = s + (buf + n)
      BY <1>1, <1>2, <1>4, <1>6, <1>9, <3>1 DEF Wrapped
    <3>3. Into' = buf + n
      BY <1>1, <1>8, <2>3 DEF Into, InWrite
    <3> QED
      BY <2>1, <3>2, <3>3, <1>4 DEF OnStart, Wrapped, IsStart
  <2> QED
    BY <2>2, <2>3
<1> QED
  BY <1>14, <1>15, <1>16, <1>17 DEF CAInv

\* The device takes what it asks for from the front of the ring.
LEMMA CACallback ==
  ASSUME CAInv, audio_callback
  PROVE  CAInv'
<1>1. PICK ask \in 1..MaxAsk :
        /\ IF valid_size < ask THEN UNCHANGED <<ca_heard, valid_size, read_ptr>>
           ELSE /\ ca_heard' = ca_heard \o [i \in 1..ask |-> ca_buffer[(read_ptr + i - 1) % BufferSize]]
                /\ valid_size' = valid_size - ask /\ read_ptr' = (read_ptr + ask) % BufferSize
        /\ UNCHANGED <<ca_buffer, ca_writer, size, buf, ca_sent>>
  BY DEF audio_callback
<1>2. CASE valid_size < ask
  <2>1. UNCHANGED <<ca_heard, valid_size, read_ptr, ca_buffer, ca_writer, size, buf, ca_sent>>
    BY <1>1, <1>2
  <2> QED
    BY <2>1 DEF CAInv, CATypes, CAHeardInOrder, Holds, OnStart, Into, InWrite, Wrapped, IsStart
<1>3. CASE ~(valid_size < ask)
  <2> DEFINE taken == [i \in 1..ask |-> ca_buffer[(read_ptr + i - 1) % BufferSize]]
             played == Len(ca_heard)
  <2>1. /\ CATypes /\ BufferSize \in Nat /\ ask \in Nat \ {0} /\ ask <= valid_size /\ played \in Nat
        /\ read_ptr \in 0..(BufferSize - 1) /\ valid_size \in 0..BufferSize
    BY <1>3, CASizes, CoreAudioAssumption DEF CAInv, CATypes
  <2>2. ca_heard' = ca_heard \o taken /\ valid_size' = valid_size - ask
    BY <1>1, <1>3
  <2>3. read_ptr' = Wrapped(read_ptr + ask) /\ read_ptr' \in 0..(BufferSize - 1)
    <3>1. read_ptr + ask \in Nat /\ read_ptr + ask < 2 * BufferSize
      BY <2>1
    <3> QED
      BY <3>1, <1>1, <1>3, WrapFacts
  <2>4. \A i \in 1..ask : taken[i] = played + i
    <3> SUFFICES ASSUME NEW i \in 1..ask PROVE taken[i] = played + i
      OBVIOUS
    <3>1. /\ read_ptr + i - 1 \in Nat /\ read_ptr + i - 1 < 2 * BufferSize
          /\ read_ptr + i - 1 = read_ptr + (i - 1) /\ i - 1 \in 0..(valid_size - 1)
      BY <2>1
    <3>2. ca_buffer[Wrapped(read_ptr + (i - 1))] = played + (i - 1) + 1
      BY <3>1 DEF CAInv, Holds
    <3>3. (read_ptr + i - 1) % BufferSize = Wrapped(read_ptr + (i - 1))
      BY <3>1, WrapFacts
    <3>4. played + (i - 1) + 1 = played + i
      BY <2>1
    <3> QED
      BY <3>2, <3>3, <3>4
  <2>5. taken \in Seq(Int) /\ Len(taken) = ask
    <3>1. taken = [i \in 1..ask |-> taken[i]]
      OBVIOUS
    <3> HIDE DEF played, taken
    <3>2. \A i \in 1..ask : taken[i] \in Int
      BY <2>1, <2>4
    <3> QED
      BY <2>1, <3>1, <3>2
  <2> HIDE DEF taken
  <2>6. /\ ca_heard' \in Seq(Int) /\ Len(ca_heard') = played + ask
        /\ \A i \in 1..Len(ca_heard) : ca_heard'[i] = ca_heard[i]
        /\ \A i \in 1..Len(taken) : ca_heard'[Len(ca_heard) + i] = taken[i]
    BY <2>1, <2>2, <2>5, ConcatFacts DEF CATypes
  <2> HIDE DEF played
  <2>7. valid_size - ask \in 0..BufferSize
    BY <2>1
  <2>8. CATypes'
    BY <1>1, <2>1, <2>2, <2>3, <2>6, <2>7 DEF CATypes, InWrite
  <2>9. \A i \in 1..(played + ask) : ca_heard'[i] = i
    <3> SUFFICES ASSUME NEW i \in 1..(played + ask) PROVE ca_heard'[i] = i
      OBVIOUS
    <3>1. CASE i <= played
      <4>1. i \in 1..Len(ca_heard)
        BY <3>1, <2>1 DEF played
      <4> QED
        BY <4>1, <2>6 DEF CAInv, CAHeardInOrder
    <3>2. CASE i > played
      <4>1. i - played \in 1..ask /\ played + (i - played) = i
        BY <3>2, <2>1
      <4>2. ca_heard'[played + (i - played)] = taken[i - played]
        BY <4>1, <2>5, <2>6 DEF played
      <4> QED
        BY <4>1, <4>2, <2>4
    <3> QED
      BY <3>1, <3>2, <2>1
  <2>10. CAHeardInOrder'
    <3>1. played + valid_size = ca_sent + Into
      BY DEF CAInv, CAHeardInOrder, Into, InWrite, played
    <3>2. played + ask + (valid_size - ask) = ca_sent + Into
      BY <3>1, <2>1
    <3> QED
      BY <3>2, <2>9, <2>6, <2>2, <1>1 DEF CAHeardInOrder, Into, InWrite
  <2>11. Holds'
    <3> SUFFICES ASSUME NEW k \in 0..(valid_size - ask - 1)
                 PROVE  ca_buffer'[Wrapped(read_ptr' + k)] = played + ask + k + 1
      BY <2>2, <2>6 DEF Holds, Wrapped
    <3>1. ask + k \in 0..(valid_size - 1) /\ played + (ask + k) + 1 = played + ask + k + 1
      BY <2>1
    <3>2. ca_buffer[Wrapped(read_ptr + (ask + k))] = played + (ask + k) + 1
      BY <3>1 DEF CAInv, Holds, played
    <3>3. Wrapped(Wrapped(read_ptr + ask) + k) = Wrapped(read_ptr + (ask + k))
      BY <2>1, <3>1 DEF Wrapped
    <3> QED
      BY <1>1, <2>3, <3>1, <3>2, <3>3
  <2>12. OnStart'
    <3>1. Wrapped(Wrapped(read_ptr + ask) + (valid_size - ask)) = Wrapped(read_ptr + valid_size)
      BY <2>1 DEF Wrapped
    <3>2. Wrapped(read_ptr' + valid_size') = Wrapped(read_ptr + valid_size) /\ Into' = Into
      BY <3>1, <2>2, <2>3, <1>1 DEF Into, InWrite
    <3> QED
      BY <3>2 DEF CAInv, OnStart, Wrapped, IsStart
  <2> QED
    BY <2>8, <2>10, <2>11, <2>12 DEF CAInv
<1> QED
  BY <1>2, <1>3

LEMMA CANextInv == CAInv /\ [CANext]_cavars => CAInv'
  BY CAFill, CACallback, CAOthers DEF CANext

-----------------------------------------------------------------------------
(***************************************************************************)
(* OpenAL: where the buffers are.                                           *)
(***************************************************************************)

\* The types that the proof needs; what is played is part of the queue.
ALTypes ==
  /\ res_buf \in [Buffers -> Buffers] /\ res_ptr \in 0..num_buffers
  /\ queue \in Seq(Buffers) /\ processed \in 0..Len(queue)
  /\ awriter \in {"idle", "get", "queue", "play", "failed", "closed"}
  /\ buffer \in Buffers

BInv == ALTypes /\ ALBuffersKept

-----------------------------------------------------------------------------
(* Sequences *)

\* The first n elements and the others are all of them.
LEMMA CutFacts ==
  ASSUME NEW s \in Seq(Buffers), NEW n \in 0..Len(s)
  PROVE  /\ SubSeq(s, n + 1, Len(s)) \in Seq(Buffers) /\ Len(SubSeq(s, n + 1, Len(s))) = Len(s) - n
         /\ Elements(s) = {s[i] : i \in 1..n} \cup Elements(SubSeq(s, n + 1, Len(s)))
<1> DEFINE t == SubSeq(s, n + 1, Len(s))
<1>1. t \in Seq(Buffers) /\ Len(t) = Len(s) - n
  OBVIOUS
<1>2. \A i \in 1..(Len(s) - n) : t[i] = s[n + i]
  OBVIOUS
<1>3. Len(s) \in Nat /\ n \in Nat /\ n <= Len(s)
  OBVIOUS
<1> HIDE DEF t
<1>4. ASSUME NEW i \in 1..Len(s) PROVE s[i] \in {s[k] : k \in 1..n} \cup Elements(t)
  <2>1. CASE i <= n
    BY <2>1, <1>3
  <2>2. CASE i > n
    <3> DEFINE k == i - n
    <3>1. k \in 1..Len(t) /\ k \in 1..(Len(s) - n) /\ n + k = i
      BY <2>2, <1>1, <1>3
    <3> HIDE DEF k
    <3>2. t[k] = s[i]
      BY <3>1, <1>2
    <3> QED
      BY <3>1, <3>2 DEF Elements
  <2> QED
    BY <2>1, <2>2, <1>3
<1>5. ASSUME NEW i \in 1..n PROVE s[i] \in Elements(s)
  <2>1. i \in 1..Len(s)
    BY <1>3
  <2> QED
    BY <2>1 DEF Elements
<1>6. ASSUME NEW i \in 1..Len(t) PROVE t[i] \in Elements(s)
  <2>1. n + i \in 1..Len(s) /\ i \in 1..(Len(s) - n)
    BY <1>1, <1>3
  <2> QED
    BY <2>1, <1>2 DEF Elements
<1>7. Elements(s) = {s[i] : i \in 1..n} \cup Elements(t)
  BY <1>4, <1>5, <1>6 DEF Elements
<1> QED
  BY <1>1, <1>7 DEF t

\* A buffer behind the others.
LEMMA AppendFacts ==
  ASSUME NEW s \in Seq(Buffers), NEW b \in Buffers
  PROVE  /\ Append(s, b) \in Seq(Buffers) /\ Len(Append(s, b)) = Len(s) + 1
         /\ Elements(Append(s, b)) = Elements(s) \cup {b}
<1> DEFINE t == Append(s, b)
<1>1. /\ t \in Seq(Buffers) /\ Len(t) = Len(s) + 1 /\ t[Len(s) + 1] = b
      /\ \A i \in 1..Len(s) : t[i] = s[i]
  OBVIOUS
<1>2. Len(s) \in Nat
  OBVIOUS
<1> HIDE DEF t
<1>3. 1..Len(t) = (1..Len(s)) \cup {Len(s) + 1}
  BY <1>1, <1>2
<1>4. Elements(t) = Elements(s) \cup {b}
  BY <1>1, <1>3 DEF Elements
<1> QED
  BY <1>1, <1>4 DEF t

\* The free buffers.
LEMMA FreeFacts ==
  ASSUME ALTypes
  PROVE  Len(Free) = res_ptr /\ Elements(Free) = {res_buf[i] : i \in 1..res_ptr}
<1>1. res_ptr \in Nat /\ 1..res_ptr \subseteq Buffers
  BY OpenALAssumption DEF ALTypes, Buffers
<1>2. \A i \in 1..res_ptr : res_buf[i] \in Buffers
  BY <1>1 DEF ALTypes
<1>3. Len(Free) = res_ptr /\ \A i \in 1..res_ptr : Free[i] = res_buf[i]
  BY <1>1, <1>2 DEF Free
<1> QED
  BY <1>3 DEF Elements

\* The writer's buffer.
LEMMA InHandFacts ==
  /\ awriter = "queue" => Len(InHand) = 1 /\ Elements(InHand) = {buffer}
  /\ awriter # "queue" => Len(InHand) = 0 /\ Elements(InHand) = {}
<1>1. Len(<<buffer>>) = 1 /\ Elements(<<buffer>>) = {buffer}
  BY DEF Elements
<1>2. Len(<< >>) = 0 /\ Elements(<< >>) = {}
  BY DEF Elements
<1> QED
  BY <1>1, <1>2 DEF InHand

\* The property without sequences made of parts of the state.
Kept(hand) ==
  /\ res_ptr + (IF hand THEN 1 ELSE 0) + Len(queue) = num_buffers
  /\ {res_buf[i] : i \in 1..res_ptr} \cup (IF hand THEN {buffer} ELSE {}) \cup Elements(queue) = Buffers

LEMMA KeptFacts ==
  ALTypes => (ALBuffersKept <=> (awriter \notin {"failed", "closed"} => Kept(awriter = "queue")))
<1> SUFFICES ASSUME ALTypes
             PROVE  ALBuffersKept <=> (awriter \notin {"failed", "closed"} => Kept(awriter = "queue"))
  OBVIOUS
<1>1. CASE awriter = "queue"
  BY <1>1, FreeFacts, InHandFacts DEF ALBuffersKept, Kept
<1>2. CASE awriter # "queue"
  BY <1>2, FreeFacts, InHandFacts DEF ALBuffersKept, Kept
<1> QED
  BY <1>1, <1>2

-----------------------------------------------------------------------------
(* The steps *)

LEMMA InitKept == ALInit => BInv
<1> SUFFICES ASSUME ALInit PROVE BInv
  OBVIOUS
<1>1. num_buffers \in Nat \ {0}
  BY OpenALAssumption
<1>2. ALTypes
  BY <1>1 DEF ALInit, ALTypes, Buffers
<1>3. Elements(queue) = {} /\ Len(queue) = 0
  BY DEF ALInit, Elements
<1>4. {res_buf[i] : i \in 1..res_ptr} = Buffers
  BY <1>1 DEF ALInit, Buffers
<1>5. awriter # "queue" /\ res_ptr = num_buffers
  BY DEF ALInit
<1>6. Kept(awriter = "queue")
  BY <1>1, <1>3, <1>4, <1>5 DEF Kept
<1> QED
  BY <1>2, <1>6, KeptFacts DEF BInv

\* Taking back what was played moves the front of the queue to the free list.
LEMMA UnqueueKeeps ==
  ASSUME BInv, awriter \in {"idle", "get"}, al_unqueue_buffers, UNCHANGED <<awriter, buffer>>
  PROVE  BInv'
<1>1. ALTypes /\ num_buffers \in Nat /\ res_ptr \in Nat /\ Len(queue) \in Nat /\ processed \in 1..Len(queue)
  BY OpenALAssumption DEF BInv, ALTypes, al_unqueue_buffers
<1>2. Kept(FALSE)
  BY <1>1, KeptFacts DEF BInv
<1>3. res_ptr + Len(queue) = num_buffers
  BY <1>1, <1>2 DEF Kept
<1>4. {res_buf[i] : i \in 1..res_ptr} \cup Elements(queue) = Buffers
  BY <1>2 DEF Kept
<1>5. /\ queue' \in Seq(Buffers) /\ Len(queue') = Len(queue) - processed
      /\ Elements(queue) = {queue[i] : i \in 1..processed} \cup Elements(queue')
  <2>1. processed \in 0..Len(queue) /\ queue \in Seq(Buffers)
    BY <1>1 DEF ALTypes
  <2>2. queue' = SubSeq(queue, processed + 1, Len(queue))
    BY DEF al_unqueue_buffers
  <2> QED
    BY <2>1, <2>2, CutFacts
<1>6. /\ res_ptr' = res_ptr + processed /\ processed' = 0
      /\ res_buf' = [i \in Buffers |-> IF i \in (res_ptr + 1)..(res_ptr + processed)
                                       THEN queue[i - res_ptr] ELSE res_buf[i]]
  BY DEF al_unqueue_buffers, Buffers
<1>7. res_ptr + processed \in 0..num_buffers /\ res_ptr + processed + (Len(queue) - processed) = num_buffers
  BY <1>1, <1>3
<1>8. \A i \in 1..res_ptr : i \in Buffers /\ res_buf'[i] = res_buf[i]
  <2>1. \A i \in 1..res_ptr : i \in Buffers /\ ~(i \in (res_ptr + 1)..(res_ptr + processed))
    BY <1>1, <1>3 DEF Buffers
  <2> QED
    BY <1>6, <2>1
<1>9. \A k \in 1..processed : res_ptr + k \in Buffers /\ res_buf'[res_ptr + k] = queue[k]
  <2>1. \A k \in 1..processed : /\ res_ptr + k \in Buffers
                                /\ res_ptr + k \in (res_ptr + 1)..(res_ptr + processed)
                                /\ (res_ptr + k) - res_ptr = k
    BY <1>1, <1>3 DEF Buffers
  <2> QED
    BY <1>6, <2>1
<1>10. {res_buf'[i] : i \in 1..(res_ptr + processed)}
         = {res_buf[i] : i \in 1..res_ptr} \cup {queue[i] : i \in 1..processed}
  <2>1. ASSUME NEW i \in 1..(res_ptr + processed)
        PROVE  res_buf'[i] \in {res_buf[k] : k \in 1..res_ptr} \cup {queue[k] : k \in 1..processed}
    <3>1. CASE i \in 1..res_ptr
      BY <3>1, <1>8
    <3>2. CASE i \notin 1..res_ptr
      <4> DEFINE k == i - res_ptr
      <4>1. k \in 1..processed /\ res_ptr + k = i
        BY <3>2, <1>1
      <4> HIDE DEF k
      <4>2. res_buf'[i] = queue[k]
        BY <4>1, <1>9
      <4> QED
        BY <4>1, <4>2
    <3> QED
      BY <3>1, <3>2
  <2>2. ASSUME NEW i \in 1..res_ptr
        PROVE  res_buf[i] \in {res_buf'[k] : k \in 1..(res_ptr + processed)}
    <3>1. i \in 1..(res_ptr + processed)
      BY <1>1
    <3> QED
      BY <3>1, <1>8
  <2>3. ASSUME NEW i \in 1..processed
        PROVE  queue[i] \in {res_buf'[k] : k \in 1..(res_ptr + processed)}
    <3>1. res_ptr + i \in 1..(res_ptr + processed)
      BY <1>1
    <3> QED
      BY <3>1, <1>9
  <2> QED
    BY <2>1, <2>2, <2>3
<1>11. ALTypes'
  <2>1. \A i \in Buffers : res_buf'[i] \in Buffers
    <3> SUFFICES ASSUME NEW i \in Buffers PROVE res_buf'[i] \in Buffers
      OBVIOUS
    <3>1. CASE i \in (res_ptr + 1)..(res_ptr + processed)
      <4>1. i - res_ptr \in 1..Len(queue)
        BY <3>1, <1>1
      <4> QED
        BY <4>1, <3>1, <1>1, <1>6 DEF ALTypes
    <3>2. CASE i \notin (res_ptr + 1)..(res_ptr + processed)
      BY <3>2, <1>1, <1>6 DEF ALTypes
    <3> QED
      BY <3>1, <3>2
  <2>2. res_buf' \in [Buffers -> Buffers]
    BY <2>1, <1>6
  <2>3. 0 \in 0..Len(queue')
    BY <1>1, <1>5
  <2> QED
    BY <1>1, <1>5, <1>6, <1>7, <2>2, <2>3 DEF ALTypes
<1>12. Kept(FALSE)'
  <2>1. res_ptr' + 0 + Len(queue') = num_buffers
    BY <1>1, <1>5, <1>6, <1>7
  <2>2. {res_buf'[i] : i \in 1..res_ptr'} \cup Elements(queue') = Buffers
    BY <1>4, <1>5, <1>6, <1>10
  <2> QED
    BY <2>1, <2>2 DEF Kept, Elements
<1>13. ALBuffersKept'
  <2>1. Kept(awriter = "queue")'
    BY <1>12 DEF Kept
  <2> QED
    BY <2>1, <1>11, KeptFacts, PTL
<1> QED
  BY <1>11, <1>13 DEF BInv

LEMMA GetKeeps ==
  ASSUME BInv, al_get_buffer
  PROVE  BInv'
<1>1. ALTypes /\ num_buffers \in Nat /\ res_ptr \in Nat \ {0} /\ Len(queue) \in Nat
  BY OpenALAssumption DEF BInv, ALTypes, al_get_buffer
<1>2. res_ptr + Len(queue) = num_buffers /\ {res_buf[i] : i \in 1..res_ptr} \cup Elements(queue) = Buffers
  <2>1. awriter = "get"
    BY DEF al_get_buffer
  <2>2. Kept(FALSE)
    BY <1>1, <2>1, KeptFacts DEF BInv
  <2> QED
    BY <1>1, <2>2 DEF Kept
<1>3. /\ buffer' = res_buf[res_ptr] /\ res_ptr' = res_ptr - 1 /\ awriter' = "queue"
      /\ UNCHANGED <<res_buf, queue, processed>>
  BY DEF al_get_buffer, device
<1>4. res_ptr \in Buffers /\ res_ptr - 1 \in 0..num_buffers
  BY <1>1, <1>2 DEF Buffers
<1>5. ALTypes'
  BY <1>1, <1>3, <1>4 DEF ALTypes
<1>6. 1..res_ptr = (1..(res_ptr - 1)) \cup {res_ptr}
  BY <1>1
<1>7. {res_buf[i] : i \in 1..res_ptr} = {res_buf[i] : i \in 1..(res_ptr - 1)} \cup {res_buf[res_ptr]}
  BY <1>6
<1>8. (res_ptr - 1) + 1 + Len(queue) = num_buffers
  BY <1>1, <1>2
<1>9. Kept(awriter = "queue")'
  BY <1>2, <1>3, <1>7, <1>8 DEF Kept, Elements
<1> QED
  BY <1>5, <1>9, KeptFacts, PTL DEF BInv

LEMMA QueueKeeps ==
  ASSUME BInv, QueueBuffer
  PROVE  BInv'
<1>1. ALTypes /\ num_buffers \in Nat /\ res_ptr \in Nat /\ Len(queue) \in Nat /\ buffer \in Buffers
  BY OpenALAssumption DEF BInv, ALTypes
<1>2. /\ res_ptr + 1 + Len(queue) = num_buffers
      /\ {res_buf[i] : i \in 1..res_ptr} \cup {buffer} \cup Elements(queue) = Buffers
  <2>1. awriter = "queue"
    BY DEF QueueBuffer
  <2>2. Kept(TRUE)
    BY <1>1, <2>1, KeptFacts DEF BInv
  <2> QED
    BY <2>2 DEF Kept
<1>3. UNCHANGED <<res_buf, res_ptr, buffer, processed>>
  BY DEF QueueBuffer
<1>4. CASE awriter' = "failed" /\ UNCHANGED queue
  <2>1. ALTypes'
    BY <1>1, <1>3, <1>4 DEF ALTypes
  <2>2. ALBuffersKept'
    BY <1>4 DEF ALBuffersKept
  <2> QED
    BY <2>1, <2>2 DEF BInv
<1>5. CASE queue' = Append(queue, buffer) /\ awriter' = "play"
  <2>1. /\ queue' \in Seq(Buffers) /\ Len(queue') = Len(queue) + 1
        /\ Elements(queue') = Elements(queue) \cup {buffer}
    BY <1>1, <1>5, AppendFacts DEF ALTypes
  <2>2. processed \in 0..(Len(queue) + 1)
    BY <1>1 DEF ALTypes
  <2>3. ALTypes'
    BY <1>1, <1>3, <1>5, <2>1, <2>2 DEF ALTypes
  <2>4. res_ptr + 0 + (Len(queue) + 1) = num_buffers
    BY <1>1, <1>2
  <2>5. Kept(awriter = "queue")'
    BY <1>2, <1>3, <1>5, <2>1, <2>4 DEF Kept, Elements
  <2> QED
    BY <2>3, <2>5, KeptFacts, PTL DEF BInv
<1> QED
  BY <1>4, <1>5 DEF QueueBuffer

\* Steps that leave the buffers where they are.
LEMMA OthersKeep ==
  ASSUME BInv, al_write \/ PlaySource \/ al_close \/ SourcePlays \/ UNCHANGED alvars
  PROVE  BInv'
<1>1. ALTypes /\ Len(queue) \in Nat /\ processed \in 0..Len(queue)
  BY DEF BInv, ALTypes
<1>2. UNCHANGED <<res_buf, res_ptr, buffer, queue>>
  BY DEF al_write, PlaySource, al_close, SourcePlays, alvars, device
<1>3. processed' \in 0..Len(queue)
  <2>1. CASE SourcePlays
    BY <2>1, <1>1 DEF SourcePlays
  <2>2. CASE al_write \/ PlaySource \/ al_close \/ UNCHANGED alvars
    BY <2>2, <1>1 DEF al_write, PlaySource, al_close, alvars, device
  <2> QED
    BY <2>1, <2>2
<1>4. awriter' \in {"idle", "get", "queue", "play", "failed", "closed"}
  BY <1>1 DEF ALTypes, al_write, PlaySource, al_close, SourcePlays, alvars
<1>5. ALTypes'
  BY <1>1, <1>2, <1>3, <1>4 DEF ALTypes
<1>6. /\ awriter' \notin {"failed", "closed"} => awriter \notin {"failed", "closed"}
      /\ awriter' = "queue" <=> awriter = "queue"
  BY DEF al_write, PlaySource, al_close, SourcePlays, alvars
<1>7. (awriter \notin {"failed", "closed"} => Kept(awriter = "queue"))'
  BY <1>1, <1>2, <1>6, KeptFacts DEF BInv, Kept, Elements
<1> QED
  BY <1>5, <1>7, KeptFacts, PTL DEF BInv

LEMMA NextKeeps == BInv /\ [ALNext]_alvars => BInv'
<1> SUFFICES ASSUME BInv, [ALNext]_alvars PROVE BInv'
  OBVIOUS
<1>1. CASE GetBlocks \/ al_latency
  <2>1. awriter \in {"idle", "get"} /\ al_unqueue_buffers /\ UNCHANGED <<awriter, buffer>>
    BY <1>1 DEF GetBlocks, al_latency
  <2> QED
    BY <2>1, UnqueueKeeps
<1> QED
  BY <1>1, GetKeeps, QueueKeeps, OthersKeep DEF ALNext

(***************************************************************************)
(* The chunks.  Because a buffer is in one place only, no chunk is          *)
(* overwritten before it was played: the queue holds the last chunks that   *)
(* were queued, t of them, in their order.                                  *)
(***************************************************************************)
HTypes ==
  /\ ALTypes
  /\ content \in [Buffers -> Int] /\ asent \in Nat /\ aheard \in Seq(Int)
  /\ playing \in BOOLEAN /\ starved \in BOOLEAN

\* No buffer is twice in the free list, twice in the queue, or in two places.
Apart ==
  /\ \A i, j \in 1..res_ptr : i # j => res_buf[i] # res_buf[j]
  /\ \A i, j \in 1..Len(queue) : i # j => queue[i] # queue[j]
  /\ \A i \in 1..res_ptr, j \in 1..Len(queue) : res_buf[i] # queue[j]
  /\ awriter = "queue" => /\ \A i \in 1..res_ptr : res_buf[i] # buffer
                          /\ \A i \in 1..Len(queue) : queue[i] # buffer

\* t chunks were queued; the one in the writer's hand is the next.
Queued(t) ==
  /\ Len(queue) <= t
  /\ awriter \in {"idle", "get", "queue"} => t = asent
  /\ awriter = "play" => t = asent + 1
  /\ awriter = "queue" => content[buffer] = asent + 1
  /\ \A i \in 1..Len(queue) : content[queue[i]] = t - Len(queue) + i

\* No chunk was played before the ones in front of it.
NoneSkipped == \A i \in 1..Len(aheard) : \A m \in 1..(aheard[i] - 1) : \E j \in 1..(i - 1) : aheard[j] = m

\* What is not in the queue, or played there, was played.
Due(t) == t - Len(queue) + processed

AllPlayed(t) == \A m \in 1..Due(t) : \E j \in 1..Len(aheard) : aheard[j] = m

\* Before the source starves nothing is played twice ...
OnceEach(t) == ~starved => Len(aheard) = Due(t) /\ \A i \in 1..Len(aheard) : aheard[i] = i

\* ... since it was never stopped with played buffers in its queue.
NoReplay == ~playing /\ ~starved /\ awriter # "closed" => processed = 0

Plays(t) == Queued(t) /\ AllPlayed(t) /\ OnceEach(t)

HInv == BInv /\ HTypes /\ Apart /\ NoneSkipped /\ NoReplay /\ \E t \in Nat : Plays(t)

LEMMA InitHeard == ALInit => HInv
<1> SUFFICES ASSUME ALInit PROVE HInv
  OBVIOUS
<1>1. num_buffers \in Nat \ {0}
  BY OpenALAssumption
<1>2. BInv /\ ALTypes
  BY InitKept DEF BInv
<1>3. HTypes
  <2>1. content \in [Buffers -> Int] /\ asent \in Nat
    BY DEF ALInit
  <2>2. aheard \in Seq(Int)
    BY DEF ALInit
  <2>3. playing \in BOOLEAN /\ starved \in BOOLEAN
    BY DEF ALInit
  <2> QED
    BY <1>2, <2>1, <2>2, <2>3 DEF HTypes
<1>4. Len(queue) = 0 /\ Len(aheard) = 0 /\ processed = 0 /\ awriter = "idle" /\ asent = 0
  BY DEF ALInit
<1>5. Apart
  BY <1>4 DEF ALInit, Apart
<1>6. NoneSkipped /\ NoReplay
  BY <1>4 DEF NoneSkipped, NoReplay
<1>7. Plays(0)
  BY <1>4 DEF Plays, Queued, AllPlayed, OnceEach, Due
<1> QED
  BY <1>2, <1>3, <1>5, <1>6, <1>7 DEF HInv

\* What is left of the queue.
LEMMA LeftFacts ==
  ASSUME NEW s \in Seq(Buffers), NEW n \in 0..Len(s)
  PROVE  /\ Len(SubSeq(s, n + 1, Len(s))) = Len(s) - n
         /\ \A i \in 1..(Len(s) - n) : SubSeq(s, n + 1, Len(s))[i] = s[n + i]
  OBVIOUS

\* Taking buffers back: the queue loses what was played, which goes behind the
\* free buffers.
LEMMA UnqueueHeard ==
  ASSUME HInv, awriter \in {"idle", "get"}, al_unqueue_buffers,
         UNCHANGED <<content, awriter, buffer, asent, playing, starved, aheard>>
  PROVE  HInv'
<1> DEFINE len == Len(queue)
           left == len - processed
<1>1. /\ ALTypes /\ num_buffers \in Nat /\ res_ptr \in Nat /\ len \in Nat /\ processed \in 1..len
      /\ res_ptr + len = num_buffers
  <2>1. BInv /\ ALTypes
    BY DEF HInv, BInv
  <2>2. Kept(FALSE)
    BY <2>1, KeptFacts DEF BInv
  <2> QED
    BY <2>1, <2>2, OpenALAssumption DEF ALTypes, al_unqueue_buffers, Kept
<1>2. BInv'
  BY UnqueueKeeps DEF HInv
<1>3. HTypes'
  BY <1>2 DEF HInv, HTypes, BInv
<1>4. Len(queue') = left /\ \A i \in 1..left : queue'[i] = queue[processed + i]
  <2>1. queue \in Seq(Buffers) /\ processed \in 0..Len(queue) /\ queue' = SubSeq(queue, processed + 1, Len(queue))
    BY <1>1 DEF ALTypes, al_unqueue_buffers
  <2> QED
    BY <2>1, LeftFacts
<1>5. /\ res_ptr' = res_ptr + processed /\ processed' = 0
      /\ \A i \in 1..(res_ptr + processed) :
           res_buf'[i] = IF i \in (res_ptr + 1)..(res_ptr + processed) THEN queue[i - res_ptr] ELSE res_buf[i]
  <2>1. \A i \in 1..(res_ptr + processed) : i \in 1..num_buffers
    BY <1>1
  <2> QED
    BY <2>1 DEF al_unqueue_buffers
<1> HIDE DEF len
<1>6. \A i \in 1..(res_ptr + processed) :
        \/ i \in 1..res_ptr /\ res_buf'[i] = res_buf[i]
        \/ i - res_ptr \in 1..processed /\ res_buf'[i] = queue[i - res_ptr]
  <2> SUFFICES ASSUME NEW i \in 1..(res_ptr + processed)
               PROVE  \/ i \in 1..res_ptr /\ res_buf'[i] = res_buf[i]
                      \/ i - res_ptr \in 1..processed /\ res_buf'[i] = queue[i - res_ptr]
    OBVIOUS
  <2>1. CASE i \in 1..res_ptr
    <3>1. i \notin (res_ptr + 1)..(res_ptr + processed)
      BY <1>1, <2>1
    <3> QED
      BY <3>1, <2>1, <1>5
  <2>2. CASE i \notin 1..res_ptr
    <3>1. i \in (res_ptr + 1)..(res_ptr + processed) /\ i - res_ptr \in 1..processed
      BY <1>1, <2>2
    <3> QED
      BY <3>1, <1>5
  <2> QED
    BY <2>1, <2>2
<1>7. /\ \A i, j \in 1..res_ptr : i # j => res_buf[i] # res_buf[j]
      /\ \A i, j \in 1..len : i # j => queue[i] # queue[j]
      /\ \A i \in 1..res_ptr, j \in 1..len : res_buf[i] # queue[j]
  BY DEF HInv, Apart, len
<1>8. \A i, j \in 1..(res_ptr + processed) : i # j => res_buf'[i] # res_buf'[j]
  <2> SUFFICES ASSUME NEW i \in 1..(res_ptr + processed), NEW j \in 1..(res_ptr + processed), i # j
               PROVE  res_buf'[i] # res_buf'[j]
    OBVIOUS
  <2>1. \A k \in 1..processed : k \in 1..len
    BY <1>1
  <2>2. i - res_ptr # j - res_ptr
    BY <1>1
  <2> QED
    BY <1>6, <1>7, <2>1, <2>2
<1>9. \A i, j \in 1..left : i # j => queue'[i] # queue'[j]
  <2>1. \A i, j \in 1..left : processed + i \in 1..len /\ (i # j => processed + i # processed + j)
    BY <1>1
  <2> QED
    BY <2>1, <1>4, <1>7
<1>10. \A i \in 1..(res_ptr + processed), j \in 1..left : res_buf'[i] # queue'[j]
  <2> SUFFICES ASSUME NEW i \in 1..(res_ptr + processed), NEW j \in 1..left
               PROVE  res_buf'[i] # queue'[j]
    OBVIOUS
  <2>1. /\ processed + j \in 1..len
        /\ \A k \in 1..processed : k \in 1..len /\ k # processed + j
    BY <1>1
  <2> QED
    BY <2>1, <1>4, <1>6, <1>7
<1>11. Apart'
  <2>1. awriter' # "queue"
    OBVIOUS
  <2> QED
    BY <2>1, <1>4, <1>5, <1>8, <1>9, <1>10 DEF Apart
<1>12. NoneSkipped' /\ NoReplay'
  BY <1>5 DEF HInv, NoneSkipped, NoReplay
<1>13. PICK t \in Nat : Plays(t)
  BY DEF HInv
<1>14. left \in Nat /\ left <= t /\ t - left + 0 = t - len + processed
  <2>1. len <= t
    BY <1>13 DEF Plays, Queued, len
  <2> QED
    BY <2>1, <1>1
<1>15. Due(t)' = Due(t)
  BY <1>4, <1>5, <1>14 DEF Due, len
<1>16. AllPlayed(t)' /\ OnceEach(t)'
  BY <1>13, <1>15 DEF Plays, AllPlayed, OnceEach
<1>17. Queued(t)'
  <2>1. ASSUME NEW i \in 1..left PROVE content[queue'[i]] = t - left + i
    <3>1. processed + i \in 1..len /\ t - len + (processed + i) = t - left + i
      BY <1>1, <1>14
    <3>2. content[queue[processed + i]] = t - len + (processed + i)
      BY <3>1, <1>13 DEF Plays, Queued, len
    <3> QED
      BY <3>1, <3>2, <1>4
  <2>2. awriter' # "queue" /\ awriter' # "play" /\ t = asent
    BY <1>13 DEF Plays, Queued
  <2> QED
    BY <2>1, <2>2, <1>4, <1>14 DEF Queued
<1> QED
  BY <1>2, <1>3, <1>11, <1>12, <1>16, <1>17 DEF HInv, Plays

\* Taking a free buffer and filling it: no chunk of the queue is in it.
LEMMA GetHeard ==
  ASSUME HInv, al_get_buffer
  PROVE  HInv'
<1> DEFINE b == res_buf[res_ptr]
<1>1. /\ HTypes /\ ALTypes /\ num_buffers \in Nat /\ res_ptr \in 1..num_buffers /\ Len(queue) \in Nat
      /\ b \in Buffers
  <2>1. /\ HTypes /\ ALTypes /\ num_buffers \in Nat /\ Len(queue) \in Nat
    BY OpenALAssumption DEF HInv, HTypes, ALTypes
  <2>2. res_ptr \in 1..num_buffers
    BY <2>1 DEF ALTypes, al_get_buffer
  <2>3. b \in Buffers
    BY <2>1, <2>2 DEF ALTypes, Buffers
  <2> QED
    BY <2>1, <2>2, <2>3
<1>2. /\ buffer' = b /\ res_ptr' = res_ptr - 1 /\ content' = [content EXCEPT ![b] = asent + 1]
      /\ awriter = "get" /\ awriter' = "queue"
      /\ UNCHANGED <<res_buf, asent, queue, processed, playing, starved, aheard>>
  BY DEF al_get_buffer, device
<1>3. BInv'
  BY GetKeeps DEF HInv
<1>4. /\ \A i, j \in 1..res_ptr : i # j => res_buf[i] # res_buf[j]
      /\ \A i, j \in 1..Len(queue) : i # j => queue[i] # queue[j]
      /\ \A i \in 1..res_ptr, j \in 1..Len(queue) : res_buf[i] # queue[j]
  BY DEF HInv, Apart
<1>5. /\ \A i \in 1..(res_ptr - 1) : i \in 1..res_ptr /\ i # res_ptr
      /\ res_ptr \in 1..res_ptr
  BY <1>1
<1>6. \A i \in 1..Len(queue) : queue[i] # b /\ queue[i] \in Buffers
  BY <1>1, <1>4, <1>5 DEF ALTypes
<1> HIDE DEF b
<1>7. HTypes'
  <2>1. content' \in [Buffers -> Int]
    BY <1>1, <1>2 DEF HTypes
  <2> QED
    BY <2>1, <1>1, <1>2, <1>3 DEF HTypes, BInv
<1>8. Apart'
  <2>1. /\ \A i, j \in 1..(res_ptr - 1) : i # j => res_buf[i] # res_buf[j]
        /\ \A i \in 1..(res_ptr - 1), j \in 1..Len(queue) : res_buf[i] # queue[j]
    BY <1>4, <1>5
  <2>2. \A i \in 1..(res_ptr - 1) : res_buf[i] # b
    BY <1>4, <1>5 DEF b
  <2> QED
    BY <2>1, <2>2, <1>2, <1>4, <1>6 DEF Apart
<1>9. NoneSkipped' /\ NoReplay'
  BY <1>2 DEF HInv, NoneSkipped, NoReplay
<1>10. PICK t \in Nat : Plays(t)
  BY DEF HInv
<1>11. AllPlayed(t)' /\ OnceEach(t)'
  BY <1>2, <1>10 DEF Plays, AllPlayed, OnceEach, Due
<1>12. Queued(t)'
  <2>1. content'[b] = asent + 1
    BY <1>1, <1>2 DEF HTypes
  <2>2. \A i \in 1..Len(queue) : content'[queue[i]] = content[queue[i]]
    BY <1>1, <1>2, <1>6 DEF HTypes
  <2> QED
    BY <2>1, <2>2, <1>2, <1>10 DEF Plays, Queued
<1> QED
  BY <1>3, <1>7, <1>8, <1>9, <1>11, <1>12 DEF HInv, Plays

\* Queueing it: one chunk more is in the queue, behind the others.
LEMMA QueueHeard ==
  ASSUME HInv, QueueBuffer
  PROVE  HInv'
<1> DEFINE len == Len(queue)
<1>1. /\ HTypes /\ ALTypes /\ len \in Nat /\ processed \in 0..len /\ buffer \in Buffers /\ queue \in Seq(Buffers)
  BY DEF HInv, HTypes, ALTypes
<1>2. /\ UNCHANGED <<res_buf, res_ptr, content, buffer, asent, processed, playing, starved, aheard>>
      /\ awriter = "queue"
  BY DEF QueueBuffer
<1>3. BInv'
  BY QueueKeeps DEF HInv
<1>4. HTypes'
  BY <1>1, <1>2, <1>3 DEF HTypes, BInv
<1>5. NoneSkipped' /\ NoReplay'
  BY <1>2 DEF HInv, NoneSkipped, NoReplay, QueueBuffer
<1>6. PICK t \in Nat : Plays(t)
  BY DEF HInv
<1>7. /\ t = asent /\ len <= t /\ content[buffer] = asent + 1
      /\ \A i \in 1..len : content[queue[i]] = t - len + i
  BY <1>2, <1>6 DEF Plays, Queued
<1>8. CASE awriter' = "failed" /\ UNCHANGED queue
  <2>1. Apart'
    BY <1>2, <1>8 DEF HInv, Apart
  <2>2. Plays(t)'
    BY <1>2, <1>6, <1>8 DEF Plays, Queued, AllPlayed, OnceEach, Due
  <2> QED
    BY <1>3, <1>4, <1>5, <2>1, <2>2 DEF HInv
<1>9. CASE queue' = Append(queue, buffer) /\ awriter' = "play"
  <2>1. Len(queue') = len + 1 /\ queue'[len + 1] = buffer /\ \A i \in 1..len : queue'[i] = queue[i]
    BY <1>1, <1>9
  <2>2. /\ \A i, j \in 1..res_ptr : i # j => res_buf[i] # res_buf[j]
        /\ \A i, j \in 1..len : i # j => queue[i] # queue[j]
        /\ \A i \in 1..res_ptr, j \in 1..len : res_buf[i] # queue[j]
        /\ \A i \in 1..res_ptr : res_buf[i] # buffer
        /\ \A i \in 1..len : queue[i] # buffer
    BY <1>2 DEF HInv, Apart
  <2> HIDE DEF len
  <2>3. \A i \in 1..(len + 1) : \/ i \in 1..len /\ queue'[i] = queue[i]
                                \/ i = len + 1 /\ queue'[i] = buffer
    BY <1>1, <2>1
  <2>4. Apart'
    <3>1. /\ \A i, j \in 1..(len + 1) : i # j => queue'[i] # queue'[j]
          /\ \A i \in 1..res_ptr, j \in 1..(len + 1) : res_buf[i] # queue'[j]
      BY <2>2, <2>3
    <3> QED
      BY <3>1, <2>1, <2>2, <1>2, <1>9 DEF Apart
  <2>5. (t + 1) - (len + 1) = t - len
    BY <1>1
  <2>6. Due(t + 1)' = Due(t)
    BY <2>1, <2>5, <1>2 DEF Due, len
  <2>7. AllPlayed(t + 1)' /\ OnceEach(t + 1)'
    BY <2>6, <1>2, <1>6 DEF Plays, AllPlayed, OnceEach
  <2>8. \A i \in 1..(len + 1) : content[queue'[i]] = (t + 1) - (len + 1) + i
    <3> SUFFICES ASSUME NEW i \in 1..(len + 1) PROVE content[queue'[i]] = (t + 1) - (len + 1) + i
      OBVIOUS
    <3>1. CASE i = len + 1
      <4>1. (t + 1) - (len + 1) + (len + 1) = t + 1
        BY <1>1
      <4> QED
        BY <4>1, <3>1, <2>1, <1>7
    <3>2. CASE i \in 1..len
      BY <3>2, <2>1, <2>5, <1>7
    <3> QED
      BY <3>1, <3>2, <1>1
  <2>9. Queued(t + 1)'
    BY <2>1, <2>8, <1>1, <1>2, <1>7, <1>9 DEF Queued
  <2> QED
    BY <1>3, <1>4, <1>5, <2>4, <2>7, <2>9 DEF HInv, Plays
<1> QED
  BY <1>8, <1>9 DEF QueueBuffer

\* Playing the source, and the steps that only move the writer.
LEMMA PlayHeard ==
  ASSUME HInv, al_write \/ PlaySource \/ al_close \/ UNCHANGED alvars
  PROVE  HInv'
<1>1. /\ HTypes /\ Len(queue) \in Nat /\ processed \in 0..Len(queue)
  BY DEF HInv, HTypes, ALTypes
<1>2. UNCHANGED <<res_buf, res_ptr, content, buffer, queue, starved, aheard>>
  BY DEF al_write, PlaySource, al_close, alvars, device
<1>3. BInv'
  BY OthersKeep DEF HInv
<1>4. asent' \in Nat /\ playing' \in BOOLEAN
  <2>1. asent' = asent \/ asent' = asent + 1
    BY DEF al_write, PlaySource, al_close, alvars
  <2>2. playing' = playing \/ playing' = TRUE \/ playing' = FALSE
    BY Zenon DEF al_write, PlaySource, al_close, alvars, device
  <2>3. asent' \in Nat
    BY <2>1, <1>1 DEF HTypes
  <2>4. playing' \in BOOLEAN
    BY <2>2, <1>1, Zenon DEF HTypes
  <2> QED
    BY <2>3, <2>4
<1>5. HTypes'
  BY <1>1, <1>2, <1>3, <1>4 DEF HTypes, BInv
<1>6. awriter' = "queue" => awriter = "queue" /\ asent' = asent
  BY DEF al_write, PlaySource, al_close, alvars
<1>7. Apart'
  BY <1>2, <1>6 DEF HInv, Apart
<1>8. NoneSkipped'
  BY <1>2 DEF HInv, NoneSkipped
<1>9. NoReplay'
  BY <1>2 DEF HInv, NoReplay, al_write, PlaySource, al_close, alvars, device
<1>10. PICK t \in Nat : Plays(t)
  BY DEF HInv
<1>11. Queued(t)'
  <2>1. /\ awriter' \in {"idle", "get", "queue"} => t = asent'
        /\ awriter' = "play" => t = asent' + 1
    BY <1>10 DEF Plays, Queued, al_write, PlaySource, al_close, alvars
  <2> QED
    BY <2>1, <1>2, <1>6, <1>10 DEF Plays, Queued
<1>12. processed' = processed \/ (processed' = 0 /\ ~playing /\ awriter # "closed")
  <2>1. CASE PlaySource
    <3>1. awriter # "closed"
      BY <2>1 DEF PlaySource
    <3>2. processed' = processed \/ processed' = (IF playing THEN processed ELSE 0)
      BY <2>1, Zenon DEF PlaySource
    <3>3. CASE playing
      BY <3>2, <3>3, Zenon
    <3>4. CASE ~playing
      BY <3>1, <3>2, <3>4, Zenon
    <3> QED
      BY <3>3, <3>4
  <2>2. CASE al_write \/ al_close \/ UNCHANGED alvars
    <3>1. processed' = processed
      BY <2>2 DEF al_write, al_close, alvars, device
    <3> QED
      BY <3>1
  <2> QED
    BY <2>1, <2>2
<1>13. ~starved => processed' = processed
  BY <1>12 DEF HInv, NoReplay
<1>14. OnceEach(t)'
  BY <1>2, <1>10, <1>13 DEF Plays, OnceEach, Due
<1>15. AllPlayed(t)'
  <2>1. Due(t) \in Int /\ Due(t)' \in Int /\ Due(t)' <= Due(t)
    <3> DEFINE len == Len(queue)
    <3>1. Due(t) = t - len + processed /\ Due(t)' = t - len + processed'
      BY <1>2 DEF Due
    <3>2. len \in Nat /\ processed \in 0..len /\ processed' \in 0..processed
      BY <1>1, <1>12
    <3> HIDE DEF len
    <3>3. /\ t - len + processed \in Int /\ t - len + processed' \in Int
          /\ t - len + processed' <= t - len + processed
      <4>1. \A x, a, b \in Nat : \A c \in 0..b :
              x - a + b \in Int /\ x - a + c \in Int /\ x - a + c <= x - a + b
        OBVIOUS
      <4>2. len \in Nat /\ processed \in Nat
        BY <3>2
      <4> QED
        BY <3>2, <4>1, <4>2, Zenon
    <3> QED
      BY <3>1, <3>3
  <2>2. \A m \in 1..Due(t)' : m \in 1..Due(t)
    BY <2>1
  <2> QED
    BY <2>2, <1>2, <1>10 DEF Plays, AllPlayed
<1> QED
  BY <1>3, <1>5, <1>7, <1>8, <1>9, <1>11, <1>14, <1>15 DEF HInv, Plays

\* The source plays the next chunk of its queue: the ones in front of it were
\* played, and it is a new one unless the source had starved.
LEMMA SourceHeard ==
  ASSUME HInv, SourcePlays
  PROVE  HInv'
<1> DEFINE len == Len(queue)
           played == Len(aheard)
           next == content[queue[processed + 1]]
<1>1. /\ HTypes /\ ALTypes /\ len \in Nat /\ processed \in 0..len /\ played \in Nat /\ aheard \in Seq(Int)
      /\ playing \in BOOLEAN /\ starved \in BOOLEAN
  BY DEF HInv, HTypes, ALTypes
<1>2. /\ playing /\ processed < len /\ aheard' = Append(aheard, next) /\ processed' = processed + 1
      /\ playing' = (processed + 1 < len) /\ starved' = (starved \/ ~playing')
      /\ UNCHANGED <<res_buf, res_ptr, content, queue, awriter, buffer, asent>>
  BY DEF SourcePlays
<1>3. BInv'
  BY OthersKeep DEF HInv
<1>4. PICK t \in Nat : Plays(t)
  BY DEF HInv
<1>5. next = Due(t) + 1 /\ Due(t) \in Nat /\ Due(t)' = Due(t) + 1
  <2>1. processed + 1 \in 1..len /\ len <= t
    BY <1>1, <1>2, <1>4 DEF Plays, Queued
  <2>2. next = t - len + (processed + 1)
    BY <2>1, <1>4 DEF Plays, Queued
  <2>3. Due(t) = t - len + processed /\ Due(t)' = t - len + (processed + 1)
    BY <1>2 DEF Due
  <2> HIDE DEF len, next
  <2> QED
    BY <1>1, <2>1, <2>2, <2>3
<1> HIDE DEF next
<1>6. /\ aheard' \in Seq(Int) /\ Len(aheard') = played + 1 /\ aheard'[played + 1] = next
      /\ \A i \in 1..played : aheard'[i] = aheard[i]
  <2>1. next \in Int
    BY <1>5
  <2> QED
    BY <2>1, <1>1, <1>2
<1> HIDE DEF played, len
<1>7. HTypes'
  BY <1>1, <1>2, <1>3, <1>6 DEF HTypes, BInv
<1>8. Apart'
  BY <1>2 DEF HInv, Apart
<1>9. /\ \A m \in 1..Due(t) : \E j \in 1..played : aheard[j] = m
      /\ \A i \in 1..played : \A m \in 1..(aheard[i] - 1) : \E j \in 1..(i - 1) : aheard[j] = m
  BY <1>4 DEF HInv, Plays, AllPlayed, NoneSkipped, played
<1>10. NoneSkipped'
  <2> SUFFICES ASSUME NEW i \in 1..(played + 1), NEW m \in 1..(aheard'[i] - 1)
               PROVE  \E j \in 1..(i - 1) : aheard'[j] = m
    BY <1>6 DEF NoneSkipped
  <2>1. CASE i = played + 1
    <3>1. m \in 1..Due(t) /\ (i - 1) = played
      BY <2>1, <1>1, <1>5, <1>6
    <3> QED
      BY <3>1, <1>6, <1>9
  <2>2. CASE i \in 1..played
    <3>1. PICK j \in 1..(i - 1) : aheard[j] = m
      BY <2>2, <1>6, <1>9
    <3>2. j \in 1..played
      BY <2>2, <1>1
    <3> QED
      BY <3>1, <3>2, <1>6
  <2> QED
    BY <2>1, <2>2, <1>1
<1>11. AllPlayed(t)'
  <2> SUFFICES ASSUME NEW m \in 1..(Due(t) + 1)
               PROVE  \E j \in 1..(played + 1) : aheard'[j] = m
    BY <1>5, <1>6 DEF AllPlayed
  <2>1. CASE m = Due(t) + 1
    <3>1. played + 1 \in 1..(played + 1)
      BY <1>1
    <3> QED
      BY <3>1, <2>1, <1>5, <1>6
  <2>2. CASE m \in 1..Due(t)
    <3>1. PICK j \in 1..played : aheard[j] = m
      BY <2>2, <1>9
    <3>2. j \in 1..(played + 1)
      BY <1>1
    <3> QED
      BY <3>1, <3>2, <1>6
  <2> QED
    BY <2>1, <2>2, <1>5
<1>12. OnceEach(t)'
  <2> SUFFICES ASSUME ~starved'
               PROVE  Len(aheard') = Due(t)' /\ \A i \in 1..Len(aheard') : aheard'[i] = i
    BY DEF OnceEach
  <2>1. ~starved
    BY <1>2
  <2>2. played = Due(t) /\ \A i \in 1..played : aheard[i] = i
    BY <2>1, <1>4 DEF Plays, OnceEach, played
  <2>3. \A i \in 1..(played + 1) : i \in 1..played \/ i = played + 1
    BY <1>1
  <2> QED
    BY <2>2, <2>3, <1>5, <1>6
<1>13. Queued(t)'
  BY <1>2, <1>4 DEF Plays, Queued
<1>14. NoReplay'
  BY <1>2 DEF NoReplay
<1> QED
  BY <1>3, <1>4, <1>7, <1>8, <1>10, <1>11, <1>12, <1>13, <1>14 DEF HInv, Plays

LEMMA NextHeard == HInv /\ [ALNext]_alvars => HInv'
<1> SUFFICES ASSUME HInv, [ALNext]_alvars PROVE HInv'
  OBVIOUS
<1>1. CASE GetBlocks \/ al_latency
  <2>1. /\ awriter \in {"idle", "get"} /\ al_unqueue_buffers
        /\ UNCHANGED <<content, awriter, buffer, asent, playing, starved, aheard>>
    BY <1>1 DEF GetBlocks, al_latency
  <2> QED
    BY <2>1, UnqueueHeard
<1> QED
  BY <1>1, GetHeard, QueueHeard, PlayHeard, SourceHeard DEF ALNext

LEMMA HeardFollows == HInv => ALHeardInOrder
<1> SUFFICES ASSUME HInv, NEW i \in 1..Len(aheard)
             PROVE  IF starved THEN \A m \in 1..(aheard[i] - 1) : \E j \in 1..(i - 1) : aheard[j] = m
                               ELSE aheard[i] = i
  BY DEF ALHeardInOrder
<1> QED
  BY DEF HInv, NoneSkipped, Plays, OnceEach

-----------------------------------------------------------------------------
(***************************************************************************)
(* The server with any of the drivers.                                      *)
(***************************************************************************)
DInv == CAInv /\ JInv /\ HInv

LEMMA InitInv == Init => DInv
  BY CAInitInv, JInitInv, InitHeard DEF Init, DInv

\* A step is one of the driver's; the others' state stays as it is.
LEMMA NextInv == DInv /\ [Next]_vars => DInv'
<1> SUFFICES ASSUME DInv, [Next]_vars PROVE DInv'
  OBVIOUS
<1>1. [CANext]_cavars /\ [JNext]_jvars /\ [ALNext]_alvars
  <2>1. CASE CoreAudioStep
    BY <2>1 DEF CoreAudioStep
  <2>2. CASE JackStep
    BY <2>2 DEF JackStep
  <2>3. CASE OpenALStep
    BY <2>3 DEF OpenALStep
  <2>4. CASE UNCHANGED vars
    BY <2>4 DEF vars
  <2> QED
    BY <2>1, <2>2, <2>3, <2>4 DEF Next, Closed
<1> QED
  BY <1>1, CANextInv, JNextInv, NextHeard DEF DInv

\* The ports stay together, whatever the number of channels and the sizes of
\* chunk, ring and cycle: between two cycles every port has played as much as
\* the others, and no byte that was written to a ring is lost.  That port c
\* plays the samples of channel c, in their order, is claimed for chunks that
\* are a whole number of frames only: write_buffer (jack.c:267-302) gives a
\* ring bytes of other channels with every other chunk.
THEOREM PortsStayTogether == Spec => []JHeardTogether
<1>1. DInv => JHeardTogether
  BY InvTogether DEF DInv
<1> QED
  BY InitInv, NextInv, <1>1, PTL DEF Spec

\* As long as the writer has not failed every OpenAL buffer is in exactly one
\* place: free, in the writer's hand or in the queue (al.c).
THEOREM BuffersStay == Spec => []ALBuffersKept
<1>1. DInv => ALBuffersKept
  BY DEF DInv, HInv, BInv
<1> QED
  BY InitInv, NextInv, <1>1, PTL DEF Spec

\* CoreAudio's device plays the stream's bytes in their order, none lost and
\* none twice, for every ring that is a whole number of chunks (coreaudio.c);
\* OpenAL's source plays the chunks in their order, and after it starved may
\* play some again but skips none (al.c).
THEOREM DevicesHearInOrder == Spec => []HeardInOrder
<1>1. DInv => HeardInOrder
  BY HeardFollows DEF DInv, CAInv, HeardInOrder
<1> QED
  BY InitInv, NextInv, <1>1, PTL DEF Spec
=============================================================================
