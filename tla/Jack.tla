-------------------------------- MODULE Jack --------------------------------
(***************************************************************************)
(* The JACK driver (src/src/drivers/jack.c): rsd_thread parts a chunk into  *)
(* channels and writes each into a ring of its own; JACK's thread takes the *)
(* same number of frames from every ring.  There is no lock.  A ring is a   *)
(* queue of RingBytes bytes at most (jack_ringbuffer, which reads and       *)
(* writes less than asked when it has less).  A sample in a ring is a float *)
(* of four bytes; byte b of sample k of the interleaved stream is the       *)
(* number 4(k - 1) + b.                                                     *)
(***************************************************************************)
EXTENDS Integers, Sequences

CONSTANTS
  Chans,        \* jd->channels
  ChunkSamples, \* BYTES_TO_SAMPLES(size): samples of one jack_write
  RingBytes,    \* bytes a ring holds
  Cycle,        \* nframes: the frames of one process_cb
  MaxWrites     \* bound: chunks the client sends

SampleSize == 4  \* sizeof(jack_default_audio_sample_t)

\* Whole frames of a chunk, and the bytes of it that each ring is given:
\* size * sizeof(float) / channels, rounded down.  Unless a chunk is a whole
\* number of frames these may end within a sample.
ChunkFrames == ChunkSamples \div Chans
RowBytes    == (ChunkSamples * SampleSize) \div Chans

WholeFrames == (ChunkSamples % Chans) = 0

(* Any number of channels; what one chunk gives a ring fits in it.          *)
ASSUME JackAssumption ==
  /\ Chans \in Nat \ {0} /\ ChunkSamples \in Nat \ {0}
  /\ RingBytes \in Nat /\ RowBytes <= RingBytes
  /\ Cycle \in Nat \ {0} /\ MaxWrites \in Nat

VARIABLES
  ring,        \* jd->buffer[i]
  shutdown,
  jwriter,     \* jack_write: "idle", "space", "write", "failed" or "closed"
  wchan,       \* the channel it looks at or writes
  wavail,      \* min_avail of write_buffer
  jsent,       \* chunks handed over before this call
  jprocess,    \* process_cb: "idle", "measure" or "read"
  pchan,       \* the channel it looks at or reads
  pavail,      \* min_avail of process_cb, in bytes
  jheard       \* what each port has played

jvars == <<ring, shutdown, jwriter, wchan, wavail, jsent, jprocess, pchan, pavail, jheard>>

writer  == <<jwriter, wchan, wavail, jsent>>
process == <<jprocess, pchan, pavail, jheard>>

JInit ==
  /\ ring = [c \in 1..Chans |-> << >>] /\ shutdown = FALSE
  /\ jwriter = "idle" /\ wchan = 1 /\ wavail = RingBytes /\ jsent = 0
  /\ jprocess = "idle" /\ pchan = 1 /\ pavail = 0
  /\ jheard = [c \in 1..Chans |-> << >>]

AtMost(a, b) == IF a < b THEN a ELSE b

\* Byte b of sample k of the stream.
ByteOf(k, b) == ((k - 1) * SampleSize) + b

\* Row c of out_deinterleaved_buffer as jack_ringbuffer_write reads it: the
\* whole frames of the chunk, and behind them bytes that are not of channel c
\* (0: of the next row, or behind the array).
Deinterleaved(c) ==
  [j \in 1..RowBytes |->
     LET frame == (j - 1) \div SampleSize IN
     IF frame < ChunkFrames
     THEN ByteOf((jsent * ChunkSamples) + (frame * Chans) + c, ((j - 1) % SampleSize) + 1)
     ELSE 0]

-----------------------------------------------------------------------------
(* rsd_thread *)

\* write_buffer looks at the rings' space, one after the other.
jack_write ==
  /\ jwriter = "idle" /\ jsent < MaxWrites
  /\ jwriter' = (IF shutdown THEN "failed" ELSE "space")
  /\ wchan' = 1 /\ wavail' = RingBytes
  /\ UNCHANGED <<ring, shutdown, jsent, process>>

\* Faulty variant: the first ring stands for all of them.
WriteSpace_first ==
  /\ jwriter = "space" /\ ~(wchan = 1 /\ shutdown)
  /\ wavail' = RingBytes - Len(ring[1])
  /\ wchan' = 1
  /\ jwriter' = IF wavail' >= RowBytes THEN "write" ELSE "space"
  /\ UNCHANGED <<ring, shutdown, jsent, process>>

\* The space of ring wchan; after the last one the chunk fits or the loop
\* starts again.
WriteSpace ==
  /\ jwriter = "space" /\ ~(wchan = 1 /\ shutdown)
  /\ LET least == AtMost(wavail, RingBytes - Len(ring[wchan])) IN
     IF wchan < Chans THEN wavail' = least /\ wchan' = wchan + 1 /\ UNCHANGED jwriter
     ELSE IF least >= RowBytes THEN jwriter' = "write" /\ wavail' = least /\ wchan' = 1
     ELSE wavail' = RingBytes /\ wchan' = 1 /\ UNCHANGED jwriter
  /\ UNCHANGED <<ring, shutdown, jsent, process>>

\* Faulty variant: the loop goes on.
GivesUp_never ==
  /\ jwriter = "space" /\ wchan = 1 /\ shutdown
  /\ UNCHANGED jvars

\* The loop sees the shutdown: the write fails.
GivesUp ==
  /\ jwriter = "space" /\ wchan = 1 /\ shutdown
  /\ jwriter' = "failed"
  /\ UNCHANGED <<ring, shutdown, wchan, wavail, jsent, process>>

\* jack_ringbuffer_write, channel by channel.
WriteChannel ==
  /\ jwriter = "write"
  /\ LET room == RingBytes - Len(ring[wchan]) IN
     ring' = [ring EXCEPT ![wchan] = @ \o SubSeq(Deinterleaved(wchan), 1, AtMost(room, RowBytes))]
  /\ IF wchan < Chans THEN wchan' = wchan + 1 /\ UNCHANGED <<jwriter, jsent>>
     ELSE wchan' = 1 /\ jwriter' = "idle" /\ jsent' = jsent + 1
  /\ UNCHANGED <<shutdown, wavail, process>>

\* Between two writes, or after one that failed.  Deactivating the client
\* waits for its callback.
jack_close ==
  /\ jwriter \in {"idle", "failed"} /\ jprocess = "idle"
  /\ jwriter' = "closed"
  /\ UNCHANGED <<ring, shutdown, wchan, wavail, jsent, process>>

-----------------------------------------------------------------------------
(* JACK's thread *)

process_cb ==
  /\ jprocess = "idle" /\ ~shutdown /\ jwriter # "closed"
  /\ jprocess' = "measure" /\ pchan' = 1 /\ pavail' = RingBytes
  /\ UNCHANGED <<ring, shutdown, writer, jheard>>

\* What ring pchan has to read; after the last one the least of them is known,
\* and the cycle takes whole samples.
ReadSpace ==
  /\ jprocess = "measure"
  /\ LET least == AtMost(pavail, Len(ring[pchan])) IN
     IF pchan < Chans THEN pavail' = least /\ pchan' = pchan + 1 /\ UNCHANGED jprocess
     ELSE pavail' = SampleSize * AtMost(least \div SampleSize, Cycle) /\ pchan' = 1 /\ jprocess' = "read"
  /\ UNCHANGED <<ring, shutdown, writer, jheard>>

\* jack_ringbuffer_read, channel by channel; the rest of the cycle is silent.
ReadChannel ==
  /\ jprocess = "read"
  /\ LET n == AtMost(pavail, Len(ring[pchan])) IN
     /\ jheard' = [jheard EXCEPT ![pchan] = @ \o SubSeq(ring[pchan], 1, n)]
     /\ ring' = [ring EXCEPT ![pchan] = SubSeq(@, n + 1, Len(@))]
  /\ IF pchan < Chans THEN pchan' = pchan + 1 /\ UNCHANGED jprocess
     ELSE pchan' = 1 /\ jprocess' = "idle"
  /\ UNCHANGED <<shutdown, writer, pavail>>

\* The JACK server goes away: no cycle follows.
shutdown_cb ==
  /\ ~shutdown /\ jprocess = "idle" /\ jwriter # "closed"
  /\ shutdown' = TRUE
  /\ UNCHANGED <<ring, writer, process>>

-----------------------------------------------------------------------------

JNext ==
  \/ jack_write \/ WriteSpace \/ GivesUp \/ WriteChannel \/ jack_close
  \/ process_cb \/ ReadSpace \/ ReadChannel \/ shutdown_cb

\* Both threads run, and JACK cycles as long as its server is there.
JFair ==
  /\ WF_jvars(WriteSpace \/ GivesUp \/ WriteChannel)
  /\ WF_jvars(process_cb \/ ReadSpace \/ ReadChannel)

JTypeOK ==
  /\ ring \in [1..Chans -> Seq(Int)]
  /\ \A c \in 1..Chans : Len(ring[c]) <= RingBytes
  /\ jwriter \in {"idle", "space", "write", "failed", "closed"} /\ wchan \in 1..Chans
  /\ wavail \in 0..RingBytes /\ jsent \in 0..MaxWrites
  /\ jprocess \in {"idle", "measure", "read"} /\ pchan \in 1..Chans /\ pavail \in 0..RingBytes
  /\ jheard \in [1..Chans -> Seq(Int)]

\* Byte i of channel c in the stream.
StreamByte(c, i) ==
  ByteOf((((i - 1) \div SampleSize) * Chans) + c, ((i - 1) % SampleSize) + 1)

\* The ports stay together: between two cycles every port has played as much
\* as the others and nothing written to a ring is lost, although the two
\* threads write and read the rings one after the other and test them without
\* a lock.  When a chunk is a whole number of frames, port c plays the samples
\* of channel c in their order.
JHeardTogether ==
  /\ WholeFrames => \A c \in 1..Chans : \A i \in 1..Len(jheard[c]) : jheard[c][i] = StreamByte(c, i)
  /\ jprocess = "idle" => \A c \in 1..Chans : Len(jheard[c]) = Len(jheard[1])
  /\ jwriter = "idle" => \A c \in 1..Chans : Len(jheard[c]) + Len(ring[c]) = jsent * RowBytes
=============================================================================
