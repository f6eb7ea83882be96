------------------------------- MODULE OpenAL -------------------------------
(***************************************************************************)
(* The OpenAL driver (src/src/drivers/al.c): a fixed set of buffers goes    *)
(* round between the free list res_buf and the source's queue, from which   *)
(* the driver takes back the ones that were played.  The source is external *)
(* (OpenAL): it plays its queue in order, stops at its end, and a stopped   *)
(* source that is played again starts with the first buffer it has.         *)
(* Chunk i of the stream is the number i.                                   *)
(***************************************************************************)
EXTENDS Integers, Sequences

CONSTANTS
  num_buffers,   \* al->num_buffers: rate / 2500 + 1
  MaxChunks      \* bound: chunks the client sends

ASSUME OpenALAssumption == num_buffers \in Nat \ {0} /\ MaxChunks \in Nat

VARIABLES
  res_buf,     \* the array, of which the first res_ptr are free
  res_ptr,
  content,     \* the chunk alBufferData put into each buffer
  queue,       \* the source's buffers
  processed,   \* how many of them are played
  playing,     \* AL_SOURCE_STATE is AL_PLAYING
  awriter,     \* al_write: "idle", "get", "queue", "play", "failed" or "closed"
  buffer,      \* its buffer
  asent,       \* chunks handed over before this call
  starved,     \* history: the source ran out of buffers
  aheard       \* chunks the source has played

alvars == <<res_buf, res_ptr, content, queue, processed, playing, awriter, buffer, asent, starved, aheard>>

device == <<queue, processed, playing, starved, aheard>>

Buffers == 1..num_buffers

\* al_open: every buffer is free.
ALInit ==
  /\ res_buf = [i \in 1..num_buffers |-> i]
  /\ res_ptr = num_buffers
  /\ content = [b \in Buffers |-> 0] /\ queue = << >> /\ processed = 0 /\ playing = FALSE
  /\ awriter = "idle" /\ buffer = 1 /\ asent = 0
  /\ starved = FALSE /\ aheard = << >>

\* Faulty variant: the buffers that come back overwrite the free ones.
al_unqueue_buffers_again ==
  /\ processed > 0
  /\ res_buf' = [i \in 1..num_buffers |-> IF i \in 1..processed THEN queue[i] ELSE res_buf[i]]
  /\ res_ptr' = processed
  /\ queue' = SubSeq(queue, processed + 1, Len(queue)) /\ processed' = 0

\* What was played goes behind the free buffers.
al_unqueue_buffers ==
  /\ processed > 0
  /\ res_buf' = [i \in 1..num_buffers |->
                   IF i \in (res_ptr + 1)..(res_ptr + processed) THEN queue[i - res_ptr] ELSE res_buf[i]]
  /\ res_ptr' = res_ptr + processed
  /\ queue' = SubSeq(queue, processed + 1, Len(queue)) /\ processed' = 0

al_write ==
  /\ awriter = "idle" /\ asent < MaxChunks
  /\ awriter' = "get"
  /\ UNCHANGED <<res_buf, res_ptr, content, buffer, asent, device>>

\* al_get_buffer with no buffer left: it tries until some come back.
GetBlocks ==
  /\ awriter = "get" /\ res_ptr = 0
  /\ al_unqueue_buffers
  /\ UNCHANGED <<content, awriter, buffer, asent, playing, starved, aheard>>

\* al_get_buffer and alBufferData.
al_get_buffer ==
  /\ awriter = "get" /\ res_ptr > 0
  /\ buffer' = res_buf[res_ptr] /\ res_ptr' = res_ptr - 1
  /\ content' = [content EXCEPT ![buffer'] = asent + 1]
  /\ awriter' = "queue"
  /\ UNCHANGED <<res_buf, asent, device>>

\* alSourceQueueBuffers, which may fail: the write then fails.
QueueBuffer ==
  /\ awriter = "queue"
  /\ \/ queue' = Append(queue, buffer) /\ awriter' = "play"
     \/ awriter' = "failed" /\ UNCHANGED queue
  /\ UNCHANGED <<res_buf, res_ptr, content, buffer, asent, processed, playing, starved, aheard>>

\* A source that does not play is played, from its first buffer.
PlaySource ==
  /\ awriter = "play"
  /\ \/ /\ playing' = TRUE /\ processed' = (IF playing THEN processed ELSE 0)
        /\ awriter' = "idle" /\ asent' = asent + 1
     \/ awriter' = "failed" /\ UNCHANGED <<playing, processed, asent>>
  /\ UNCHANGED <<res_buf, res_ptr, content, buffer, queue, starved, aheard>>

\* A control message asks for the delay, between two writes.
al_latency ==
  /\ awriter = "idle"
  /\ al_unqueue_buffers
  /\ UNCHANGED <<content, awriter, buffer, asent, playing, starved, aheard>>

al_close ==
  /\ awriter \in {"idle", "failed"}
  /\ awriter' = "closed" /\ playing' = FALSE
  /\ UNCHANGED <<res_buf, res_ptr, content, buffer, asent, queue, processed, starved, aheard>>

\* OpenAL finishes a buffer, and stops after the last one.
SourcePlays ==
  /\ playing /\ processed < Len(queue)
  /\ aheard' = Append(aheard, content[queue[processed + 1]])
  /\ processed' = processed + 1
  /\ playing' = (processed + 1 < Len(queue))
  /\ starved' = (starved \/ ~playing')
  /\ UNCHANGED <<res_buf, res_ptr, content, queue, awriter, buffer, asent>>

ALNext ==
  \/ al_write \/ GetBlocks \/ al_get_buffer \/ QueueBuffer \/ PlaySource
  \/ al_latency \/ al_close \/ SourcePlays

\* The writer's thread runs and the source plays.
ALFair ==
  /\ WF_alvars(GetBlocks \/ al_get_buffer \/ QueueBuffer \/ PlaySource)
  /\ WF_alvars(SourcePlays)

ALTypeOK ==
  /\ res_buf \in [1..num_buffers -> Buffers] /\ res_ptr \in 0..num_buffers
  /\ content \in [Buffers -> 0..MaxChunks] /\ queue \in Seq(Buffers)
  /\ processed \in 0..Len(queue) /\ playing \in BOOLEAN /\ starved \in BOOLEAN
  /\ awriter \in {"idle", "get", "queue", "play", "failed", "closed"}
  /\ buffer \in Buffers /\ asent \in 0..MaxChunks /\ aheard \in Seq(1..MaxChunks)

Elements(s) == {s[i] : i \in 1..Len(s)}

\* Where the buffers are.
Free   == [i \in 1..res_ptr |-> res_buf[i]]
InHand == IF awriter = "queue" THEN <<buffer>> ELSE << >>

\* As long as the writer has not failed, every buffer is in exactly one place:
\* free, in the writer's hand or in the queue.  So none is filled while the
\* source may still play it, and none is lost.
ALBuffersKept ==
  awriter \notin {"failed", "closed"} =>
    /\ Len(Free) + Len(InHand) + Len(queue) = num_buffers
    /\ Elements(Free) \cup Elements(InHand) \cup Elements(queue) = Buffers

\* The source plays the chunks in their order and leaves none out.  After it
\* starved it may play again what was not taken back, but never skips.
ALHeardInOrder ==
  \A i \in 1..Len(aheard) :
    IF starved THEN \A m \in 1..(aheard[i] - 1) : \E j \in 1..(i - 1) : aheard[j] = m
               ELSE aheard[i] = i
=============================================================================
