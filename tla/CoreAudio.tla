----------------------------- MODULE CoreAudio -----------------------------
(***************************************************************************)
(* The CoreAudio driver (src/src/drivers/coreaudio.c): rsd_thread fills a   *)
(* ring under a mutex and sleeps on a condition while it is full;           *)
(* CoreAudio's own thread calls audio_callback and takes what it needs.     *)
(* Byte i of the stream is the number i; 0 is a byte of nobody's.           *)
(***************************************************************************)
EXTENDS Integers, Sequences

CONSTANTS
  BufferSize,   \* interface->buffer_size
  ChunkSize,    \* bytes of one coreaudio_write
  MaxAsk,       \* the most one audio_callback asks for
  MaxBytes      \* bound: bytes the client sends

(* The buffer is 32 chunks of DEFAULT_CHUNK_SIZE, and CoreAudio asks for     *)
(* less than that.                                                          *)
ASSUME CoreAudioAssumption ==
  /\ ChunkSize \in Nat \ {0} /\ BufferSize \in Nat \ {0} /\ BufferSize % ChunkSize = 0
  /\ MaxAsk \in 1..BufferSize /\ MaxBytes \in Nat

VARIABLES
  ca_buffer,    \* the ring
  read_ptr,
  valid_size,
  ca_writer,    \* coreaudio_write: "idle", "write", "wait" (asleep) or "closed"
  size,         \* what it still has to write
  buf,          \* how far its pointer is behind the start of the chunk
  ca_sent,      \* bytes handed over before this call
  signal,       \* the callback is about to signal the condition
  ca_heard      \* bytes the device has played

cavars == <<ca_buffer, read_ptr, valid_size, ca_writer, size, buf, ca_sent, signal, ca_heard>>

CAInit ==
  /\ ca_buffer = [i \in 0..(BufferSize - 1) |-> 0] /\ read_ptr = 0 /\ valid_size = 0
  /\ ca_writer = "idle" /\ size = 0 /\ buf = 0 /\ ca_sent = 0
  /\ signal = FALSE /\ ca_heard = << >>

\* The server's loop calls coreaudio_write with the next chunk ...
coreaudio_write ==
  /\ ca_writer = "idle" /\ ca_sent + ChunkSize <= MaxBytes
  /\ ca_writer' = "write" /\ size' = ChunkSize /\ buf' = 0
  /\ UNCHANGED <<ca_buffer, read_ptr, valid_size, ca_sent, signal, ca_heard>>

\* ... or closes the driver.  Stopping the unit waits for its callback.
coreaudio_close ==
  /\ ca_writer = "idle" /\ ~signal
  /\ ca_writer' = "closed"
  /\ UNCHANGED <<ca_buffer, read_ptr, valid_size, size, buf, ca_sent, signal, ca_heard>>

\* What lies at offset i of the chunk.
InChunk(i) == IF i < ChunkSize THEN ca_sent + i + 1 ELSE 0

\* The n bytes that go into the ring from write_ptr on.  Where the ring wraps
\* the source pointer is advanced by the first part and then indexed by it.
Copied(write_ptr, n) ==
  LET first == IF write_ptr + n > BufferSize THEN BufferSize - write_ptr ELSE n
  IN  [i \in 0..(BufferSize - 1) |->
         IF i \in write_ptr..(write_ptr + first - 1) THEN InChunk(buf + i - write_ptr)
         ELSE IF i < n - first THEN InChunk(buf + first + first + i)
         ELSE ca_buffer[i]]

\* Faulty variant: a read that wraps does not wrap the pointer.
audio_callback_late ==
  \E ask \in 1..MaxAsk :
    /\ ca_writer # "closed" /\ ~signal
    /\ IF valid_size < ask THEN UNCHANGED <<ca_heard, valid_size, read_ptr>>
       ELSE /\ ca_heard' = ca_heard \o [i \in 1..ask |-> ca_buffer[(read_ptr + i - 1) % BufferSize]]
            /\ valid_size' = valid_size - ask
            /\ read_ptr' = IF read_ptr + ask < BufferSize THEN read_ptr + ask ELSE 0
    /\ signal' = TRUE
    /\ UNCHANGED <<ca_buffer, ca_writer, size, buf, ca_sent>>

\* One turn of the loop, under the mutex, with room in the ring.
Fill ==
  LET n == IF BufferSize - valid_size > size THEN size ELSE BufferSize - valid_size
  IN
  /\ ca_writer = "write" /\ n > 0
  /\ ca_buffer' = Copied((read_ptr + valid_size) % BufferSize, n)
  /\ valid_size' = valid_size + n /\ size' = size - n /\ buf' = buf + n
  /\ IF size = n THEN ca_writer' = "idle" /\ ca_sent' = ca_sent + ChunkSize
                 ELSE UNCHANGED <<ca_writer, ca_sent>>
  /\ UNCHANGED <<read_ptr, signal, ca_heard>>

\* Without room the writer sleeps; the mutex is given up as it does.
CondWait ==
  /\ ca_writer = "write" /\ valid_size = BufferSize
  /\ ca_writer' = "wait"
  /\ UNCHANGED <<ca_buffer, read_ptr, valid_size, size, buf, ca_sent, signal, ca_heard>>

\* CoreAudio asks for some bytes: all of them, or silence.  The condition is
\* signalled after the mutex is given up.
audio_callback ==
  \E ask \in 1..MaxAsk :
    /\ ca_writer # "closed" /\ ~signal
    /\ IF valid_size < ask THEN UNCHANGED <<ca_heard, valid_size, read_ptr>>
       ELSE /\ ca_heard' = ca_heard \o [i \in 1..ask |-> ca_buffer[(read_ptr + i - 1) % BufferSize]]
            /\ valid_size' = valid_size - ask /\ read_ptr' = (read_ptr + ask) % BufferSize
    /\ signal' = TRUE
    /\ UNCHANGED <<ca_buffer, ca_writer, size, buf, ca_sent>>

CondSignal ==
  /\ signal
  /\ signal' = FALSE
  /\ ca_writer' = IF ca_writer = "wait" THEN "write" ELSE ca_writer
  /\ UNCHANGED <<ca_buffer, read_ptr, valid_size, size, buf, ca_sent, ca_heard>>

CANext == coreaudio_write \/ Fill \/ CondWait \/ audio_callback \/ CondSignal \/ coreaudio_close

\* The writer's thread runs, CoreAudio goes on asking, its callback returns.
CAFair == WF_cavars(Fill \/ CondWait) /\ WF_cavars(audio_callback) /\ WF_cavars(CondSignal)

CATypeOK ==
  /\ ca_buffer \in [0..(BufferSize - 1) -> 0..MaxBytes]
  /\ read_ptr \in 0..(BufferSize - 1) /\ valid_size \in 0..BufferSize
  /\ ca_writer \in {"idle", "write", "wait", "closed"}
  /\ size \in 0..ChunkSize /\ buf \in 0..ChunkSize /\ ca_sent \in 0..MaxBytes
  /\ signal \in BOOLEAN /\ ca_heard \in Seq(0..MaxBytes)

\* The device plays the stream's bytes in their order, none twice, and what is
\* neither played nor in the ring has not been taken: whatever it asks for and
\* wherever the ring wraps.
CAHeardInOrder ==
  /\ \A i \in 1..Len(ca_heard) : ca_heard[i] = i
  /\ Len(ca_heard) + valid_size = ca_sent + (IF ca_writer \in {"write", "wait"} THEN buf ELSE 0)
=============================================================================
