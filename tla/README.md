# RSound in TLA+

RSound plays audio over a network. A program links `librsound` (or runs on one
of the two OSS emulations built on it) and writes PCM data; the library sends it
to the server `rsd`, which converts or resamples it and gives it to an audio
driver. This directory models the parts in which threads, sockets, descriptors and
buffers interact and the arithmetic on the way of a sample, checks them with TLC on
small instances and proves some of the results for every instance with TLAPS.

Paths below are relative to the root of the repository (`src/src/...` is the C
source). `PROJECT.json` lists components, runs, mutants, the map from
definitions to source lines, hazards and theorems.

## 1. Inventory

| Component | State | Operations | Talks to |
|---|---|---|---|
| FIFO ring buffer, `librsound/buffer.c` | cells, `first`, `end` | new, availability, write, read | client library, ross |
| Client library, blocking mode, `librsound/librsound.c` | `rsound_t`: sockets, flags, FIFO; `mutex`, `cond_mutex`, `cond` | `rsd_start`, `rsd_write`, `rsd_stop`, `rsd_exec`, `rsd_free`; thread `rsnd_thread` | server over a data and a control socket |
| Client library, callback mode | the same, `cb_lock` | thread `rsnd_cb_thread`, audio and error callback | the program's callbacks, server |
| Client library, latency and control messages | `total_written`, `delay_offset`, `use_latency` | identity, INFO query and answer, `rsnd_close_ctl`, `rsd_delay` | server (`proto.c`) |
| Client library, parameters | rate, channels, format, sizes | `rsd_set_param`, `rsd_init`, clamps of `rsnd_get_backend_info` | - |
| Server, accept loop, `daemon.c` | `s_new`, `s_ctl`, last thread | accept, pair, check the source, hand over | clients, connection threads |
| Server, connection threads, `rsound-common.c` | `connection_t`, buffers | header, driver, stream loop, shutdown | client, driver |
| Server, control protocol, `proto.c` | `serv_ptr`, `ctl_socket` | INFO, IDENTITY, STOP, CLOSECTL | client's control socket |
| Server, sample conversion, `audio.c`, `endian.c` | sample buffers | `audio_converter`, choice of the operations | connection thread, drivers |
| Server, resampler, `resampler.c` | frames kept, input and output counts | `resampler_cb_read` and its callback | connection thread |
| Drivers, `drivers/*.c` | a ring (CoreAudio, JACK, DirectSound), a set of buffers (OpenAL) or none | open, write, latency, close | connection thread, the device's own thread |
| ross, `cuse-ross/cuse-ross.c` | `ross_t`: FIFO, `started`, `error`, poll handle; `poll_lock`, `cond_lock`, `cond` | FUSE handlers, callbacks | callback mode, kernel |
| OSS preload library, `oss-emul/librsoundoss.c` | table of 16 devices | interposed `open`, `write`, `ioctl`, `close`, `read` | blocking mode, the rest of the process |
| rsdplay, Windows port, bindings | thin | - | - |

What is hard here: the writer and the playback thread check the FIFO under one
mutex and sleep under another; a playback thread that fails resets the handle
under the application; descriptors are numbers that are closed and handed out
again, in the server, in the preload library and in `rsd_exec`; the server pairs
two connections of a client by the order in which they arrive; control messages
arrive in pieces and three threads read and write them; FUSE, the kernel and a
callback thread wake each other up; a device's thread empties a ring that the
server's thread fills, once under a lock and once without; the resampler counts
frames with rounded positions over an endless stream; samples are widened in
place; servers and clients go away at any step.

Correctness, by component:
* FIFO: it is a bounded byte queue of the size asked for.
* Client: bytes are sent once and in order; no assertion fails; calls return; no
  descriptor is closed twice; `rsd_get_avail` and `rsd_exec` do what the
  documentation says.
* Control messages: the server acts only on what was asked; the estimate follows only
  what was answered; `rsnd_close_ctl` succeeds only when the socket is given up.
* Server: each stream is played as it was sent; nobody's descriptor is touched;
  everything is released; `--single` serialises; CLOSECTL does not end a stream.
* Conversion, resampler, drivers: the device hears the samples the client meant, in
  every format; the resampler loses no input, reads none it does not have and keeps
  time; channels stay together; a driver's write returns.
* ross: nothing written is lost; sleepers and pollers are woken; the FIFO
  outlives its users.
* OSS preload: files are not taken for devices; devices follow their connection;
  slots and descriptors are given back; non-blocking devices never sleep.

## 2. Modules

```
ByteQueue  <--implements--  Fifo  <--  FifoProofs
                            LibRsound  <--  LibRsoundProofs
   librsound + proto.c:     Control    <--  ControlProofs
                            RsdServer  <--  RsdServerProofs
Converter, Resampler  -->   AudioPath  <--  AudioPathProofs
                            (rsd_thread's loop + thin drivers)
CoreAudio, Jack, OpenAL --> Drivers    <--  DriversProofs
   callback mode + ross:    CuseRoss   <--  CuseRossProofs
   preload library:         OssEmul    <--  OssEmulProofs
```

Operators carry the name of the C function when they stand for one. An action is
one step between two points at which another thread can observe or change shared
state: a critical section, an unlocked read of a flag, a signal, a system call.
Definitions named `X_something` next to `X` are faulty variants: each mutant
of `PROJECT.json` replaces `X` by one and some run then fails.

**ByteQueue, Fifo.** `Fifo` has the cells and the two pointers of
`rsound_fifo_buffer_t`; one cell stays free (`bufsize = Size + 1`). A write or read
is at most two copies. The refinement mapping reads the queue off the cells
between the pointers.

**LibRsound.** Thread 0 is the application, 1.. are the playback threads in order
of creation (a stream can be restarted while the last thread is still ending). `rd`
holds the fields of `rsound_t` that decide a branch. `mutex` critical sections are
single steps; `cond_mutex` is a variable because a playback thread keeps it from
its signal to its wait. `rsnd_reset` is cut in four: close, assignments
under the mutex, `thread_active`, signal. Bytes carry their position in the stream.
`SendFails` covers a dead link, a link that breaks within a chunk and
the 10-second timeout of a stalled server. The handshake stands for the header
and the backend information.

**Control.** The control socket as two byte streams. A byte is too fine: a stream is
a sequence of units, two for a header (the one with "RSD", the one with the length)
and one to four for a body, and a read may end between any two. The client's playback
thread (`player`) asks and reads answers, the application (`app`) sends CLOSECTL and
reads the same socket, the server's connection thread (`conn`) reads requests and
answers. `rsnd_close_ctl`'s buffer is kept with what earlier reads left behind the
end of its string. A name that contains a keyword is one of the kinds of identity.

**RsdServer.** A descriptor table with lowest-first allocation; descriptor 0 is
standard input, 1 and 2 and the listening socket have no number. `main` is the
accept loop; each thread has the labels of `rsd_thread`. Audio is counted in half
chunks, so that partial reads exist. Clients follow librsound's order
of calls; a control message arrives whole (`Control` has the pieces).

**Converter, Resampler, AudioPath.** `Converter` has the loops of `audio_converter`
as recursive functions over a buffer of bytes, in place and in their direction, and
`Amplitude`, which says what a sample of each format means without the code. A byte has `Base`
values. `Resampler` has the ratio as a fraction `P/Q` and samples multiplied by
`2 P^2`, so that the quadratic through three frames is an integer. `AudioPath` runs
one stream through `rsd_thread`'s loop: socket, resampler or not, the chunk, the
format that the driver's `open` chose and the bytes its `write` made of it. Nine
drivers differ in these two.

**CoreAudio, Jack, OpenAL, Drivers.** The drivers that keep audio between two
threads. CoreAudio's ring is under a mutex and is signalled after it; JACK's rings
are external (`jack_ringbuffer`), one per channel, measured and copied one after the
other without a lock; OpenAL's buffers go round between a free list and the source's
queue (external). `Drivers` runs one of them at a time.

**CuseRoss.** `app` is the FUSE request in progress, `cb` the callback threads.
`cb_lock` is held from the start of a callback to the end of `ross_notify`. A short
read is followed by silence or a sleep, as the latency decides. Silence is a count
(`missing`): it comes behind the bytes of the stream in a chunk, and `sent` is what
went to the server without it.

**OssEmul.** One descriptor table shared by devices, sockets and ordinary files.
`handle` is a stream as the preload library sees it; a failing playback thread
closes its sockets in one step and forgets their numbers in another. `open` is two
steps and the start of a stream up to four: without a free slot, without two numbers for
`pipe`, without one for either socket or without a server each ends where the code does
and gives back what the code gives back there. `close` is five steps because it gives the
number back before it clears the slot.

## 3. Runs

Bounds are constants of the modules. They are chosen so that a FIFO fills, wraps
and empties, a write is cut into pieces, a stream restarts after each kind of end, a
table of descriptors is exhausted, a message is cut between any two of its units, and
a resampled stream is longer than the period of its ratio.

| Run | Bounds | Shows |
|---|---|---|
| `fifo` | 4 bytes of room, 2 byte values | `ImplementsByteQueue` for every block size and every position of the pointers |
| `client_faults` | chunk 2, buffer 6, writes of 1 and 3, 8 bytes, 2 connections, 2 threads, break, stall and failing `pthread_create`, 1 spurious wake-up | bytes in order behind the header, no failed assertion, no double close, never both asleep, an honest `rsd_get_avail`; calls return except as in `writer_stuck` |
| `client_calm` | no faults, buffer 5, 6 bytes, 3 threads, `rsd_exec` | every call returns, no deadlock, `rsd_exec` flushes everything |
| `client_exec` | `rsd_exec` with breaking links and failing `pthread_create`, 3 threads | `CondMutexInv` and `OnePlayer` |
| `control` | chunk 1, FIFO 1, 2 chunks, 1 query, names "" and "NULL", messages split, cut and late | `ActsOnRequests`, `FollowsTheServer`, `CloseCtlHonest` |
| `server` | 2 clients one after the other, descriptors 0-3, 2 threads, 2 half chunks, INFO and CLOSECTL, crashes and failing drivers, with and without `--single` | streams played as sent, also after CLOSECTL, sockets kept, one at a time, everything released |
| `server_faults` | 2 clients at once, descriptors 0-3, 4 threads, no audio; late, crossed and silent connections | everything released in every pairing of data and control connections |
| `audio_path` | bytes of 4 values, ratio 3/2, 2 channels, chunk of 5 samples (2 frames and a remainder), 2 frames per callback, 6 frames, wave of 3 bytes, floats 1 step off, 12 formats, 9 drivers, both byte orders | `ReadsInside`, `KeepsTheInput`, `KeepsTime`, `DeviceHears` |
| `drivers` | CoreAudio ring 4, chunk 2, requests to 3, 12 bytes; JACK 2 channels, chunks of 4 samples, ring of 15 bytes, cycle 3, 3 chunks; 3 OpenAL buffers, 6 chunks | `HeardInOrder`, `JHeardTogether`, `ALBuffersKept`, `WritesReturn` |
| `ross` | chunk 2, FIFO of 1 or 2, 3 bytes, 2 callback threads, refusal and break | the six properties of `CuseRoss` |
| `oss` | 2 devices, 5 descriptors, a server that may refuse, 1 break, 1 file besides standard input | the four properties of `OssEmul` |
| `writer_stuck` | violation: chunk 2, buffer 4, 1 connection, break | `rsd_write` can sleep forever after its playback thread failed |

Two threads suffice for the races of two streams on one handle; three allow the
restart inside a failed `rsd_exec`. Two clients and one number less than they need
together make the second `accept` fail. In `server_faults` two clients are four
connections, so that a control connection that comes late or crosswise is paired with the
other client's, and four threads, one for each that is taken for a data connection; audio
would add states and nothing to the pairing. In `control` one query and its answer already
meet STOP, CLOSECTL and a second reader, and one chunk is on either side of "recent".
In `audio_path` the first call of the resampler needs 3 frames of input, the next ones as
many as they have or 2 more, so that callbacks of 2 leave frames over; a chunk of 5
samples ends within a frame of 2; a wave of 3 bytes shifts against samples of 1, 2 and 4,
and 6 frames of input are two turns of the ratio and three calls. A ring of 4 is cut into pieces by requests of 3, and JACK's ring of 15 bytes is
never just full of the 8 bytes a chunk gives it.

Deadlock is checked in `fifo`, `client_calm`, `control`, `server`, `server_faults`,
`audio_path` and `drivers`, where a system that has nothing left to do is an action of
its own (`Waiting`, `Done`, `Exited`, `Closed`); elsewhere the program may stop (the
bounds end it, or a writer is stuck as `writer_stuck` shows). `TypeOK` is part of the
`fifo` run; in the other modules it documents the variables and, where there is a
proof, is part of the invariant that is proved (`TypeInv` where the proof needs more).

**Fairness.** Weak fairness for each thread that the system schedules: the
application's call in progress, each playback or callback thread, the accept
loop, each connection thread, the FUSE handler, a driver's `write` in progress. The
blocking system calls of the code have timeouts or are waits that the model makes
explicit. Devices go on: CoreAudio calls back, JACK cycles while its server is there,
an OpenAL source that plays finishes its buffers (`CAFair`, `JFair`, `ALFair`). No
fairness for the application's next call, for clients, for faults. `CuseRoss` has one
strong fairness assumption: a callback thread that keeps finding too little data fills
in silence at some point, because `rsd_delay_ms` falls while nothing is sent.

## 4. Proofs

`FifoProofs`
* `TypeCorrect`: the pointers stay in range, for every size and set of bytes.
* `Implementation`: `Fifo` implements `ByteQueue`. A write is shown to
  append to the queue and a read to drop from it, element by element, with the
  arithmetic of the wrap-around in lemmas of their own.

`LibRsoundProofs`, from `LibRsoundAssumption` (chunk at least 1, buffer at least two
chunks and at least 3, as `rsnd_get_backend_info` leaves them)
for any number of threads, connections and bytes
* `TypeCorrect`.
* `CondMutexDiscipline`: `CondMutexInv` is inductive. `NeverBothAsleep` alone is
  not: between its signal and its wait a playback thread holds `cond_mutex`, and one
  has to know that nobody is waiting meanwhile (everyone who waits has taken
  `cond_mutex` and signalled first, and one signal empties a wait set of at most one).
* `SleepersExclude`: the writer and the playback threads are never both asleep,
  the claim "avoids complete deadlocks at the very least" of the code.
* `OnePlayerServes`, from `OneInv`: a thread that may still touch the stream is the one
  that `threadId` names, and `thread_active` is set until it has finished its reset or
  the application waits for it. `rsnd_start_thread` looks at `thread_active` alone, so
  this is what makes its test enough.
* `AvailNeverSleeps`, from `FitInv`: only the writer adds to the FIFO, so room that was
  seen is still there; a write that fits as a whole fits piece by piece.
* `HeaderComesFirst`, `AssertionsHold`, `ClosesOnce` from `ConnInv`: where each thread
  is says whether the handle has both sockets, whether they are open and whether the
  connection has had its handshake; who closes them is alone until they are -1.
* `SentInOrderAlways`, `ExecHandsOverAll` from `OrderInv`: what was sent, what the
  playback thread holds and what is in the FIFO are the bytes written, in order.

The last five have the hypothesis `Calm`: if `rsd_exec` is among the calls, links
neither break nor stall. It is not a convenience: with `rsd_exec` and either fault TLC
finds each of the five violated (chunk 2, buffer 5, 6 bytes, 3 threads, 3 connections),
for the reasons in section 6 (`librsound.c:1529`, `:1237`). Without `rsd_exec` every
fault is allowed.

`ControlProofs`, from `ControlAssumption`: any number of queries and chunks, any set of
names, messages lost, cut and split anywhere
* `CloseCtlIsHonest`: until the server lets go no unit of an OK is on the wire or in the
  buffer of `rsnd_close_ctl`. That makes a type of it: the answers are a sequence over a
  set without OK as long as `conn.ctl` is set.
* `ServerActsOnRequests`: the property compares two histories; the invariant has
  witnesses. A function gives for each unit on the wire the request it is of, another
  for each verdict of the server the request whose body said it; both are monotonic and
  every verdict comes before the units still on the wire. Only the end of the request
  just acted on may be left there, and what is left is not a header.
* `EstimateFollowsTheServer`, from `AnswerInv`: every header on the wire is followed by a
  whole body (`Whole`), every body is an answer that was given (`Real`), the playback
  thread reads bodies where they begin (`AtBody`), and what it has read is one of them
  (`Given`); the application is not reading (`Alone`).

`RsdServerProofs`, from `RsdServerAssumption`: any number of clients, threads,
descriptors and units of audio
* `TypeCorrect`; `NeverTwoAtOnce` (`OneAtATime`), from `LastOne`: with `--single` only the
  thread started last can be alive.
* `SocketsStayTheirs` (`KeepsItsSockets`): a connection is in one place only (backlog,
  accept loop, a thread: `OnceInv`), a thread has one or two (`OwnInv`), and the
  descriptors a thread or the loop holds name its connections (`KeepInv`).
* `PlaysInOrder` (`PlaysWhatWasSent`), from `StreamInv`: what the driver was given, what
  is in the buffer and what is on the socket are together what the client sent, and the
  header is the first of it.
* Both are proved of the states in which descriptor 0 is standard input: a thread without
  control socket closes descriptor 0 (section 6), after which a client may be given it and
  lose it to the next such thread. `OrderlyClientsAreServed` shows that this hypothesis is
  met and both hold always when no client is late, scans or connects crosswise and the
  table of descriptors never fills (`PairInv`: the backlog alternates between data and
  control sockets of the same client; `StdinInv`). Clients may still crash, and drivers
  fail.

`OssEmulProofs`, from `OssEmulAssumption`: any number of slots, descriptors, files and
restarts, any sizes
* `TypeCorrect`; `NonblockHonoured` from `SlotInv` (what each label of a call knows of its
  slot, and that free slots are cleared).
* `FilesStayFiles`, `AlwaysRerouted`, `AllGivenBack` from `TableInv`. `NamesInv` says whose
  each number is and `RouteInv` that a device's number is its connection. Neither is
  inductive because of a failing thread, which closes its sockets before it forgets their
  numbers: `dup2` may copy whatever a stale number names by then. `AgeInv` says why that is
  never a lost connection of a slot that comes back: there are times at which
  devices were opened and streams failed, a stale number belongs to a device opened after
  the failure, and a copy of the lost connection to one opened before it.

`CuseRossProofs`, from `CuseRossAssumption`: any number of callback threads, any sizes
* `NothingIsLost`, `BufferOutlivesItsUsers`, `SpaceIsReal`, from one invariant: one thread
  uses the stream, the one started last, and only while the device is started and nobody
  who waited for it has gone on (`OneInv`); a started device has its buffer (`BufferInv`);
  a write that fits has the room it was told of until it has taken it (`RoomInv`); what
  was sent, the bytes in the chunk and the FIFO follow each other (`OrderInv`).

`AudioPathProofs`, from `ResamplerAssumption` (positive sizes), `BaseAssumption` (a byte has 4, 16 or 256 values) and
`AudioPathAssumption`: any ratio, chunk, number of channels, wave, length of stream and
set of drivers, chunks that are whole frames or not. That a chunk is at least as many
frames as an input frame becomes (`EnoughFrames`, `P <= Frames * Q`) is not assumed: the
code does not see to it (section 6), and it stands as a hypothesis in the properties
that need it. In three parts.

*The resampler.* The callback may give any number of frames of any value.
* `ResamplerReadsInside`, `ResamplerKeepsTheInput`, `ResamplerKeepsTime`. The three
  properties speak of one step each and are not inductive: `RInv` adds where the input
  count stands (`Anchored`: at the frame of the last output frame), what the fill loop
  still waits for (`Filled`) and that the frames kept and those of the current call
  are the input from the input count on (`Kept`). The non-linear part is
  monotonicity of the rounded position, in lemmas of its own.

*The conversions*, for a buffer of any length and content on either kind of host.
* `ToS16`, `ToS32`, `LawToS16`: what `audio_converter` makes of a buffer with the
  operations that `converter_fmt_to_s16ne` or `_s32ne` chose has the amplitude of every
  sample of it, in the host's order; `ToSigned` and `ToU8` are the same of what
  PulseAudio asks for.
* A loop works in place, so its sample `i` is only right if the rounds before it have
  not touched its bytes. `LoopStores` says that this is enough: a loop each of whose
  rounds computes its value from untouched bytes has stored all of the values, and has
  touched nothing else. That 8 bits are widened from the end and 32 bits narrowed from
  the beginning is what meets its hypothesis (`BehindIsUntouched`, `AheadIsUntouched`).
* It is an induction over the number of rounds, which the library's induction theorems
  cannot be used for (they take an operator). `Induction` makes one of the fact that a
  set of numbers has a lowest member (`LowestExists`, from well-foundedness of inclusion
  on finite sets), for the *set* of the numbers that have the property; `Recursion`
  then gives the recursive functions of `Converter` their values.

*The path.*
* `AudioPathInvariant`: `PathInv` says that the frames given to the resampler are
  what the client sent (`InputRight`), that every sample of the chunk in a write that
  was received or made is the right one and whole samples of it are written
  (`ChunkRight`), and that the thread is in
  the resampler or in a driver, not in both (`OnePlace`). `DeviceHears` speaks of the last
  write alone and says nothing of the chunk the next one is taken from, so it is
  not inductive. The invariant was checked by TLC on the instance of `audio_path` first.
* `AudioPathHears`: `DeviceHears`. What it needs of a driver is that the size it
  computes (`osize`) is that of the samples it says it took, in the format its `open`
  chose (`TakesPlays`, by cases over drivers and widths), and that a step of rounding
  behind the resampler is at most a step on the scale of the device (`ScaledNear`). Of
  what lies behind the last whole frame of a resampled chunk it says nothing, and 32 bits
  come through the floats to within `Blur` steps, for any `Blur`.
* `AudioPathResamples`: the path implements `RSpec`, so `AudioPathReadsInside`,
  `AudioPathKeepsTheInput` and `AudioPathKeepsTime` follow of the server's own loop from
  the theorems about the resampler alone.
* `AudioPathTypes`: the chunk is a buffer of bytes and what is written a part of it
  (`LastChunk`), PulseAudio's conversion in place included.

`DriversProofs`, from the assumptions of the three drivers
* `PortsStayTogether`: `JHeardTogether` for any number of channels and any sizes: as much
  on every port and nothing lost, always; each channel's samples in order, for chunks that
  are whole frames. With others a ring is given bytes of other channels (section 6).
  `JInv` adds what makes a lock unnecessary: what a thread has measured stays true
  until it has used it, because the other thread only makes more of it
  (`Spacious`, `Measured`), and that the ports differ at most by the cycle in
  progress (`Together`).
* `BuffersStay`: `ALBuffersKept` for any number of buffers; the work is in the array of
  free buffers, of which only a part counts.
* `DevicesHearInOrder`: `HeardInOrder`. For CoreAudio the invariant says that a chunk
  starts at a multiple of `ChunkSize` (`OnStart`), so that no copy into the ring wraps:
  one that did would put its second part in the wrong place (section 6), and the property
  would not hold. For OpenAL no buffer is twice anywhere (`Apart`), so that the queue holds
  the last chunks queued in their order (`Queued`), none is played before the ones in front
  of it (`AllPlayed`), and before the source starves none twice (`OnceEach`, `NoReplay`).

Only model-checked: all liveness (out of the prover's reach), among it `WriterStuck`
and `WritesReturn`, and what the server releases, which is a liveness property too. Every
safety property of a passing run is a theorem.

Proving `DeviceHears` showed a fault of the model that TLC could not: the guards of the
CASE in `osize` overlapped for PulseAudio, so that the semantics of TLA+ left its value
open where TLC takes the first. The guard is now an IF of its own.

## 5. Abstractions and what is left out

* `LibRsound`: the assignments of `librsound.c:1395-1398`, under the mutex, are one step;
  the control socket's messages (see `Control`) and
  `rsd_pause` (stop or start); joining a thread that has detached itself
  is undefined in POSIX, here it waits for the thread's end; a buffer of 2 bytes
  with a chunk of 1 is excluded (the piece size of `rsd_write` would be 0).
* `Control`: the clock of `rsnd_drain` and the size of the correction (only which
  answer moved `delay_offset` is kept), `rsd_pause`, `rsd_delay_wait`; the FIFO is a
  counter; numbers are read whole or without their last digit. `FollowsTheServer` is
  claimed until a part of an answer is sent or `rsd_exec` starts to read the same socket
  (section 6); `history.cut` records the first.
* `RsdServer`: `EverythingReleased` exempts what happens to descriptor 0 once it is not
  standard input (section 6); STOP and the client's close are one step, resets of a TCP connection
  that discard data are not modelled, `pthread_create` does not fail, and clients
  connect one after the other unless the fault `mix` is given.
* `Converter`, `AudioPath`: a byte has 4 values in the run (256 among others in the
  proofs), the A-law and mu-law tables are arbitrary; no conversion to float (JACK), for which TLC has no numbers; a resampled
  stream is compared to within one step of rounding; `DeviceHears` excludes A-law and
  mu-law through PortAudio (section 6). What a float loses of 32 bits is an error of up to
  `Blur` steps for each sample (a float has 24 bits, so the code's is under `2^10` with
  the arithmetic of the resampler), 0 for 16 bits.
* `Resampler`: rationals for the doubles of positions, so rounding over a very long stream
  is not covered; the ratio is the number `resampler_new` was given. Memory that nobody
  wrote holds any member of `Noise`.
* `CoreAudio`, `Jack`, `OpenAL`: a callback asks for at most the ring; what lies behind
  the whole frames of a row of JACK's chunk is 0, a byte of no sample; latency figures,
  port and device names. DirectSound has its open and write in `AudioPath`; its ring
  depends on the position of the device alone.
* `CuseRoss`: one application thread; no spurious wake-ups; rate, format,
  channels, GETODELAY, GETOPTR and SYNC; the callback never returns a negative value.
* `OssEmul`: one thread uses the devices; the others use only ordinary files;
  `dup`, `fork`, `read` and audio parameters; `rsd_init` without memory and the error
  exits of `open` after `pipe` (`fcntl` does not fail on a new pipe, and
  `flags & O_RDONLY` is 0; if they were taken they would keep `fds[1]` open). When the
  other thread closes a number in the window of `librsoundoss.c:418` the handle is freed
  twice: the model notes it (`CloseDying`) and stops, nothing is claimed from there on.
  Two connected streams at once need more than the five descriptors.

**Not modelled.** `rsd_set_param` and the other parameter calls (sequential clamps and
assignments; planned as operators); rsdplay (a loop around `rsd_write` and a parser of
wave headers); option parsing, logging, the PID file; the Windows replacements of
`poll` and `pthread` and the vendored muroar (I/O glue); bindings and patches for
other players (wrappers around the API).

## 6. Observations

Found while modelling, reproducible with the models but not kept as runs.

Client library
* `librsound.c:1284`: a writer's signal between the check and the wait of the playback
  thread is lost; a full chunk then stays unplayed until the next write, where `:1201`
  expects the thread to send it.
* `librsound.c:676`: `ready_for_data` is set after the playback thread was
  started; one that fails at once leaves the handle ready without a thread, and
  the error comes one call late.
* `librsound.c:1241`: after `rsd_write` has reported an error the application may
  free the handle while the failing thread has still to signal on it; `:944` may join a
  thread that has detached itself.
* `librsound.c:1237`: with a stalled server a chunk is dropped when its send times
  out while `rsd_exec` stops the thread; the rest is then flushed behind the gap
  (`SentInOrder` fails with `rsd_exec` and `stall`).
* `librsound.c:1529`: when the flush of `rsd_exec` fails, both sockets are closed
  and stay in the handle (`ClosesOnlyOpenSockets` fails with `rsd_exec` and `break`).
* `librsound.c:919`: `pthread_create` returns a positive number on error and the
  code tests for a negative one.

Control messages
* `librsound.c:1051` and `:1137` read the same socket in two threads during
  `rsd_exec`: they take parts of each other's messages, so the estimate may follow a
  shortened number and `rsd_exec` may fail although the server agreed. What earlier
  reads left in the buffer of `rsnd_close_ctl` can also hide an OK that comes in parts.
* `proto.c:227`, `:234`: `send_proto` does not look at how much of an answer was sent.
  One that lost its last digit is completed by the next one's header, and the estimate
  follows the shortened number (`FollowsTheServer` fails without its `history.cut`).
* `proto.c:160`: keywords are looked for anywhere in a body, so a stream whose name
  contains one is answered with that request instead of being named.
* `proto.c:104`: a request whose body is not there yet is dropped; its body is then
  skipped as what is not a header.

Server
* `daemon.c:193`: `valid_ips` prints the first address twice, so the check that both
  sockets "have to come from same source" (`:177`) holds for any two of one family;
  two clients that connect at once are paired crosswise.
* `rsound-common.c:1112`: a connection without control socket has `ctl_socket` 0,
  "the backend will not perform any operations on it" (`daemon.c:190`), and it is
  closed. With three clients, two of which hang up early, descriptor 0 is a client's
  by then and `KeepsItsSockets` fails.
* `rsound-common.c:1038`, `:1112`: once 0 has been closed that way, a control socket may
  be accepted as 0; it then counts as none, is not read and is never closed. A thread
  whose data socket was 0 and is closed under it polls a number that is not open
  (POLLNVAL), finds neither data nor an end, and goes round for ever (`Spins`). These
  are the exceptions in `EverythingReleased`.
* `rsound-common.c:828` lets a client ask for any rate from 1 to 192000, and nothing
  compares the ratio with the chunk (`:1209`): when a chunk is fewer frames than an input
  frame becomes, `resampler_get_required_frames` (`resampler.c:113`) may ask for two
  frames where `resampler_process` reads three.
* `rsound-common.c:1209`: the ratio is the quotient of the rates as a float. Where a float
  cannot hold it (48000/44100) the stream drifts against the two rates by its error, less
  than one part in ten million; `KeepsTime` is about the ratio that is used.
* `rsound-common.c:1281`: the resampler makes `samples / channels` frames, `:1283` converts
  all samples of the chunk. With 3, 5, 6 or 7 channels 512 bytes are not whole frames:
  the last samples of every chunk are what `malloc` left or an earlier chunk wrote, and
  the channels rotate from chunk to chunk.
* `resampler.c:104`: samples of 32 bits are floats in the resampler and lose what is below
  24 bits; 2^30 + 32 comes out 32 lower even where nothing is interpolated.

Conversion and drivers
* `porta.c`: A-law and mu-law streams are written with twice their number of frames.
  `porta_write` and `pulse_write` give back -1 on failure where `rsd_thread` tests for
  0; pulse then converts the rest of its buffer, which it converts in place, again.
* `audio.c`: `s32_to_s16` runs over four times as many samples as there are;
  `resampler_float_to_s16` rounds negative values one up and leaves out the two values
  at the ends, which is the tolerance of `DeviceHears`.
* `alsa.c`: after an underrun the unwritten rest of the chunk counts as written.
* `jack.c:294`: a ring is given `samples * 4 / channels` bytes, which with 3, 5, 6 or 7
  channels are not whole floats (341 bytes of 256 samples over 3 channels): behind its
  whole frames a ring gets bytes of the next row, the last one of what lies behind
  the array, a sample of every chunk is left out and the channels mix; `:196`: with fewer physical ports
  than channels, names are used that were not set.
* `al.c:120`: a source that ran out and is played again starts with the buffers that
  are processed but not taken back (the exception in `ALHeardInOrder`).
* `coreaudio.c:308`: for a copy that wraps, the source pointer is advanced by the first
  part and indexed by it once more; no copy wraps, because chunks divide the ring and
  no copy goes past its chunk. `:288` can wait for ever only if the callback asks for
  more than the ring holds.

Emulations
* `cuse-ross.c:298`: the exception in `WriteReturns`, a signal between check and wait.
* `cuse-ross.c:561`: SETFRAGMENT on a started stream answers its request twice.
* `cuse-ross.c:173`: a callback thread that has reset the handle is not waited for
  by RESET or close; its `ross_err_cb` may mark the next stream, or write to a freed
  `ross_t`.
* `librsoundoss.c:418`: the window in `FilesAreFiles`.
* `librsoundoss.c:536`, `:559`: GETOSPACE and GETOPTR before the first write end the
  program with an assertion (`GetSpace`); `:393`: `read` before any other call jumps
  through a null pointer; `:100`: `F_GETFD` is used where `F_GETFL` is meant, so
  `O_NONBLOCK` set with `fcntl` is not noticed.

## 7. Plan

Done: Fifo, LibRsound, RsdServer, CuseRoss, OssEmul, Control, Converter, Resampler,
AudioPath, CoreAudio, Jack, OpenAL, Drivers, and the theorems of section 4.

1. Theorems: the queues of `CoreAudio` and `Jack` as implementations of `ByteQueue`.
2. Parameters: `rsd_set_param`, the clamps of `rsnd_get_backend_info`, the
   consequences for `LibRsoundAssumption`.
3. rsdplay: the wave header and the copy loop.
