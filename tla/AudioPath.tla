----------------------------- MODULE AudioPath -----------------------------
(***************************************************************************)
(* A stream on its way through the server: rsd_thread's loop from the       *)
(* socket to the device (src/src/rsound-common.c), with the resampler, the  *)
(* conversions, and the open and write of the drivers that hand bytes to a  *)
(* device (src/src/drivers).                                                *)
(*                                                                         *)
(* A behaviour is one stream: its format, its driver, whether it is         *)
(* resampled and the host's byte order do not change.  The client sends     *)
(* StreamFrames frames, a wave of Period bytes over and over.               *)
(***************************************************************************)
EXTENDS Converter, Resampler

CONSTANTS
  Drivers,       \* the drivers of this run
  Period,        \* bytes of the wave
  Size,          \* BYTES_TO_SAMPLES(size), for the drivers whose chunk is so many bytes
  InFrames,      \* bufsize / channels: frames of one resample_callback
  Blur,          \* steps of 32 bits that the resampler's floats may lose (under 2^10)
  StreamFrames   \* bound: frames the client sends

ASSUME AudioPathAssumption ==
  /\ Size \in Nat /\ Frames = Size \div Channels /\ Blur \in Nat
  /\ Drivers \subseteq {"alsa", "ao", "al", "dsound", "oss", "porta", "pulse", "roarvs", "muroar"}
  /\ Period \in Nat \ {0} /\ InFrames \in Nat \ {0} /\ StreamFrames \in Nat

VARIABLES
  stream,   \* w_orig.rsd_format, the wave, the driver, resample, is_little_endian()
  pc,       \* "loop", "write" or "exit"
  received, \* samples read from the socket without the resampler
  buffer,   \* the chunk for the device, until the next one is asked for
  written,  \* bytes of it that are written
  heard     \* what the device took of the last write of this chunk, if any

vars == <<rvars, stream, pc, received, buffer, written, heard>>

Init ==
  /\ RInit
  /\ stream \in [fmt : Formats, wave : [1..Period -> 0..(Base - 1)], driver : Drivers,
                 resample : BOOLEAN, little : BOOLEAN]
  /\ pc = "loop" /\ received = 0 /\ buffer = << >> /\ written = 0 /\ heard = << >>

\* The format behind the resampler: 32 bits stay 32 bits, the rest becomes 16.
rsd_format ==
  IF ~stream.resample THEN stream.fmt
  ELSE IF stream.fmt \in Formats32 THEN S32(stream.little) ELSE S16(stream.little)

Bytes == rsnd_format_to_bytes(rsd_format)

\* The samples of a chunk.  ALSA and PortAudio count their chunk in frames,
\* the other drivers in bytes: there the last frame of it may be a part.
ChunkSamples == IF stream.driver \in {"alsa", "porta"} THEN Frames * Channels ELSE Size

\* n samples of what the client sent, from sample i on.
Sent(i, n) ==
  LET w == rsnd_format_to_bytes(stream.fmt)
  IN  [k \in 1..(n * w) |-> stream.wave[(((i * w) + k - 1) % Period) + 1]]

-----------------------------------------------------------------------------
(* From the socket to the chunk *)

\* receive_data gives the whole chunk, or the stream is over.
receive_data ==
  /\ pc = "loop" /\ ~stream.resample
  /\ IF received + ChunkSamples <= StreamFrames * Channels
     THEN /\ buffer' = Sent(received, ChunkSamples)
          /\ received' = received + ChunkSamples
          /\ pc' = "write" /\ written' = 0
     ELSE pc' = "exit" /\ UNCHANGED <<buffer, received, written>>
  /\ heard' = << >>
  /\ UNCHANGED <<rvars, stream>>

\* A new chunk is asked of the resampler.
Resample ==
  /\ pc = "loop" /\ stream.resample
  /\ resampler_cb_read
  /\ buffer' = << >> /\ written' = 0 /\ heard' = << >>
  /\ UNCHANGED <<stream, pc, received>>

\* The samples of a buffer in the host's order, as frames.
ToFrames(buf, w) ==
  [i \in 1..(Len(buf) \div (w * Channels)) |->
     [c \in 1..Channels |-> Signed(Load(buf, ((i - 1) * Channels) + c - 1, w, stream.little), w)]]

resample_callback ==
  LET w    == IF stream.fmt \in Formats32 THEN 4 ELSE 2
      op   == IF w = 4 THEN converter_fmt_to_s32ne(stream.fmt, stream.little)
                       ELSE converter_fmt_to_s16ne(stream.fmt, stream.little)
      raw  == Sent(Len(input) * Channels, InFrames * Channels)
  IN
  /\ IF Len(input) + InFrames <= StreamFrames
     THEN func(ToFrames(audio_converter(raw, stream.fmt, op, stream.little), w)) /\ UNCHANGED pc
     ELSE func_ends /\ pc' = "exit"
  /\ UNCHANGED <<stream, received, buffer, written, heard>>

\* Division that rounds towards zero, as a C conversion does.
Trunc(a, b) == IF a >= 0 THEN a \div b ELSE -((-a) \div b)

\* resampler_float_to_s16 and _s32, from samples times 2 P^2.
FloatTo(v, w) ==
  LET top == Base^w \div 2
      n   == Trunc(v + (P * P), 2 * P * P)
  IN  IF n > top - 2 THEN top - 2 ELSE IF n < 1 - top THEN 1 - top ELSE n

\* Sample k of frames.
At(f, k) == f[(k \div Channels) + 1][(k % Channels) + 1]

\* The chunk that is made of resample_buffer, sample by sample.
Chunk(resample_buffer) ==
  Each(Up(ChunkSamples), [k \in 1..(ChunkSamples * Bytes) |-> 0], Bytes, stream.little,
       LAMBDA b, i : FloatTo(resample_buffer[i], Bytes))

\* How far the floats of the resampler may put a sample off, in steps, as it
\* is rounded to one: 16 bits fit into a float, 32 do not.
Lost == IF Bytes = 4 THEN -Blur..Blur ELSE {0}

\* Behind the frames that the resampler made, nobody wrote resample_buffer.
Process ==
  /\ resampler_process
  /\ \E lost \in [0..(Frames * Channels - 1) -> Lost],
        left \in [(Frames * Channels)..(ChunkSamples - 1) -> Noise] :
       buffer' = Chunk([k \in 0..(ChunkSamples - 1) |->
                          IF k < Frames * Channels THEN At(out', k) + (2 * P * P * lost[k]) ELSE left[k]])
  /\ pc' = "write" /\ written' = 0
  /\ UNCHANGED <<stream, received, heard>>

-----------------------------------------------------------------------------
(* From the chunk to the device *)

\* What a driver's open chooses: the format it asks the device for, and the
\* conversion to it.  An open that fails ends the stream before its loop.
Opened(format, conv) == [format |-> format, conv |-> conv]

AsItIs   == Opened(rsd_format, {})
Native16 == Opened(S16(stream.little), converter_fmt_to_s16ne(rsd_format, stream.little))
Native32 == Opened(S32(stream.little), converter_fmt_to_s32ne(rsd_format, stream.little))

ao_rsd_open == IF rsd_format \in Formats32 THEN Native32 ELSE Native16
porta_open  == IF rsd_format \in Formats32 THEN Native32 ELSE Native16
al_open     == Native16
ds_rsd_open == Native16

\* The switch of oss_open has no 32 bits unless the system's header has them.
oss_open == IF rsd_format \in Formats32 THEN Native16 ELSE AsItIs

alsa_open       == AsItIs
roarvs_rsd_open == AsItIs
muroar_rsd_open == AsItIs

pulse_open ==
  CASE rsd_format = "U16_LE" -> Opened("S16_LE", {"U_TO_S"})
    [] rsd_format = "U16_BE" -> Opened("S16_BE", {"U_TO_S"})
    [] rsd_format = "U32_LE" -> Opened("S32_LE", {"U_TO_S"})
    [] rsd_format = "U32_BE" -> Opened("S32_BE", {"U_TO_S"})
    [] rsd_format = "S8"     -> Opened("U8", {"S_TO_U"})
    [] OTHER                 -> AsItIs

Device ==
  CASE stream.driver = "ao" -> ao_rsd_open [] stream.driver = "porta" -> porta_open
    [] stream.driver = "al" -> al_open [] stream.driver = "dsound" -> ds_rsd_open
    [] stream.driver = "oss" -> oss_open [] stream.driver = "alsa" -> alsa_open
    [] stream.driver = "roarvs" -> roarvs_rsd_open [] stream.driver = "muroar" -> muroar_rsd_open
    [] stream.driver = "pulse" -> pulse_open

\* The bytes of the device's format that each write makes of size bytes of the
\* stream, when it converts.
ao_rsd_write(size) == IF Bytes = 1 THEN 2 * size ELSE size

\* PortAudio is told frames, and twice as many for the formats that are
\* compressed: it then plays what lies behind the buffer.
porta_write(size) ==
  LET told == IF rsd_format \in {"ALAW", "MULAW"} THEN 2 * size ELSE size
  IN  IF Bytes = 1 THEN 2 * told ELSE told

al_write(size)     == CASE Bytes = 1 -> 2 * size [] Bytes = 2 -> size [] Bytes = 4 -> size \div 2
ds_rsd_write(size) == CASE Bytes = 1 -> 2 * size [] Bytes = 2 -> size [] Bytes = 4 -> size \div 2

\* latency_enum and latency_denom are the bytes of the two formats.
oss_write(size) == (size * 2) \div Bytes

osize(size) ==
  IF Device.conv = {} \/ stream.driver = "pulse" THEN size
  ELSE CASE stream.driver = "ao" -> ao_rsd_write(size) [] stream.driver = "porta" -> porta_write(size)
         [] stream.driver = "al" -> al_write(size) [] stream.driver = "dsound" -> ds_rsd_write(size)
         [] stream.driver = "oss" -> oss_write(size)

\* What the device hears of rest when it takes n bytes of its own format.
Takes(rest, n) ==
  LET converted == audio_converter(rest, rsd_format, Device.conv, stream.little)
      padding   == IF n > Len(converted) THEN [i \in 1..(n - Len(converted)) |-> 0] ELSE << >>
  IN  SubSeq(converted \o padding, 1, n)

\* write gave back n bytes of the stream: more of the chunk, or the next one.
Advance(n) ==
  /\ written' = written + n
  /\ pc' = IF written + n < Len(buffer) THEN "write" ELSE "loop"

\* The sample of the stream that the chunk begins with.
ChunkStart ==
  IF stream.resample THEN (sum_output_frames - Frames) * Channels ELSE received - ChunkSamples

Rest == SubSeq(buffer, written + 1, Len(buffer))

\* A write of n bytes, from a sample of the chunk on.
Hear(n) ==
  heard' = [start |-> ChunkStart, at |-> written \div Bytes, n |-> n, bytes |-> Takes(Rest, osize(n))]

\* Drivers that write everything, or fail.  pulse_write converts the thread's
\* own buffer.
WriteAll ==
  /\ pc = "write" /\ stream.driver \notin {"alsa", "oss"}
  /\ Hear(Len(Rest))
  /\ buffer' = IF stream.driver = "pulse"
               THEN SubSeq(buffer, 1, written) \o audio_converter(Rest, rsd_format, Device.conv, stream.little)
               ELSE buffer
  /\ Advance(Len(Rest))
  /\ UNCHANGED <<rvars, stream, received>>

\* alsa_write may write some frames of it, oss_write some samples.
WriteSome ==
  \E k \in 1..ChunkSamples :
    /\ pc = "write" /\ stream.driver \in {"alsa", "oss"} /\ k * Bytes <= Len(Rest)
    /\ stream.driver = "alsa" => k % Channels = 0
    /\ Hear(k * Bytes)
    /\ Advance(k * Bytes)
    /\ UNCHANGED <<rvars, stream, received, buffer>>

\* alsa_write after an underrun: the device is restarted and the rest of the
\* chunk counts as written.
Recover ==
  /\ pc = "write" /\ stream.driver = "alsa"
  /\ Advance(Len(Rest))
  /\ UNCHANGED <<rvars, stream, received, buffer, heard>>

\* The driver gives back 0: the stream ends, and with it the buffer.
WriteFails ==
  /\ pc = "write"
  /\ pc' = "exit" /\ buffer' = << >> /\ written' = 0 /\ heard' = << >>
  /\ UNCHANGED <<rvars, stream, received>>

Exited == pc = "exit" /\ UNCHANGED vars

Next ==
  \/ receive_data
  \/ Resample \/ resample_callback \/ Process
  \/ WriteAll \/ WriteSome \/ Recover \/ WriteFails
  \/ Exited

Spec == Init /\ [][Next]_vars

-----------------------------------------------------------------------------
(* Properties *)

\* Every variable has its type; the part of a chunk that is written is part
\* of it.
TypeOK ==
  /\ RTypeOK
  /\ pc \in {"loop", "write", "exit"}
  /\ buffer \in Seq(0..(Base - 1)) /\ written \in 0..Len(buffer)

\* The amplitude of the client's sample k, on the scale of the device.
Meant(k) ==
  LET a == Amplitude(stream.fmt, Sent(k, 1))
  IN  IF stream.fmt \in Formats32 /\ Device.format \notin Formats32 THEN a \div Base^2 ELSE a

\* On the scale of the device, the step of the last conversion and what the
\* floats lose.
Tolerance ==
  IF stream.fmt \notin Formats32 THEN 1
  ELSE IF Device.format \in Formats32 THEN 1 + Blur ELSE 1 + (Blur \div Base^2)

(***************************************************************************)
(* The device hears what the client meant: whatever the format, the host,   *)
(* the driver and the sizes in which the device takes it, the bytes of a    *)
(* write are, in the format the device was opened with, the amplitudes of   *)
(* exactly the samples that write says it took.  Behind the resampler, and  *)
(* with EnoughFrames, this is so for the samples that the resampler made    *)
(* and that fall on an input frame, to within one step, the two values at   *)
(* the ends that the conversion leaves out, and what floats lose of 32 bits.*)
(* Of what is left of a chunk behind its last whole frame it says nothing:  *)
(* nobody wrote that.  (PortAudio and the compressed formats: see osize.)   *)
(***************************************************************************)
DeviceHears ==
  heard # << >> /\ ~(stream.driver = "porta" /\ rsd_format \in {"ALAW", "MULAW"}) =>
    LET plays == Amplitudes(Device.format, heard.bytes) IN
    /\ Len(plays) * Bytes = heard.n
    /\ \A i \in 1..Len(plays) :
         LET s == heard.at + i - 1
             k == heard.start + s
             x == k \div Channels
         IN
         IF ~stream.resample THEN plays[i] = Meant(k)
         ELSE EnoughFrames /\ s < Frames * Channels /\ Pos(x) * P = x * Q =>
                plays[i] - Meant((Pos(x) * Channels) + (k % Channels)) \in -Tolerance..Tolerance
=============================================================================
