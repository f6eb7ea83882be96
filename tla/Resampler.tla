----------------------------- MODULE Resampler -----------------------------
(***************************************************************************)
(* The server's quadratic resampler (src/src/resampler.c).                  *)
(*                                                                         *)
(* state->ratio is P / Q: Q input frames become P output frames.  It is a   *)
(* double, so there are such P and Q; the server gives it the quotient of   *)
(* the two rates as a float (rsound-common.c:1209), which is the ratio of   *)
(* the rates only where a float can hold it.  Positions and samples are     *)
(* exact here, where the code has doubles and floats; an output sample is   *)
(* kept times 2 P^2, so that it is an integer.  (What floats lose of wide   *)
(* samples: Process of AudioPath.)  A frame is a sequence of Channels       *)
(* samples.                                                                 *)
(***************************************************************************)
EXTENDS Integers, Sequences

CONSTANTS
  P, Q,        \* ratio = P / Q
  Channels,
  Frames,      \* output frames of one resampler_cb_read
  Noise        \* samples that memory nobody wrote may hold

ASSUME ResamplerAssumption ==
  /\ P \in Nat \ {0} /\ Q \in Nat \ {0} /\ Channels \in Nat \ {0} /\ Frames \in Nat \ {0}
  /\ Noise \subseteq Int /\ Noise # {}

\* One call makes at least as many frames as an input frame becomes.  Nothing
\* in the code sees to it: a client may ask for any rate from 1 on.
EnoughFrames == P <= Frames * Q

VARIABLES
  step,               \* where resampler_cb_read is: "idle", "fill", "process", "ended"
  data,               \* the frames in state->data, up to data_ptr
  temp_buf,           \* the frames of the current call that are not in data yet
  must_read,          \* how many of them the call waits for
  sum_input_frames,
  sum_output_frames,
  out,                \* the frames of the last call, samples times 2 P^2
  input               \* history: every frame the callback has given

rvars == <<step, data, temp_buf, must_read, sum_input_frames, sum_output_frames, out, input>>

Frame == [1..Channels -> Int]

\* resampler_new
RInit ==
  /\ step = "idle" /\ data = << >> /\ temp_buf = << >> /\ must_read = 0
  /\ sum_input_frames = 0 /\ sum_output_frames = 0
  /\ out = << >> /\ input = << >>

-----------------------------------------------------------------------------

\* (int)(x / ratio): the input frame at or before output frame x.
Pos(x) == (x * Q) \div P

\* Faulty variant: no frame of look-ahead.
resampler_get_required_frames_one == Pos(sum_output_frames + Frames) + 1 - sum_input_frames

resampler_get_required_frames == Pos(sum_output_frames + Frames) + 2 - sum_input_frames

resampler_cb_read ==
  /\ step = "idle"
  /\ IF Len(data) < resampler_get_required_frames
     THEN /\ step' = "fill"
          /\ must_read' = resampler_get_required_frames - Len(data)
          /\ temp_buf' = << >>
     ELSE step' = "process" /\ UNCHANGED <<must_read, temp_buf>>
  /\ UNCHANGED <<data, sum_input_frames, sum_output_frames, out, input>>

\* How many of n frames are still needed.
Copy(n) == IF n > must_read - Len(temp_buf) THEN must_read - Len(temp_buf) ELSE n

\* Faulty variant: what the callback gave beyond need is dropped.
func_short(frames) ==
  /\ step = "fill"
  /\ input' = input \o frames
  /\ LET temp == temp_buf \o SubSeq(frames, 1, Copy(Len(frames))) IN
     IF Len(temp) < must_read
     THEN temp_buf' = temp /\ UNCHANGED <<step, data>>
     ELSE step' = "process" /\ temp_buf' = << >> /\ data' = data \o temp
  /\ UNCHANGED <<must_read, sum_input_frames, sum_output_frames, out>>

\* One call of the callback, which gives frames; after the last one data
\* takes what was needed and then what came beyond it.
func(frames) ==
  /\ step = "fill"
  /\ input' = input \o frames
  /\ LET temp == temp_buf \o SubSeq(frames, 1, Copy(Len(frames))) IN
     IF Len(temp) < must_read
     THEN temp_buf' = temp /\ UNCHANGED <<step, data>>
     ELSE /\ step' = "process" /\ temp_buf' = << >>
          /\ data' = data \o temp \o SubSeq(frames, Copy(Len(frames)) + 1, Len(frames))
  /\ UNCHANGED <<must_read, sum_input_frames, sum_output_frames, out>>

\* The callback has nothing more, or there is no memory: resampler_cb_read
\* returns -1 and the stream ends.
func_ends ==
  /\ step = "fill"
  /\ step' = "ended"
  /\ UNCHANGED <<data, temp_buf, must_read, sum_input_frames, sum_output_frames, out, input>>

\* The three frames of data that output frame x is made of, and the place of
\* x among them, times P.
First(x) == IF Pos(x) = sum_input_frames THEN 1 ELSE Pos(x) - sum_input_frames

\* Faulty variant: the position within the call, without what was left of the
\* last frame.
x_val_local(x) == ((x - sum_output_frames) * Q) - (P * (First(x) - 1))

x_val(x) == (x * Q) - (P * (sum_input_frames + First(x) - 1))

\* poly_create_3 and its value, times 2 P^2.
Poly(y0, y1, y2, v) ==
  ((y0 - 2 * y1 + y2) * v * v) + ((4 * y1 - 3 * y0 - y2) * v * P) + (2 * y0 * P * P)

\* Frame i of state->data; behind the frames it has is whatever memory holds.
FrameAt(i, behind) == IF i <= Len(data) THEN data[i] ELSE behind

OutFrame(x, behind) ==
  LET y(k) == FrameAt(First(x) + k, behind)
  IN  [c \in 1..Channels |-> Poly(y(0)[c], y(1)[c], y(2)[c], x_val(x))]

\* Frames of input that the call leaves behind.
frames_used == Pos(sum_output_frames + Frames - 1) - sum_input_frames

resampler_process ==
  /\ step = "process"
  /\ step' = "idle"
  /\ \E behind \in [1..Channels -> Noise] :
       out' = [i \in 1..Frames |-> OutFrame(sum_output_frames + i - 1, behind)]
  /\ sum_input_frames' = sum_input_frames + frames_used
  /\ data' = SubSeq(data, frames_used + 1, Len(data))
  /\ sum_output_frames' = sum_output_frames + Frames
  /\ UNCHANGED <<temp_buf, must_read, input>>

RNext ==
  \/ resampler_cb_read
  \/ \E frames \in Seq(Frame) : frames # << >> /\ func(frames)
  \/ func_ends
  \/ resampler_process

RSpec == RInit /\ [][RNext]_rvars

-----------------------------------------------------------------------------
(* Properties *)

\* Every variable has its type.
RTypeOK ==
  /\ step \in {"idle", "fill", "process", "ended"}
  /\ data \in Seq(Frame) /\ temp_buf \in Seq(Frame) /\ input \in Seq(Frame)
  /\ must_read \in Nat /\ sum_input_frames \in Nat /\ sum_output_frames \in Nat

(***************************************************************************)
(* resampler_process reads only frames it has, although how many it asked   *)
(* for, how many the callback gave and how many the last call used up are   *)
(* all computed from rounded positions.  This needs EnoughFrames: otherwise *)
(* a call may ask for two frames and read three.                            *)
(***************************************************************************)
ReadsInside ==
  EnoughFrames /\ step = "process" =>
    \A x \in sum_output_frames..(sum_output_frames + Frames - 1) :
      First(x) >= 1 /\ First(x) + 2 <= Len(data)

(***************************************************************************)
(* The frames kept in data are exactly the input from sum_input_frames on:  *)
(* nothing the callback gave is lost, repeated or out of place, whatever    *)
(* the sizes in which it came.                                              *)
(***************************************************************************)
KeepsTheInput ==
  step \in {"idle", "process"} => SubSeq(input, sum_input_frames + 1, Len(input)) = data

(***************************************************************************)
(* An output frame that falls on an input frame, at the ratio that          *)
(* resampler_new was given, is that frame, unchanged: over any number of    *)
(* calls the resampler does not drift against that ratio.  (Against the two *)
(* rates it drifts as far as the ratio is rounded.)                         *)
(***************************************************************************)
KeepsTime ==
  EnoughFrames /\ step = "idle" /\ out # << >> =>
    \A i \in 1..Frames :
      LET x == sum_output_frames - Frames + i - 1 IN
      Pos(x) * P = x * Q =>
        \A c \in 1..Channels : out[i][c] = 2 * P * P * input[Pos(x) + 1][c]
=============================================================================
