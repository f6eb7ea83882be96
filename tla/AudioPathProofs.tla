-------------------------- MODULE AudioPathProofs --------------------------
(***************************************************************************)
(* The path of a sample through the server, from the client's buffer to the *)
(* device, for every format, driver, byte order, wave, number of channels,  *)
(* chunk size and ratio: the device hears what was sent (AudioPathHears),   *)
(* but for what DeviceHears leaves out: what lies behind the last whole     *)
(* frame of a resampled chunk, and chunks too short for their ratio.        *)
(*                                                                         *)
(* In three parts.                                                          *)
(*   The resampler: it reads only frames it has, keeps all of its input and *)
(*   keeps time, however the callback cuts the input.  Inductive with: the  *)
(*   input position between calls is that of the last output frame          *)
(*   (Anchored), a call never starts to process with fewer frames than it   *)
(*   computed (Filled), and data and temp_buf are two adjacent stretches of *)
(*   the input (Kept).                                                      *)
(*   audio_converter: each loop does to every sample what it does to one    *)
(*   (LoopStores, by induction over the samples), so the operations that    *)
(*   the server chooses preserve the amplitude of every sample (ToS16,      *)
(*   ToS32, LawToS16, ToSigned, ToU8).                                      *)
(*   The path: PathInv says what the input of the resampler and the chunk   *)
(*   that is written are, and where the step is; with the two parts above   *)
(*   it implies that what the device takes is what the client meant.        *)
(***************************************************************************)
EXTENDS AudioPath, FiniteSetTheorems, WellFoundedInduction, TLAPS

-----------------------------------------------------------------------------
(* Part 1: the resampler                                                    *)

-----------------------------------------------------------------------------
(* Rounded positions *)

\* Division of numbers.
LEMMA DivFacts ==
  ASSUME NEW a \in Nat, NEW b \in Nat \ {0}
  PROVE  /\ a \div b \in Nat
         /\ b * (a \div b) <= a
         /\ a < b * (a \div b) + b
  OBVIOUS

\* The position of an output frame in the input is rounded down.
LEMMA PosType ==
  ASSUME NEW x \in Nat
  PROVE  Pos(x) \in Nat /\ P * Pos(x) <= x * Q /\ x * Q < P * Pos(x) + P
<1>1. x * Q \in Nat
  BY ResamplerAssumption
<1> QED
  BY <1>1, DivFacts, ResamplerAssumption DEF Pos

\* A factor can be cancelled.
LEMMA MulCancel ==
  ASSUME NEW p \in Nat \ {0}, NEW a \in Nat, NEW b \in Nat, p * a < p * b
  PROVE  a < b
<1>1. CASE b <= a
  <2>1. PICK d \in Nat : a = b + d
    BY <1>1
  <2>2. p * a = p * b + p * d /\ p * d \in Nat /\ p * b \in Nat
    BY <2>1
  <2> QED
    BY <2>2
<1> QED
  BY <1>1

\* Positions do not go back.
LEMMA PosMono ==
  ASSUME NEW x \in Nat, NEW y \in Nat, x <= y
  PROVE  Pos(x) <= Pos(y)
<1>1. x * Q <= y * Q /\ x * Q \in Nat /\ y * Q \in Nat
  <2>1. PICK d \in Nat : y = x + d
    OBVIOUS
  <2>2. y * Q = x * Q + d * Q /\ d * Q \in Nat /\ x * Q \in Nat
    BY <2>1, ResamplerAssumption
  <2> QED
    BY <2>2
<1>2. Pos(x) \in Nat /\ Pos(y) \in Nat /\ P * Pos(x) <= x * Q /\ y * Q < P * Pos(y) + P
  BY PosType
<1>3. P * Pos(x) \in Nat /\ P * Pos(y) \in Nat /\ P * (Pos(y) + 1) = P * Pos(y) + P /\ P \in Nat \ {0}
  BY <1>2, ResamplerAssumption
<1>4. P * Pos(x) < P * (Pos(y) + 1)
  BY <1>1, <1>2, <1>3
<1>5. Pos(x) < Pos(y) + 1
  BY <1>2, <1>3, <1>4, MulCancel
<1> QED
  BY <1>2, <1>5

\* A chunk stands for at least one frame of the input.
LEMMA PosStep ==
  ASSUME EnoughFrames, NEW x \in Nat
  PROVE  Pos(x) + 1 <= Pos(x + Frames)
<1> DEFINE y == x + Frames
<1>1. y \in Nat /\ y * Q = x * Q + Frames * Q /\ x * Q \in Nat /\ Frames * Q \in Nat /\ P <= Frames * Q
  BY ResamplerAssumption DEF EnoughFrames
<1>2. Pos(x) \in Nat /\ Pos(y) \in Nat /\ P * Pos(x) <= x * Q /\ y * Q < P * Pos(y) + P
  BY <1>1, PosType
<1>3. /\ P * Pos(x) \in Nat /\ P * Pos(y) \in Nat /\ P \in Nat \ {0}
      /\ P * (Pos(y) + 1) = P * Pos(y) + P
      /\ P * (Pos(x) + 1) = P * Pos(x) + P
  BY <1>2, ResamplerAssumption
<1> HIDE DEF y
<1>4. P * (Pos(x) + 1) < P * (Pos(y) + 1)
  BY <1>1, <1>2, <1>3
<1>5. Pos(x) + 1 < Pos(y) + 1
  BY <1>2, <1>3, <1>4, MulCancel
<1>6. Pos(x) + 1 <= Pos(y)
  BY <1>2, <1>5
<1> QED
  BY <1>6 DEF y

-----------------------------------------------------------------------------
(* The inductive invariant *)

Anchored == sum_input_frames = IF sum_output_frames = 0 THEN 0 ELSE Pos(sum_output_frames - 1)

Filled ==
  /\ step = "fill" => /\ must_read = resampler_get_required_frames - Len(data)
                      /\ Len(temp_buf) < must_read
  /\ step = "process" => resampler_get_required_frames <= Len(data)

Kept ==
  /\ step \in {"idle", "process"} => temp_buf = << >>
  /\ step # "ended" =>
       /\ Len(input) = sum_input_frames + Len(data) + Len(temp_buf)
       /\ \A i \in 1..Len(data) : data[i] = input[sum_input_frames + i]
       /\ \A i \in 1..Len(temp_buf) : temp_buf[i] = input[sum_input_frames + Len(data) + i]

RInv == RTypeOK /\ Anchored /\ Filled /\ Kept

\* The input position is behind every frame of the call to come.
LEMMA AnchorFacts ==
  ASSUME RTypeOK, Anchored
  PROVE  /\ sum_input_frames \in Nat
         /\ EnoughFrames => sum_input_frames + 1 <= Pos(sum_output_frames + Frames)
         /\ \A x \in Nat : sum_output_frames <= x => sum_input_frames <= Pos(x)
<1>1. sum_output_frames \in Nat /\ Frames \in Nat \ {0} /\ sum_input_frames \in Nat
  BY ResamplerAssumption DEF RTypeOK
<1>2. CASE sum_output_frames = 0
  <2>1. sum_input_frames = 0
    BY <1>2 DEF Anchored
  <2>2. EnoughFrames => Pos(0) + 1 <= Pos(0 + Frames)
    BY PosStep
  <2>3. Pos(0) \in Nat /\ Pos(0 + Frames) \in Nat
    BY <1>1, PosType
  <2> QED
    BY <1>1, <1>2, <2>1, <2>2, <2>3, PosType
<1>3. CASE sum_output_frames # 0
  <2> DEFINE y == sum_output_frames - 1
  <2>1. y \in Nat /\ sum_input_frames = Pos(y) /\ Pos(y) \in Nat
    BY <1>1, <1>3, PosType DEF Anchored
  <2>2. EnoughFrames => Pos(y) + 1 <= Pos(y + Frames)
    BY <2>1, PosStep
  <2>3. y + Frames \in Nat /\ sum_output_frames + Frames \in Nat /\ y + Frames <= sum_output_frames + Frames
    BY <1>1, <2>1
  <2>4. Pos(y + Frames) <= Pos(sum_output_frames + Frames)
    BY <2>3, PosMono
  <2>5. Pos(y + Frames) \in Nat /\ Pos(sum_output_frames + Frames) \in Nat
    BY <2>3, PosType
  <2>6. \A x \in Nat : sum_output_frames <= x => y <= x
    BY <1>1, <2>1
  <2> HIDE DEF y
  <2>7. \A x \in Nat : sum_output_frames <= x => Pos(y) <= Pos(x)
    BY <2>1, <2>6, PosMono
  <2> QED
    BY <1>1, <2>1, <2>2, <2>4, <2>5, <2>7
<1> QED
  BY <1>2, <1>3

\* The number of frames a call asks for is one.
LEMMA RequiredType ==
  ASSUME RTypeOK, Anchored
  PROVE  resampler_get_required_frames \in Nat
<1> DEFINE x == sum_output_frames + Frames
<1>1. x \in Nat /\ sum_output_frames <= x
  BY ResamplerAssumption DEF RTypeOK
<1>2. resampler_get_required_frames = Pos(x) + 2 - sum_input_frames
  BY DEF resampler_get_required_frames
<1> HIDE DEF x
<1>3. Pos(x) \in Nat /\ sum_input_frames \in Nat /\ sum_input_frames <= Pos(x)
  BY <1>1, AnchorFacts, PosType
<1> QED
  BY <1>2, <1>3

\* It holds at first.
LEMMA RInitInv == RInit => RInv
  BY ResamplerAssumption DEF RInit, RInv, RTypeOK, Anchored, Filled, Kept

-----------------------------------------------------------------------------
(* Each action keeps it *)

\* Concatenation, element by element.
LEMMA ConcatFacts ==
  ASSUME NEW s \in Seq(Frame), NEW t \in Seq(Frame), NEW u, u = s \o t
  PROVE  /\ u \in Seq(Frame) /\ Len(u) = Len(s) + Len(t)
         /\ \A i \in 1..Len(s) : u[i] = s[i]
         /\ \A i \in 1..Len(t) : u[Len(s) + i] = t[i]
  OBVIOUS

\* A stretch of a sequence, element by element.
LEMMA SubSeqFacts ==
  ASSUME NEW S, NEW s \in Seq(S), NEW a \in Nat, NEW b \in Nat, a <= b, b <= Len(s)
  PROVE  /\ SubSeq(s, a + 1, b) \in Seq(S) /\ Len(SubSeq(s, a + 1, b)) = b - a
         /\ \A i \in 1..(b - a) : SubSeq(s, a + 1, b)[i] = s[a + i]
  OBVIOUS

\* A call begins, and asks for what it lacks.
LEMMA CbReadInv == RInv /\ resampler_cb_read => RInv'
<1> SUFFICES ASSUME RInv, resampler_cb_read PROVE RInv'
  OBVIOUS
<1> DEFINE req == resampler_get_required_frames
<1>1. req \in Nat /\ Len(data) \in Nat
  BY RequiredType DEF RInv, RTypeOK
<1>2. Len(<< >>) = 0 /\ << >> \in Seq(Frame)
  OBVIOUS
<1>3. temp_buf = << >>
  BY DEF RInv, Kept, resampler_cb_read
<1>4. req' = req
  BY DEF resampler_cb_read, resampler_get_required_frames, Pos
<1> USE DEF RInv, resampler_cb_read
<1> HIDE DEF req
<1>5. RTypeOK'
  <2>1. CASE Len(data) < req
    <3>1. req - Len(data) \in Nat
      BY <2>1, <1>1
    <3> QED
      BY <2>1, <3>1, <1>2 DEF RTypeOK, req
  <2>2. CASE ~(Len(data) < req)
    BY <2>2 DEF RTypeOK, req
  <2> QED
    BY <2>1, <2>2
<1>6. Anchored'
  BY DEF Anchored, Pos
<1>7. Filled'
  BY <1>1, <1>2, <1>4 DEF Filled, req
<1>8. Kept'
  BY <1>2, <1>3 DEF Kept
<1> QED
  BY <1>5, <1>6, <1>7, <1>8

\* The stream ends within a call.
LEMMA EndsInv == RInv /\ func_ends => RInv'
  BY DEF RInv, func_ends, RTypeOK, Anchored, Filled, Kept, Pos, resampler_get_required_frames

\* The callback gives frames, fewer or more than were asked for.
LEMMA FuncInv ==
  ASSUME NEW got \in Seq(Frame), RInv, func(got)
  PROVE  RInv'
<1> DEFINE n    == Len(got)
           k    == Copy(n)
           head == SubSeq(got, 1, k)
           tail == SubSeq(got, k + 1, n)
           temp == temp_buf \o head
           req  == resampler_get_required_frames
<1>1. /\ step = "fill" /\ Len(temp_buf) < must_read /\ must_read = req - Len(data)
      /\ req \in Nat /\ Len(data) \in Nat /\ Len(temp_buf) \in Nat /\ n \in Nat /\ must_read \in Nat
      /\ sum_input_frames \in Nat
  BY RequiredType DEF RInv, Filled, func, RTypeOK
<1>2. k \in Nat /\ k <= n /\ k <= must_read - Len(temp_buf) /\ (k = n \/ k = must_read - Len(temp_buf))
  BY <1>1 DEF Copy
<1> HIDE DEF k, n
<1>3. /\ head \in Seq(Frame) /\ Len(head) = k
      /\ \A i \in 1..k : head[i] = got[i]
  <2>1. 0 \in Nat /\ 0 + 1 = 1 /\ k - 0 = k /\ 0 <= k /\ k <= Len(got)
    BY <1>2 DEF n
  <2> QED
    BY <2>1, <1>2, SubSeqFacts
<1>4. /\ tail \in Seq(Frame) /\ Len(tail) = n - k
      /\ \A i \in 1..(n - k) : tail[i] = got[k + i]
  BY <1>1, <1>2, SubSeqFacts DEF n
<1> HIDE DEF head, tail
<1>5. temp_buf \in Seq(Frame) /\ data \in Seq(Frame) /\ input \in Seq(Frame)
  BY DEF RInv, RTypeOK
<1>6. /\ temp \in Seq(Frame) /\ Len(temp) = Len(temp_buf) + k
      /\ \A i \in 1..Len(temp_buf) : temp[i] = temp_buf[i]
      /\ \A i \in 1..k : temp[Len(temp_buf) + i] = got[i]
  <2>1. /\ temp \in Seq(Frame) /\ Len(temp) = Len(temp_buf) + Len(head)
        /\ \A i \in 1..Len(temp_buf) : temp[i] = temp_buf[i]
        /\ \A i \in 1..Len(head) : temp[Len(temp_buf) + i] = head[i]
    <3>1. temp = temp_buf \o head
      OBVIOUS
    <3>2. temp_buf \in Seq(Frame) /\ head \in Seq(Frame)
      BY <1>3, <1>5
    <3> HIDE DEF temp
    <3> QED
      BY <3>1, <3>2, ConcatFacts
  <2> HIDE DEF temp
  <2> QED
    BY <2>1, <1>3
<1>7. /\ input' = input \o got /\ input' \in Seq(Frame) /\ Len(input') = Len(input) + n
      /\ \A i \in 1..Len(input) : input'[i] = input[i]
      /\ \A i \in 1..n : input'[Len(input) + i] = got[i]
  BY <1>5, ConcatFacts DEF func, n
<1>8. /\ Len(input) = sum_input_frames + Len(data) + Len(temp_buf)
      /\ \A i \in 1..Len(data) : data[i] = input[sum_input_frames + i]
      /\ \A i \in 1..Len(temp_buf) : temp_buf[i] = input[sum_input_frames + Len(data) + i]
  BY <1>1 DEF RInv, Kept
<1>9. Anchored' /\ req' = req /\ sum_input_frames' = sum_input_frames /\ must_read' = must_read
      /\ sum_output_frames' = sum_output_frames
  BY DEF RInv, Anchored, func, Pos, resampler_get_required_frames
<1>10. \A i \in 1..Len(temp) : temp[i] = input'[sum_input_frames + Len(data) + i]
  <2> SUFFICES ASSUME NEW i \in 1..Len(temp)
               PROVE  temp[i] = input'[sum_input_frames + Len(data) + i]
    OBVIOUS
  <2> HIDE DEF temp
  <2>1. CASE i <= Len(temp_buf)
    <3>1. i \in 1..Len(temp_buf) /\ sum_input_frames + Len(data) + i \in 1..Len(input)
      BY <2>1, <1>1, <1>6, <1>8
    <3> QED
      BY <3>1, <1>6, <1>7, <1>8
  <2>2. CASE i > Len(temp_buf)
    <3> DEFINE j == i - Len(temp_buf)
    <3>1. /\ j \in 1..k /\ j \in 1..n /\ i = Len(temp_buf) + j
          /\ sum_input_frames + Len(data) + i = Len(input) + j
      BY <2>2, <1>1, <1>2, <1>6, <1>8
    <3> HIDE DEF j
    <3> QED
      BY <3>1, <1>6, <1>7
  <2> QED
    BY <2>1, <2>2, <1>1, <1>6
<1>11. \A i \in 1..Len(data) : data[i] = input'[sum_input_frames + i]
  <2>1. \A i \in 1..Len(data) : sum_input_frames + i \in 1..Len(input)
    BY <1>1, <1>8
  <2> QED
    BY <2>1, <1>7, <1>8
<1>12. CASE Len(temp) < must_read
  <2>1. temp_buf' = temp /\ step' = step /\ data' = data
    BY <1>12 DEF func, k, n, head
  <2>2. k = n
    BY <1>12, <1>1, <1>2, <1>6
  <2> HIDE DEF temp
  <2>3. RTypeOK'
    BY <2>1, <1>1, <1>6, <1>7, <1>9, <1>5 DEF RInv, RTypeOK
  <2>4. Filled'
    BY <2>1, <1>1, <1>9, <1>12 DEF Filled
  <2>5. Len(input') = sum_input_frames + Len(data) + Len(temp)
    BY <2>2, <1>1, <1>2, <1>6, <1>7, <1>8
  <2>6. Kept'
    BY <2>1, <2>5, <1>1, <1>9, <1>10, <1>11 DEF Kept
  <2> QED
    BY <2>3, <2>4, <2>6, <1>9 DEF RInv
<1>13. CASE ~(Len(temp) < must_read)
  <2> DEFINE all == data \o temp \o tail
  <2>1. temp_buf' = << >> /\ step' = "process" /\ data' = all
    <3>1. temp_buf' = << >> /\ step' = "process" /\ data' = data \o (temp_buf \o SubSeq(got, 1, Copy(Len(got)))) \o SubSeq(got, Copy(Len(got)) + 1, Len(got))
      BY <1>13 DEF func, k, n, head
    <3> QED
      BY <3>1 DEF k, n, head, tail
  <2>2. Len(temp) = must_read
    <3>1. Len(temp) = Len(temp_buf) + k
      BY <1>6
    <3>2. ~(Len(temp) < must_read)
      BY <1>13
    <3> HIDE DEF temp
    <3> QED
      BY <3>1, <3>2, <1>1, <1>2
  <2> HIDE DEF temp
  <2> DEFINE front == data \o temp
  <2>a. all = front \o tail /\ front = data \o temp
    OBVIOUS
  <2> HIDE DEF all, front
  <2>3. /\ front \in Seq(Frame) /\ Len(front) = Len(data) + Len(temp)
        /\ \A i \in 1..Len(data) : front[i] = data[i]
        /\ \A i \in 1..Len(temp) : front[Len(data) + i] = temp[i]
    <3>1. data \in Seq(Frame) /\ temp \in Seq(Frame)
      BY <1>5, <1>6
    <3> QED
      BY <3>1, <2>a, ConcatFacts
  <2>4. /\ all \in Seq(Frame) /\ Len(all) = Len(data) + Len(temp) + (n - k)
        /\ \A i \in 1..(Len(data) + Len(temp)) : all[i] = front[i]
        /\ \A i \in 1..(n - k) : all[Len(data) + Len(temp) + i] = tail[i]
    <3>1. /\ all \in Seq(Frame) /\ Len(all) = Len(front) + Len(tail)
          /\ \A i \in 1..Len(front) : all[i] = front[i]
          /\ \A i \in 1..Len(tail) : all[Len(front) + i] = tail[i]
      <4>1. front \in Seq(Frame) /\ tail \in Seq(Frame)
        BY <2>3, <1>4
      <4> QED
        BY <4>1, <2>a, ConcatFacts
    <3> QED
      BY <3>1, <2>3, <1>4
  <2>5. RTypeOK'
    BY <2>1, <2>4, <1>7, <1>9, <1>1 DEF RInv, RTypeOK
  <2>6. Filled'
    BY <2>1, <2>2, <2>4, <1>1, <1>2, <1>9 DEF Filled
  <2>7. Len(input') = sum_input_frames + Len(all)
    BY <2>4, <1>1, <1>2, <1>6, <1>7, <1>8
  <2>8. \A i \in 1..Len(all) : all[i] = input'[sum_input_frames + i]
    <3> SUFFICES ASSUME NEW i \in 1..Len(all) PROVE all[i] = input'[sum_input_frames + i]
      OBVIOUS
    <3>1. CASE i <= Len(data)
      <4>1. i \in 1..Len(data) /\ i \in 1..(Len(data) + Len(temp))
        BY <3>1, <1>1, <1>2, <1>6
      <4>2. all[i] = front[i]
        BY <4>1, <2>4
      <4>3. front[i] = data[i]
        BY <4>1, <2>3
      <4> QED
        BY <4>1, <4>2, <4>3, <1>11
    <3>2. CASE Len(data) < i /\ i <= Len(data) + Len(temp)
      <4> DEFINE j == i - Len(data)
      <4>1. j \in 1..Len(temp) /\ i = Len(data) + j /\ i \in 1..(Len(data) + Len(temp))
            /\ sum_input_frames + Len(data) + j = sum_input_frames + i
        BY <3>2, <1>1, <1>2, <1>6
      <4> HIDE DEF j
      <4> QED
        BY <4>1, <2>3, <2>4, <1>10
    <3>3. CASE Len(data) + Len(temp) < i
      <4> DEFINE j == i - (Len(data) + Len(temp))
      <4>1. /\ j \in 1..(n - k) /\ i = Len(data) + Len(temp) + j /\ k + j \in 1..n
            /\ sum_input_frames + i = Len(input) + (k + j)
        BY <3>3, <2>4, <1>1, <1>2, <1>6, <1>8
      <4> HIDE DEF j
      <4> QED
        BY <4>1, <2>4, <1>4, <1>7
    <3> QED
      BY <3>1, <3>2, <3>3, <1>1, <1>2, <1>6
  <2>9. Len(<< >>) = 0
    OBVIOUS
  <2>10. Kept'
    BY <2>1, <2>7, <2>8, <2>9, <1>9, <2>4, <1>1 DEF Kept
  <2> QED
    BY <2>5, <2>6, <2>10, <1>9 DEF RInv
<1> QED
  BY <1>12, <1>13

\* What resampler_process reads is there.
LEMMA ProcessReads ==
  ASSUME RInv, step = "process",
         NEW x \in sum_output_frames..(sum_output_frames + Frames - 1)
  PROVE  /\ x \in Nat /\ Pos(x) \in Nat
         /\ sum_input_frames <= Pos(x)
         /\ First(x) \in Nat \ {0} /\ First(x) + 1 <= Len(data)
         /\ EnoughFrames => First(x) + 2 <= Len(data)
<1>1. /\ sum_output_frames \in Nat /\ sum_input_frames \in Nat /\ Frames \in Nat \ {0}
      /\ Len(data) \in Nat
  BY ResamplerAssumption DEF RInv, RTypeOK
<1>2. x \in Nat /\ sum_output_frames <= x /\ x <= sum_output_frames + Frames
      /\ sum_output_frames + Frames \in Nat
  BY <1>1
<1>3. /\ Pos(x) \in Nat /\ Pos(sum_output_frames + Frames) \in Nat
      /\ Pos(x) <= Pos(sum_output_frames + Frames)
  BY <1>2, PosType, PosMono
<1>4. /\ sum_input_frames <= Pos(x)
      /\ EnoughFrames => sum_input_frames + 1 <= Pos(sum_output_frames + Frames)
  BY <1>2, AnchorFacts DEF RInv
<1>5. Pos(sum_output_frames + Frames) + 2 - sum_input_frames <= Len(data)
  BY DEF RInv, Filled, resampler_get_required_frames
<1>6. First(x) = 1 \/ (First(x) = Pos(x) - sum_input_frames /\ Pos(x) # sum_input_frames)
  BY DEF First
<1> DEFINE p == Pos(x)
           q == Pos(sum_output_frames + Frames)
           f == First(x)
<1>7. /\ p \in Nat /\ q \in Nat /\ p <= q /\ sum_input_frames <= p /\ q + 2 - sum_input_frames <= Len(data)
      /\ f = 1 \/ (f = p - sum_input_frames /\ p # sum_input_frames)
      /\ EnoughFrames => sum_input_frames + 1 <= q
  BY <1>3, <1>4, <1>5, <1>6
<1> HIDE DEF p, q, f
<1>8. f \in Nat \ {0} /\ f + 1 <= Len(data) /\ (EnoughFrames => f + 2 <= Len(data))
  BY <1>1, <1>7
<1> QED
  BY <1>2, <1>3, <1>4, <1>8 DEF f

\* How much resampler_process leaves behind.
LEMMA UsedFacts ==
  ASSUME RInv, step = "process"
  PROVE  /\ frames_used \in Nat /\ frames_used <= Len(data)
         /\ sum_input_frames + frames_used = Pos(sum_output_frames + Frames - 1)
<1> DEFINE last == sum_output_frames + Frames - 1
<1>1. sum_output_frames \in Nat /\ sum_input_frames \in Nat /\ Frames \in Nat \ {0} /\ Len(data) \in Nat
  BY ResamplerAssumption DEF RInv, RTypeOK
<1>2. last \in sum_output_frames..(sum_output_frames + Frames - 1) /\ last \in Nat
  BY <1>1
<1> HIDE DEF last
<1>3. Pos(last) \in Nat /\ sum_input_frames <= Pos(last) /\ First(last) + 1 <= Len(data) /\ First(last) \in Nat \ {0}
  BY <1>2, ProcessReads
<1>4. Pos(last) = sum_input_frames \/ First(last) = Pos(last) - sum_input_frames
  BY DEF First
<1>5. frames_used = Pos(last) - sum_input_frames
  BY DEF frames_used, last
<1>6. frames_used \in Nat /\ frames_used <= Len(data) /\ sum_input_frames + frames_used = Pos(last)
  <2> DEFINE pos == Pos(last)
             first == First(last)
  <2>1. /\ pos \in Nat /\ sum_input_frames <= pos /\ first + 1 <= Len(data) /\ first \in Nat
        /\ pos = sum_input_frames \/ first = pos - sum_input_frames
        /\ frames_used = pos - sum_input_frames
    BY <1>3, <1>4, <1>5
  <2> HIDE DEF pos, first
  <2>2. frames_used \in Nat /\ frames_used <= Len(data) /\ sum_input_frames + frames_used = pos
    BY <2>1, <1>1
  <2> QED
    BY <2>2 DEF pos
<1> QED
  BY <1>6 DEF last

\* The call makes its frames and drops the input it has passed.
LEMMA ProcessInv == RInv /\ resampler_process => RInv'
<1> SUFFICES ASSUME RInv, resampler_process PROVE RInv'
  OBVIOUS
<1> DEFINE used == frames_used
           rest == SubSeq(data, used + 1, Len(data))
<1>1. /\ sum_output_frames \in Nat /\ sum_input_frames \in Nat /\ Frames \in Nat \ {0}
      /\ Len(data) \in Nat /\ data \in Seq(Frame) /\ step = "process"
      /\ temp_buf \in Seq(Frame) /\ input \in Seq(Frame) /\ must_read \in Nat
  BY ResamplerAssumption DEF RInv, RTypeOK, resampler_process
<1>2. used \in Nat /\ used <= Len(data) /\ sum_input_frames + used = Pos(sum_output_frames + Frames - 1)
  BY <1>1, UsedFacts
<1>3. /\ sum_input_frames' = sum_input_frames + used /\ data' = rest /\ step' = "idle"
      /\ sum_output_frames' = sum_output_frames + Frames
      /\ temp_buf' = temp_buf /\ must_read' = must_read /\ input' = input
  BY DEF resampler_process
<1> HIDE DEF used
<1>4. /\ rest \in Seq(Frame) /\ Len(rest) = Len(data) - used
      /\ \A i \in 1..(Len(data) - used) : rest[i] = data[used + i]
  BY <1>1, <1>2, SubSeqFacts
<1> HIDE DEF rest
<1>5. RTypeOK'
  BY <1>1, <1>2, <1>3, <1>4 DEF RTypeOK
<1>6. Anchored'
  <2>1. sum_output_frames' # 0 /\ sum_output_frames' - 1 = sum_output_frames + Frames - 1
    BY <1>1, <1>3
  <2>2. sum_input_frames' = Pos(sum_output_frames' - 1)
    BY <2>1, <1>2, <1>3
  <2> QED
    BY <2>1, <2>2 DEF Anchored, Pos
<1>7. Filled'
  BY <1>3 DEF Filled
<1>8. Kept'
  <2>1. /\ temp_buf = << >> /\ Len(temp_buf) = 0
        /\ Len(input) = sum_input_frames + Len(data)
        /\ \A i \in 1..Len(data) : data[i] = input[sum_input_frames + i]
    BY <1>1 DEF RInv, Kept
  <2>2. Len(input) = sum_input_frames + used + Len(rest)
    BY <2>1, <1>1, <1>2, <1>4
  <2>3. \A i \in 1..Len(rest) : rest[i] = input[sum_input_frames + used + i]
    <3> SUFFICES ASSUME NEW i \in 1..Len(rest) PROVE rest[i] = input[sum_input_frames + used + i]
      OBVIOUS
    <3>1. /\ i \in 1..(Len(data) - used) /\ used + i \in 1..Len(data)
          /\ sum_input_frames + (used + i) = sum_input_frames + used + i
      BY <1>1, <1>2, <1>4
    <3> QED
      BY <3>1, <2>1, <1>4
  <2> QED
    BY <2>1, <2>2, <2>3, <1>1, <1>2, <1>3, <1>4 DEF Kept
<1> QED
  BY <1>5, <1>6, <1>7, <1>8 DEF RInv

\* Every step keeps it.
LEMMA RNextInv == RInv /\ [RNext]_rvars => RInv'
<1> SUFFICES ASSUME RInv, [RNext]_rvars PROVE RInv'
  OBVIOUS
<1>1. CASE resampler_cb_read
  BY <1>1, CbReadInv
<1>2. CASE \E got \in Seq(Frame) : got # << >> /\ func(got)
  BY <1>2, FuncInv
<1>3. CASE func_ends
  BY <1>3, EndsInv
<1>4. CASE resampler_process
  BY <1>4, ProcessInv
<1>5. CASE UNCHANGED rvars
  BY <1>5 DEF RInv, rvars, RTypeOK, Anchored, Filled, Kept, Pos, resampler_get_required_frames
<1> QED
  BY <1>1, <1>2, <1>3, <1>4, <1>5 DEF RNext

(***************************************************************************)
(* The inductive invariant holds throughout.                                *)
(***************************************************************************)
THEOREM ResamplerInvariant == RSpec => []RInv
  BY RInitInv, RNextInv, PTL DEF RSpec

(***************************************************************************)
(* resampler_process reads only frames that are in data, for every ratio    *)
(* and chunk with EnoughFrames: for the others it may read one frame more   *)
(* (ReadsInside says so).                                                   *)
(***************************************************************************)
THEOREM ResamplerReadsInside == RSpec => []ReadsInside
<1>1. RInv => ReadsInside
  <2> SUFFICES ASSUME RInv, EnoughFrames, step = "process",
                      NEW x \in sum_output_frames..(sum_output_frames + Frames - 1)
               PROVE  First(x) >= 1 /\ First(x) + 2 <= Len(data)
    BY DEF ReadsInside
  <2> QED
    BY ProcessReads
<1> QED
  BY <1>1, ResamplerInvariant, PTL

\* Sequences are equal when their elements are.
LEMMA SeqEqual ==
  ASSUME NEW s \in Seq(Frame), NEW t \in Seq(Frame), Len(s) = Len(t),
         \A i \in 1..Len(s) : s[i] = t[i]
  PROVE  s = t
  OBVIOUS

(***************************************************************************)
(* The frames in data are the input from sum_input_frames on: none that the *)
(* callback gave is lost or repeated, however it cuts the stream.           *)
(***************************************************************************)
THEOREM ResamplerKeepsTheInput == RSpec => []KeepsTheInput
<1>1. RInv => KeepsTheInput
  <2> SUFFICES ASSUME RInv, step \in {"idle", "process"}
               PROVE  SubSeq(input, sum_input_frames + 1, Len(input)) = data
    BY DEF KeepsTheInput
  <2> DEFINE rest == SubSeq(input, sum_input_frames + 1, Len(input))
  <2>1. /\ data \in Seq(Frame) /\ input \in Seq(Frame) /\ sum_input_frames \in Nat
        /\ Len(data) \in Nat /\ Len(input) \in Nat
    BY DEF RInv, RTypeOK
  <2>2. /\ Len(input) = sum_input_frames + Len(data)
        /\ \A i \in 1..Len(data) : data[i] = input[sum_input_frames + i]
    BY <2>1 DEF RInv, Kept
  <2>3. sum_input_frames <= Len(input) /\ Len(input) - sum_input_frames = Len(data)
    BY <2>1, <2>2
  <2>4. /\ rest \in Seq(Frame) /\ Len(rest) = Len(input) - sum_input_frames
        /\ \A i \in 1..(Len(input) - sum_input_frames) : rest[i] = input[sum_input_frames + i]
    BY <2>1, <2>3, SubSeqFacts
  <2> HIDE DEF rest
  <2>5. Len(rest) = Len(data) /\ \A i \in 1..Len(rest) : rest[i] = data[i]
    BY <2>2, <2>3, <2>4
  <2>6. rest = data
    BY <2>1, <2>4, <2>5, SeqEqual
  <2> QED
    BY <2>6 DEF rest
<1> QED
  BY <1>1, ResamplerInvariant, PTL

-----------------------------------------------------------------------------
(* Keeping time *)

\* The parabola goes through its first and its second point.
LEMMA PolyFirst ==
  ASSUME NEW y0 \in Int, NEW y1 \in Int, NEW y2 \in Int
  PROVE  Poly(y0, y1, y2, 0) = 2 * P * P * y0
  BY ResamplerAssumption DEF Poly

\* Of the second this says so at P.
LEMMA PolySecond ==
  ASSUME NEW y0 \in Int, NEW y1 \in Int, NEW y2 \in Int
  PROVE  Poly(y0, y1, y2, P) = 2 * P * P * y1
  BY ResamplerAssumption DEF Poly

\* An output frame on an input frame is that frame.
LEMMA OnTheFrame ==
  ASSUME RInv, EnoughFrames, step = "process",
         NEW x \in sum_output_frames..(sum_output_frames + Frames - 1),
         Pos(x) * P = x * Q, NEW c \in 1..Channels, NEW behind
  PROVE  OutFrame(x, behind)[c] = 2 * P * P * input[Pos(x) + 1][c]
<1> DEFINE f == First(x)
<1>1. /\ x \in Nat /\ Pos(x) \in Nat /\ sum_input_frames <= Pos(x)
      /\ f \in Nat \ {0} /\ f + 2 <= Len(data)
  BY ProcessReads
<1>2. /\ sum_input_frames \in Nat /\ P \in Nat /\ Q \in Nat /\ data \in Seq(Frame) /\ Len(data) \in Nat
      /\ \A i \in 1..Len(data) : data[i] = input[sum_input_frames + i]
  BY ResamplerAssumption DEF RInv, RTypeOK, Kept
<1>3. f = (IF Pos(x) = sum_input_frames THEN 1 ELSE Pos(x) - sum_input_frames)
  BY DEF First
<1>4. x_val(x) = (Pos(x) * P) - (P * (sum_input_frames + f - 1))
  BY DEF x_val
<1>5. OutFrame(x, behind)[c] = Poly(data[f][c], data[f + 1][c], data[f + 2][c], x_val(x))
  <2>1. OutFrame(x, behind)[c] = Poly(FrameAt(f + 0, behind)[c], FrameAt(f + 1, behind)[c],
                                      FrameAt(f + 2, behind)[c], x_val(x))
    BY DEF OutFrame
  <2> HIDE DEF f
  <2>2. f + 0 = f /\ f <= Len(data) /\ f + 1 <= Len(data) /\ f + 2 <= Len(data)
    BY <1>1, <1>2
  <2> QED
    BY <2>1, <2>2 DEF FrameAt
<1> HIDE DEF f
<1>6. f \in 1..Len(data) /\ f + 1 \in 1..Len(data) /\ f + 2 \in 1..Len(data)
  BY <1>1, <1>2
<1>7. data[f] \in Frame /\ data[f + 1] \in Frame /\ data[f + 2] \in Frame
  BY <1>2, <1>6
<1>8. data[f][c] \in Int /\ data[f + 1][c] \in Int /\ data[f + 2][c] \in Int
  BY <1>7 DEF Frame
<1>9. CASE Pos(x) = sum_input_frames
  <2>1. f = 1 /\ x_val(x) = 0 /\ sum_input_frames + f = Pos(x) + 1
    <3>1. f = 1 /\ sum_input_frames + f = Pos(x) + 1 /\ sum_input_frames + f - 1 = Pos(x)
      BY <1>9, <1>1, <1>2, <1>3
    <3>2. (Pos(x) * P) - (P * Pos(x)) = 0
      BY <1>1, <1>2
    <3> QED
      BY <3>1, <3>2, <1>4
  <2>2. data[f] = input[Pos(x) + 1]
    BY <2>1, <1>2, <1>6
  <2> QED
    BY <2>1, <2>2, <1>5, <1>8, PolyFirst
<1>10. CASE Pos(x) # sum_input_frames
  <2>1. x_val(x) = P /\ sum_input_frames + (f + 1) = Pos(x) + 1
    <3>1. sum_input_frames + (f + 1) = Pos(x) + 1 /\ sum_input_frames + f - 1 = Pos(x) - 1
      <4>1. f = Pos(x) - sum_input_frames
        BY <1>10, <1>3
      <4>2. \A s, p, g \in Int : g = p - s => s + (g + 1) = p + 1 /\ s + g - 1 = p - 1
        OBVIOUS
      <4>3. sum_input_frames \in Int /\ Pos(x) \in Int /\ f \in Int
        BY <1>1, <1>2
      <4> HIDE DEF f
      <4> QED
        BY <4>1, <4>2, <4>3
    <3>2. \A p \in Int : P * (p - 1) = (P * p) - P /\ p * P = P * p /\ P * p \in Int
      BY <1>2
    <3>3. (Pos(x) * P) - (P * (Pos(x) - 1)) = P
      BY <3>2, <1>1, <1>2
    <3> QED
      BY <3>1, <3>3, <1>4
  <2>2. data[f + 1] = input[Pos(x) + 1]
    BY <2>1, <1>2, <1>6
  <2> QED
    BY <2>1, <2>2, <1>5, <1>8, PolySecond
<1> QED
  BY <1>9, <1>10

\* Every step keeps KeepsTime.
LEMMA KeepsTimeStep == RInv /\ KeepsTime /\ [RNext]_rvars => KeepsTime'
<1> SUFFICES ASSUME RInv, KeepsTime, [RNext]_rvars PROVE KeepsTime'
  OBVIOUS
<1>1. CASE resampler_cb_read
  BY <1>1 DEF resampler_cb_read, KeepsTime
<1>2. CASE \E got \in Seq(Frame) : got # << >> /\ func(got)
  BY <1>2 DEF func, KeepsTime
<1>3. CASE func_ends
  BY <1>3 DEF func_ends, KeepsTime
<1>4. CASE resampler_process
  <2>1. /\ step = "process" /\ sum_output_frames' = sum_output_frames + Frames /\ input' = input
        /\ \E b \in [1..Channels -> Noise] :
             out' = [i \in 1..Frames |-> OutFrame(sum_output_frames + i - 1, b)]
    BY <1>4 DEF resampler_process
  <2>7. PICK behind : out' = [i \in 1..Frames |-> OutFrame(sum_output_frames + i - 1, behind)]
    BY <2>1
  <2>2. sum_output_frames \in Nat /\ Frames \in Nat \ {0}
    BY ResamplerAssumption DEF RInv, RTypeOK
  <2> SUFFICES ASSUME EnoughFrames, NEW i \in 1..Frames, NEW c \in 1..Channels,
                      LET x == sum_output_frames' - Frames + i - 1 IN Pos(x) * P = x * Q
               PROVE  LET x == sum_output_frames' - Frames + i - 1
                      IN  out'[i][c] = 2 * P * P * input'[Pos(x) + 1][c]
    BY <2>1 DEF KeepsTime, Pos, EnoughFrames
  <2> DEFINE x == sum_output_frames + i - 1
  <2>3. /\ sum_output_frames' - Frames + i - 1 = x
        /\ x \in sum_output_frames..(sum_output_frames + Frames - 1)
    BY <2>1, <2>2
  <2>4. out'[i] = OutFrame(x, behind)
    BY <2>7
  <2> HIDE DEF x
  <2>5. Pos(x) * P = x * Q
    BY <2>3
  <2>6. OutFrame(x, behind)[c] = 2 * P * P * input[Pos(x) + 1][c]
    BY <2>1, <2>3, <2>5, OnTheFrame
  <2> QED
    BY <2>1, <2>3, <2>4, <2>6
<1>5. CASE UNCHANGED rvars
  BY <1>5 DEF rvars, KeepsTime, Pos
<1> QED
  BY <1>1, <1>2, <1>3, <1>4, <1>5 DEF RNext

(***************************************************************************)
(* An output frame that falls on an input frame is that frame: over any     *)
(* number of calls the resampler does not drift against the ratio that it   *)
(* was given.                                                               *)
(***************************************************************************)
THEOREM ResamplerKeepsTime == RSpec => []KeepsTime
<1>1. RInit => KeepsTime
  BY DEF RInit, KeepsTime
<1> QED
  BY <1>1, KeepsTimeStep, ResamplerInvariant, PTL DEF RSpec

-----------------------------------------------------------------------------
(* Part 2: audio_converter                                                 *)

-----------------------------------------------------------------------------
(* Induction over numbers, and recursive functions *)

\* A set of numbers has a lowest one: the sets 0..f of its members up to a
\* given one are finitely many, so strict inclusion has a minimal one.
LEMMA LowestExists ==
  ASSUME NEW D, D \subseteq Nat, D # {}
  PROVE  \E f \in D : \A g \in D : f <= g
<1>1. PICK n \in D : TRUE
  OBVIOUS
<1> DEFINE Cuts == {T \in SUBSET (0..n) : \E f \in D : f <= n /\ T = 0..f}
<1>2. IsFiniteSet(0..n) /\ n \in Nat /\ n <= n
  BY <1>1, FS_Interval
<1>3. IsWellFoundedOn(StrictSubsetOrdering(0..n), SUBSET (0..n))
  BY <1>2, FS_FiniteSubsetsOfFinite, FS_StrictSubsetOrderingWellFounded
<1>4. Cuts \subseteq SUBSET (0..n) /\ Cuts # {}
  <2>1. 0..n \in Cuts
    BY <1>1, <1>2
  <2> QED BY <2>1
<1>5. PICK T \in Cuts : \A U \in Cuts : <<U, T>> \notin StrictSubsetOrdering(0..n)
  <2> HIDE DEF Cuts
  <2> QED BY <1>3, <1>4, WFMin
<1>6. PICK f \in D : f <= n /\ T = 0..f
  BY <1>5
<1>7. ASSUME NEW g \in D PROVE f <= g
  <2> SUFFICES ASSUME g < f PROVE FALSE
    BY <1>6
  <2>1. 0..g \in Cuts /\ g <= n /\ f \in T /\ f \notin 0..g /\ (0..g) \subseteq T
    BY <1>2, <1>6
  <2>2. <<0..g, T>> \in StrictSubsetOrdering(0..n)
    BY <1>4, <1>5, <2>1 DEF StrictSubsetOrdering
  <2> QED BY <1>5, <2>1, <2>2
<1> QED BY <1>7

\* Induction, with the set of the numbers that have the property.
LEMMA Induction ==
  ASSUME NEW n \in Nat, NEW G, 0 \in G, \A k \in 1..n : k - 1 \in G => k \in G
  PROVE  \A k \in 0..n : k \in G
<1> DEFINE D == {k \in 0..n : k \notin G}
<1> SUFFICES ASSUME D # {} PROVE FALSE
  OBVIOUS
<1>1. D \subseteq Nat
  OBVIOUS
<1>2. PICK m \in D : \A k \in D : m <= k
  BY <1>1, LowestExists
<1>3. m \in 1..n /\ m \notin G
  BY <1>2
<1>4. m - 1 \in 0..n /\ m - 1 \notin D
  BY <1>2, <1>3
<1>5. m - 1 \in G
  BY <1>4
<1> QED
  BY <1>3, <1>5

\* A recursive function over 0..n exists: step k makes of the last value the next.
Runs(S, a, n, g) == \E r \in [0..n -> S] : r[0] = a /\ \A k \in 1..n : r[k] = g[k][r[k - 1]]

\* Such a function exists, whatever the steps are: a recursive definition over
\* 0..n has a value.
LEMMA Recursion ==
  ASSUME NEW S, NEW a \in S, NEW n \in Nat, NEW g \in [1..n -> [S -> S]]
  PROVE  Runs(S, a, n, g)
<1> DEFINE Upto(k, r) == r \in [0..k -> S] /\ r[0] = a /\ \A j \in 1..k : r[j] = g[j][r[j - 1]]
           G == {k \in 0..n : \E r : Upto(k, r)}
<1>1. 0 \in G
  <2> DEFINE q == [j \in 0..0 |-> a]
  <2>1. Upto(0, q)
    OBVIOUS
  <2> HIDE DEF q
  <2> QED
    BY <2>1
<1>2. ASSUME NEW k \in 1..n, k - 1 \in G PROVE k \in G
  <2>1. PICK r : Upto(k - 1, r)
    BY <1>2
  <2> DEFINE q == [j \in 0..k |-> IF j = k THEN g[k][r[k - 1]] ELSE r[j]]
  <2>2. k - 1 \in 0..(k - 1) /\ r[k - 1] \in S /\ g[k] \in [S -> S]
    BY <2>1
  <2>3. g[k][r[k - 1]] \in S
    BY <2>2
  <2>4. q \in [0..k -> S] /\ q[0] = a
    BY <2>1, <2>3
  <2>5. ASSUME NEW j \in 1..k PROVE q[j] = g[j][q[j - 1]]
    <3>1. CASE j = k
      <4>1. q[j - 1] = r[k - 1] /\ q[j] = g[k][r[k - 1]]
        BY <3>1
      <4> QED
        BY <3>1, <4>1
    <3>2. CASE j # k
      <4>1. j \in 1..(k - 1) /\ q[j] = r[j] /\ q[j - 1] = r[j - 1]
        BY <3>2
      <4> QED
        BY <4>1, <2>1
    <3> QED
      BY <3>1, <3>2
  <2> HIDE DEF q
  <2>6. Upto(k, q)
    BY <2>4, <2>5
  <2> QED
    BY <2>6
<1> HIDE DEF G
<1>3. \A k \in 0..n : k \in G
  BY <1>1, <1>2, Induction
<1> QED
  BY <1>3 DEF G, Runs
-----------------------------------------------------------------------------
(* Numbers and their bytes *)

Byte  == 0..(Base - 1)
Width == {1, 2, 4}

\* The powers of the base that occur.
BasePowers ==
  /\ Base \in Nat /\ Base > 1
  /\ Base^0 = 1 /\ Base^1 = Base /\ Base^2 = Base * Base /\ Base^3 = Base^2 * Base
  /\ Base^4 = Base^3 * Base /\ Base^4 = Base^2 * Base^2

\* The powers of Base, up to that of the widest sample.
LEMMA Powers == BasePowers
<1>1. ASSUME Base = 4 PROVE BasePowers
  BY <1>1 DEF BasePowers
<1>2. ASSUME Base = 16 PROVE BasePowers
  BY <1>2 DEF BasePowers
<1>3. ASSUME Base = 256 PROVE BasePowers
  BY <1>3 DEF BasePowers
<1> QED
  BY <1>1, <1>2, <1>3, BaseAssumption

\* Half of one of them.
Halved(w) == Base^w \in Nat /\ Base^w > 0 /\ Base^w \div 2 \in Nat /\ 2 * (Base^w \div 2) = Base^w

\* Each of them is twice its half.
LEMMA Halves == \A w \in Width : Halved(w)
<1>1. ASSUME Base = 4 PROVE Halved(1) /\ Halved(2) /\ Halved(4)
  BY <1>1 DEF Halved
<1>2. ASSUME Base = 16 PROVE Halved(1) /\ Halved(2) /\ Halved(4)
  BY <1>2 DEF Halved
<1>3. ASSUME Base = 256 PROVE Halved(1) /\ Halved(2) /\ Halved(4)
  BY <1>3 DEF Halved
<1> QED
  BY <1>1, <1>2, <1>3, BaseAssumption DEF Width

\* The number of one, two or four digits.
LEMMA NumberOf ==
  ASSUME NEW w \in Width, NEW d \in [1..w -> Byte]
  PROVE  /\ w = 1 => Number(d) = d[1]
         /\ w = 2 => Number(d) = d[1] * Base + d[2]
         /\ w = 4 => Number(d) = ((d[1] * Base + d[2]) * Base + d[3]) * Base + d[4]
<1> DEFINE g == [k \in 1..w |-> [x \in Int |-> x * Base + d[k]]]
           upto == CHOOSE u : u = [k \in 0..Len(d) |-> IF k = 0 THEN 0 ELSE u[k - 1] * Base + d[k]]
<1>1. Len(d) = w /\ w \in Nat
  BY DEF Width
<1>2. Base \in Nat /\ (\A k \in 1..w : d[k] \in Int) /\ \A x, y \in Int : x * Base + y \in Int
  BY BaseAssumption DEF Byte
<1>3. g \in [1..w -> [Int -> Int]]
  BY <1>2
<1>4. PICK r \in [0..w -> Int] : r[0] = 0 /\ \A k \in 1..w : r[k] = g[k][r[k - 1]]
  <2> HIDE DEF g
  <2>1. 0 \in Int
    OBVIOUS
  <2>2. Runs(Int, 0, w, g)
    BY <1>1, <1>3, <2>1, Recursion
  <2> QED
    BY <2>2 DEF Runs
<1>5. upto = [k \in 0..w |-> IF k = 0 THEN 0 ELSE upto[k - 1] * Base + d[k]]
  <2>1. \A k \in 1..w : g[k][r[k - 1]] = r[k - 1] * Base + d[k]
    <3>1. \A k \in 1..w, x \in Int : g[k][x] = x * Base + d[k]
      OBVIOUS
    <3>2. \A k \in 1..w : r[k - 1] \in Int
      BY <1>1
    <3> QED
      BY <3>1, <3>2, Zenon
  <2> HIDE DEF g
  <2>2. r = [k \in 0..w |-> IF k = 0 THEN 0 ELSE r[k - 1] * Base + d[k]]
    BY <1>1, <1>4, <2>1
  <2>3. \E u : u = [k \in 0..Len(d) |-> IF k = 0 THEN 0 ELSE u[k - 1] * Base + d[k]]
    BY <1>1, <2>2
  <2> QED
    BY <1>1, <2>3, Zenon
<1>6. Number(d) = upto[w]
  BY <1>1 DEF Number
<1> HIDE DEF upto
<1>7. upto[0] = 0 /\ \A k \in 1..w : upto[k] = upto[k - 1] * Base + d[k]
  BY <1>5 DEF Width
<1>8. upto[1] = d[1]
  BY <1>2, <1>7 DEF Width
<1>9. w > 1 => upto[2] = d[1] * Base + d[2]
  BY <1>7, <1>8 DEF Width
<1>10. w > 2 => upto[3] = (d[1] * Base + d[2]) * Base + d[3]
  BY <1>7, <1>9 DEF Width
<1>11. w > 3 => upto[4] = ((d[1] * Base + d[2]) * Base + d[3]) * Base + d[4]
  BY <1>7, <1>10 DEF Width
<1> QED
  BY <1>6, <1>8, <1>9, <1>11

\* Division by a positive number, of any integer.
LEMMA DivMod ==
  ASSUME NEW a \in Int, NEW b \in Nat, b > 0
  PROVE  /\ a \div b \in Int /\ a % b \in 0..(b - 1) /\ a = b * (a \div b) + (a % b)
         /\ a >= 0 => a \div b >= 0
<1> DEFINE q == a \div b
           r == a % b
<1>1. q \in Int /\ r \in 0..(b - 1) /\ a = b * q + r
  OBVIOUS
<1> HIDE DEF q, r
<1>2. ASSUME q < 0, a >= 0 PROVE FALSE
  <2>1. PICK d \in Nat : q = (-1) - d
    <3>1. (-1) - q \in Nat /\ q = (-1) - ((-1) - q)
      BY <1>1, <1>2
    <3> QED
      BY <3>1
  <2>2. b * ((-1) - d) = (-b) - b * d /\ b * d \in Nat
    OBVIOUS
  <2> QED
    BY <1>1, <1>2, <2>1, <2>2
<1>3. a >= 0 => q >= 0
  BY <1>1, <1>2
<1> QED
  BY <1>1, <1>3 DEF q, r

\* There is one quotient and one rest.
LEMMA DivUnique ==
  ASSUME NEW b \in Nat, NEW q \in Int, NEW r \in 0..(b - 1), b > 0
  PROVE  (b * q + r) \div b = q /\ (b * q + r) % b = r
<1> DEFINE a == b * q + r
           p == a \div b
           s == a % b
<1>1. a \in Int /\ b * q \in Int
  OBVIOUS
<1>2. p \in Int /\ s \in 0..(b - 1) /\ a = b * p + s
  BY <1>1, DivMod
<1> HIDE DEF p, s
<1>3. b * p - b * q = r - s /\ b * p \in Int /\ b * q \in Int
  BY <1>1, <1>2
<1>4. b * (p - q) = r - s
  BY <1>2, <1>3
<1>5. CASE p > q
  <2>1. PICK d \in Nat : p - q = 1 + d
    BY <1>2, <1>5
  <2>2. b * (1 + d) = b + b * d /\ b * d \in Nat
    BY <2>1
  <2> QED
    BY <1>2, <1>4, <2>1, <2>2
<1>6. CASE p < q
  <2>1. PICK d \in Nat : p - q = (-1) - d
    <3>1. q - p - 1 \in Nat /\ p - q = (-1) - (q - p - 1)
      BY <1>2, <1>6
    <3> QED
      BY <3>1
  <2>2. b * ((-1) - d) = (-b) - b * d /\ b * d \in Nat
    BY <2>1
  <2> QED
    BY <1>2, <1>4, <2>1, <2>2
<1>7. p = q
  BY <1>2, <1>5, <1>6
<1>8. s = r
  BY <1>2, <1>3, <1>7
<1> QED
  BY <1>7, <1>8 DEF p, s

\* A number below the divisor, and one more or less times it.
LEMMA ModSmall ==
  ASSUME NEW b \in Nat, NEW r \in 0..(b - 1)
  PROVE  r % b = r /\ r \div b = 0 /\ (r + b) % b = r /\ (r - b) % b = r
<1>1. b > 0 /\ b * 0 = 0 /\ b * 1 = b /\ b * (-1) = -b
  OBVIOUS
<1>2. (b * 0 + r) \div b = 0 /\ (b * 0 + r) % b = r /\ (b * 1 + r) % b = r /\ (b * (-1) + r) % b = r
  BY <1>1, DivUnique
<1>3. b * 0 + r = r /\ b * 1 + r = r + b /\ b * (-1) + r = r - b
  BY <1>1
<1> QED
  BY <1>2, <1>3

\* Dividing twice.
LEMMA DivTwice ==
  ASSUME NEW n \in Nat, NEW a \in Nat, NEW b \in Nat, a > 0, b > 0
  PROVE  (n \div a) \div b = n \div (a * b)
<1> DEFINE q == n \div a
           r == n % a
           p == q \div b
           s == q % b
           ab == a * b
<1>1. q \in Nat /\ r \in 0..(a - 1) /\ n = a * q + r
  BY DivMod
<1>2. p \in Nat /\ s \in 0..(b - 1) /\ q = b * p + s
  BY <1>1, DivMod
<1> HIDE DEF q, r, p, s
<1>3. a * q = a * (b * p) + a * s /\ a * (b * p) = (a * b) * p
  BY <1>1, <1>2
<1>4. a * s <= a * (b - 1) /\ a * s \in Nat /\ a * (b - 1) = a * b - a /\ a * b \in Nat
  <2>1. PICK d \in Nat : b - 1 = s + d
    <3>1. b - 1 - s \in Nat /\ b - 1 = s + (b - 1 - s)
      BY <1>2
    <3> QED
      BY <3>1
  <2>2. a * (s + d) = a * s + a * d /\ a * d \in Nat /\ a * s \in Nat
    BY <1>2
  <2> QED
    BY <2>1, <2>2
<1>5. ab \in Nat /\ ab > 0 /\ a * s + r \in 0..(ab - 1) /\ n = ab * p + (a * s + r)
  <2>1. ab > 0
    BY <1>4, <1>1, <1>2
  <2> QED
    BY <1>1, <1>2, <1>3, <1>4, <2>1
<1> HIDE DEF ab
<1>6. n \div ab = p
  BY <1>2, <1>5, DivUnique
<1> QED
  BY <1>6 DEF p, q, ab

\* The quotient of a number below a * b.
LEMMA DivLess ==
  ASSUME NEW a \in Nat, NEW b \in Nat, NEW n \in Nat, a > 0, n < a * b
  PROVE  n \div a \in 0..(b - 1)
<1> DEFINE q == n \div a
<1>1. q \in Nat /\ a * q <= n /\ a * q \in Nat /\ a * b \in Nat
  BY DivMod
<1> HIDE DEF q
<1>2. ASSUME q >= b PROVE FALSE
  <2>1. PICK d \in Nat : q = b + d
    <3>1. q - b \in Nat /\ q = b + (q - b)
      BY <1>1, <1>2
    <3> QED
      BY <3>1
  <2>2. a * q = a * b + a * d /\ a * d \in Nat
    BY <2>1
  <2> QED
    BY <1>1, <2>2
<1>3. q \in 0..(b - 1)
  BY <1>1, <1>2
<1> QED
  BY <1>3 DEF q

-----------------------------------------------------------------------------
(* Digits and numbers *)

\* One digit more.
LEMMA Horner ==
  ASSUME NEW b \in Nat, NEW m \in Nat, NEW n \in 0..(m - 1), NEW d \in 0..(b - 1)
  PROVE  n * b + d \in 0..(m * b - 1) /\ m * b \in Nat
<1>1. PICK e \in Nat : m = n + 1 + e
  <2>1. m - n - 1 \in Nat /\ m = n + 1 + (m - n - 1)
    OBVIOUS
  <2> QED
    BY <2>1
<1>2. m * b = n * b + b + e * b /\ n * b \in Nat /\ e * b \in Nat
  BY <1>1
<1> QED
  BY <1>2

\* w digits make a number below Base^w.
LEMMA NumberRange ==
  ASSUME NEW w \in Width, NEW d \in [1..w -> Byte]
  PROVE  Number(d) \in 0..(Base^w - 1)
<1> DEFINE b  == Base
           n1 == d[1]
           n2 == n1 * b + d[2]
           n3 == n2 * b + d[3]
           n4 == n3 * b + d[4]
           p2 == Base^2
           p3 == Base^3
           p4 == Base^4
<1>1. b \in Nat /\ p2 = b * b /\ p3 = p2 * b /\ p4 = p3 * b /\ Base^1 = b
  BY Powers DEF BasePowers
<1>2. \A k \in 1..w : d[k] \in 0..(b - 1)
  BY DEF Byte
<1>3. (w = 1 => Number(d) = n1) /\ (w = 2 => Number(d) = n2) /\ (w = 4 => Number(d) = n4)
  BY NumberOf
<1> HIDE DEF p2, p3, p4, n4, n3, n2, n1, b
<1>4. n1 \in 0..(b - 1) /\ (w > 1 => d[2] \in 0..(b - 1)) /\ (w = 4 => d[3] \in 0..(b - 1) /\ d[4] \in 0..(b - 1))
  BY <1>2 DEF Width, n1
<1>5. w > 1 => n2 \in 0..(p2 - 1) /\ p2 \in Nat
  BY <1>1, <1>4, Horner DEF n2
<1>6. w = 4 => n3 \in 0..(p3 - 1) /\ p3 \in Nat
  BY <1>1, <1>4, <1>5, Horner DEF n3
<1>7. w = 4 => n4 \in 0..(p4 - 1) /\ p4 \in Nat
  BY <1>1, <1>4, <1>6, Horner DEF n4
<1> QED
  BY <1>1, <1>3, <1>4, <1>5, <1>7 DEF Width, p2, p4

\* The digits of a number, and the number that they stand for.
LEMMA DigitsFacts ==
  ASSUME NEW w \in Width, NEW n \in 0..(Base^w - 1)
  PROVE  Digits(n, w) \in [1..w -> Byte] /\ Number(Digits(n, w)) = n
<1> DEFINE b  == Base
           p2 == Base^2
           p3 == Base^3
           p4 == Base^4
           d  == Digits(n, w)
           q1 == n \div b
           q2 == n \div p2
           q3 == n \div p3
<1>1. b \in Nat /\ b > 0 /\ p2 = b * b /\ p3 = p2 * b /\ p4 = p3 * b /\ Base^1 = b /\ Base^0 = 1
  BY Powers DEF BasePowers
<1>2. n \in Nat /\ w \in Nat /\ (\A k \in 1..w : w - k \in Nat)
  <2>1. Base^w \in Nat
    BY Halves DEF Halved
  <2> QED
    BY <2>1 DEF Width
<1>3. p2 \in Nat /\ p2 > 0 /\ p3 \in Nat /\ p3 > 0
  <2> HIDE DEF p2, p3, b
  <2>1. \A x, y \in Nat : x > 0 /\ y > 0 => x * y \in Nat /\ x * y > 0
    <3> SUFFICES ASSUME NEW x \in Nat, NEW y \in Nat, x > 0, y > 0 PROVE x * y \in Nat /\ x * y > 0
      OBVIOUS
    <3>1. PICK z \in Nat : y = z + 1
      <4>1. y - 1 \in Nat /\ y = (y - 1) + 1
        OBVIOUS
      <4> QED
        BY <4>1
    <3>2. x * (z + 1) = x * z + x /\ x * z \in Nat
      OBVIOUS
    <3> QED
      BY <3>1, <3>2
  <2> QED
    BY <1>1, <2>1
<1>4. \A k \in 1..w : d[k] = (n \div Base^(w - k)) % b
  BY DEF Digits
<1>5. d \in [1..w -> Byte]
  <2>1. \A k \in 1..w : Base^(w - k) \in Nat /\ Base^(w - k) > 0
    <3>1. \A k \in 1..w : w - k \in {0, 1, 2, 3}
      BY DEF Width
    <3> QED
      BY <3>1, <1>1, <1>3
  <2>2. \A k \in 1..w : n \div Base^(w - k) \in Int
    BY <2>1, <1>2, DivMod
  <2>3. \A k \in 1..w : d[k] \in Byte
    BY <1>1, <1>4, <2>2, DivMod DEF Byte
  <2>4. d = [k \in 1..w |-> d[k]]
    BY DEF Digits
  <2> HIDE DEF d
  <2> QED
    BY <2>3, <2>4
<1>6. n \div 1 = n
  BY <1>2
<1>7. /\ w = 1 => d[1] = n % b
      /\ w = 2 => d[1] = q1 % b /\ d[2] = n % b
      /\ w = 4 => d[1] = q3 % b /\ d[2] = q2 % b /\ d[3] = q1 % b /\ d[4] = n % b
  <2> HIDE DEF d
  <2>1. CASE w = 1
    BY <2>1, <1>1, <1>4, <1>6
  <2>2. CASE w = 2
    BY <2>2, <1>1, <1>4, <1>6
  <2>3. CASE w = 4
    BY <2>3, <1>1, <1>4, <1>6
  <2> QED
    BY <2>1, <2>2, <2>3 DEF Width
<1>8. /\ w = 1 => Number(d) = d[1]
      /\ w = 2 => Number(d) = d[1] * b + d[2]
      /\ w = 4 => Number(d) = ((d[1] * b + d[2]) * b + d[3]) * b + d[4]
  BY <1>5, NumberOf
<1>9. n < Base^w
  BY <1>2, Halves DEF Halved
<1> HIDE DEF d, b, p2, p3, p4
<1>10. q1 \in Nat /\ q2 \in Nat /\ q3 \in Nat
  BY <1>1, <1>2, <1>3, DivMod
<1>11. q2 = q1 \div b /\ q3 = q2 \div b
  BY <1>1, <1>2, <1>3, DivTwice
<1>12. n = b * q1 + (n % b) /\ q1 = b * q2 + (q1 % b) /\ q2 = b * q3 + (q2 % b)
  <2> HIDE DEF q1, q2, q3
  <2>1. q1 = b * (q1 \div b) + (q1 % b) /\ q2 = b * (q2 \div b) + (q2 % b)
    BY <1>1, <1>10, DivMod
  <2> QED
    BY <1>1, <1>2, <1>11, <2>1, DivMod DEF q1
<1>13. CASE w = 1
  <2>1. n \in 0..(b - 1)
    BY <1>1, <1>2, <1>9, <1>13
  <2> QED
    BY <2>1, <1>1, <1>5, <1>7, <1>8, <1>13, ModSmall DEF d
<1>14. CASE w = 2
  <2>1. n < b * b
    BY <1>1, <1>9, <1>14 DEF p2
  <2>2. q1 \in 0..(b - 1)
    BY <2>1, <1>1, <1>2, DivLess
  <2>3. q1 % b = q1
    BY <2>2, <1>1, ModSmall
  <2>4. Number(d) = q1 * b + (n % b)
    BY <2>3, <1>7, <1>8, <1>14, Zenon
  <2> HIDE DEF q1
  <2>5. q1 * b = b * q1
    BY <1>1, <1>10
  <2> QED
    BY <2>4, <2>5, <1>5, <1>12 DEF d
<1>15. CASE w = 4
  <2>1. n < p3 * b
    BY <1>1, <1>9, <1>15 DEF p4
  <2>2. q3 \in 0..(b - 1)
    BY <2>1, <1>1, <1>2, <1>3, DivLess
  <2>3. q3 % b = q3
    BY <2>2, <1>1, ModSmall
  <2>4. Number(d) = ((q3 * b + (q2 % b)) * b + (q1 % b)) * b + (n % b)
    BY <2>3, <1>7, <1>8, <1>15, Zenon
  <2> HIDE DEF q1, q2, q3
  <2>5. q3 * b = b * q3 /\ q2 * b = b * q2 /\ q1 * b = b * q1
    BY <1>1, <1>10
  <2>6. Number(d) = n
    BY <2>4, <2>5, <1>12
  <2> QED
    BY <2>6, <1>5 DEF d
<1> QED
  BY <1>13, <1>14, <1>15 DEF Width

\* A number and its last digit apart.
LEMMA LastDigit ==
  ASSUME NEW b \in Nat, NEW n \in Nat, NEW d \in 0..(b - 1)
  PROVE  (n * b + d) \div b = n /\ (n * b + d) % b = d
<1>1. b > 0 /\ n * b = b * n /\ n \in Int
  OBVIOUS
<1>2. (b * n + d) \div b = n /\ (b * n + d) % b = d
  BY <1>1, DivUnique
<1> QED
  BY <1>1, <1>2

\* The digits of the number that digits stand for.
LEMMA DigitsOf ==
  ASSUME NEW w \in Width, NEW d \in [1..w -> Byte]
  PROVE  Digits(Number(d), w) = d
<1> DEFINE b  == Base
           n1 == d[1]
           n2 == n1 * b + d[2]
           n3 == n2 * b + d[3]
           n4 == n3 * b + d[4]
           n  == Number(d)
           p2 == Base^2
           p3 == Base^3
<1>1. b \in Nat /\ b > 0 /\ p2 = b * b /\ p3 = p2 * b /\ Base^1 = b /\ Base^0 = 1
  BY Powers DEF BasePowers
<1>2. \A k \in 1..w : d[k] \in 0..(b - 1)
  BY DEF Byte
<1>3. (w = 1 => n = n1) /\ (w = 2 => n = n2) /\ (w = 4 => n = n4)
  BY NumberOf
<1>4. Digits(n, w) = [k \in 1..w |-> (n \div Base^(w - k)) % b]
  BY DEF Digits
<1>5. p2 \in Nat /\ p2 > 0
  BY <1>1, Halves DEF Halved, Width
<1> HIDE DEF p2, p3, n4, n3, n2, n1, n, b
<1>6. n1 \in 0..(b - 1) /\ (w > 1 => d[2] \in 0..(b - 1)) /\ (w = 4 => d[3] \in 0..(b - 1) /\ d[4] \in 0..(b - 1))
  BY <1>2 DEF Width, n1
<1>7. n1 \in Nat /\ n1 \div 1 = n1 /\ (n1 % b) = n1
  BY <1>1, <1>6, ModSmall
<1>8. w > 1 => n2 \in Nat /\ n2 \div b = n1 /\ (n2 % b) = d[2]
  <2> SUFFICES ASSUME w > 1 PROVE n2 \in Nat /\ n2 \div b = n1 /\ (n2 % b) = d[2]
    OBVIOUS
  <2>1. n1 \in Nat /\ d[2] \in 0..(b - 1)
    BY <1>6, <1>7
  <2>2. n1 * b + d[2] \in Nat
    BY <2>1, <1>1
  <2>3. (n1 * b + d[2]) \div b = n1 /\ (n1 * b + d[2]) % b = d[2]
    BY <2>1, <1>1, LastDigit
  <2> QED
    BY <2>2, <2>3, Zenon DEF n2
<1>9. w = 4 => n3 \in Nat /\ n3 \div b = n2 /\ (n3 % b) = d[3]
  <2> SUFFICES ASSUME w = 4 PROVE n3 \in Nat /\ n3 \div b = n2 /\ (n3 % b) = d[3]
    OBVIOUS
  <2>1. n2 \in Nat /\ d[3] \in 0..(b - 1)
    BY <1>6, <1>8
  <2>2. n2 * b + d[3] \in Nat
    BY <2>1, <1>1
  <2>3. (n2 * b + d[3]) \div b = n2 /\ (n2 * b + d[3]) % b = d[3]
    BY <2>1, <1>1, LastDigit
  <2> QED
    BY <2>2, <2>3, Zenon DEF n3
<1>10. w = 4 => n4 \in Nat /\ n4 \div b = n3 /\ (n4 % b) = d[4]
  <2> SUFFICES ASSUME w = 4 PROVE n4 \in Nat /\ n4 \div b = n3 /\ (n4 % b) = d[4]
    OBVIOUS
  <2>1. n3 \in Nat /\ d[4] \in 0..(b - 1)
    BY <1>6, <1>9
  <2>2. n3 * b + d[4] \in Nat
    BY <2>1, <1>1
  <2>3. (n3 * b + d[4]) \div b = n3 /\ (n3 * b + d[4]) % b = d[4]
    BY <2>1, <1>1, LastDigit
  <2> QED
    BY <2>2, <2>3, Zenon DEF n4
<1>11. CASE w = 1
  <2>1. (n \div Base^(1 - 1)) % b = d[1]
    BY <1>1, <1>3, <1>7, <1>11 DEF n1
  <2>2. Digits(n, w) = [k \in 1..1 |-> d[k]]
    BY <2>1, <1>4, <1>11
  <2> QED
    BY <2>2, <1>11 DEF n
<1>12. CASE w = 2
  <2>1. (n \div Base^(2 - 1)) % b = d[1]
    BY <1>1, <1>3, <1>7, <1>8, <1>12 DEF n1
  <2>2. (n \div Base^(2 - 2)) % b = d[2]
    BY <1>1, <1>3, <1>8, <1>12
  <2>3. Digits(n, w) = [k \in 1..2 |-> d[k]]
    BY <2>1, <2>2, <1>4, <1>12
  <2> QED
    BY <2>3, <1>12 DEF n
<1>13. CASE w = 4
  <2>1. n4 \div p2 = n2 /\ n4 \div p3 = n1
    <3>1. (n4 \div b) \div b = n4 \div (b * b)
      BY <1>1, <1>10, <1>13, DivTwice
    <3>2. n4 \div p2 = n2
      BY <3>1, <1>1, <1>9, <1>10, <1>13
    <3>3. (n4 \div p2) \div b = n4 \div (p2 * b)
      BY <1>1, <1>5, <1>10, <1>13, DivTwice
    <3> QED
      BY <3>2, <3>3, <1>1, <1>8, <1>13
  <2>2. (n \div Base^(4 - 1)) % b = d[1]
    BY <2>1, <1>1, <1>3, <1>7, <1>13 DEF n1, p3
  <2>3. (n \div Base^(4 - 2)) % b = d[2]
    BY <2>1, <1>1, <1>3, <1>8, <1>13 DEF p2
  <2>4. (n \div Base^(4 - 3)) % b = d[3]
    BY <1>1, <1>3, <1>9, <1>10, <1>13
  <2>5. (n \div Base^(4 - 4)) % b = d[4]
    BY <1>1, <1>3, <1>10, <1>13
  <2>6. Digits(n, w) = [k \in 1..4 |-> d[k]]
    <3>1. \A k \in 1..4 : (n \div Base^(4 - k)) % b = d[k]
      BY <2>2, <2>3, <2>4, <2>5
    <3> QED
      BY <3>1, <1>4, <1>13
  <2> QED
    BY <2>6, <1>13 DEF n
<1> QED
  BY <1>11, <1>12, <1>13 DEF Width

-----------------------------------------------------------------------------
(* Samples in a buffer *)

Buffer(n) == [1..n -> Byte]

\* The bytes of sample i.
Cell(buf, i, w) == [k \in 1..w |-> buf[i * w + k]]

\* The bytes from i * w + 1 on are the cell of sample i.
LEMMA CellIs ==
  ASSUME NEW n \in Nat, NEW buf \in Buffer(n), NEW w \in Width, NEW i \in Nat, i * w + w <= n
  PROVE  /\ SubSeq(buf, i * w + 1, i * w + w) = Cell(buf, i, w)
         /\ Cell(buf, i, w) \in [1..w -> Byte]
<1> DEFINE a == i * w
<1>1. w \in Nat /\ a \in Nat
  BY DEF Width
<1>2. buf \in Seq(Byte) /\ Len(buf) = n
  BY DEF Buffer
<1>3. Cell(buf, i, w) = [k \in 1..w |-> buf[a + k]] /\ a + w <= n
  BY DEF Cell
<1> HIDE DEF a
<1>4. SubSeq(buf, a + 1, a + w) = [k \in 1..w |-> buf[a + k]]
  <2>1. SubSeq(buf, a + 1, a + w) \in Seq(Byte) /\ Len(SubSeq(buf, a + 1, a + w)) = w
    BY <1>1, <1>2, <1>3
  <2>2. \A k \in 1..w : SubSeq(buf, a + 1, a + w)[k] = buf[a + k]
    BY <1>1, <1>2, <1>3
  <2> QED
    BY <2>1, <2>2, <1>1
<1>5. \A k \in 1..w : buf[a + k] \in Byte
  BY <1>1, <1>3 DEF Buffer
<1> QED
  BY <1>3, <1>4, <1>5 DEF a

\* Byte order, applied twice.
LEMMA InOrderFacts ==
  ASSUME NEW w \in Width, NEW d \in [1..w -> Byte], NEW l
  PROVE  /\ InOrder(d, l) \in [1..w -> Byte]
         /\ InOrder(InOrder(d, l), l) = d
         /\ InOrder(InOrder(InOrder(d, ~l), l), ~l) = InOrder(d, l)
<1>1. w \in Nat /\ Len(d) = w
  BY DEF Width
<1>2. \A e \in [1..w -> Byte] : Len(e) = w /\ Reverse(e) = [k \in 1..w |-> e[(w - k) + 1]]
  BY <1>1 DEF Reverse
<1>3. \A e \in [1..w -> Byte] : Reverse(e) \in [1..w -> Byte]
  <2> SUFFICES ASSUME NEW e \in [1..w -> Byte] PROVE Reverse(e) \in [1..w -> Byte]
    OBVIOUS
  <2>1. \A k \in 1..w : (w - k) + 1 \in 1..w
    BY <1>1
  <2> QED
    BY <1>2, <2>1
<1>4. Reverse(Reverse(d)) = d
  <2>1. \A k \in 1..w : (w - k) + 1 \in 1..w /\ (w - ((w - k) + 1)) + 1 = k
    BY <1>1
  <2>2. Reverse(d) = [k \in 1..w |-> d[(w - k) + 1]] /\ Reverse(d) \in [1..w -> Byte]
    BY <1>2, <1>3
  <2>3. Reverse(Reverse(d)) = [k \in 1..w |-> Reverse(d)[(w - k) + 1]]
    BY <1>2, <2>2
  <2>4. \A k \in 1..w : Reverse(d)[(w - k) + 1] = d[k]
    BY <2>1, <2>2
  <2>5. Reverse(Reverse(d)) = [k \in 1..w |-> d[k]]
    BY <2>3, <2>4
  <2> QED
    BY <2>5
<1>5. CASE l
  BY <1>3, <1>4, <1>5 DEF InOrder
<1>6. CASE ~l
  BY <1>3, <1>4, <1>6 DEF InOrder
<1> QED
  BY <1>5, <1>6

\* What loading sample i gives, and its digits again.
LEMMA LoadIs ==
  ASSUME NEW n \in Nat, NEW buf \in Buffer(n), NEW w \in Width, NEW i \in Nat, i * w + w <= n,
         NEW l
  PROVE  /\ Load(buf, i, w, l) = Number(InOrder(Cell(buf, i, w), l))
         /\ Load(buf, i, w, l) \in 0..(Base^w - 1)
         /\ Digits(Load(buf, i, w, l), w) = InOrder(Cell(buf, i, w), l)
<1>1. Load(buf, i, w, l) = Number(InOrder(Cell(buf, i, w), l))
  BY CellIs DEF Load
<1>2. InOrder(Cell(buf, i, w), l) \in [1..w -> Byte]
  BY CellIs, InOrderFacts
<1> QED
  BY <1>1, <1>2, NumberRange, DigitsOf

\* Concatenation of bytes.
LEMMA JoinFacts ==
  ASSUME NEW s \in Seq(Byte), NEW t \in Seq(Byte), NEW u, u = s \o t
  PROVE  /\ u \in Seq(Byte) /\ Len(u) = Len(s) + Len(t)
         /\ \A i \in 1..Len(s) : u[i] = s[i]
         /\ \A i \in 1..Len(t) : u[Len(s) + i] = t[i]
  OBVIOUS

\* What is stored is read again; nothing else is touched.
LEMMA StoreIs ==
  ASSUME NEW n \in Nat, NEW buf \in Buffer(n), NEW w \in Width, NEW i \in Nat, i * w + w <= n,
         NEW v \in Int, NEW l
  PROVE  /\ Store(buf, i, w, v, l) \in Buffer(n)
         /\ \A p \in 1..n : p \notin (i * w + 1)..(i * w + w) => Store(buf, i, w, v, l)[p] = buf[p]
         /\ Cell(Store(buf, i, w, v, l), i, w) = InOrder(Digits(v % Base^w, w), l)
<1> DEFINE a == i * w
           z == v % Base^w
           d == InOrder(Digits(z, w), l)
           s == Store(buf, i, w, v, l)
<1>1. w \in Nat /\ a \in Nat /\ Len(buf) = n
  BY DEF Width, Buffer
<1>2. z \in 0..(Base^w - 1)
  <2>1. Base^w \in Nat /\ Base^w > 0
    BY Halves DEF Halved
  <2> QED
    BY <2>1, DivMod
<1>3. d \in [1..w -> Byte]
  <2> HIDE DEF z
  <2> QED
    BY <1>2, DigitsFacts, InOrderFacts
<1>5. Cell(s, i, w) = [k \in 1..w |-> s[a + k]]
  BY DEF Cell
<1>6. a + w <= n
  OBVIOUS
<1>11. s = SubSeq(buf, 1, a) \o d \o SubSeq(buf, a + w + 1, n)
  BY <1>1 DEF Store
<1> HIDE DEF a, z, d, s
<1>4. s = [k \in 1..n |-> IF k \in (a + 1)..(a + w) THEN d[k - a] ELSE buf[k]]
  <2>1. buf \in Seq(Byte)
    BY DEF Buffer
  <2> DEFINE t == SubSeq(buf, 1, a)
             e == a + w
             r == SubSeq(buf, e + 1, n)
  <2>2. t \in Seq(Byte) /\ Len(t) = a /\ \A k \in 1..a : t[k] = buf[k]
    BY <1>1, <1>6, <2>1
  <2>3. r \in Seq(Byte) /\ Len(r) = n - e /\ \A k \in 1..(n - e) : r[k] = buf[e + k]
    <3>1. e \in Nat /\ n \in Nat /\ e <= n /\ n <= Len(buf)
      BY <1>1, <1>6
    <3> HIDE DEF e
    <3> QED
      BY <2>1, <3>1, SubSeqFacts
  <2>4. d \in Seq(Byte) /\ Len(d) = w
    BY <1>1, <1>3
  <2>5. s = (t \o d) \o r
    BY <1>11
  <2> HIDE DEF t, r
  <2> DEFINE u == t \o d
  <2>9. u \in Seq(Byte) /\ Len(u) = e /\ (\A k \in 1..a : u[k] = t[k]) /\ \A k \in 1..w : u[a + k] = d[k]
    <3>1. u = t \o d
      OBVIOUS
    <3> HIDE DEF u
    <3>2. u \in Seq(Byte) /\ Len(u) = Len(t) + Len(d) /\ (\A k \in 1..Len(t) : u[k] = t[k]) /\ \A k \in 1..Len(d) : u[Len(t) + k] = d[k]
      BY <2>2, <2>4, <3>1, JoinFacts
    <3> QED
      BY <2>2, <2>4, <3>2
  <2>10. s = u \o r
    BY <2>5
  <2> HIDE DEF e, u
  <2>11. e = a + w /\ e \in Nat
    BY <1>1 DEF e
  <2>6. s \in Seq(Byte) /\ Len(s) = n /\ (\A k \in 1..e : s[k] = u[k]) /\ \A k \in 1..(n - e) : s[e + k] = r[k]
    <3>1. /\ s \in Seq(Byte) /\ Len(s) = Len(u) + Len(r)
          /\ (\A k \in 1..Len(u) : s[k] = u[k]) /\ \A k \in 1..Len(r) : s[Len(u) + k] = r[k]
      <4>1. u \in Seq(Byte) /\ r \in Seq(Byte)
        BY <2>3, <2>9
      <4> QED
        BY <2>10, <4>1, JoinFacts
    <3> QED
      BY <1>1, <1>6, <2>3, <2>9, <2>11, <3>1
  <2>12. ASSUME NEW k \in 1..n PROVE s[k] = IF k \in (a + 1)..(a + w) THEN d[k - a] ELSE buf[k]
    <3>1. CASE k <= a
      <4>1. k \in 1..e /\ k \in 1..a /\ k \notin (a + 1)..(a + w)
        BY <1>1, <2>11, <3>1
      <4> QED
        BY <2>2, <2>6, <2>9, <4>1
    <3>2. CASE k > a /\ k <= e
      <4>1. k - a \in 1..w /\ a + (k - a) = k /\ k \in 1..e /\ k \in (a + 1)..(a + w)
        BY <1>1, <2>11, <3>2
      <4> QED
        BY <2>6, <2>9, <4>1
    <3>3. CASE k > e
      <4>1. k - e \in 1..(n - e) /\ e + (k - e) = k /\ k \notin (a + 1)..(a + w)
        BY <1>1, <2>11, <3>3
      <4> QED
        BY <2>3, <2>6, <4>1
    <3> QED
      BY <1>1, <2>11, <3>1, <3>2, <3>3
  <2>7. \A k \in 1..n : s[k] = IF k \in (a + 1)..(a + w) THEN d[k - a] ELSE buf[k]
    BY <2>12
  <2>8. s = [k \in 1..n |-> s[k]]
    BY <2>6
  <2> QED
    BY <2>7, <2>8
<1>7. \A k \in (a + 1)..(a + w) : k - a \in 1..w /\ d[k - a] \in Byte
  BY <1>1, <1>3
<1>8. s \in Buffer(n)
  <2>1. \A k \in 1..n : buf[k] \in Byte
    BY DEF Buffer
  <2>2. \A k \in 1..n : (IF k \in (a + 1)..(a + w) THEN d[k - a] ELSE buf[k]) \in Byte
    BY <1>7, <2>1
  <2> QED
    BY <1>4, <2>2 DEF Buffer
<1>9. \A p \in 1..n : p \notin (a + 1)..(a + w) => s[p] = buf[p]
  BY <1>4
<1>10. Cell(s, i, w) = d
  <2>1. \A k \in 1..w : a + k \in 1..n /\ a + k \in (a + 1)..(a + w) /\ (a + k) - a = k
    BY <1>1, <1>6
  <2>2. \A k \in 1..w : s[a + k] = d[k]
    BY <1>4, <2>1
  <2>3. Cell(s, i, w) = [k \in 1..w |-> d[k]]
    BY <1>5, <2>2
  <2> QED
    BY <2>3, <1>3
<1> QED
  BY <1>8, <1>9, <1>10 DEF a, z, d, s

-----------------------------------------------------------------------------
(* Loops over the samples of a buffer *)

\* Sample i of m lies inside a buffer that holds m.
LEMMA CellInside ==
  ASSUME NEW n \in Nat, NEW m \in Nat, NEW w \in Width, m * w <= n, NEW i \in 0..(m - 1)
  PROVE  i * w \in Nat /\ i * w + w <= n
<1>1. (w = 1 /\ i * w = i) \/ (w = 2 /\ i * w = 2 * i) \/ (w = 4 /\ i * w = 4 * i)
  BY DEF Width
<1>2. (w = 1 /\ m * w = m) \/ (w = 2 /\ m * w = 2 * m) \/ (w = 4 /\ m * w = 4 * m)
  BY DEF Width
<1> DEFINE a == i * w
           b == m * w
<1> HIDE DEF a, b
<1>3. a \in Nat /\ a + w <= n
  BY <1>1, <1>2 DEF a, b
<1> QED
  BY <1>3 DEF a

\* Two samples share no byte.
LEMMA CellsApart ==
  ASSUME NEW i \in Nat, NEW j \in Nat, i # j, NEW w \in Width, NEW q \in 1..w
  PROVE  j * w + q \notin (i * w + 1)..(i * w + w)
<1>1. CASE w = 1
  BY <1>1
<1>2. CASE w = 2
  BY <1>2
<1>3. CASE w = 4
  BY <1>3
<1> QED
  BY <1>1, <1>2, <1>3 DEF Width

\* Storing a sample leaves the others alone.
LEMMA StoreOther ==
  ASSUME NEW n \in Nat, NEW buf \in Buffer(n), NEW w \in Width, NEW i \in Nat, i * w + w <= n,
         NEW v \in Int, NEW l, NEW j \in Nat, i # j, j * w + w <= n
  PROVE  Cell(Store(buf, i, w, v, l), j, w) = Cell(buf, j, w)
<1> DEFINE s == Store(buf, i, w, v, l)
           a == j * w
<1>1. \A p \in 1..n : p \notin (i * w + 1)..(i * w + w) => s[p] = buf[p]
  BY StoreIs
<1>2. \A q \in 1..w : a + q \notin (i * w + 1)..(i * w + w)
  BY CellsApart
<1>3. a \in Nat /\ w \in Nat /\ a + w <= n
  BY DEF Width
<1>4. \A x : Cell(x, j, w) = [k \in 1..w |-> x[a + k]]
  BY DEF Cell
<1> HIDE DEF s, a
<1>5. \A q \in 1..w : s[a + q] = buf[a + q]
  BY <1>1, <1>2, <1>3
<1> QED
  BY <1>4, <1>5 DEF s

\* The bytes that the first k rounds of a loop have left alone.
Untouched(x, buf, n, order, k, w) ==
  \A p \in 1..n : (\A j \in 1..k : p \notin (order[j] * w + 1)..(order[j] * w + w)) => x[p] = buf[p]

\* r are the buffers behind the rounds of a loop in which sample i becomes
\* f[i] of the buffer.
Loop(r, buf, m, order, w, l, f) ==
  r[0] = buf /\ \A k \in 1..m : r[k] = Store(r[k - 1], order[k], w, f[order[k]][r[k - 1]], l)

\* The first m samples are val.
Stored(x, m, w, l, val) ==
  \A i \in 0..(m - 1) : Cell(x, i, w) = InOrder(Digits(val[i] % Base^w, w), l)

\* What such a loop stores.
Stores(buf, n, m, order, w, l, f, val) ==
  \E r \in [0..m -> Buffer(n)] : Loop(r, buf, m, order, w, l, f) /\ Stored(r[m], m, w, l, val)

\* An order that takes every sample once.
Order(m) == {order \in [1..m -> 0..(m - 1)] :
               (\A j, k \in 1..m : order[j] = order[k] => j = k)
               /\ \A i \in 0..(m - 1) : \E j \in 1..m : order[j] = i}

\* A loop whose rounds compute val[i] from bytes that it has not touched yet.
LEMMA LoopStores ==
  ASSUME NEW n \in Nat, NEW buf \in Buffer(n), NEW m \in Nat, NEW w \in Width, m * w <= n,
         NEW l, NEW order \in Order(m),
         NEW f \in [0..(m - 1) -> [Buffer(n) -> Int]], NEW val \in [0..(m - 1) -> Int],
         \A k \in 1..m : \A x \in Buffer(n) :
           Untouched(x, buf, n, order, k - 1, w) => f[order[k]][x] = val[order[k]]
  PROVE  Stores(buf, n, m, order, w, l, f, val)
<1> DEFINE g == [k \in 1..m |-> [x \in Buffer(n) |-> Store(x, order[k], w, f[order[k]][x], l)]]
           Now(i, x) == Cell(x, i, w) = InOrder(Digits(val[i] % Base^w, w), l)
<1>1. \A k \in 1..m : order[k] \in 0..(m - 1) /\ order[k] \in Nat /\ order[k] * w + w <= n
  BY CellInside DEF Order
<1>2. \A k \in 1..m : \A x \in Buffer(n) : f[order[k]][x] \in Int
  BY <1>1
<1>3. g \in [1..m -> [Buffer(n) -> Buffer(n)]]
  <2>1. \A k \in 1..m : \A x \in Buffer(n) : Store(x, order[k], w, f[order[k]][x], l) \in Buffer(n)
    BY <1>1, <1>2, StoreIs
  <2> QED
    BY <2>1
<1>4. \A k \in 1..m : \A x \in Buffer(n) : g[k][x] = Store(x, order[k], w, f[order[k]][x], l)
  OBVIOUS
<1> HIDE DEF g
<1>5. PICK r \in [0..m -> Buffer(n)] : r[0] = buf /\ \A k \in 1..m : r[k] = g[k][r[k - 1]]
  <2>1. Runs(Buffer(n), buf, m, g)
    BY <1>3, Recursion
  <2> QED
    BY <2>1 DEF Runs
<1>6. \A k \in 1..m : k - 1 \in 0..m /\ r[k - 1] \in Buffer(n)
  BY <1>5
<1>7. \A k \in 1..m : r[k] = Store(r[k - 1], order[k], w, f[order[k]][r[k - 1]], l)
  BY <1>4, <1>5, <1>6
<1>8. Loop(r, buf, m, order, w, l, f)
  BY <1>5, <1>7 DEF Loop
<1> DEFINE G == {k \in 0..m : Untouched(r[k], buf, n, order, k, w) /\ \A j \in 1..k : Now(order[j], r[k])}
<1>9. 0 \in G
  BY <1>5 DEF Untouched
<1>10. ASSUME NEW k \in 1..m, k - 1 \in G PROVE k \in G
  <2> DEFINE x == r[k - 1]
             i == order[k]
             v == f[i][x]
  <2>1. x \in Buffer(n) /\ i \in Nat /\ i * w + w <= n /\ v \in Int /\ r[k] = Store(x, i, w, v, l)
    BY <1>1, <1>2, <1>6, <1>7
  <2>2. Untouched(x, buf, n, order, k - 1, w) /\ \A j \in 1..(k - 1) : Now(order[j], x)
    BY <1>10
  <2>3. v = val[i]
    BY <2>1, <2>2
  <2> HIDE DEF v, x, i
  <2>4. /\ \A p \in 1..n : p \notin (i * w + 1)..(i * w + w) => r[k][p] = x[p]
        /\ Cell(r[k], i, w) = InOrder(Digits(v % Base^w, w), l)
    BY <2>1, StoreIs
  <2>5. Now(i, r[k])
    BY <2>3, <2>4
  <2>6. Untouched(r[k], buf, n, order, k, w)
    <3> SUFFICES ASSUME NEW p \in 1..n, \A j \in 1..k : p \notin (order[j] * w + 1)..(order[j] * w + w)
                 PROVE  r[k][p] = buf[p]
      BY DEF Untouched
    <3>1. p \notin (i * w + 1)..(i * w + w) /\ \A j \in 1..(k - 1) : j \in 1..k
      BY DEF i
    <3>2. \A j \in 1..(k - 1) : p \notin (order[j] * w + 1)..(order[j] * w + w)
      BY <3>1
    <3>3. x[p] = buf[p]
      BY <2>2, <3>2, Zenon DEF Untouched
    <3> QED
      BY <2>4, <3>1, <3>3
  <2>7. ASSUME NEW j \in 1..k PROVE Now(order[j], r[k])
    <3>1. CASE j = k
      BY <2>5, <3>1 DEF i
    <3>2. CASE j # k
      <4>1. j \in 1..(k - 1) /\ j \in 1..m /\ k \in 1..m
        BY <3>2
      <4>2. order[j] # i
        BY <4>1, <3>2 DEF Order, i
      <4>3. order[j] \in Nat /\ order[j] * w + w <= n
        BY <1>1, <4>1
      <4>4. Cell(r[k], order[j], w) = Cell(x, order[j], w)
        BY <2>1, <4>2, <4>3, StoreOther
      <4> QED
        BY <2>2, <4>1, <4>4
    <3> QED
      BY <3>1, <3>2
  <2> HIDE DEF Now
  <2> QED
    BY <2>6, <2>7
<1> HIDE DEF G, Now
<1>11. \A k \in 0..m : k \in G
  BY <1>9, <1>10, Induction
<1>12. \A j \in 1..m : Now(order[j], r[m])
  BY <1>11 DEF G
<1>13. \A i \in 0..(m - 1) : Now(i, r[m])
  BY <1>12 DEF Order
<1>14. Stored(r[m], m, w, l, val)
  BY <1>13 DEF Now, Stored
<1> QED
  BY <1>8, <1>14 DEF Stores

\* Two functions that start alike and go on alike end alike.
LEMMA SameEnd ==
  ASSUME NEW m \in Nat, NEW r, NEW u, r[0] = u[0],
         \A k \in 1..m : r[k - 1] = u[k - 1] => r[k] = u[k]
  PROVE  r[m] = u[m]
<1> DEFINE G == {k \in 0..m : r[k] = u[k]}
<1>1. 0 \in G /\ \A k \in 1..m : k - 1 \in G => k \in G
  OBVIOUS
<1> HIDE DEF G
<1>2. \A k \in 0..m : k \in G
  BY <1>1, Induction
<1> QED
  BY <1>2 DEF G

\* The order of a loop that counts up.
LEMMA UpOrder ==
  ASSUME NEW m \in Nat
  PROVE  Up(m) \in Order(m) /\ Len(Up(m)) = m /\ \A k \in 1..m : Up(m)[k] = k - 1
<1>1. Up(m) \in [1..m -> 0..(m - 1)] /\ \A k \in 1..m : Up(m)[k] = k - 1
  BY DEF Up
<1>2. \A i \in 0..(m - 1) : i + 1 \in 1..m /\ Up(m)[i + 1] = i
  BY DEF Up
<1>3. Len(Up(m)) = m
  BY DEF Up
<1> QED
  BY <1>1, <1>2, <1>3 DEF Order

\* And of one that counts down.
LEMMA DownOrder ==
  ASSUME NEW m \in Nat
  PROVE  Down(m) \in Order(m) /\ Len(Down(m)) = m /\ \A k \in 1..m : Down(m)[k] = m - k
<1>1. Down(m) \in [1..m -> 0..(m - 1)] /\ \A k \in 1..m : Down(m)[k] = m - k
  BY DEF Down
<1>2. \A i \in 0..(m - 1) : m - i \in 1..m /\ Down(m)[m - i] = i
  BY DEF Down
<1>3. Len(Down(m)) = m
  BY DEF Down
<1> QED
  BY <1>1, <1>2, <1>3 DEF Order

-----------------------------------------------------------------------------
(* The loops of audio_converter *)

\* What a loop stored is what a later load finds, modulo the width.
LEMMA StoredLoads ==
  ASSUME NEW n \in Nat, NEW x \in Buffer(n), NEW m \in Nat, NEW w \in Width, m * w <= n,
         NEW l, NEW val \in [0..(m - 1) -> Int], Stored(x, m, w, l, val),
         NEW i \in 0..(m - 1)
  PROVE  Load(x, i, w, l) = val[i] % Base^w /\ val[i] % Base^w \in 0..(Base^w - 1)
<1> DEFINE z == val[i] % Base^w
           d == Digits(z, w)
<1>1. z \in 0..(Base^w - 1)
  <2>1. Base^w \in Nat /\ Base^w > 0
    BY Halves DEF Halved
  <2>2. val[i] \in Int
    OBVIOUS
  <2> QED
    BY <2>1, <2>2, DivMod
<1>2. Cell(x, i, w) = InOrder(d, l)
  BY DEF Stored
<1> HIDE DEF z
<1>3. d \in [1..w -> Byte] /\ Number(d) = z
  BY <1>1, DigitsFacts
<1>4. i \in Nat /\ i * w + w <= n
  BY CellInside
<1>5. Load(x, i, w, l) = Number(InOrder(Cell(x, i, w), l))
  BY <1>4, LoadIs
<1> HIDE DEF d
<1>6. InOrder(InOrder(d, l), l) = d
  BY <1>3, InOrderFacts
<1> QED
  BY <1>1, <1>2, <1>3, <1>5, <1>6 DEF z

\* The samples of a part of a buffer.
LEMMA Samples ==
  ASSUME NEW m \in Nat, NEW w \in Width
  PROVE  (m * w) \div w = m /\ m * w \in Nat
<1>1. w \in Nat /\ w > 0 /\ m * w = w * m + 0 /\ 0 \in 0..(w - 1) /\ m \in Int /\ m * w \in Nat
  BY DEF Width
<1> QED
  BY <1>1, DivUnique

\* A loop that runs upwards has not touched the bytes ahead of it.
LEMMA AheadIsUntouched ==
  ASSUME NEW n \in Nat, NEW buf \in Buffer(n), NEW x \in Buffer(n), NEW m \in Nat, NEW k \in 1..m,
         NEW w \in Width, NEW v \in Width, w <= v, Untouched(x, buf, n, Up(m), k - 1, w),
         (k - 1) * v + v <= n
  PROVE  Cell(x, k - 1, v) = Cell(buf, k - 1, v)
<1> DEFINE a == (k - 1) * v
<1>1. a \in Nat /\ v \in Nat
  BY DEF Width
<1>2. ASSUME NEW q \in 1..v, NEW j \in 1..(k - 1)
      PROVE  a + q \notin (Up(m)[j] * w + 1)..(Up(m)[j] * w + w)
  <2>1. Up(m)[j] = j - 1
    BY UpOrder
  <2> DEFINE e == j - 1
             h == k - 1
  <2>2. e \in Nat /\ h \in Nat /\ e + 1 <= h
    OBVIOUS
  <2> HIDE DEF e, h
  <2>3. e * w + w < h * v + q
    <3>1. CASE w = 1 /\ v = 1
      BY <2>2, <3>1
    <3>2. CASE w = 1 /\ v = 2
      BY <2>2, <3>2
    <3>3. CASE w = 1 /\ v = 4
      BY <2>2, <3>3
    <3>4. CASE w = 2 /\ v = 2
      BY <2>2, <3>4
    <3>5. CASE w = 2 /\ v = 4
      BY <2>2, <3>5
    <3>6. CASE w = 4 /\ v = 4
      BY <2>2, <3>6
    <3> QED
      BY <3>1, <3>2, <3>3, <3>4, <3>5, <3>6 DEF Width
  <2>4. e * w + w \in Int /\ h * v + q \in Int
    BY <2>2 DEF Width
  <2>5. h * v + q \notin (e * w + 1)..(e * w + w)
    BY <2>3, <2>4
  <2> QED
    BY <2>1, <2>5 DEF e, h
<1>3. ASSUME NEW q \in 1..v PROVE x[a + q] = buf[a + q]
  <2>1. a + q \in 1..n
    BY <1>1
  <2> HIDE DEF a
  <2> QED
    BY <1>2, <2>1, Zenon DEF Untouched
<1>4. \A z : Cell(z, k - 1, v) = [q \in 1..v |-> z[a + q]]
  BY DEF Cell
<1> HIDE DEF a
<1> QED
  BY <1>3, <1>4

\* A load depends on the bytes of its cell alone.
LEMMA SameCell ==
  ASSUME NEW n \in Nat, NEW buf \in Buffer(n), NEW x \in Buffer(n), NEW i \in Nat,
         NEW w \in Width, i * w + w <= n, NEW l, Cell(x, i, w) = Cell(buf, i, w)
  PROVE  Load(x, i, w, l) = Load(buf, i, w, l)
BY LoadIs

\* swap_bytes of every sample.
LEMMA SwapStores ==
  ASSUME NEW n \in Nat, NEW buf \in Buffer(n), NEW m \in Nat, NEW w \in Width, m * w <= n,
         NEW l
  PROVE  /\ swap(buf, m * w, w, l) \in Buffer(n)
         /\ Stored(swap(buf, m * w, w, l), m, w, l, [i \in 0..(m - 1) |-> Load(buf, i, w, ~l)])
<1> DEFINE f    == [i \in 0..(m - 1) |-> [x \in Buffer(n) |-> Load(x, i, w, ~l)]]
           val  == [i \in 0..(m - 1) |-> Load(buf, i, w, ~l)]
           loop == CHOOSE u : u = [k \in 0..Len(Up(m)) |->
                     IF k = 0 THEN buf
                     ELSE LET b == u[k - 1] IN Store(b, Up(m)[k], w, Load(b, Up(m)[k], w, ~l), l)]
<1>1. \A i \in 0..(m - 1) : i \in Nat /\ i * w + w <= n
  BY CellInside
<1>2. \A x \in Buffer(n), i \in 0..(m - 1) : Load(x, i, w, ~l) \in Int
  <2>1. Base^w \in Nat
    BY Halves DEF Halved
  <2>2. \A x \in Buffer(n), i \in 0..(m - 1) : Load(x, i, w, ~l) \in 0..(Base^w - 1)
    BY <1>1, LoadIs
  <2> QED
    BY <2>1, <2>2
<1>3. f \in [0..(m - 1) -> [Buffer(n) -> Int]] /\ val \in [0..(m - 1) -> Int]
  BY <1>2
<1>4. \A x \in Buffer(n), i \in 0..(m - 1) : f[i][x] = Load(x, i, w, ~l)
  OBVIOUS
<1>5. \A i \in 0..(m - 1) : val[i] = Load(buf, i, w, ~l)
  OBVIOUS
<1> HIDE DEF f, val
<1>6. \A k \in 1..m : Up(m)[k] = k - 1 /\ k - 1 \in 0..(m - 1)
  BY UpOrder
<1>7. ASSUME NEW k \in 1..m, NEW x \in Buffer(n), Untouched(x, buf, n, Up(m), k - 1, w)
      PROVE  f[Up(m)[k]][x] = val[Up(m)[k]]
  <2>1. (k - 1) * w + w <= n /\ k - 1 \in Nat /\ w <= w
    BY <1>1, <1>6 DEF Width
  <2>2. Cell(x, k - 1, w) = Cell(buf, k - 1, w)
    BY <1>7, <2>1, AheadIsUntouched
  <2>3. Load(x, k - 1, w, ~l) = Load(buf, k - 1, w, ~l)
    BY <2>1, <2>2, SameCell
  <2> QED
    BY <2>3, <1>4, <1>5, <1>6
<1>8. Stores(buf, n, m, Up(m), w, l, f, val)
  BY <1>3, <1>7, UpOrder, LoopStores
<1>9. PICK r \in [0..m -> Buffer(n)] : Loop(r, buf, m, Up(m), w, l, f) /\ Stored(r[m], m, w, l, val)
  BY <1>8 DEF Stores
<1>10. \A k \in 1..m : r[k] = Store(r[k - 1], Up(m)[k], w, Load(r[k - 1], Up(m)[k], w, ~l), l)
  <2>1. \A k \in 1..m : r[k - 1] \in Buffer(n) /\ Up(m)[k] \in 0..(m - 1)
    BY <1>6
  <2> QED
    BY <1>4, <1>9, <2>1 DEF Loop
<1>11. loop = [k \in 0..m |-> IF k = 0 THEN buf
               ELSE LET b == loop[k - 1] IN Store(b, Up(m)[k], w, Load(b, Up(m)[k], w, ~l), l)]
  <2>1. r = [k \in 0..m |-> IF k = 0 THEN buf
             ELSE LET b == r[k - 1] IN Store(b, Up(m)[k], w, Load(b, Up(m)[k], w, ~l), l)]
    BY <1>9, <1>10 DEF Loop
  <2>2. \E u : u = [k \in 0..Len(Up(m)) |-> IF k = 0 THEN buf
             ELSE LET b == u[k - 1] IN Store(b, Up(m)[k], w, Load(b, Up(m)[k], w, ~l), l)]
    BY <2>1, UpOrder
  <2> QED
    BY <2>2, UpOrder, Zenon
<1>12. swap(buf, m * w, w, l) = loop[m]
  BY UpOrder, Samples DEF swap, Each
<1> HIDE DEF loop
<1>13. loop[0] = buf
  BY <1>11
<1>14. \A k \in 1..m : loop[k] = Store(loop[k - 1], Up(m)[k], w, Load(loop[k - 1], Up(m)[k], w, ~l), l)
  BY <1>11
<1>15. r[m] = loop[m]
  <2>1. r[0] = loop[0]
    BY <1>9, <1>13 DEF Loop
  <2>2. \A k \in 1..m : r[k - 1] = loop[k - 1] => r[k] = loop[k]
    BY <1>10, <1>14, Zenon
  <2> QED
    BY <2>1, <2>2, SameEnd
<1> QED
  BY <1>9, <1>12, <1>15 DEF val

\* The values that the loops compute are integers.
LEMMA Types ==
  /\ \A v \in Int, w \in Width : v + (Base^w \div 2) \in Int /\ Signed(v, w) \in Int
  /\ \A v \in Int : Signed(v, 4) \div Base^2 \in Int
  /\ \A b \in Byte : ALAWTable(b) \in Int /\ MULAWTable(b) \in Int /\ Signed(b, 1) * Base \in Int
<1>1. \A w \in Width : Base^w \in Nat /\ Base^w \div 2 \in Nat
  BY Halves DEF Halved
<1>2. \A v \in Int, w \in Width : v + (Base^w \div 2) \in Int /\ Signed(v, w) \in Int
  BY <1>1 DEF Signed
<1>3. \A v \in Int : Signed(v, 4) \div Base^2 \in Int
  <2>1. Base^2 \in Nat /\ Base^2 > 0
    BY Halves DEF Halved, Width
  <2>2. \A v \in Int : Signed(v, 4) \in Int
    BY <1>2 DEF Width
  <2> QED
    BY <2>1, <2>2, DivMod
<1>4. \A b \in Byte : b \in Int
  BY Powers DEF BasePowers, Byte
<1>5. Base \in Nat /\ Base * Base \in Nat /\ Base * Base > 0
  BY Powers, Halves DEF BasePowers, Halved, Width
<1>6. \A b \in Byte : ALAWTable(b) \in Int
  <2> SUFFICES ASSUME NEW b \in Byte PROVE ALAWTable(b) \in Int
    OBVIOUS
  <2> DEFINE e == 3 * b * b + b
             bb == Base * Base
  <2>1. e \in Int
    BY <1>4
  <2>2. ALAWTable(b) = (e % bb) - (bb \div 2)
    BY DEF ALAWTable
  <2> HIDE DEF e, bb
  <2>3. bb \in Nat /\ bb > 0 /\ (e % bb) \in Int /\ bb \div 2 \in Int
    BY <1>5, <2>1, DivMod DEF bb
  <2> QED
    BY <2>2, <2>3
<1>7. \A b \in Byte : MULAWTable(b) \in Int
  <2> SUFFICES ASSUME NEW b \in Byte PROVE MULAWTable(b) \in Int
    OBVIOUS
  <2> DEFINE bb == Base * Base
  <2>1. b * (Base - 1) \in Int
    BY <1>4, <1>5
  <2>2. MULAWTable(b) = (bb \div 2) - 1 - (b * (Base - 1))
    BY DEF MULAWTable
  <2> HIDE DEF bb
  <2> QED
    BY <1>5, <2>1, <2>2 DEF bb
<1>8. \A b \in Byte : Signed(b, 1) * Base \in Int
  BY <1>2, <1>4, <1>5 DEF Width
<1> QED
  BY <1>2, <1>3, <1>6, <1>7, <1>8

\* Four bytes to a sample, and back.
LEMMA FourWide == \A m \in Nat : (m * 4) \div 4 = m
OBVIOUS

\* A loop that runs downwards and widens has not touched the byte it reads.
LEMMA BehindIsUntouched ==
  ASSUME NEW n \in Nat, NEW buf \in Buffer(n), NEW x \in Buffer(n), NEW m \in Nat, NEW k \in 1..m,
         m * 2 <= n, Untouched(x, buf, n, Down(m), k - 1, 2)
  PROVE  x[(m - k) + 1] = buf[(m - k) + 1]
<1>1. \A j \in 1..(k - 1) : Down(m)[j] = m - j
  BY DownOrder
<1>2. \A j \in 1..(k - 1) : (m - k) + 1 \notin ((m - j) * 2 + 1)..((m - j) * 2 + 2)
  OBVIOUS
<1>3. (m - k) + 1 \in 1..n
  OBVIOUS
<1> QED
  BY <1>1, <1>2, <1>3 DEF Untouched

\* Half the range is added to every sample.
LEMMA FlipStores ==
  ASSUME NEW n \in Nat, NEW buf \in Buffer(n), NEW m \in Nat, NEW w \in Width, m * w <= n,
         NEW l
  PROVE  /\ flip_sign(buf, m * w, w, l) \in Buffer(n)
         /\ Stored(flip_sign(buf, m * w, w, l), m, w, l, [i \in 0..(m - 1) |-> Load(buf, i, w, l) + (Base^w \div 2)])
<1> DEFINE f    == [i \in 0..(m - 1) |-> [x \in Buffer(n) |-> Load(x, i, w, l) + (Base^w \div 2)]]
           val  == [i \in 0..(m - 1) |-> Load(buf, i, w, l) + (Base^w \div 2)]
           loop == CHOOSE u : u = [k \in 0..Len(Up(m)) |->
                     IF k = 0 THEN buf
                     ELSE LET b == u[k - 1] IN Store(b, Up(m)[k], w, Load(b, Up(m)[k], w, l) + (Base^w \div 2), l)]
<1>1. \A i \in 0..(m - 1) : i \in Nat /\ i * w + w <= n
  BY CellInside DEF Width
<1>2. \A x \in Buffer(n), i \in 0..(m - 1) : Load(x, i, w, l) + (Base^w \div 2) \in Int
  <2>1. \A x \in Buffer(n), i \in 0..(m - 1) : Load(x, i, w, l) \in Int
    <3>1. Base^w \in Nat
      BY Halves DEF Halved, Width
    <3>2. \A x \in Buffer(n), i \in 0..(m - 1) : Load(x, i, w, l) \in 0..(Base^w - 1)
      BY <1>1, LoadIs DEF Width
    <3> QED
      BY <3>1, <3>2
  <2> QED
    BY <2>1, Types DEF Width
<1>3. f \in [0..(m - 1) -> [Buffer(n) -> Int]] /\ val \in [0..(m - 1) -> Int]
  BY <1>2
<1>4. \A x \in Buffer(n), i \in 0..(m - 1) : f[i][x] = Load(x, i, w, l) + (Base^w \div 2)
  OBVIOUS
<1>5. \A i \in 0..(m - 1) : val[i] = Load(buf, i, w, l) + (Base^w \div 2)
  OBVIOUS
<1> HIDE DEF f, val
<1>6. \A k \in 1..m : Up(m)[k] = k - 1 /\ k - 1 \in 0..(m - 1)
  BY UpOrder
<1>7. ASSUME NEW k \in 1..m, NEW x \in Buffer(n), Untouched(x, buf, n, Up(m), k - 1, w)
      PROVE  f[Up(m)[k]][x] = val[Up(m)[k]]
  <2>1. (k - 1) * w + w <= n /\ k - 1 \in Nat /\ w <= w
    BY <1>1, <1>6 DEF Width
  <2>2. Cell(x, k - 1, w) = Cell(buf, k - 1, w)
    BY <1>7, <2>1, AheadIsUntouched DEF Width
  <2>3. Load(x, k - 1, w, l) = Load(buf, k - 1, w, l)
    BY <2>1, <2>2, SameCell DEF Width
  <2> QED
    BY <2>3, <1>4, <1>5, <1>6
<1>8. Stores(buf, n, m, Up(m), w, l, f, val)
  <2>1. w \in Width /\ m * w <= n
    BY <1>1 DEF Width
  <2> QED
    BY <2>1, <1>3, <1>7, UpOrder, LoopStores
<1>9. PICK r \in [0..m -> Buffer(n)] : Loop(r, buf, m, Up(m), w, l, f) /\ Stored(r[m], m, w, l, val)
  BY <1>8 DEF Stores
<1>10. \A k \in 1..m : r[k] = Store(r[k - 1], Up(m)[k], w, Load(r[k - 1], Up(m)[k], w, l) + (Base^w \div 2), l)
  <2>1. \A k \in 1..m : r[k - 1] \in Buffer(n) /\ Up(m)[k] \in 0..(m - 1)
    BY <1>6
  <2> QED
    BY <1>4, <1>9, <2>1 DEF Loop
<1>11. loop = [k \in 0..m |-> IF k = 0 THEN buf
               ELSE LET b == loop[k - 1] IN Store(b, Up(m)[k], w, Load(b, Up(m)[k], w, l) + (Base^w \div 2), l)]
  <2>1. r = [k \in 0..m |-> IF k = 0 THEN buf
             ELSE LET b == r[k - 1] IN Store(b, Up(m)[k], w, Load(b, Up(m)[k], w, l) + (Base^w \div 2), l)]
    BY <1>9, <1>10 DEF Loop
  <2>2. \E u : u = [k \in 0..Len(Up(m)) |-> IF k = 0 THEN buf
             ELSE LET b == u[k - 1] IN Store(b, Up(m)[k], w, Load(b, Up(m)[k], w, l) + (Base^w \div 2), l)]
    BY <2>1, UpOrder
  <2> QED
    BY <2>2, UpOrder, Zenon
<1>12. flip_sign(buf, m * w, w, l) = loop[m]
  BY UpOrder, Samples DEF flip_sign, Each
<1> HIDE DEF loop
<1>13. loop[0] = buf
  BY <1>11
<1>14. \A k \in 1..m : loop[k] = Store(loop[k - 1], Up(m)[k], w, Load(loop[k - 1], Up(m)[k], w, l) + (Base^w \div 2), l)
  BY <1>11
<1>15. r[m] = loop[m]
  <2>1. r[0] = loop[0]
    BY <1>9, <1>13 DEF Loop
  <2>2. \A k \in 1..m : r[k - 1] = loop[k - 1] => r[k] = loop[k]
    BY <1>10, <1>14, Zenon
  <2> QED
    BY <2>1, <2>2, SameEnd
<1> QED
  BY <1>9, <1>12, <1>15 DEF val

\* 32 bits become 16.
LEMMA NarrowStores ==
  ASSUME NEW n \in Nat, NEW buf \in Buffer(n), NEW m \in Nat, m * 4 <= n,
         NEW l
  PROVE  /\ s32_to_s16(buf, m * 4, l) \in Buffer(n)
         /\ Stored(s32_to_s16(buf, m * 4, l), m, 2, l, [i \in 0..(m - 1) |-> Signed(Load(buf, i, 4, l), 4) \div Base^2])
<1> DEFINE f    == [i \in 0..(m - 1) |-> [x \in Buffer(n) |-> Signed(Load(x, i, 4, l), 4) \div Base^2]]
           val  == [i \in 0..(m - 1) |-> Signed(Load(buf, i, 4, l), 4) \div Base^2]
           loop == CHOOSE u : u = [k \in 0..Len(Up(m)) |->
                     IF k = 0 THEN buf
                     ELSE LET b == u[k - 1] IN Store(b, Up(m)[k], 2, Signed(Load(b, Up(m)[k], 4, l), 4) \div Base^2, l)]
<1>1. \A i \in 0..(m - 1) : i \in Nat /\ i * 4 + 4 <= n /\ m * 2 <= n
  BY CellInside DEF Width
<1>2. \A x \in Buffer(n), i \in 0..(m - 1) : Signed(Load(x, i, 4, l), 4) \div Base^2 \in Int
  <2>1. \A x \in Buffer(n), i \in 0..(m - 1) : Load(x, i, 4, l) \in Int
    <3>1. Base^4 \in Nat
      BY Halves DEF Halved, Width
    <3>2. \A x \in Buffer(n), i \in 0..(m - 1) : Load(x, i, 4, l) \in 0..(Base^4 - 1)
      BY <1>1, LoadIs DEF Width
    <3> QED
      BY <3>1, <3>2
  <2> QED
    BY <2>1, Types DEF Width
<1>3. f \in [0..(m - 1) -> [Buffer(n) -> Int]] /\ val \in [0..(m - 1) -> Int]
  BY <1>2
<1>4. \A x \in Buffer(n), i \in 0..(m - 1) : f[i][x] = Signed(Load(x, i, 4, l), 4) \div Base^2
  OBVIOUS
<1>5. \A i \in 0..(m - 1) : val[i] = Signed(Load(buf, i, 4, l), 4) \div Base^2
  OBVIOUS
<1> HIDE DEF f, val
<1>6. \A k \in 1..m : Up(m)[k] = k - 1 /\ k - 1 \in 0..(m - 1)
  BY UpOrder
<1>7. ASSUME NEW k \in 1..m, NEW x \in Buffer(n), Untouched(x, buf, n, Up(m), k - 1, 2)
      PROVE  f[Up(m)[k]][x] = val[Up(m)[k]]
  <2>1. (k - 1) * 4 + 4 <= n /\ k - 1 \in Nat /\ 2 <= 4
    BY <1>1, <1>6 DEF Width
  <2>2. Cell(x, k - 1, 4) = Cell(buf, k - 1, 4)
    BY <1>7, <2>1, AheadIsUntouched DEF Width
  <2>3. Load(x, k - 1, 4, l) = Load(buf, k - 1, 4, l)
    BY <2>1, <2>2, SameCell DEF Width
  <2> QED
    BY <2>3, <1>4, <1>5, <1>6
<1>8. Stores(buf, n, m, Up(m), 2, l, f, val)
  <2>1. 2 \in Width /\ m * 2 <= n
    BY <1>1 DEF Width
  <2> QED
    BY <2>1, <1>3, <1>7, UpOrder, LoopStores
<1>9. PICK r \in [0..m -> Buffer(n)] : Loop(r, buf, m, Up(m), 2, l, f) /\ Stored(r[m], m, 2, l, val)
  BY <1>8 DEF Stores
<1>10. \A k \in 1..m : r[k] = Store(r[k - 1], Up(m)[k], 2, Signed(Load(r[k - 1], Up(m)[k], 4, l), 4) \div Base^2, l)
  <2>1. \A k \in 1..m : r[k - 1] \in Buffer(n) /\ Up(m)[k] \in 0..(m - 1)
    BY <1>6
  <2> QED
    BY <1>4, <1>9, <2>1 DEF Loop
<1>11. loop = [k \in 0..m |-> IF k = 0 THEN buf
               ELSE LET b == loop[k - 1] IN Store(b, Up(m)[k], 2, Signed(Load(b, Up(m)[k], 4, l), 4) \div Base^2, l)]
  <2>1. r = [k \in 0..m |-> IF k = 0 THEN buf
             ELSE LET b == r[k - 1] IN Store(b, Up(m)[k], 2, Signed(Load(b, Up(m)[k], 4, l), 4) \div Base^2, l)]
    BY <1>9, <1>10 DEF Loop
  <2>2. \E u : u = [k \in 0..Len(Up(m)) |-> IF k = 0 THEN buf
             ELSE LET b == u[k - 1] IN Store(b, Up(m)[k], 2, Signed(Load(b, Up(m)[k], 4, l), 4) \div Base^2, l)]
    BY <2>1, UpOrder
  <2> QED
    BY <2>2, UpOrder, Zenon
<1>12. s32_to_s16(buf, m * 4, l) = loop[m]
  BY UpOrder, Samples, FourWide DEF s32_to_s16, Each
<1> HIDE DEF loop
<1>13. loop[0] = buf
  BY <1>11
<1>14. \A k \in 1..m : loop[k] = Store(loop[k - 1], Up(m)[k], 2, Signed(Load(loop[k - 1], Up(m)[k], 4, l), 4) \div Base^2, l)
  BY <1>11
<1>15. r[m] = loop[m]
  <2>1. r[0] = loop[0]
    BY <1>9, <1>13 DEF Loop
  <2>2. \A k \in 1..m : r[k - 1] = loop[k - 1] => r[k] = loop[k]
    BY <1>10, <1>14, Zenon
  <2> QED
    BY <2>1, <2>2, SameEnd
<1> QED
  BY <1>9, <1>12, <1>15 DEF val

\* A byte of A-law becomes 16 bits.
LEMMA AlawStores ==
  ASSUME NEW n \in Nat, NEW buf \in Buffer(n), NEW m \in Nat, m * 2 <= n,
         NEW l
  PROVE  /\ alaw_to_s16(buf, m, l) \in Buffer(n)
         /\ Stored(alaw_to_s16(buf, m, l), m, 2, l, [i \in 0..(m - 1) |-> ALAWTable(buf[i + 1])])
<1> DEFINE f    == [i \in 0..(m - 1) |-> [x \in Buffer(n) |-> ALAWTable(x[i + 1])]]
           val  == [i \in 0..(m - 1) |-> ALAWTable(buf[i + 1])]
           loop == CHOOSE u : u = [k \in 0..Len(Down(m)) |->
                     IF k = 0 THEN buf
                     ELSE LET b == u[k - 1] IN Store(b, Down(m)[k], 2, ALAWTable(b[Down(m)[k] + 1]), l)]
<1>1. m * 2 <= n /\ \A i \in 0..(m - 1) : i + 1 \in 1..n
  OBVIOUS
<1>2. \A x \in Buffer(n), i \in 0..(m - 1) : ALAWTable(x[i + 1]) \in Int
  <2>1. \A x \in Buffer(n), i \in 0..(m - 1) : x[i + 1] \in Byte
    BY <1>1 DEF Buffer
  <2> QED
    BY <2>1, Types DEF Width
<1>3. f \in [0..(m - 1) -> [Buffer(n) -> Int]] /\ val \in [0..(m - 1) -> Int]
  BY <1>2
<1>4. \A x \in Buffer(n), i \in 0..(m - 1) : f[i][x] = ALAWTable(x[i + 1])
  OBVIOUS
<1>5. \A i \in 0..(m - 1) : val[i] = ALAWTable(buf[i + 1])
  OBVIOUS
<1> HIDE DEF f, val
<1>6. \A k \in 1..m : Down(m)[k] = m - k /\ m - k \in 0..(m - 1)
  BY DownOrder
<1>7. ASSUME NEW k \in 1..m, NEW x \in Buffer(n), Untouched(x, buf, n, Down(m), k - 1, 2)
      PROVE  f[Down(m)[k]][x] = val[Down(m)[k]]
  <2>3. x[(m - k) + 1] = buf[(m - k) + 1]
    BY <1>7, BehindIsUntouched
  <2> QED
    BY <2>3, <1>4, <1>5, <1>6
<1>8. Stores(buf, n, m, Down(m), 2, l, f, val)
  <2>1. 2 \in Width /\ m * 2 <= n
    BY <1>1 DEF Width
  <2> QED
    BY <2>1, <1>3, <1>7, DownOrder, LoopStores
<1>9. PICK r \in [0..m -> Buffer(n)] : Loop(r, buf, m, Down(m), 2, l, f) /\ Stored(r[m], m, 2, l, val)
  BY <1>8 DEF Stores
<1>10. \A k \in 1..m : r[k] = Store(r[k - 1], Down(m)[k], 2, ALAWTable(r[k - 1][Down(m)[k] + 1]), l)
  <2>1. \A k \in 1..m : r[k - 1] \in Buffer(n) /\ Down(m)[k] \in 0..(m - 1)
    BY <1>6
  <2> QED
    BY <1>4, <1>9, <2>1 DEF Loop
<1>11. loop = [k \in 0..m |-> IF k = 0 THEN buf
               ELSE LET b == loop[k - 1] IN Store(b, Down(m)[k], 2, ALAWTable(b[Down(m)[k] + 1]), l)]
  <2>1. r = [k \in 0..m |-> IF k = 0 THEN buf
             ELSE LET b == r[k - 1] IN Store(b, Down(m)[k], 2, ALAWTable(b[Down(m)[k] + 1]), l)]
    BY <1>9, <1>10 DEF Loop
  <2>2. \E u : u = [k \in 0..Len(Down(m)) |-> IF k = 0 THEN buf
             ELSE LET b == u[k - 1] IN Store(b, Down(m)[k], 2, ALAWTable(b[Down(m)[k] + 1]), l)]
    BY <2>1, DownOrder
  <2> QED
    BY <2>2, DownOrder, Zenon
<1>12. alaw_to_s16(buf, m, l) = loop[m]
  BY DownOrder, Samples DEF alaw_to_s16, Each
<1> HIDE DEF loop
<1>13. loop[0] = buf
  BY <1>11
<1>14. \A k \in 1..m : loop[k] = Store(loop[k - 1], Down(m)[k], 2, ALAWTable(loop[k - 1][Down(m)[k] + 1]), l)
  BY <1>11
<1>15. r[m] = loop[m]
  <2>1. r[0] = loop[0]
    BY <1>9, <1>13 DEF Loop
  <2>2. \A k \in 1..m : r[k - 1] = loop[k - 1] => r[k] = loop[k]
    BY <1>10, <1>14, Zenon
  <2> QED
    BY <2>1, <2>2, SameEnd
<1> QED
  BY <1>9, <1>12, <1>15 DEF val

\* A byte of mu-law becomes 16 bits.
LEMMA MulawStores ==
  ASSUME NEW n \in Nat, NEW buf \in Buffer(n), NEW m \in Nat, m * 2 <= n,
         NEW l
  PROVE  /\ mulaw_to_s16(buf, m, l) \in Buffer(n)
         /\ Stored(mulaw_to_s16(buf, m, l), m, 2, l, [i \in 0..(m - 1) |-> MULAWTable(buf[i + 1])])
<1> DEFINE f    == [i \in 0..(m - 1) |-> [x \in Buffer(n) |-> MULAWTable(x[i + 1])]]
           val  == [i \in 0..(m - 1) |-> MULAWTable(buf[i + 1])]
           loop == CHOOSE u : u = [k \in 0..Len(Down(m)) |->
                     IF k = 0 THEN buf
                     ELSE LET b == u[k - 1] IN Store(b, Down(m)[k], 2, MULAWTable(b[Down(m)[k] + 1]), l)]
<1>1. m * 2 <= n /\ \A i \in 0..(m - 1) : i + 1 \in 1..n
  OBVIOUS
<1>2. \A x \in Buffer(n), i \in 0..(m - 1) : MULAWTable(x[i + 1]) \in Int
  <2>1. \A x \in Buffer(n), i \in 0..(m - 1) : x[i + 1] \in Byte
    BY <1>1 DEF Buffer
  <2> QED
    BY <2>1, Types DEF Width
<1>3. f \in [0..(m - 1) -> [Buffer(n) -> Int]] /\ val \in [0..(m - 1) -> Int]
  BY <1>2
<1>4. \A x \in Buffer(n), i \in 0..(m - 1) : f[i][x] = MULAWTable(x[i + 1])
  OBVIOUS
<1>5. \A i \in 0..(m - 1) : val[i] = MULAWTable(buf[i + 1])
  OBVIOUS
<1> HIDE DEF f, val
<1>6. \A k \in 1..m : Down(m)[k] = m - k /\ m - k \in 0..(m - 1)
  BY DownOrder
<1>7. ASSUME NEW k \in 1..m, NEW x \in Buffer(n), Untouched(x, buf, n, Down(m), k - 1, 2)
      PROVE  f[Down(m)[k]][x] = val[Down(m)[k]]
  <2>3. x[(m - k) + 1] = buf[(m - k) + 1]
    BY <1>7, BehindIsUntouched
  <2> QED
    BY <2>3, <1>4, <1>5, <1>6
<1>8. Stores(buf, n, m, Down(m), 2, l, f, val)
  <2>1. 2 \in Width /\ m * 2 <= n
    BY <1>1 DEF Width
  <2> QED
    BY <2>1, <1>3, <1>7, DownOrder, LoopStores
<1>9. PICK r \in [0..m -> Buffer(n)] : Loop(r, buf, m, Down(m), 2, l, f) /\ Stored(r[m], m, 2, l, val)
  BY <1>8 DEF Stores
<1>10. \A k \in 1..m : r[k] = Store(r[k - 1], Down(m)[k], 2, MULAWTable(r[k - 1][Down(m)[k] + 1]), l)
  <2>1. \A k \in 1..m : r[k - 1] \in Buffer(n) /\ Down(m)[k] \in 0..(m - 1)
    BY <1>6
  <2> QED
    BY <1>4, <1>9, <2>1 DEF Loop
<1>11. loop = [k \in 0..m |-> IF k = 0 THEN buf
               ELSE LET b == loop[k - 1] IN Store(b, Down(m)[k], 2, MULAWTable(b[Down(m)[k] + 1]), l)]
  <2>1. r = [k \in 0..m |-> IF k = 0 THEN buf
             ELSE LET b == r[k - 1] IN Store(b, Down(m)[k], 2, MULAWTable(b[Down(m)[k] + 1]), l)]
    BY <1>9, <1>10 DEF Loop
  <2>2. \E u : u = [k \in 0..Len(Down(m)) |-> IF k = 0 THEN buf
             ELSE LET b == u[k - 1] IN Store(b, Down(m)[k], 2, MULAWTable(b[Down(m)[k] + 1]), l)]
    BY <2>1, DownOrder
  <2> QED
    BY <2>2, DownOrder, Zenon
<1>12. mulaw_to_s16(buf, m, l) = loop[m]
  BY DownOrder, Samples DEF mulaw_to_s16, Each
<1> HIDE DEF loop
<1>13. loop[0] = buf
  BY <1>11
<1>14. \A k \in 1..m : loop[k] = Store(loop[k - 1], Down(m)[k], 2, MULAWTable(loop[k - 1][Down(m)[k] + 1]), l)
  BY <1>11
<1>15. r[m] = loop[m]
  <2>1. r[0] = loop[0]
    BY <1>9, <1>13 DEF Loop
  <2>2. \A k \in 1..m : r[k - 1] = loop[k - 1] => r[k] = loop[k]
    BY <1>10, <1>14, Zenon
  <2> QED
    BY <2>1, <2>2, SameEnd
<1> QED
  BY <1>9, <1>12, <1>15 DEF val

\* 8 bits become 16.
LEMMA WidenStores ==
  ASSUME NEW n \in Nat, NEW buf \in Buffer(n), NEW m \in Nat, m * 2 <= n,
         NEW l
  PROVE  /\ s8_to_s16(buf, m, l) \in Buffer(n)
         /\ Stored(s8_to_s16(buf, m, l), m, 2, l, [i \in 0..(m - 1) |-> Signed(buf[i + 1], 1) * Base])
<1> DEFINE f    == [i \in 0..(m - 1) |-> [x \in Buffer(n) |-> Signed(x[i + 1], 1) * Base]]
           val  == [i \in 0..(m - 1) |-> Signed(buf[i + 1], 1) * Base]
           loop == CHOOSE u : u = [k \in 0..Len(Down(m)) |->
                     IF k = 0 THEN buf
                     ELSE LET b == u[k - 1] IN Store(b, Down(m)[k], 2, Signed(b[Down(m)[k] + 1], 1) * Base, l)]
<1>1. m * 2 <= n /\ \A i \in 0..(m - 1) : i + 1 \in 1..n
  OBVIOUS
<1>2. \A x \in Buffer(n), i \in 0..(m - 1) : Signed(x[i + 1], 1) * Base \in Int
  <2>1. \A x \in Buffer(n), i \in 0..(m - 1) : x[i + 1] \in Byte
    BY <1>1 DEF Buffer
  <2> QED
    BY <2>1, Types DEF Width
<1>3. f \in [0..(m - 1) -> [Buffer(n) -> Int]] /\ val \in [0..(m - 1) -> Int]
  BY <1>2
<1>4. \A x \in Buffer(n), i \in 0..(m - 1) : f[i][x] = Signed(x[i + 1], 1) * Base
  OBVIOUS
<1>5. \A i \in 0..(m - 1) : val[i] = Signed(buf[i + 1], 1) * Base
  OBVIOUS
<1> HIDE DEF f, val
<1>6. \A k \in 1..m : Down(m)[k] = m - k /\ m - k \in 0..(m - 1)
  BY DownOrder
<1>7. ASSUME NEW k \in 1..m, NEW x \in Buffer(n), Untouched(x, buf, n, Down(m), k - 1, 2)
      PROVE  f[Down(m)[k]][x] = val[Down(m)[k]]
  <2>3. x[(m - k) + 1] = buf[(m - k) + 1]
    BY <1>7, BehindIsUntouched
  <2> QED
    BY <2>3, <1>4, <1>5, <1>6
<1>8. Stores(buf, n, m, Down(m), 2, l, f, val)
  <2>1. 2 \in Width /\ m * 2 <= n
    BY <1>1 DEF Width
  <2> QED
    BY <2>1, <1>3, <1>7, DownOrder, LoopStores
<1>9. PICK r \in [0..m -> Buffer(n)] : Loop(r, buf, m, Down(m), 2, l, f) /\ Stored(r[m], m, 2, l, val)
  BY <1>8 DEF Stores
<1>10. \A k \in 1..m : r[k] = Store(r[k - 1], Down(m)[k], 2, Signed(r[k - 1][Down(m)[k] + 1], 1) * Base, l)
  <2>1. \A k \in 1..m : r[k - 1] \in Buffer(n) /\ Down(m)[k] \in 0..(m - 1)
    BY <1>6
  <2> QED
    BY <1>4, <1>9, <2>1 DEF Loop
<1>11. loop = [k \in 0..m |-> IF k = 0 THEN buf
               ELSE LET b == loop[k - 1] IN Store(b, Down(m)[k], 2, Signed(b[Down(m)[k] + 1], 1) * Base, l)]
  <2>1. r = [k \in 0..m |-> IF k = 0 THEN buf
             ELSE LET b == r[k - 1] IN Store(b, Down(m)[k], 2, Signed(b[Down(m)[k] + 1], 1) * Base, l)]
    BY <1>9, <1>10 DEF Loop
  <2>2. \E u : u = [k \in 0..Len(Down(m)) |-> IF k = 0 THEN buf
             ELSE LET b == u[k - 1] IN Store(b, Down(m)[k], 2, Signed(b[Down(m)[k] + 1], 1) * Base, l)]
    BY <2>1, DownOrder
  <2> QED
    BY <2>2, DownOrder, Zenon
<1>12. s8_to_s16(buf, m, l) = loop[m]
  BY DownOrder, Samples DEF s8_to_s16, Each
<1> HIDE DEF loop
<1>13. loop[0] = buf
  BY <1>11
<1>14. \A k \in 1..m : loop[k] = Store(loop[k - 1], Down(m)[k], 2, Signed(loop[k - 1][Down(m)[k] + 1], 1) * Base, l)
  BY <1>11
<1>15. r[m] = loop[m]
  <2>1. r[0] = loop[0]
    BY <1>9, <1>13 DEF Loop
  <2>2. \A k \in 1..m : r[k - 1] = loop[k - 1] => r[k] = loop[k]
    BY <1>10, <1>14, Zenon
  <2> QED
    BY <2>1, <2>2, SameEnd
<1> QED
  BY <1>9, <1>12, <1>15 DEF val

\* The buffer that audio_converter works in.
Work(buf) == buf \o [i \in 1..Len(buf) |-> 0]

\* Its steps, for the formats that are not compressed.
InHostOrder(b, n, w, fmt, l) == When(w > 1 /\ l = (fmt \in BigEndian), swap(b, n, w, l), b)
WithSign(b, n, w, op, l)     == When(op \cap {"S_TO_U", "U_TO_S"} # {}, flip_sign(b, n, w, l), b)
Widened(b, n, op, l)         == When("S8_TO_S16" \in op, s8_to_s16(b, n, l), b)
Narrowed(b, n, op, l)        == When("S32_TO_S16" \in op, s32_to_s16(b, n, l), b)
Resized(n, op)                  == CASE "S8_TO_S16" \in op -> 2 * n [] "S32_TO_S16" \in op -> n \div 2 [] OTHER -> n
Back(b, n, w, fmt, op, l) ==
  When(w > 1 /\ (w > 1 /\ l = (fmt \in BigEndian)) # ("SWAP_ENDIAN" \in op), swap(b, n, w, l), b)

\* What audio_converter is made of.
IsMadeOf(buf, format, op, little, n, w) ==
  /\ op \cap {"ALAW_TO_S16", "MULAW_TO_S16"} = {} =>
       LET b3 == InHostOrder(Work(buf), n, w, format, little)
           b4 == WithSign(b3, n, w, op, little)
           b5 == Widened(b4, n, op, little)
           b6 == Narrowed(b5, n, op, little)
       IN  audio_converter(buf, format, op, little)
             = SubSeq(Back(b6, Resized(n, op), w, format, op, little), 1, Resized(n, op))
  /\ op = {"ALAW_TO_S16"} /\ w = 1 =>
       audio_converter(buf, format, op, little) = SubSeq(alaw_to_s16(Work(buf), n, little), 1, 2 * n)
  /\ op = {"MULAW_TO_S16"} /\ w = 1 =>
       audio_converter(buf, format, op, little) = SubSeq(mulaw_to_s16(Work(buf), n, little), 1, 2 * n)

\* The steps of audio_converter, one after the other.
LEMMA ConverterSteps ==
  ASSUME NEW buf, NEW format, NEW op, NEW little, NEW n, n = Len(buf), op # {},
         NEW w, w = rsnd_format_to_bytes(format)
  PROVE  IsMadeOf(buf, format, op, little, n, w)
<1> DEFINE v       == rsnd_format_to_bytes(format)
           fmt     == IF op \cap {"ALAW_TO_S16", "MULAW_TO_S16"} # {} THEN S16(little) ELSE format
           n1      == IF op \cap {"ALAW_TO_S16", "MULAW_TO_S16"} # {} THEN 2 * Len(buf) ELSE Len(buf)
           c0      == buf \o [i \in 1..Len(buf) |-> 0]
           c1      == When("ALAW_TO_S16" \in op, alaw_to_s16(c0, Len(buf), little), c0)
           c2      == When("MULAW_TO_S16" \in op, mulaw_to_s16(c1, Len(buf), little), c1)
           swapped == v > 1 /\ little = (fmt \in BigEndian)
           c3      == When(swapped, swap(c2, n1, v, little), c2)
           c4      == When(op \cap {"S_TO_U", "U_TO_S"} # {}, flip_sign(c3, n1, v, little), c3)
           c5      == When("S8_TO_S16" \in op, s8_to_s16(c4, n1, little), c4)
           c6      == When("S32_TO_S16" \in op, s32_to_s16(c5, n1, little), c5)
           n2      == CASE "S8_TO_S16" \in op -> 2 * n1 [] "S32_TO_S16" \in op -> n1 \div 2 [] OTHER -> n1
           c7      == When(v > 1 /\ swapped # ("SWAP_ENDIAN" \in op), swap(c6, n2, v, little), c6)
<1>1. audio_converter(buf, format, op, little) = (IF op = {} THEN buf ELSE SubSeq(c7, 1, n2))
  BY Zenon DEF audio_converter
<1> HIDE DEF c7
<1>2. c7 = When(v > 1 /\ swapped # ("SWAP_ENDIAN" \in op), swap(c6, n2, v, little), c6)
  BY Zenon DEF c7
<1> HIDE DEF c6
<1>3. c6 = When("S32_TO_S16" \in op, s32_to_s16(c5, n1, little), c5)
  BY Zenon DEF c6
<1> HIDE DEF c5
<1>4. c5 = When("S8_TO_S16" \in op, s8_to_s16(c4, n1, little), c4)
  BY Zenon DEF c5
<1> HIDE DEF c4
<1>5. c4 = When(op \cap {"S_TO_U", "U_TO_S"} # {}, flip_sign(c3, n1, v, little), c3)
  BY Zenon DEF c4
<1> HIDE DEF c3
<1>6. c3 = When(swapped, swap(c2, n1, v, little), c2)
  BY Zenon DEF c3
<1> HIDE DEF c2
<1>7. c2 = When("MULAW_TO_S16" \in op, mulaw_to_s16(c1, Len(buf), little), c1)
  BY Zenon DEF c2
<1> HIDE DEF c1
<1>8. c1 = When("ALAW_TO_S16" \in op, alaw_to_s16(c0, Len(buf), little), c0)
  BY Zenon DEF c1
<1>9. c0 = Work(buf) /\ v = w
  BY DEF Work
<1> HIDE DEF c0, v
<1> DEFINE b3 == InHostOrder(Work(buf), n, w, format, little)
           b4 == WithSign(b3, n, w, op, little)
           b5 == Widened(b4, n, op, little)
           b6 == Narrowed(b5, n, op, little)
<1> HIDE DEF b3, b4, b5, b6
<1>10. ASSUME op \cap {"ALAW_TO_S16", "MULAW_TO_S16"} = {}
       PROVE  audio_converter(buf, format, op, little)
                = SubSeq(Back(b6, Resized(n, op), w, format, op, little), 1, Resized(n, op))
  <2>1. fmt = format /\ n1 = n /\ "ALAW_TO_S16" \notin op /\ "MULAW_TO_S16" \notin op
    BY <1>10
  <2>2. c2 = Work(buf)
    BY <2>1, <1>7, <1>8, <1>9, Zenon DEF When
  <2>3. c3 = b3
    BY <2>1, <2>2, <1>6, <1>9, Zenon DEF InHostOrder, b3
  <2>4. c4 = b4
    BY <2>1, <2>3, <1>5, <1>9, Zenon DEF WithSign, b4
  <2>5. c5 = b5
    BY <2>1, <2>4, <1>4, Zenon DEF Widened, b5
  <2>6. c6 = b6
    BY <2>1, <2>5, <1>3, Zenon DEF Narrowed, b6
  <2>7. n2 = Resized(n, op)
    BY <2>1 DEF Resized
  <2>8. c7 = Back(b6, Resized(n, op), w, format, op, little)
    BY <2>1, <2>6, <2>7, <1>2, <1>9, Zenon DEF Back
  <2> HIDE DEF n2
  <2> QED
    BY <2>7, <2>8, <1>1, Zenon
<1>11. ASSUME op \in {{"ALAW_TO_S16"}, {"MULAW_TO_S16"}}, w = 1
       PROVE  audio_converter(buf, format, op, little) = SubSeq(c2, 1, 2 * n)
  <2>1. /\ n1 = 2 * n /\ ~(v > 1) /\ "S_TO_U" \notin op /\ "U_TO_S" \notin op
        /\ "S8_TO_S16" \notin op /\ "S32_TO_S16" \notin op
    BY <1>9, <1>11
  <2>2. op \cap {"S_TO_U", "U_TO_S"} = {}
    BY <2>1
  <2>3. c3 = c2
    BY <2>1, <1>6, Zenon DEF When
  <2>4. c4 = c3
    BY <2>2, <1>5, Zenon DEF When
  <2>5. c5 = c4 /\ c6 = c5
    BY <2>1, <1>3, <1>4, Zenon DEF When
  <2>6. c7 = c6
    BY <2>1, <1>2, Zenon DEF When
  <2>7. n2 = 2 * n
    BY <2>1
  <2> HIDE DEF n2
  <2> QED
    BY <2>3, <2>4, <2>5, <2>6, <2>7, <1>1, Zenon
<1>12. op = {"ALAW_TO_S16"} => c2 = alaw_to_s16(Work(buf), n, little)
  BY <1>7, <1>8, <1>9 DEF When
<1>13. op = {"MULAW_TO_S16"} => c2 = mulaw_to_s16(Work(buf), n, little)
  BY <1>7, <1>8, <1>9 DEF When
<1> QED
  BY <1>10, <1>11, <1>12, <1>13, Zenon DEF b3, b4, b5, b6, IsMadeOf

-----------------------------------------------------------------------------
(* Amplitudes *)

Half(w) == Base^w \div 2

\* What a signed number of w bytes may be.
InRange(v, w) == v \in Int /\ -Half(w) <= v /\ v < Half(w)

\* A signed number that fits is read as it was stored.
LEMMA SignedMod ==
  ASSUME NEW w \in Width, NEW v, InRange(v, w)
  PROVE  Signed(v % Base^w, w) = v
<1> DEFINE b == Base^w
           h == Half(w)
<1>1. b \in Nat /\ h \in Nat /\ 2 * h = b /\ v \in Int /\ -h <= v /\ v < h
  BY Halves DEF Halved, Half, InRange
<1>2. \A u : Signed(u, w) = (IF u >= h THEN u - b ELSE u)
  BY DEF Signed, Half
<1> HIDE DEF b, h
<1>3. CASE v >= 0
  <2>1. v % b = v
    BY <1>1, <1>3, ModSmall
  <2> QED
    BY <1>1, <1>2, <2>1 DEF b
<1>4. CASE v < 0
  <2>1. v + b \in 0..(b - 1) /\ (v + b) - b = v
    BY <1>1, <1>4
  <2>2. v % b = v + b
    BY <1>1, <2>1, ModSmall
  <2> QED
    BY <1>1, <1>2, <1>4, <2>2 DEF b
<1> QED
  BY <1>1, <1>3, <1>4

\* What is read as signed fits.
LEMMA SignedRange ==
  ASSUME NEW w \in Width, NEW u \in 0..(Base^w - 1)
  PROVE  InRange(Signed(u, w), w)
<1> DEFINE b == Base^w
           h == Half(w)
<1>1. b \in Nat /\ h \in Nat /\ 2 * h = b
  BY Halves DEF Halved, Half
<1>2. Signed(u, w) = (IF u >= h THEN u - b ELSE u) /\ u \in 0..(b - 1)
  BY DEF Signed, Half
<1> HIDE DEF b, h
<1> QED
  BY <1>1, <1>2 DEF InRange, h

\* Half the range more, the rest of the division by all of it.
LEMMA FlippedSign ==
  ASSUME NEW w \in Width, NEW u \in 0..(Base^w - 1)
  PROVE  /\ Signed((u + Half(w)) % Base^w, w) = u - Half(w)
         /\ ((u + Half(w)) % Base^w) - Half(w) = Signed(u, w)
<1> DEFINE b == Base^w
           h == Half(w)
<1>1. b \in Nat /\ h \in Nat /\ 2 * h = b
  BY Halves DEF Halved, Half
<1>2. u \in 0..(b - 1) /\ \A x : Signed(x, w) = (IF x >= h THEN x - b ELSE x)
  BY DEF Signed, Half
<1> HIDE DEF b, h
<1>3. CASE u < h
  <2>1. u + h \in 0..(b - 1)
    BY <1>1, <1>2, <1>3
  <2>2. (u + h) % b = u + h
    BY <1>1, <2>1, ModSmall
  <2>3. Signed((u + h) % b, w) = u - h /\ ((u + h) % b) - h = Signed(u, w)
    BY <1>1, <1>2, <1>3, <2>2
  <2> QED
    BY <2>3 DEF b, h
<1>4. CASE u >= h
  <2>1. u - h \in 0..(b - 1) /\ (u - h) + b = u + h
    BY <1>1, <1>2, <1>4
  <2>2. (u + h) % b = u - h
    BY <1>1, <2>1, ModSmall
  <2>3. Signed((u + h) % b, w) = u - h /\ ((u + h) % b) - h = Signed(u, w)
    BY <1>1, <1>2, <1>4, <2>1, <2>2
  <2> QED
    BY <2>3 DEF b, h
<1> QED
  BY <1>1, <1>2, <1>3, <1>4

\* The halves of the ranges, and how those of the widths relate.
LEMMA HalfFacts ==
  /\ \A w \in Width : Half(w) \in Nat /\ 2 * Half(w) = Base^w
  /\ Half(2) = Half(1) * Base /\ Half(4) = Base^2 * Half(2) /\ 2 * Half(1) = Base
<1>1. ASSUME Base = 4 PROVE Half(2) = Half(1) * Base /\ Half(4) = Base^2 * Half(2) /\ 2 * Half(1) = Base
  BY <1>1 DEF Half
<1>2. ASSUME Base = 16 PROVE Half(2) = Half(1) * Base /\ Half(4) = Base^2 * Half(2) /\ 2 * Half(1) = Base
  BY <1>2 DEF Half
<1>3. ASSUME Base = 256 PROVE Half(2) = Half(1) * Base /\ Half(4) = Base^2 * Half(2) /\ 2 * Half(1) = Base
  BY <1>3 DEF Half
<1>4. \A w \in Width : Half(w) \in Nat /\ 2 * Half(w) = Base^w
  BY Halves DEF Halved, Half
<1> QED
  BY <1>1, <1>2, <1>3, <1>4, BaseAssumption

\* Bounds pass through a division, rounded down.
LEMMA DivBounds ==
  ASSUME NEW a \in Int, NEW b \in Nat, b > 0, NEW h \in Nat, -(b * h) <= a, a < b * h
  PROVE  a \div b \in Int /\ -h <= a \div b /\ a \div b < h
<1> DEFINE q == a \div b
<1>1. q \in Int /\ b * q <= a /\ a < b * q + b /\ b * q \in Int /\ b * h \in Nat
  BY DivMod
<1> HIDE DEF q
<1>2. ASSUME q >= h PROVE FALSE
  <2>1. PICK d \in Nat : q = h + d
    <3>1. q - h \in Nat /\ q = h + (q - h)
      BY <1>1, <1>2
    <3> QED
      BY <3>1
  <2>2. b * q = b * h + b * d /\ b * d \in Nat
    BY <2>1
  <2> QED
    BY <1>1, <2>2
<1>3. ASSUME q < -h PROVE FALSE
  <2>1. PICK d \in Nat : q = (-h) - 1 - d
    <3>1. (-h) - 1 - q \in Nat /\ q = (-h) - 1 - ((-h) - 1 - q)
      BY <1>1, <1>3
    <3> QED
      BY <3>1
  <2>2. b * q = (-(b * h)) - b - b * d /\ b * d \in Nat
    BY <2>1
  <2> QED
    BY <1>1, <2>2
<1> QED
  BY <1>1, <1>2, <1>3 DEF q

\* The upper half of 32 bits fits into 16.
LEMMA NarrowRange ==
  ASSUME NEW v, InRange(v, 4)
  PROVE  InRange(v \div Base^2, 2)
<1> DEFINE b == Base^2
           h == Half(2)
           q == v \div b
<1>1. b \in Nat /\ b > 0 /\ h \in Nat /\ Half(4) = b * h
  BY Halves, HalfFacts DEF Halved, Width
<1> HIDE DEF b, h
<1>2. v \in Int /\ -(b * h) <= v /\ v < b * h
  BY <1>1 DEF InRange
<1>3. q \in Int /\ -h <= q /\ q < h
  BY <1>1, <1>2, DivBounds
<1> QED
  BY <1>3 DEF InRange, h, b

\* And 8 bits, shifted, into 16.
LEMMA WidenRange ==
  ASSUME NEW v, InRange(v, 1)
  PROVE  InRange(v * Base, 2)
<1> DEFINE h == Half(1)
           b == Base
<1>1. b \in Nat /\ b > 0 /\ h \in Nat /\ Half(2) = h * b /\ v \in Int /\ -h <= v /\ v < h
  BY Powers, HalfFacts DEF BasePowers, Width, InRange
<1> HIDE DEF h, b
<1>2. PICK d \in Nat : v = d - h
  <2>1. v + h \in Nat /\ v = (v + h) - h
    BY <1>1
  <2> QED
    BY <2>1
<1>3. PICK e \in Nat : v = h - 1 - e
  <2>1. h - 1 - v \in Nat /\ v = h - 1 - (h - 1 - v)
    BY <1>1
  <2> QED
    BY <2>1
<1>4. (d - h) * b = d * b - h * b /\ (h - 1 - e) * b = h * b - b - e * b
      /\ d * b \in Nat /\ e * b \in Nat /\ h * b \in Nat
  BY <1>1
<1>5. v * b \in Int /\ v * b >= -(h * b) /\ v * b < h * b
  BY <1>1, <1>2, <1>3, <1>4
<1> QED
  BY <1>1, <1>5 DEF InRange, b

\* So does what the A-law and mu-law tables hold.
LEMMA LawRanges ==
  ASSUME NEW b \in Byte
  PROVE  InRange(ALAWTable(b), 2) /\ InRange(MULAWTable(b), 2)
<1> DEFINE e  == 3 * b * b + b
           bb == Base * Base
           h  == Half(2)
           m  == Base - 1
<1>1. bb \in Nat /\ bb > 0 /\ h \in Nat /\ 2 * h = bb /\ h = bb \div 2
  BY Powers, HalfFacts, Halves DEF BasePowers, Halved, Half, Width
<1>2. b \in 0..m /\ m \in Nat /\ Base = m + 1
  BY Powers DEF BasePowers, Byte
<1>3. e \in Int
  BY <1>2
<1>4. bb = m * m + 2 * m + 1 /\ m * m \in Nat
  BY <1>2
<1>5. ALAWTable(b) = (e % bb) - h /\ MULAWTable(b) = h - 1 - (b * m)
  BY <1>1 DEF ALAWTable, MULAWTable
<1> HIDE DEF e, bb, h, m
<1>6. (e % bb) \in 0..(bb - 1)
  BY <1>1, <1>3, DivMod
<1>7. b * m \in Nat /\ b * m <= m * m
  <2>1. PICK d \in Nat : m = b + d
    <3>1. m - b \in Nat /\ m = b + (m - b)
      BY <1>2
    <3> QED
      BY <3>1
  <2>2. m * m = b * m + d * m /\ d * m \in Nat /\ b * m \in Nat
    BY <1>2, <2>1
  <2> QED
    BY <2>2
<1>8. InRange(ALAWTable(b), 2)
  BY <1>1, <1>5, <1>6 DEF InRange, h
<1>9. InRange(MULAWTable(b), 2)
  BY <1>1, <1>2, <1>4, <1>5, <1>7 DEF InRange, h
<1> QED
  BY <1>8, <1>9

\* The formats that are not compressed.
Plain == Formats \ {"ALAW", "MULAW"}

\* The width of a sample is that of its format.
LEMMA FormatWidth ==
  ASSUME NEW fmt \in Formats
  PROVE  /\ rsnd_format_to_bytes(fmt) \in Width
         /\ rsnd_format_to_bytes(fmt) = 1 <=> fmt \in Formats8
         /\ rsnd_format_to_bytes(fmt) = 2 <=> fmt \in Formats16
         /\ rsnd_format_to_bytes(fmt) = 4 <=> fmt \in Formats32
<1>1. CASE fmt \in Formats8
  BY <1>1 DEF rsnd_format_to_bytes, Width, Formats8, Formats16, Formats32
<1>2. CASE fmt \in Formats16
  BY <1>2 DEF rsnd_format_to_bytes, Width, Formats8, Formats16, Formats32
<1>3. CASE fmt \in Formats32
  BY <1>3 DEF rsnd_format_to_bytes, Width, Formats8, Formats16, Formats32
<1> QED
  BY <1>1, <1>2, <1>3 DEF Formats

\* A sample of one byte is that byte, in either order.
LEMMA ByteLoad ==
  ASSUME NEW n \in Nat, NEW buf \in Buffer(n), NEW i \in 0..(n - 1), NEW l
  PROVE  Load(buf, i, 1, l) = buf[i + 1] /\ buf[i + 1] \in Byte
<1> DEFINE w == 1
           c == Cell(buf, i, w)
<1>1. w \in Width /\ i \in Nat /\ i * w + w <= n /\ w = 1
  BY DEF Width
<1> HIDE DEF w
<1>2. c \in [1..w -> Byte] /\ Load(buf, i, w, l) = Number(InOrder(c, l))
  <2>1. c \in [1..w -> Byte]
    BY <1>1, CellIs
  <2> HIDE DEF c
  <2> QED
    BY <1>1, <2>1, LoadIs DEF c
<1>3. c[1] = buf[i + 1]
  BY <1>1 DEF Cell
<1> HIDE DEF c
<1>4. InOrder(c, l)[1] = c[1] /\ InOrder(c, l) \in [1..w -> Byte]
  <2>1. Len(c) = 1
    BY <1>1, <1>2
  <2>2. Reverse(c)[1] = c[1]
    BY <2>1, <1>2 DEF Reverse
  <2> QED
    BY <2>2, <1>1, <1>2, InOrderFacts DEF InOrder
<1>5. Number(InOrder(c, l)) = InOrder(c, l)[1]
  BY <1>1, <1>4, NumberOf
<1>6. i + 1 \in 1..n
  OBVIOUS
<1> QED
  BY <1>1, <1>2, <1>3, <1>4, <1>5, <1>6 DEF Buffer

\* What a number of w bytes says in a format, and the scale of 16 bits.
Level(fmt, u, w) == IF fmt \in Unsigned THEN u - Half(w) ELSE Signed(u, w)
Scale(w) == IF w = 1 THEN Base ELSE 1

\* The amplitude of a sample, by the number loaded in the format's own order.
LEMMA AmplitudeOf ==
  ASSUME NEW n \in Nat, NEW buf \in Buffer(n), NEW fmt \in Plain, NEW i \in Nat,
         NEW w \in Width, i * w + w <= n
  PROVE  Amplitude(fmt, Cell(buf, i, w)) = Level(fmt, Load(buf, i, w, fmt \notin BigEndian), w) * Scale(w)
<1> DEFINE c == Cell(buf, i, w)
           l == fmt \notin BigEndian
<1>1. c \in [1..w -> Byte]
  BY CellIs
<1>2. Load(buf, i, w, l) = Number(InOrder(c, l))
  BY LoadIs
<1>3. fmt # "ALAW" /\ fmt # "MULAW"
  BY DEF Plain
<1> HIDE DEF c
<1>4. Len(c) = w
  BY <1>1 DEF Width
<1>5. Amplitude(fmt, c) = Level(fmt, Number(InOrder(c, l)), w) * Scale(w)
  BY <1>3, <1>4, Zenon DEF Amplitude, Level, Scale, Half
<1> QED
  BY <1>2, <1>5 DEF c

\* The amplitude of a compressed sample is what the table says.
LEMMA LawAmplitude ==
  ASSUME NEW n \in Nat, NEW buf \in Buffer(n), NEW i \in 0..(n - 1)
  PROVE  /\ Amplitude("ALAW", Cell(buf, i, 1)) = ALAWTable(buf[i + 1])
         /\ Amplitude("MULAW", Cell(buf, i, 1)) = MULAWTable(buf[i + 1])
<1> DEFINE c == Cell(buf, i, 1)
<1>1. 1 \in Width /\ i \in Nat /\ i * 1 + 1 <= n
  BY DEF Width
<1>2. \A l : Number(InOrder(c, l)) = buf[i + 1]
  BY <1>1, LoadIs, ByteLoad
<1> HIDE DEF c
<1>3. Amplitude("ALAW", c) = ALAWTable(buf[i + 1]) /\ Amplitude("MULAW", c) = MULAWTable(buf[i + 1])
  BY <1>2 DEF Amplitude
<1> QED
  BY <1>3 DEF c

-----------------------------------------------------------------------------
(* The steps of audio_converter *)

Joined(S, s, t, u) ==
  /\ u \in Seq(S) /\ Len(u) = Len(s) + Len(t)
  /\ \A i \in 1..Len(s) : u[i] = s[i]
  /\ \A i \in 1..Len(t) : u[Len(s) + i] = t[i]

\* Concatenation, element by element.
LEMMA JoinIs ==
  ASSUME NEW S, NEW s \in Seq(S), NEW t \in Seq(S)
  PROVE  Joined(S, s, t, s \o t)
BY DEF Joined

\* The working buffer begins with the samples to convert.
LEMMA WorkIs ==
  ASSUME NEW n \in Nat, NEW buf \in Buffer(n)
  PROVE  /\ Work(buf) \in Buffer(2 * n) /\ Len(buf) = n
         /\ \A w \in Width, i \in Nat : i * w + w <= n => Cell(Work(buf), i, w) = Cell(buf, i, w)
<1>1. Len(buf) = n /\ buf \in Seq(Byte)
  BY DEF Buffer
<1> DEFINE z == [i \in 1..n |-> 0]
<1>2. z \in Seq(Byte) /\ Len(z) = n
  <2>1. 0 \in Byte
    BY Powers DEF Byte, BasePowers
  <2> QED
    BY <2>1
<1>3. Work(buf) = buf \o z
  BY <1>1 DEF Work
<1> HIDE DEF z
<1>4. Work(buf) \in Seq(Byte) /\ Len(Work(buf)) = 2 * n /\ \A p \in 1..n : Work(buf)[p] = buf[p]
  <2>1. Joined(Byte, buf, z, Work(buf))
    BY <1>1, <1>2, <1>3, JoinIs
  <2> QED
    BY <2>1, <1>1, <1>2 DEF Joined
<1>5. Work(buf) \in Buffer(2 * n)
  BY <1>4 DEF Buffer
<1>6. ASSUME NEW w \in Width, NEW i \in Nat, i * w + w <= n
      PROVE  Cell(Work(buf), i, w) = Cell(buf, i, w)
  <2> DEFINE a == i * w
  <2>1. a \in Nat /\ w \in Nat /\ a + w <= n
    BY <1>6 DEF Width
  <2>2. \A x : Cell(x, i, w) = [k \in 1..w |-> x[a + k]]
    BY DEF Cell
  <2> HIDE DEF a
  <2>3. \A k \in 1..w : Work(buf)[a + k] = buf[a + k]
    BY <1>4, <2>1
  <2> QED
    BY <2>2, <2>3
<1> QED
  BY <1>1, <1>5, <1>6

\* The samples of a prefix are those of the whole.
LEMMA CutIs ==
  ASSUME NEW n \in Nat, NEW x \in Buffer(n), NEW s \in 0..n
  PROVE  /\ SubSeq(x, 1, s) \in Buffer(s)
         /\ \A w \in Width, i \in Nat : i * w + w <= s => Cell(SubSeq(x, 1, s), i, w) = Cell(x, i, w)
<1>1. Len(x) = n /\ x \in Seq(Byte)
  BY DEF Buffer
<1> DEFINE y == SubSeq(x, 1, s)
<1>2. y \in Seq(Byte) /\ Len(y) = s /\ \A p \in 1..s : y[p] = x[p]
  BY <1>1
<1> HIDE DEF y
<1>3. y \in Buffer(s)
  BY <1>2 DEF Buffer
<1>4. ASSUME NEW w \in Width, NEW i \in Nat, i * w + w <= s
      PROVE  Cell(y, i, w) = Cell(x, i, w)
  <2> DEFINE a == i * w
  <2>1. a \in Nat /\ w \in Nat /\ a + w <= s
    BY <1>4 DEF Width
  <2>2. \A z : Cell(z, i, w) = [k \in 1..w |-> z[a + k]]
    BY DEF Cell
  <2> HIDE DEF a
  <2>3. \A k \in 1..w : y[a + k] = x[a + k]
    BY <1>2, <2>1
  <2> QED
    BY <2>2, <2>3
<1> QED
  BY <1>3, <1>4 DEF y

\* c is the beginning of x, sample by sample.
Begins(c, x, m, w, l) ==
  c \in Buffer(m * w) /\ \A i \in 0..(m - 1) : Load(c, i, w, l) = Load(x, i, w, l)

\* And are loaded alike.
LEMMA CutLoads ==
  ASSUME NEW n \in Nat, NEW x \in Buffer(n), NEW m \in Nat, NEW w \in Width, m * w <= n, NEW l,
         NEW c, c = SubSeq(x, 1, m * w)
  PROVE  Begins(c, x, m, w, l)
<1> DEFINE s == m * w
<1>1. s \in 0..n /\ s \in Nat
  BY Samples
<1>0. c = SubSeq(x, 1, m * w)
  OBVIOUS
<1>2. \A i \in 0..(m - 1) : i \in Nat /\ i * w + w <= s /\ i * w + w <= n
  <2>1. s <= s
    BY <1>1
  <2> QED
    BY <1>1, <2>1, CellInside
<1> DEFINE y == SubSeq(x, 1, s)
<1>5. c = y
  BY <1>0
<1> HIDE DEF s
<1>6. y \in Buffer(s) /\ \A i \in 0..(m - 1) : Cell(y, i, w) = Cell(x, i, w)
  BY <1>1, <1>2, CutIs
<1> HIDE DEF y
<1>3. c \in Buffer(s) /\ \A i \in 0..(m - 1) : Cell(c, i, w) = Cell(x, i, w)
  BY <1>5, <1>6
<1>4. \A i \in 0..(m - 1) : Load(c, i, w, l) = Load(x, i, w, l)
  <2> SUFFICES ASSUME NEW i \in 0..(m - 1) PROVE Load(c, i, w, l) = Load(x, i, w, l)
    OBVIOUS
  <2>1. i \in Nat /\ i * w + w <= s /\ i * w + w <= n
    BY <1>2
  <2>2. Load(c, i, w, l) = Number(InOrder(Cell(c, i, w), l))
    BY <1>1, <1>3, <2>1, LoadIs
  <2>3. Load(x, i, w, l) = Number(InOrder(Cell(x, i, w), l))
    BY <2>1, LoadIs
  <2> QED
    BY <1>3, <2>2, <2>3
<1> QED
  BY <1>3, <1>4 DEF Begins, s

\* Samples are brought to the host's order.
LEMMA HostOrderIs ==
  ASSUME NEW n \in Nat, NEW b \in Buffer(n), NEW m \in Nat, NEW fmt \in Plain, NEW w \in Width, m * w <= n,
         w = rsnd_format_to_bytes(fmt), NEW l \in BOOLEAN
  PROVE  /\ InHostOrder(b, m * w, w, fmt, l) \in Buffer(n)
         /\ \A i \in 0..(m - 1) :
              Load(InHostOrder(b, m * w, w, fmt, l), i, w, l) = Load(b, i, w, fmt \notin BigEndian)
<1> DEFINE x == InHostOrder(b, m * w, w, fmt, l)
<1>1. \A i \in 0..(m - 1) : i \in Nat /\ i * w + w <= n
  BY CellInside
<1>2. CASE w > 1 /\ l = (fmt \in BigEndian)
  <2>1. x = swap(b, m * w, w, l)
    BY <1>2, Zenon DEF InHostOrder, When
  <2> DEFINE val == [i \in 0..(m - 1) |-> Load(b, i, w, ~l)]
  <2>2. \A i \in 0..(m - 1) : val[i] = Load(b, i, w, ~l) /\ val[i] \in 0..(Base^w - 1)
    BY <1>1, LoadIs
  <2>3. Base^w \in Nat
    BY Halves DEF Halved
  <2>4. val \in [0..(m - 1) -> Int]
    BY <2>2, <2>3
  <2> HIDE DEF val
  <2>5. x \in Buffer(n) /\ Stored(x, m, w, l, val)
    BY <2>1, SwapStores DEF val
  <2> HIDE DEF x
  <2>6. \A i \in 0..(m - 1) : Load(x, i, w, l) = val[i] % Base^w
    BY <2>4, <2>5, StoredLoads
  <2>7. \A i \in 0..(m - 1) : val[i] % Base^w = val[i]
    BY <2>2, <2>3, ModSmall
  <2>8. (~l) = (fmt \notin BigEndian)
    BY <1>2, Zenon
  <2>9. \A i \in 0..(m - 1) : Load(x, i, w, l) = Load(b, i, w, fmt \notin BigEndian)
    BY <2>2, <2>6, <2>7, <2>8, Zenon
  <2> QED
    BY <2>5, <2>9 DEF x
<1>3. CASE w > 1 /\ ~(l = (fmt \in BigEndian))
  <2>1. x = b
    BY <1>3, Zenon DEF InHostOrder, When
  <2>2. l = (fmt \notin BigEndian)
    BY <1>3
  <2> QED
    BY <2>1, <2>2, Zenon
<1>4. CASE ~(w > 1)
  <2>1. x = b
    BY <1>4, Zenon DEF InHostOrder, When
  <2>2. w = 1 /\ \A i \in 0..(m - 1) : i \in 0..(n - 1)
    BY <1>1, <1>4 DEF Width
  <2>3. \A i \in 0..(m - 1) : Load(b, i, w, l) = b[i + 1] /\ Load(b, i, w, fmt \notin BigEndian) = b[i + 1]
    BY <2>2, ByteLoad
  <2> QED
    BY <2>1, <2>3, Zenon
<1> QED
  BY <1>2, <1>3, <1>4, Zenon

\* Half the range is added.
LEMMA FlipLoads ==
  ASSUME NEW n \in Nat, NEW b \in Buffer(n), NEW m \in Nat, NEW w \in Width, m * w <= n, NEW l
  PROVE  /\ flip_sign(b, m * w, w, l) \in Buffer(n)
         /\ \A i \in 0..(m - 1) : Load(flip_sign(b, m * w, w, l), i, w, l) = (Load(b, i, w, l) + Half(w)) % Base^w
<1> DEFINE x   == flip_sign(b, m * w, w, l)
           val == [i \in 0..(m - 1) |-> Load(b, i, w, l) + (Base^w \div 2)]
<1>1. \A i \in 0..(m - 1) : val[i] = Load(b, i, w, l) + Half(w)
  BY DEF Half
<1>2. val \in [0..(m - 1) -> Int]
  <2>1. \A i \in 0..(m - 1) : i \in Nat /\ i * w + w <= n
    BY CellInside
  <2>2. \A i \in 0..(m - 1) : Load(b, i, w, l) \in 0..(Base^w - 1)
    BY <2>1, LoadIs
  <2>3. Base^w \in Nat /\ Base^w \div 2 \in Nat
    BY Halves DEF Halved
  <2> QED
    BY <2>2, <2>3
<1>3. x \in Buffer(n) /\ Stored(x, m, w, l, val)
  BY FlipStores
<1> HIDE DEF x, val
<1>4. \A i \in 0..(m - 1) : Load(x, i, w, l) = val[i] % Base^w
  BY <1>2, <1>3, StoredLoads
<1> QED
  BY <1>1, <1>3, <1>4, Zenon DEF x

\* Which operations converter_fmt_to_s16ne and converter_fmt_to_s32ne choose.
LEMMA Operations16 ==
  ASSUME NEW fmt \in Plain, NEW l \in BOOLEAN, NEW w, w = rsnd_format_to_bytes(fmt),
         NEW op, op = converter_fmt_to_s16ne(fmt, l)
  PROVE  /\ op \cap {"ALAW_TO_S16", "MULAW_TO_S16"} = {}
         /\ op \cap {"S_TO_U", "U_TO_S"} # {} <=> fmt \in Unsigned
         /\ "SWAP_ENDIAN" \in op <=> w > 1 /\ l = (fmt \in BigEndian)
         /\ "S8_TO_S16" \in op <=> w = 1
         /\ "S32_TO_S16" \in op <=> w = 4
         /\ op = {} => w = 2 /\ fmt \notin Unsigned
<1> DEFINE resized == CASE fmt \in Formats32 -> {"S32_TO_S16"}
                        [] fmt \in {"U8", "S8"} -> {"S8_TO_S16"}
                        [] fmt = "ALAW" -> {"ALAW_TO_S16"}
                        [] fmt = "MULAW" -> {"MULAW_TO_S16"}
                        [] OTHER -> {}
           signed  == IF fmt \in Unsigned THEN {"U_TO_S"} ELSE {}
           swapped == Swapped(fmt, l)
<1>1. op = swapped \cup signed \cup resized
  BY Zenon DEF converter_fmt_to_s16ne
<1>2. /\ w = 4 => resized = {"S32_TO_S16"}
      /\ w = 1 => resized = {"S8_TO_S16"}
      /\ w = 2 => resized = {}
      /\ w \in {1, 2, 4}
  BY DEF Plain, Formats, Formats8, Formats16, Formats32, rsnd_format_to_bytes
<1>3. swapped = (IF w > 1 /\ l = (fmt \in BigEndian) THEN {"SWAP_ENDIAN"} ELSE {})
  BY Zenon DEF Swapped
<1> HIDE DEF resized, signed, swapped
<1>4. (w > 1 /\ l = (fmt \in BigEndian) => swapped = {"SWAP_ENDIAN"})
      /\ (~(w > 1 /\ l = (fmt \in BigEndian)) => swapped = {})
  BY <1>3, Zenon
<1>5. (fmt \in Unsigned => signed = {"U_TO_S"}) /\ (fmt \notin Unsigned => signed = {})
  BY DEF signed
<1>6. /\ op \cap {"ALAW_TO_S16", "MULAW_TO_S16"} = {}
      /\ "S8_TO_S16" \in op <=> w = 1
      /\ "S32_TO_S16" \in op <=> w = 4
  BY <1>1, <1>2, <1>4, <1>5
<1>7. op \cap {"S_TO_U", "U_TO_S"} # {} <=> fmt \in Unsigned
  BY <1>1, <1>2, <1>4, <1>5
<1>8. "SWAP_ENDIAN" \in op <=> "SWAP_ENDIAN" \in swapped
  BY <1>1, <1>2, <1>5
<1>9. "SWAP_ENDIAN" \in swapped <=> w > 1 /\ l = (fmt \in BigEndian)
  BY <1>4, Zenon
<1>10. op = {} => w = 2 /\ fmt \notin Unsigned
  BY <1>1, <1>2, <1>5
<1> QED
  BY <1>6, <1>7, <1>8, <1>9, <1>10, Zenon

\* The same of converter_fmt_to_s32ne.
LEMMA Operations32 ==
  ASSUME NEW fmt \in Plain, NEW l \in BOOLEAN, NEW w, w = rsnd_format_to_bytes(fmt),
         NEW op, op = converter_fmt_to_s32ne(fmt, l)
  PROVE  /\ op \cap {"ALAW_TO_S16", "MULAW_TO_S16"} = {}
         /\ op \cap {"S_TO_U", "U_TO_S"} # {} <=> fmt \in Unsigned
         /\ "SWAP_ENDIAN" \in op <=> w > 1 /\ l = (fmt \in BigEndian)
         /\ "S8_TO_S16" \notin op /\ "S32_TO_S16" \notin op
         /\ op = {} => fmt \notin Unsigned
<1> DEFINE signed  == IF fmt \in Unsigned THEN {"U_TO_S"} ELSE {}
           swapped == Swapped(fmt, l)
<1>1. op = swapped \cup signed
  BY Zenon DEF converter_fmt_to_s32ne
<1>3. swapped = (IF w > 1 /\ l = (fmt \in BigEndian) THEN {"SWAP_ENDIAN"} ELSE {})
  BY Zenon DEF Swapped
<1> HIDE DEF signed, swapped
<1>4. (w > 1 /\ l = (fmt \in BigEndian) => swapped = {"SWAP_ENDIAN"})
      /\ (~(w > 1 /\ l = (fmt \in BigEndian)) => swapped = {})
  BY <1>3, Zenon
<1>5. (fmt \in Unsigned => signed = {"U_TO_S"}) /\ (fmt \notin Unsigned => signed = {})
  BY DEF signed
<1>6. /\ op \cap {"ALAW_TO_S16", "MULAW_TO_S16"} = {}
      /\ "S8_TO_S16" \notin op /\ "S32_TO_S16" \notin op
  BY <1>1, <1>4, <1>5
<1>7. op \cap {"S_TO_U", "U_TO_S"} # {} <=> fmt \in Unsigned
  BY <1>1, <1>4, <1>5
<1>8. "SWAP_ENDIAN" \in op <=> "SWAP_ENDIAN" \in swapped
  BY <1>1, <1>5
<1>9. "SWAP_ENDIAN" \in swapped <=> w > 1 /\ l = (fmt \in BigEndian)
  BY <1>4, Zenon
<1>10. op = {} => fmt \notin Unsigned
  BY <1>1, <1>5
<1> QED
  BY <1>6, <1>7, <1>8, <1>9, <1>10, Zenon

\* The samples in the host's order, with a sign: the two steps that all
\* conversions of plain formats begin with.
LEMMA NativeSamples ==
  ASSUME NEW m \in Nat, NEW fmt \in Plain, NEW w, w = rsnd_format_to_bytes(fmt), NEW n, n = m * w,
         NEW buf \in Buffer(n), NEW l \in BOOLEAN, NEW op,
         op \cap {"S_TO_U", "U_TO_S"} # {} <=> fmt \in Unsigned,
         NEW x, x = WithSign(InHostOrder(Work(buf), n, w, fmt, l), n, w, op, l)
  PROVE  /\ x \in Buffer(2 * n) /\ n \in Nat /\ w \in Width
         /\ \A i \in 0..(m - 1) :
              /\ Load(x, i, w, l) \in 0..(Base^w - 1)
              /\ Signed(Load(x, i, w, l), w) = Level(fmt, Load(buf, i, w, fmt \notin BigEndian), w)
<1> DEFINE b == InHostOrder(Work(buf), n, w, fmt, l)
           e == fmt \notin BigEndian
           F == Work(buf)
<1>1. w \in Width /\ fmt \in Formats
  BY FormatWidth DEF Plain
<1>2. n \in Nat /\ m * w <= n /\ 2 * n \in Nat /\ m * w <= 2 * n
  BY <1>1, Samples
<1>3. F \in Buffer(2 * n) /\ \A i \in 0..(m - 1) : Cell(F, i, w) = Cell(buf, i, w)
  BY <1>1, <1>2, WorkIs, CellInside
<1>4. \A i \in 0..(m - 1) : i \in Nat /\ i * w + w <= n /\ i * w + w <= 2 * n
  <2>1. \A i \in 0..(m - 1) : i \in Nat /\ i * w \in Nat /\ i * w + w <= n
    BY <1>1, <1>2, CellInside
  <2>2. \A i \in 0..(m - 1) : i * w + w <= 2 * n
    BY <1>1, <1>2, CellInside
  <2> QED
    BY <2>1, <2>2
<1> HIDE DEF F
<1>5. \A i \in 0..(m - 1) : Load(F, i, w, e) = Load(buf, i, w, e)
  BY <1>1, <1>2, <1>3, <1>4, LoadIs
<1>6. b \in Buffer(2 * n) /\ \A i \in 0..(m - 1) : Load(b, i, w, l) = Load(F, i, w, e)
  BY <1>1, <1>2, <1>3, HostOrderIs DEF F
<1> HIDE DEF b
<1>7. \A i \in 0..(m - 1) : Load(b, i, w, l) = Load(buf, i, w, e) /\ Load(b, i, w, l) \in 0..(Base^w - 1)
  BY <1>1, <1>2, <1>4, <1>5, <1>6, LoadIs
<1>8. CASE fmt \in Unsigned
  <2>1. x = flip_sign(b, n, w, l)
    BY <1>8, Zenon DEF WithSign, When, b
  <2>2. x \in Buffer(2 * n)
        /\ \A i \in 0..(m - 1) : Load(x, i, w, l) = (Load(b, i, w, l) + Half(w)) % Base^w
    BY <2>1, <1>1, <1>2, <1>6, FlipLoads
  <2>3. \A i \in 0..(m - 1) : Signed(Load(x, i, w, l), w) = Load(b, i, w, l) - Half(w)
    BY <2>2, <1>1, <1>7, FlippedSign
  <2>4. \A i \in 0..(m - 1) : Load(x, i, w, l) \in 0..(Base^w - 1)
    BY <2>2, <1>1, <1>2, <1>4, LoadIs
  <2> QED
    BY <2>2, <2>3, <2>4, <1>1, <1>2, <1>7, <1>8 DEF Level
<1>9. CASE fmt \notin Unsigned
  <2>1. x = b
    BY <1>9, Zenon DEF WithSign, When, b
  <2> QED
    BY <2>1, <1>1, <1>2, <1>6, <1>7, <1>9 DEF Level
<1> QED
  BY <1>8, <1>9

\* 32 bits on the scale of 16.
Shorter(w, a) == IF w = 4 THEN a \div Base^2 ELSE a

(***************************************************************************)
(* audio_converter with the operations of converter_fmt_to_s16ne makes of   *)
(* every sample of every plain format the same amplitude in 16 bits.        *)
(***************************************************************************)
THEOREM ToS16 ==
  ASSUME NEW m \in Nat, NEW fmt \in Plain, NEW w, w = rsnd_format_to_bytes(fmt), NEW n, n = m * w,
         NEW buf \in Buffer(n), NEW l \in BOOLEAN,
         NEW c, c = audio_converter(buf, fmt, converter_fmt_to_s16ne(fmt, l), l)
  PROVE  /\ c \in Buffer(m * 2)
         /\ \A i \in 0..(m - 1) :
              Signed(Load(c, i, 2, l), 2) = Shorter(w, Amplitude(fmt, Cell(buf, i, w)))
<1> DEFINE op == converter_fmt_to_s16ne(fmt, l)
           e  == fmt \notin BigEndian
           b3 == InHostOrder(Work(buf), n, w, fmt, l)
           b4 == WithSign(b3, n, w, op, l)
           b5 == Widened(b4, n, op, l)
           b6 == Narrowed(b5, n, op, l)
           Lv(i) == Level(fmt, Load(buf, i, w, e), w)
<1>1. w \in Width /\ fmt \in Formats /\ n \in Nat /\ Len(buf) = n
  <2>1. w \in Width /\ fmt \in Formats
    BY FormatWidth DEF Plain
  <2>2. n \in Nat
    BY <2>1, Samples
  <2> QED
    BY <2>1, <2>2, WorkIs
<1>2. /\ op \cap {"ALAW_TO_S16", "MULAW_TO_S16"} = {}
      /\ op \cap {"S_TO_U", "U_TO_S"} # {} <=> fmt \in Unsigned
      /\ "SWAP_ENDIAN" \in op <=> w > 1 /\ l = (fmt \in BigEndian)
      /\ "S8_TO_S16" \in op <=> w = 1
      /\ "S32_TO_S16" \in op <=> w = 4
      /\ op = {} => w = 2 /\ fmt \notin Unsigned
  <2> HIDE DEF op
  <2> QED
    BY Operations16 DEF op
<1>3. c = audio_converter(buf, fmt, op, l)
  OBVIOUS
<1>4. \A i \in 0..(m - 1) : i \in Nat /\ i * w + w <= n
  BY <1>1, CellInside
<1>5. \A i \in 0..(m - 1) : Amplitude(fmt, Cell(buf, i, w)) = Lv(i) * Scale(w)
  BY <1>1, <1>4, AmplitudeOf
<1> HIDE DEF op
<1>6. CASE op = {}
  <2>1. c = buf
    BY <1>3, <1>6, Zenon DEF audio_converter
  <2>2. w = 2 /\ fmt \notin Unsigned /\ ~(l = (fmt \in BigEndian))
    BY <1>2, <1>6
  <2>3. l = e
    BY <2>2
  <2>4. \A i \in 0..(m - 1) : Amplitude(fmt, Cell(buf, i, w)) = Signed(Load(buf, i, 2, l), 2)
    <3>1. \A i \in 0..(m - 1) : Lv(i) = Signed(Load(buf, i, 2, l), 2)
      BY <2>2, <2>3, Zenon DEF Level
    <3>2. \A i \in 0..(m - 1) : Load(buf, i, 2, l) \in 0..(Base^2 - 1)
      BY <1>1, <1>4, <2>2, LoadIs
    <3>3. \A i \in 0..(m - 1) : Signed(Load(buf, i, 2, l), 2) \in Int
      BY <3>2, <1>1, <2>2, SignedRange DEF InRange
    <3>4. \A i \in 0..(m - 1) : Signed(Load(buf, i, 2, l), 2) * Scale(w) = Signed(Load(buf, i, 2, l), 2)
      BY <3>3, <2>2 DEF Scale
    <3> HIDE DEF Lv
    <3> QED
      BY <1>5, <3>1, <3>4
  <2> QED
    BY <2>1, <2>2, <2>4 DEF Shorter
<1>7. CASE op # {}
  <2>1. c = SubSeq(Back(b6, Resized(n, op), w, fmt, op, l), 1, Resized(n, op))
    <3>1. audio_converter(buf, fmt, op, l) = SubSeq(Back(b6, Resized(n, op), w, fmt, op, l), 1, Resized(n, op))
      <4>1. IsMadeOf(buf, fmt, op, l, n, w)
        BY <1>1, <1>7, ConverterSteps
      <4> QED
        BY <4>1, <1>2, Zenon DEF IsMadeOf
    <3> QED
      BY <3>1, <1>3
  <2> HIDE DEF b6
  <2>2. Back(b6, Resized(n, op), w, fmt, op, l) = b6
    <3>1. (w > 1 /\ l = (fmt \in BigEndian)) # ("SWAP_ENDIAN" \in op) <=> FALSE
      BY <1>2
    <3> QED
      BY <3>1, Zenon DEF Back, When
  <2>3. Resized(n, op) = m * 2
    BY <1>1, <1>2 DEF Resized, Width
  <2>4. b6 \in Buffer(2 * n) /\ m * 2 \in 0..(2 * n)
        /\ \A i \in 0..(m - 1) : Signed(Load(b6, i, 2, l), 2) = Shorter(w, Lv(i) * Scale(w))
    <3>1. /\ b4 \in Buffer(2 * n)
          /\ \A i \in 0..(m - 1) : Load(b4, i, w, l) \in 0..(Base^w - 1) /\ Signed(Load(b4, i, w, l), w) = Lv(i)
      <4>1. b4 = WithSign(InHostOrder(Work(buf), n, w, fmt, l), n, w, op, l)
        OBVIOUS
      <4> HIDE DEF b4
      <4> QED
        BY <4>1, <1>1, <1>2, NativeSamples
    <3> HIDE DEF b4, Lv
    <3>2. \A i \in 0..(m - 1) : InRange(Lv(i), w)
      BY <1>1, <3>1, SignedRange
    <3>3. CASE w = 2
      <4>1. b5 = b4
        BY <1>2, <3>3 DEF Widened, When
      <4>2. b6 = b5
        BY <1>2, <3>3 DEF Narrowed, When, b6
      <4>3. \A i \in 0..(m - 1) : Lv(i) * Scale(w) = Lv(i)
        BY <3>2, <3>3 DEF Scale, InRange
      <4>4. n = m * 2
        BY <3>3
      <4> QED
        BY <3>1, <3>3, <4>1, <4>2, <4>3, <4>4 DEF Shorter
    <3>4. CASE w = 1
      <4>1. b6 = b5 /\ b5 = s8_to_s16(b4, n, l) /\ n = m /\ 2 * n \in Nat /\ n * 2 <= 2 * n
        BY <1>2, <3>4 DEF Widened, Narrowed, When, b6
      <4> DEFINE val == [i \in 0..(n - 1) |-> Signed(b4[i + 1], 1) * Base]
      <4>2. \A i \in 0..(m - 1) : b4[i + 1] = Load(b4, i, w, l) /\ i \in 0..(2 * n - 1)
        BY <3>1, <3>4, <4>1, ByteLoad
      <4>3. \A i \in 0..(m - 1) : val[i] = Lv(i) * Base /\ InRange(val[i], 2)
        <5>1. \A i \in 0..(m - 1) : val[i] = Signed(Load(b4, i, w, l), w) * Base
          BY <3>4, <4>1, <4>2
        <5> HIDE DEF val
        <5> QED
          BY <5>1, <3>1, <3>2, <3>4, WidenRange
      <4>4. b5 \in Buffer(2 * n) /\ Stored(b5, n, 2, l, val)
        BY <3>1, <4>1, WidenStores
      <4>5. val \in [0..(m - 1) -> Int]
        <5>1. \A i \in 0..(m - 1) : val[i] \in Int
          BY <4>3 DEF InRange
        <5> QED
          BY <4>1, <5>1
      <4> HIDE DEF val, b5
      <4>6. \A i \in 0..(m - 1) : Load(b5, i, 2, l) = val[i] % Base^2
        <5> DEFINE z == 2 * n
                   v == 2
        <5>1. z \in Nat /\ m * v <= z /\ v \in Width /\ Stored(b5, m, v, l, val) /\ b5 \in Buffer(z)
          BY <4>1, <4>4 DEF Width
        <5> HIDE DEF z, v
        <5>2. ASSUME NEW i \in 0..(m - 1) PROVE Load(b5, i, v, l) = val[i] % Base^v
          BY <4>5, <5>1, StoredLoads
        <5> QED
          BY <5>2 DEF v
      <4>7. \A i \in 0..(m - 1) : Signed(Load(b5, i, 2, l), 2) = Lv(i) * Base
        BY <4>3, <4>6, SignedMod DEF Width
      <4> QED
        BY <3>4, <4>1, <4>4, <4>7 DEF Shorter, Scale
    <3>5. CASE w = 4
      <4>1. b5 = b4 /\ b6 = s32_to_s16(b5, n, l) /\ n = m * 4 /\ 2 * n \in Nat /\ m * 4 <= 2 * n
        BY <1>2, <3>5 DEF Widened, Narrowed, When, b6
      <4> DEFINE val == [i \in 0..(m - 1) |-> Signed(Load(b5, i, 4, l), 4) \div Base^2]
      <4>3. \A i \in 0..(m - 1) : val[i] = Lv(i) \div Base^2 /\ InRange(val[i], 2)
        <5>1. \A i \in 0..(m - 1) : val[i] = Signed(Load(b4, i, w, l), w) \div Base^2
          BY <3>5, <4>1
        <5> HIDE DEF val
        <5> QED
          BY <5>1, <3>1, <3>2, <3>5, NarrowRange
      <4>4. b6 \in Buffer(2 * n) /\ Stored(b6, m, 2, l, val)
        BY <3>1, <4>1, NarrowStores
      <4>5. val \in [0..(m - 1) -> Int]
        <5>1. \A i \in 0..(m - 1) : val[i] \in Int
          BY <4>3 DEF InRange
        <5> QED
          BY <4>1, <5>1
      <4> HIDE DEF val, b5
      <4>6. \A i \in 0..(m - 1) : Load(b6, i, 2, l) = val[i] % Base^2
        <5>1. m * 2 <= 2 * n
          BY <4>1
        <5> QED
          BY <4>1, <4>4, <4>5, <5>1, StoredLoads DEF Width
      <4>7. \A i \in 0..(m - 1) : Signed(Load(b6, i, 2, l), 2) = Lv(i) \div Base^2
        BY <4>3, <4>6, SignedMod DEF Width
      <4>8. \A i \in 0..(m - 1) : Lv(i) * Scale(w) = Lv(i)
        BY <3>2, <3>5 DEF Scale, InRange
      <4> QED
        BY <3>5, <4>1, <4>4, <4>7, <4>8 DEF Shorter
    <3> QED
      BY <1>1, <3>3, <3>4, <3>5 DEF Width
  <2>5. c = SubSeq(b6, 1, m * 2) /\ 2 * n \in Nat /\ 2 \in Width
    BY <1>1, <2>1, <2>2, <2>3 DEF Width
  <2>6. m * 2 <= 2 * n
    BY <2>4
  <2>7. c \in Buffer(m * 2) /\ \A i \in 0..(m - 1) : Load(c, i, 2, l) = Load(b6, i, 2, l)
    <3> DEFINE z == 2 * n
               v == 2
    <3>1. c = SubSeq(b6, 1, m * v) /\ z \in Nat /\ v \in Width /\ m * v <= z /\ b6 \in Buffer(z)
      BY <2>4, <2>5, <2>6
    <3> HIDE DEF z, v
    <3>2. Begins(c, b6, m, v, l)
      BY <3>1, CutLoads
    <3> QED
      BY <3>2 DEF Begins, v
  <2> HIDE DEF Lv
  <2> QED
    BY <1>5, <2>4, <2>7
<1> QED
  BY <1>6, <1>7

(***************************************************************************)
(* And with those of converter_fmt_to_s32ne, of the wide formats, in 32.    *)
(***************************************************************************)
THEOREM ToS32 ==
  ASSUME NEW m \in Nat, NEW fmt \in Formats32, NEW w, w = rsnd_format_to_bytes(fmt), NEW n, n = m * w,
         NEW buf \in Buffer(n), NEW l \in BOOLEAN,
         NEW c, c = audio_converter(buf, fmt, converter_fmt_to_s32ne(fmt, l), l)
  PROVE  /\ c \in Buffer(n)
         /\ \A i \in 0..(m - 1) : Signed(Load(c, i, w, l), w) = Amplitude(fmt, Cell(buf, i, w))
<1> DEFINE op == converter_fmt_to_s32ne(fmt, l)
           e  == fmt \notin BigEndian
           b3 == InHostOrder(Work(buf), n, w, fmt, l)
           b4 == WithSign(b3, n, w, op, l)
           b5 == Widened(b4, n, op, l)
           b6 == Narrowed(b5, n, op, l)
           Lv(i) == Level(fmt, Load(buf, i, w, e), w)
<1>1. w \in Width /\ fmt \in Plain /\ fmt \in Formats /\ w = 4
  <2>1. fmt \in Plain /\ fmt \in Formats
    BY DEF Plain, Formats, Formats32
  <2> QED
    BY <2>1, FormatWidth
<1>2. n \in Nat /\ Len(buf) = n
  <2>1. n \in Nat
    BY <1>1, Samples
  <2> QED
    BY <2>1, WorkIs
<1>3. /\ op \cap {"ALAW_TO_S16", "MULAW_TO_S16"} = {}
      /\ op \cap {"S_TO_U", "U_TO_S"} # {} <=> fmt \in Unsigned
      /\ "SWAP_ENDIAN" \in op <=> w > 1 /\ l = (fmt \in BigEndian)
      /\ "S8_TO_S16" \notin op /\ "S32_TO_S16" \notin op
      /\ op = {} => fmt \notin Unsigned
  <2>1. fmt \in Plain
    BY <1>1
  <2>2. op = converter_fmt_to_s32ne(fmt, l)
    OBVIOUS
  <2> HIDE DEF op
  <2> QED
    BY <2>1, <2>2, Operations32
<1>4. c = audio_converter(buf, fmt, op, l)
  OBVIOUS
<1>5. \A i \in 0..(m - 1) : i \in Nat /\ i * w + w <= n
  BY <1>1, <1>2, CellInside
<1>6. \A i \in 0..(m - 1) : Amplitude(fmt, Cell(buf, i, w)) = Lv(i) * Scale(w)
  BY <1>1, <1>2, <1>5, AmplitudeOf
<1> HIDE DEF op
<1>7. CASE op = {}
  <2>1. c = buf
    BY <1>4, <1>7, Zenon DEF audio_converter
  <2>2. fmt \notin Unsigned /\ ~(l = (fmt \in BigEndian))
    BY <1>1, <1>3, <1>7
  <2>3. l = e
    BY <2>2
  <2>4. ASSUME NEW i \in 0..(m - 1)
        PROVE  Amplitude(fmt, Cell(buf, i, w)) = Signed(Load(buf, i, w, l), w)
    <3>1. Lv(i) = Signed(Load(buf, i, w, l), w)
      BY <2>2, <2>3, Zenon DEF Level
    <3>2. Load(buf, i, w, l) \in 0..(Base^w - 1)
      BY <1>1, <1>2, <1>5, LoadIs
    <3>3. Signed(Load(buf, i, w, l), w) \in Int
      BY <3>2, <1>1, SignedRange DEF InRange
    <3> HIDE DEF Lv
    <3>4. Lv(i) * Scale(w) = Lv(i)
      BY <3>1, <3>3, <1>1 DEF Scale
    <3> QED
      BY <1>6, <3>1, <3>4
  <2> QED
    BY <2>1, <2>4, <1>1
<1>8. CASE op # {}
  <2>1. c = SubSeq(Back(b6, Resized(n, op), w, fmt, op, l), 1, Resized(n, op))
    <3>1. IsMadeOf(buf, fmt, op, l, n, w)
      BY <1>1, <1>2, <1>8, ConverterSteps
    <3>2. audio_converter(buf, fmt, op, l) = SubSeq(Back(b6, Resized(n, op), w, fmt, op, l), 1, Resized(n, op))
      BY <3>1, <1>3, Zenon DEF IsMadeOf
    <3> QED
      BY <3>2, <1>4
  <2>2. b6 = b5 /\ b5 = b4
    BY <1>3, Zenon DEF Narrowed, Widened, When
  <2> HIDE DEF b6, b5
  <2>3. Back(b4, Resized(n, op), w, fmt, op, l) = b4
    <3>1. (w > 1 /\ l = (fmt \in BigEndian)) # ("SWAP_ENDIAN" \in op) <=> FALSE
      BY <1>3
    <3> QED
      BY <3>1, Zenon DEF Back, When
  <2>4. Resized(n, op) = n
    BY <1>3 DEF Resized
  <2>5. c = SubSeq(b4, 1, m * w)
    BY <2>1, <2>2, <2>3, <2>4, <1>1
  <2>6. b4 = WithSign(InHostOrder(Work(buf), n, w, fmt, l), n, w, op, l)
    OBVIOUS
  <2> HIDE DEF b4
  <2>7. /\ b4 \in Buffer(2 * n)
        /\ \A i \in 0..(m - 1) : Load(b4, i, w, l) \in 0..(Base^w - 1) /\ Signed(Load(b4, i, w, l), w) = Lv(i)
    <3>1. fmt \in Plain /\ (op \cap {"S_TO_U", "U_TO_S"} # {} <=> fmt \in Unsigned)
      BY <1>1, <1>3
    <3> QED
      BY <2>6, <3>1, NativeSamples
  <2> HIDE DEF Lv
  <2>8. 2 * n \in Nat /\ m * w <= 2 * n
    BY <1>1, <1>2
  <2>9. c \in Buffer(m * w) /\ \A i \in 0..(m - 1) : Load(c, i, w, l) = Load(b4, i, w, l)
    <3> DEFINE z == 2 * n
    <3>1. z \in Nat /\ m * w <= z /\ b4 \in Buffer(z) /\ w \in Width
      BY <1>1, <2>7, <2>8
    <3> HIDE DEF z
    <3>2. Begins(c, b4, m, w, l)
      BY <2>5, <3>1, CutLoads
    <3> QED
      BY <3>2 DEF Begins
  <2>10. ASSUME NEW i \in 0..(m - 1) PROVE Lv(i) * Scale(w) = Lv(i)
    <3>1. InRange(Lv(i), w)
      BY <1>1, <2>7, SignedRange
    <3> QED
      BY <1>1, <3>1 DEF InRange, Scale
  <2>11. ASSUME NEW i \in 0..(m - 1)
         PROVE  Signed(Load(c, i, w, l), w) = Amplitude(fmt, Cell(buf, i, w))
    BY <1>6, <2>7, <2>9, <2>10
  <2> QED
    BY <2>9, <2>11
<1> QED
  BY <1>7, <1>8

(***************************************************************************)
(* The compressed formats become the numbers of their tables.               *)
(***************************************************************************)
THEOREM LawToS16 ==
  ASSUME NEW n \in Nat, NEW fmt \in {"ALAW", "MULAW"}, NEW buf \in Buffer(n), NEW l \in BOOLEAN,
         NEW c, c = audio_converter(buf, fmt, converter_fmt_to_s16ne(fmt, l), l)
  PROVE  /\ c \in Buffer(n * 2)
         /\ \A i \in 0..(n - 1) : Signed(Load(c, i, 2, l), 2) = Amplitude(fmt, Cell(buf, i, 1))
<1> DEFINE op == converter_fmt_to_s16ne(fmt, l)
           F  == Work(buf)
           v  == 2
           z  == 2 * n
           val == [i \in 0..(n - 1) |-> IF fmt = "ALAW" THEN ALAWTable(F[i + 1]) ELSE MULAWTable(F[i + 1])]
           x  == IF fmt = "ALAW" THEN alaw_to_s16(F, n, l) ELSE mulaw_to_s16(F, n, l)
<1>1. rsnd_format_to_bytes(fmt) = 1
  <2>1. fmt \in Formats8 /\ fmt \in Formats
    BY DEF Formats8, Formats
  <2> QED
    BY <2>1, FormatWidth
<1>2. op = IF fmt = "ALAW" THEN {"ALAW_TO_S16"} ELSE {"MULAW_TO_S16"}
  <2>1. Swapped(fmt, l) = {}
    <3>1. ~(rsnd_format_to_bytes(fmt) > 1)
      BY <1>1
    <3> QED
      BY <3>1, Zenon DEF Swapped
  <2> QED
    BY <2>1 DEF converter_fmt_to_s16ne, Unsigned, Formats32
<1>3. c = audio_converter(buf, fmt, op, l)
  OBVIOUS
<1> HIDE DEF op
<1>4. F \in Buffer(2 * n) /\ Len(buf) = n /\ \A i \in 0..(n - 1) : F[i + 1] = buf[i + 1] /\ buf[i + 1] \in Byte
  <2>1. F \in Buffer(2 * n) /\ Len(buf) = n /\ \A w \in Width, i \in Nat : i * w + w <= n => Cell(F, i, w) = Cell(buf, i, w)
    BY WorkIs
  <2>2. ASSUME NEW i \in 0..(n - 1) PROVE F[i + 1] = buf[i + 1] /\ buf[i + 1] \in Byte
    <3> HIDE DEF F
    <3>1. Cell(F, i, 1) = Cell(buf, i, 1)
      <4>1. 1 \in Width /\ i \in Nat /\ i * 1 + 1 <= n
        BY DEF Width
      <4> QED
        BY <2>1, <4>1
    <3>2. Cell(F, i, 1)[1] = F[i * 1 + 1] /\ Cell(buf, i, 1)[1] = buf[i * 1 + 1]
      BY DEF Cell
    <3>3. i * 1 + 1 = i + 1 /\ i + 1 \in 1..n
      OBVIOUS
    <3> QED
      BY <3>1, <3>2, <3>3 DEF Buffer
  <2> QED
    BY <2>1, <2>2
<1>5. c = SubSeq(x, 1, 2 * n)
  <2>1. op # {}
    BY <1>2
  <2>2. IsMadeOf(buf, fmt, op, l, n, 1)
    BY <1>1, <1>4, <2>1, ConverterSteps
  <2>3. CASE fmt = "ALAW"
    BY <2>2, <2>3, <1>2, <1>3 DEF IsMadeOf
  <2>4. CASE fmt = "MULAW"
    BY <2>2, <2>4, <1>2, <1>3 DEF IsMadeOf
  <2> QED
    BY <2>3, <2>4
<1>6. z \in Nat /\ n * v <= z /\ v \in Width /\ 2 * n = z /\ n * v = z
  BY DEF Width
<1>7. x \in Buffer(z) /\ Stored(x, n, v, l, val)
  <2>1. n * 2 <= 2 * n /\ 2 * n \in Nat
    OBVIOUS
  <2>2. CASE fmt = "ALAW"
    <3>1. x = alaw_to_s16(F, n, l) /\ val = [i \in 0..(n - 1) |-> ALAWTable(F[i + 1])]
      BY <2>2
    <3> HIDE DEF x, val, F
    <3> QED
      BY <2>1, <3>1, <1>4, AlawStores
  <2>3. CASE fmt = "MULAW"
    <3>1. x = mulaw_to_s16(F, n, l) /\ val = [i \in 0..(n - 1) |-> MULAWTable(F[i + 1])]
      BY <2>3
    <3> HIDE DEF x, val, F
    <3> QED
      BY <2>1, <3>1, <1>4, MulawStores
  <2> QED
    BY <2>2, <2>3
<1> HIDE DEF F
<1>8. ASSUME NEW i \in 0..(n - 1) PROVE val[i] = Amplitude(fmt, Cell(buf, i, 1)) /\ InRange(val[i], v)
  <2>1. val[i] = IF fmt = "ALAW" THEN ALAWTable(buf[i + 1]) ELSE MULAWTable(buf[i + 1])
    BY <1>4
  <2> HIDE DEF val
  <2> QED
    BY <2>1, <1>4, LawAmplitude, LawRanges
<1>9. val \in [0..(n - 1) -> Int]
  <2>1. \A i \in 0..(n - 1) : val[i] \in Int
    BY <1>8 DEF InRange
  <2> QED
    BY <2>1
<1> HIDE DEF val, x, z, v
<1>10. c \in Buffer(n * v) /\ \A i \in 0..(n - 1) : Load(c, i, v, l) = Load(x, i, v, l)
  <2>1. c = SubSeq(x, 1, n * v)
    BY <1>5, <1>6
  <2>2. Begins(c, x, n, v, l)
    BY <2>1, <1>6, <1>7, CutLoads
  <2> QED
    BY <2>2 DEF Begins
<1>11. ASSUME NEW i \in 0..(n - 1) PROVE Signed(Load(c, i, v, l), v) = Amplitude(fmt, Cell(buf, i, 1))
  <2>1. Load(x, i, v, l) = val[i] % Base^v
    BY <1>6, <1>7, <1>9, StoredLoads
  <2>2. Signed(val[i] % Base^v, v) = val[i]
    BY <1>6, <1>8, SignedMod
  <2> QED
    BY <2>1, <2>2, <1>8, <1>10
<1> QED
  BY <1>10, <1>11 DEF v

\* Swapped samples, read in the other order.
LEMMA SwapBack ==
  ASSUME NEW n \in Nat, NEW b \in Buffer(n), NEW m \in Nat, NEW w \in Width, m * w <= n, NEW l
  PROVE  /\ swap(b, m * w, w, l) \in Buffer(n)
         /\ \A i \in 0..(m - 1) : Load(swap(b, m * w, w, l), i, w, ~l) = Load(b, i, w, l)
<1> DEFINE x   == swap(b, m * w, w, l)
           val == [i \in 0..(m - 1) |-> Load(b, i, w, ~l)]
<1>1. x \in Buffer(n) /\ Stored(x, m, w, l, val)
  BY SwapStores
<1> HIDE DEF x
<1>2. ASSUME NEW i \in 0..(m - 1) PROVE Load(x, i, w, ~l) = Load(b, i, w, l)
  <2> DEFINE u == Load(b, i, w, ~l)
             d == Cell(b, i, w)
  <2>1. i \in Nat /\ i * w + w <= n
    BY CellInside
  <2>2. u \in 0..(Base^w - 1) /\ Digits(u, w) = InOrder(d, ~l)
    BY <2>1, LoadIs
  <2>3. u % Base^w = u
    BY <2>2, ModSmall, Halves DEF Halved
  <2>4. Cell(x, i, w) = InOrder(InOrder(d, ~l), l)
    <3>1. Cell(x, i, w) = InOrder(Digits(u % Base^w, w), l)
      BY <1>1 DEF Stored
    <3> HIDE DEF u, d
    <3> QED
      BY <3>1, <2>2, <2>3
  <2>5. Load(x, i, w, ~l) = Number(InOrder(InOrder(InOrder(d, ~l), l), ~l))
    <3>1. Load(x, i, w, ~l) = Number(InOrder(Cell(x, i, w), ~l))
      BY <1>1, <2>1, LoadIs
    <3> HIDE DEF d
    <3> QED
      BY <2>4, <3>1, Zenon
  <2>6. d \in [1..w -> Byte]
    BY <2>1, CellIs
  <2>7. InOrder(InOrder(InOrder(d, ~l), l), ~l) = InOrder(d, l)
    <3> HIDE DEF d
    <3> QED
      BY <2>6, InOrderFacts
  <2>8. Load(b, i, w, l) = Number(InOrder(d, l))
    BY <2>1, LoadIs
  <2> HIDE DEF d
  <2> QED
    BY <2>5, <2>7, <2>8, Zenon
<1> QED
  BY <1>1, <1>2 DEF x

(***************************************************************************)
(* U_TO_S alone, as the PulseAudio driver asks for it: the samples stay in  *)
(* their own order.                                                         *)
(***************************************************************************)
LEMMA ToSigned ==
  ASSUME NEW m \in Nat, NEW fmt \in Plain, NEW w, w = rsnd_format_to_bytes(fmt), NEW n, n = m * w,
         fmt \in Unsigned, w > 1, NEW to \in Plain, to \notin Unsigned, rsnd_format_to_bytes(to) = w,
         to \in BigEndian <=> fmt \in BigEndian,
         NEW buf \in Buffer(n), NEW l \in BOOLEAN, NEW c, c = audio_converter(buf, fmt, {"U_TO_S"}, l)
  PROVE  /\ c \in Buffer(n)
         /\ \A i \in 0..(m - 1) : Amplitude(to, Cell(c, i, w)) = Amplitude(fmt, Cell(buf, i, w))
<1> DEFINE op == {"U_TO_S"}
           e  == fmt \notin BigEndian
           z  == 2 * n
           b3 == InHostOrder(Work(buf), n, w, fmt, l)
           b4 == WithSign(b3, n, w, op, l)
           b5 == Widened(b4, n, op, l)
           b6 == Narrowed(b5, n, op, l)
           x  == Back(b4, n, w, fmt, op, l)
           Lv(i) == Level(fmt, Load(buf, i, w, e), w)
<1>1. w \in Width /\ fmt \in Formats
  BY FormatWidth DEF Plain
<1>2. n \in Nat /\ Len(buf) = n /\ z \in Nat /\ m * w <= z /\ m * w <= n
  <2>1. n \in Nat
    BY <1>1, Samples
  <2> QED
    BY <2>1, WorkIs
<1>3. /\ op \cap {"ALAW_TO_S16", "MULAW_TO_S16"} = {}
      /\ op \cap {"S_TO_U", "U_TO_S"} # {} <=> fmt \in Unsigned
      /\ "SWAP_ENDIAN" \notin op /\ "S8_TO_S16" \notin op /\ "S32_TO_S16" \notin op /\ op # {}
  OBVIOUS
<1>4. c = audio_converter(buf, fmt, op, l)
  OBVIOUS
<1> HIDE DEF op
<1>5. \A i \in 0..(m - 1) : i \in Nat /\ i * w + w <= n
  BY <1>1, <1>2, CellInside
<1>6. c = SubSeq(x, 1, m * w)
  <2>1. IsMadeOf(buf, fmt, op, l, n, w)
    BY <1>1, <1>2, <1>3, ConverterSteps
  <2>2. audio_converter(buf, fmt, op, l) = SubSeq(Back(b6, Resized(n, op), w, fmt, op, l), 1, Resized(n, op))
    BY <2>1, <1>3, Zenon DEF IsMadeOf
  <2>3. b6 = b5 /\ b5 = b4
    BY <1>3, Zenon DEF Narrowed, Widened, When
  <2> HIDE DEF b6, b5, b4
  <2>4. Resized(n, op) = n
    BY <1>3 DEF Resized
  <2> QED
    BY <2>2, <2>3, <2>4, <1>4
<1>7. b4 = WithSign(InHostOrder(Work(buf), n, w, fmt, l), n, w, op, l)
  OBVIOUS
<1> HIDE DEF b4
<1>8. /\ b4 \in Buffer(z)
      /\ \A i \in 0..(m - 1) : Load(b4, i, w, l) \in 0..(Base^w - 1) /\ Signed(Load(b4, i, w, l), w) = Lv(i)
  <2>1. op \cap {"S_TO_U", "U_TO_S"} # {} <=> fmt \in Unsigned
    BY <1>3
  <2> QED
    BY <1>7, <2>1, NativeSamples
<1> HIDE DEF z
<1>9. x \in Buffer(z) /\ \A i \in 0..(m - 1) : Load(x, i, w, e) = Load(b4, i, w, l)
  <2>1. CASE l = (fmt \in BigEndian)
    <3>1. x = swap(b4, m * w, w, l)
      <4>1. (w > 1 /\ l = (fmt \in BigEndian)) # ("SWAP_ENDIAN" \in op) <=> TRUE
        BY <1>3, <2>1
      <4>2. w > 1
        OBVIOUS
      <4>3. x = swap(b4, n, w, l)
        BY <4>1, <4>2, Zenon DEF Back, When
      <4> QED
        BY <4>3
    <3> HIDE DEF x
    <3>2. x \in Buffer(z) /\ \A i \in 0..(m - 1) : Load(x, i, w, ~l) = Load(b4, i, w, l)
      BY <3>1, <1>1, <1>2, <1>8, SwapBack
    <3>3. (~l) = e
      BY <2>1, Zenon
    <3> QED
      BY <3>2, <3>3, Zenon
  <2>2. CASE ~(l = (fmt \in BigEndian))
    <3>1. x = b4
      <4>1. (w > 1 /\ l = (fmt \in BigEndian)) # ("SWAP_ENDIAN" \in op) <=> FALSE
        BY <1>3, <2>2
      <4> QED
        BY <4>1, Zenon DEF Back, When
    <3> HIDE DEF x
    <3>2. l = e
      BY <2>2
    <3> QED
      BY <3>1, <3>2, <1>8, Zenon
  <2> QED
    BY <2>1, <2>2, Zenon
<1> HIDE DEF x
<1> HIDE DEF e
<1>10. c \in Buffer(m * w) /\ \A i \in 0..(m - 1) : Load(c, i, w, e) = Load(x, i, w, e)
  <2>1. Begins(c, x, m, w, e)
    BY <1>1, <1>2, <1>6, <1>9, CutLoads
  <2> QED
    BY <2>1 DEF Begins
<1>11. ASSUME NEW i \in 0..(m - 1)
       PROVE  Amplitude(to, Cell(c, i, w)) = Amplitude(fmt, Cell(buf, i, w))
  <2>1. i \in Nat /\ i * w + w <= n /\ c \in Buffer(n)
    BY <1>5, <1>10
  <2>2. Amplitude(to, Cell(c, i, w)) = Level(to, Load(c, i, w, to \notin BigEndian), w) * Scale(w)
    BY <2>1, <1>1, <1>2, AmplitudeOf
  <2>3. Amplitude(fmt, Cell(buf, i, w)) = Level(fmt, Load(buf, i, w, fmt \notin BigEndian), w) * Scale(w)
    BY <2>1, <1>1, <1>2, AmplitudeOf
  <2>7. Amplitude(fmt, Cell(buf, i, w)) = Lv(i) * Scale(w)
    BY <2>3, Zenon DEF e
  <2>4. (to \notin BigEndian) = e
    BY DEF e
  <2>5. Level(to, Load(c, i, w, to \notin BigEndian), w) = Signed(Load(c, i, w, e), w)
    BY <2>4, Zenon DEF Level
  <2>6. Signed(Load(c, i, w, e), w) = Lv(i)
    BY <1>8, <1>9, <1>10
  <2> HIDE DEF Lv
  <2> QED
    BY <2>2, <2>7, <2>5, <2>6
<1> QED
  BY <1>10, <1>11

(***************************************************************************)
(* S_TO_U, of bytes.                                                        *)
(***************************************************************************)
LEMMA ToU8 ==
  ASSUME NEW n \in Nat, NEW buf \in Buffer(n), NEW l \in BOOLEAN,
         NEW c, c = audio_converter(buf, "S8", {"S_TO_U"}, l)
  PROVE  /\ c \in Buffer(n)
         /\ \A i \in 0..(n - 1) : Amplitude("U8", Cell(c, i, 1)) = Amplitude("S8", Cell(buf, i, 1))
<1> DEFINE op == {"S_TO_U"}
           z  == 2 * n
           w  == 1
           t  == TRUE
           F  == Work(buf)
           b3 == InHostOrder(F, n, w, "S8", l)
           b4 == WithSign(b3, n, w, op, l)
           b5 == Widened(b4, n, op, l)
           b6 == Narrowed(b5, n, op, l)
           x  == flip_sign(F, n * w, w, l)
<1>1. w \in Width /\ n * w = n /\ w = 1 /\ w = rsnd_format_to_bytes("S8")
  <2>1. "S8" \in Formats8 /\ "S8" \in Formats
    BY DEF Formats8, Formats
  <2>2. rsnd_format_to_bytes("S8") = 1
    BY <2>1, FormatWidth
  <2> QED
    BY <2>2 DEF Width
<1>0. /\ "S8" \in Plain /\ "U8" \in Plain /\ "S8" \notin Unsigned /\ "U8" \in Unsigned
      /\ ("S8" \notin BigEndian) = t /\ ("U8" \notin BigEndian) = t
  BY DEF Formats8, Plain, Formats, Unsigned, BigEndian
<1>2. Len(buf) = n /\ z \in Nat /\ n * w <= z /\ n * w <= n /\ F \in Buffer(z)
  BY WorkIs
<1>3. /\ op \cap {"ALAW_TO_S16", "MULAW_TO_S16"} = {} /\ op \cap {"S_TO_U", "U_TO_S"} # {}
      /\ "SWAP_ENDIAN" \notin op /\ "S8_TO_S16" \notin op /\ "S32_TO_S16" \notin op /\ op # {}
  OBVIOUS
<1>4. c = audio_converter(buf, "S8", op, l)
  OBVIOUS
<1>5. \A i \in 0..(n - 1) : Cell(F, i, w) = Cell(buf, i, w)
  <2>1. \A i \in 0..(n - 1) : i \in Nat /\ i * w + w <= n
    OBVIOUS
  <2> HIDE DEF w, F
  <2> QED
    BY <1>1, <2>1, WorkIs DEF F
<1>6. ~(w > 1)
  OBVIOUS
<1> HIDE DEF op, w, F, t
<1>7. c = SubSeq(x, 1, n * w)
  <2>1. IsMadeOf(buf, "S8", op, l, n, w)
    BY <1>1, <1>2, <1>3, ConverterSteps
  <2>2. audio_converter(buf, "S8", op, l) = SubSeq(Back(b6, Resized(n, op), w, "S8", op, l), 1, Resized(n, op))
    BY <2>1, <1>3, Zenon DEF IsMadeOf, F
  <2>3. b6 = b5 /\ b5 = b4
    BY <1>3, Zenon DEF Narrowed, Widened, When
  <2>4. b3 = F
    BY <1>6, Zenon DEF InHostOrder, When
  <2>5. b4 = flip_sign(b3, n, w, l)
    BY <1>3, Zenon DEF WithSign, When
  <2> HIDE DEF b6, b5, b4, b3
  <2>6. b4 = x
    BY <2>4, <2>5, <1>1
  <2>7. Resized(n, op) = n
    BY <1>3 DEF Resized
  <2>8. Back(b4, n, w, "S8", op, l) = b4
    BY <1>6, Zenon DEF Back, When
  <2> HIDE DEF x
  <2> QED
    BY <2>2, <2>3, <2>6, <2>7, <2>8, <1>1, <1>4
<1> HIDE DEF z
<1>8. x \in Buffer(z) /\ \A i \in 0..(n - 1) : Load(x, i, w, t) = Load(x, i, w, l)
                         /\ Load(x, i, w, l) = (Load(F, i, w, l) + Half(w)) % Base^w
                         /\ Load(F, i, w, l) = Load(buf, i, w, t)
  <2>1. x \in Buffer(z) /\ \A i \in 0..(n - 1) : Load(x, i, w, l) = (Load(F, i, w, l) + Half(w)) % Base^w
    <3>1. w \in Width /\ z \in Nat /\ n * w <= z /\ F \in Buffer(z)
      BY <1>1, <1>2
    <3> QED
      BY <3>1, FlipLoads
  <2> HIDE DEF x
  <2>2. ASSUME NEW i \in 0..(n - 1)
        PROVE  Load(x, i, w, t) = Load(x, i, w, l) /\ Load(F, i, w, l) = Load(buf, i, w, t)
    <3>1. i \in 0..(z - 1)
      BY <1>2 DEF z
    <3>2. Load(x, i, 1, t) = x[i + 1] /\ Load(x, i, 1, l) = x[i + 1]
      BY <3>1, <2>1, <1>2, ByteLoad
    <3>3. Load(F, i, 1, l) = Load(F, i, 1, t)
      BY <3>1, <1>2, ByteLoad
    <3>4. Load(F, i, w, t) = Load(buf, i, w, t)
      <4>1. i \in Nat /\ i * w + w <= z /\ i * w + w <= n
        BY <1>1, <1>2, CellInside
      <4>2. Load(F, i, w, t) = Number(InOrder(Cell(F, i, w), t))
        BY <4>1, <1>1, <1>2, LoadIs
      <4>3. Load(buf, i, w, t) = Number(InOrder(Cell(buf, i, w), t))
        BY <4>1, <1>1, LoadIs
      <4> QED
        BY <4>2, <4>3, <1>5
    <3> QED
      BY <3>2, <3>3, <3>4, <1>1
  <2> QED
    BY <2>1, <2>2
<1> HIDE DEF x
<1>9. c \in Buffer(n * w) /\ \A i \in 0..(n - 1) : Load(c, i, w, t) = Load(x, i, w, t)
  <2>1. w \in Width /\ z \in Nat /\ n * w <= z /\ x \in Buffer(z)
    BY <1>1, <1>2, <1>8
  <2>2. Begins(c, x, n, w, t)
    BY <2>1, <1>7, CutLoads
  <2> QED
    BY <2>2 DEF Begins
<1>10. ASSUME NEW i \in 0..(n - 1)
       PROVE  Amplitude("U8", Cell(c, i, w)) = Amplitude("S8", Cell(buf, i, w))
  <2> DEFINE u == Load(buf, i, w, t)
  <2>1. i \in Nat /\ i * w + w <= n /\ c \in Buffer(n)
    BY <1>1, <1>2, <1>9, CellInside
  <2>2. Amplitude("U8", Cell(c, i, w)) = Level("U8", Load(c, i, w, "U8" \notin BigEndian), w) * Scale(w)
    BY <2>1, <1>0, <1>1, AmplitudeOf
  <2>3. Amplitude("S8", Cell(buf, i, w)) = Level("S8", Load(buf, i, w, "S8" \notin BigEndian), w) * Scale(w)
    BY <2>1, <1>0, <1>1, AmplitudeOf
  <2>4. u \in 0..(Base^w - 1)
    BY <2>1, <1>1, LoadIs
  <2>5. Load(c, i, w, t) = (u + Half(w)) % Base^w
    BY <1>8, <1>9
  <2>6. Level("U8", Load(c, i, w, t), w) = Load(c, i, w, t) - Half(w) /\ Level("S8", u, w) = Signed(u, w)
    BY <1>0 DEF Level
  <2> HIDE DEF u
  <2>7. ((u + Half(w)) % Base^w) - Half(w) = Signed(u, w)
    BY <1>1, <2>4, FlippedSign
  <2>9. Level("U8", Load(c, i, w, t), w) = Level("S8", u, w)
    BY <2>5, <2>6, <2>7
  <2> QED
    BY <2>2, <2>3, <1>0, <2>9 DEF u
<1> QED
  BY <1>1, <1>9, <1>10

-----------------------------------------------------------------------------
(* Part 3: the path                                                        *)

-----------------------------------------------------------------------------
(* The formats a driver may ask for *)

\* S16(l) and S32(l) are signed formats in the order of the host.
LEMMA HostFormats ==
  ASSUME NEW l \in BOOLEAN
  PROVE  /\ S16(l) \in Plain /\ S16(l) \notin Unsigned /\ S16(l) \notin Formats32
         /\ S32(l) \in Plain /\ S32(l) \notin Unsigned /\ S32(l) \in Formats32
         /\ (S16(l) \notin BigEndian) = l /\ (S32(l) \notin BigEndian) = l
         /\ rsnd_format_to_bytes(S16(l)) = 2 /\ rsnd_format_to_bytes(S32(l)) = 4
<1>1. CASE l = TRUE
  <2>1. S16(l) = "S16_LE" /\ S32(l) = "S32_LE"
    BY <1>1 DEF S16, S32
  <2>2. S16(l) \in Formats16 /\ S16(l) \in Plain /\ S32(l) \in Formats32 /\ S32(l) \in Plain
        /\ S16(l) \in Formats /\ S32(l) \in Formats
    BY <2>1 DEF Plain, Formats, Formats8, Formats16, Formats32
  <2>3. S16(l) \notin BigEndian /\ S32(l) \notin BigEndian /\ S16(l) \notin Unsigned /\ S32(l) \notin Unsigned
        /\ S16(l) \notin Formats32
    BY <2>1 DEF BigEndian, Unsigned, Formats32
  <2> QED
    BY <1>1, <2>2, <2>3, FormatWidth
<1>2. CASE l = FALSE
  <2>1. S16(l) = "S16_BE" /\ S32(l) = "S32_BE"
    BY <1>2 DEF S16, S32
  <2>2. S16(l) \in Formats16 /\ S16(l) \in Plain /\ S32(l) \in Formats32 /\ S32(l) \in Plain
        /\ S16(l) \in Formats /\ S32(l) \in Formats
    BY <2>1 DEF Plain, Formats, Formats8, Formats16, Formats32
  <2>3. S16(l) \in BigEndian /\ S32(l) \in BigEndian /\ S16(l) \notin Unsigned /\ S32(l) \notin Unsigned
        /\ S16(l) \notin Formats32
    BY <2>1 DEF BigEndian, Unsigned, Formats32
  <2> QED
    BY <1>2, <2>2, <2>3, FormatWidth
<1> QED
  BY <1>1, <1>2

\* A host's sample is the number in it.
LEMMA HostSample ==
  ASSUME NEW l \in BOOLEAN, NEW n \in Nat, NEW c \in Buffer(n), NEW i \in Nat,
         NEW to \in {S16(l), S32(l)}, NEW w, w = rsnd_format_to_bytes(to), i * w + w <= n
  PROVE  Amplitude(to, Cell(c, i, w)) = Signed(Load(c, i, w, l), w)
<1> DEFINE e == to \notin BigEndian
           z == Load(c, i, w, e)
<1>1. to \in Plain /\ to \notin Unsigned /\ w \in {2, 4} /\ e = l
  BY HostFormats
<1>2. w \in Width /\ Scale(w) = 1
  BY <1>1 DEF Width, Scale
<1>3. Amplitude(to, Cell(c, i, w)) = Level(to, Load(c, i, w, to \notin BigEndian), w) * Scale(w)
  BY <1>1, <1>2, AmplitudeOf
<1>4. Amplitude(to, Cell(c, i, w)) = Level(to, z, w) * Scale(w)
  BY <1>3, Zenon DEF e
<1> HIDE DEF e
<1>5. z \in 0..(Base^w - 1) /\ z = Load(c, i, w, l)
  BY <1>1, <1>2, LoadIs
<1>6. Signed(z, w) \in Int
  BY <1>2, <1>5, SignedRange DEF InRange
<1> HIDE DEF z
<1> QED
  BY <1>1, <1>2, <1>4, <1>5, <1>6 DEF Level

\* The scale of a wide format is lost on a device of 16 bits.
Scaled(fmt, to, a) == IF rsnd_format_to_bytes(fmt) = 4 /\ to \notin Formats32 THEN a \div Base^2 ELSE a

\* c is in the format to what x is in fmt, sample by sample.
Same(fmt, x, to, c, m) ==
  LET w == rsnd_format_to_bytes(fmt)
      v == rsnd_format_to_bytes(to)
  IN  /\ c \in Buffer(m * v)
      /\ \A i \in 0..(m - 1) : Amplitude(to, Cell(c, i, v)) = Scaled(fmt, to, Amplitude(fmt, Cell(x, i, w)))

\* Without an operation audio_converter leaves the amplitudes alone.
LEMMA NoConversion ==
  ASSUME NEW m \in Nat, NEW fmt \in Formats, NEW x \in Buffer(m * rsnd_format_to_bytes(fmt)), NEW l
  PROVE  Same(fmt, x, fmt, audio_converter(x, fmt, {}, l), m)
<1>1. audio_converter(x, fmt, {}, l) = x
  BY Zenon DEF audio_converter
<1>2. \A a : Scaled(fmt, fmt, a) = a
  BY FormatWidth DEF Scaled
<1> QED
  BY <1>1, <1>2 DEF Same

\* Every format becomes numbers of 16 bits.
LEMMA To16 ==
  ASSUME NEW m \in Nat, NEW fmt \in Formats, NEW w, w = rsnd_format_to_bytes(fmt), NEW x \in Buffer(m * w),
         NEW l \in BOOLEAN, NEW c, c = audio_converter(x, fmt, converter_fmt_to_s16ne(fmt, l), l)
  PROVE  /\ c \in Buffer(m * 2)
         /\ \A i \in 0..(m - 1) : Signed(Load(c, i, 2, l), 2) = Shorter(w, Amplitude(fmt, Cell(x, i, w)))
<1> DEFINE n == m * w
<1>1. w \in Width /\ n \in Nat
  BY FormatWidth, Samples
<1>2. CASE fmt \in {"ALAW", "MULAW"}
  <2>1. fmt \in Formats8
    BY <1>2 DEF Formats8
  <2>2. w = 1 /\ m * w = m
    BY <2>1, FormatWidth
  <2>3. c \in Buffer(m * 2) /\ \A i \in 0..(m - 1) : Signed(Load(c, i, 2, l), 2) = Amplitude(fmt, Cell(x, i, 1))
    <3>1. x \in Buffer(m)
      BY <2>2
    <3> QED
      BY <3>1, <1>2, LawToS16
  <2>4. \A a : Shorter(w, a) = a
    BY <2>2 DEF Shorter
  <2> QED
    BY <2>2, <2>3, <2>4
<1>3. CASE fmt \notin {"ALAW", "MULAW"}
  <2>1. fmt \in Plain /\ x \in Buffer(n)
    BY <1>3 DEF Plain
  <2> HIDE DEF n
  <2> QED
    BY <1>1, <2>1, ToS16 DEF n
<1> QED
  BY <1>2, <1>3

\* The host's 16 bits, as a format.
LEMMA As16 ==
  ASSUME NEW m \in Nat, NEW fmt \in Formats, NEW x \in Buffer(m * rsnd_format_to_bytes(fmt)), NEW l \in BOOLEAN,
         NEW c, c = audio_converter(x, fmt, converter_fmt_to_s16ne(fmt, l), l)
  PROVE  Same(fmt, x, S16(l), c, m)
<1> DEFINE w == rsnd_format_to_bytes(fmt)
           v == rsnd_format_to_bytes(S16(l))
<1>1. v = 2 /\ v \in Width /\ m * v \in Nat /\ \A a : Scaled(fmt, S16(l), a) = Shorter(w, a)
  BY HostFormats DEF Width, Scaled, Shorter
<1>2. c \in Buffer(m * v) /\ \A i \in 0..(m - 1) :
        Signed(Load(c, i, v, l), v) = Scaled(fmt, S16(l), Amplitude(fmt, Cell(x, i, w)))
  <2>1. x \in Buffer(m * w)
    OBVIOUS
  <2> HIDE DEF w, v
  <2>2. c \in Buffer(m * 2)
        /\ \A i \in 0..(m - 1) : Signed(Load(c, i, 2, l), 2) = Shorter(w, Amplitude(fmt, Cell(x, i, w)))
    BY <2>1, To16 DEF w
  <2> QED
    BY <1>1, <2>2
<1> HIDE DEF w, v
<1>3. ASSUME NEW i \in 0..(m - 1)
      PROVE  Amplitude(S16(l), Cell(c, i, v)) = Signed(Load(c, i, v, l), v)
  <2> DEFINE z == m * v
  <2>1. i \in Nat /\ i * v + v <= z /\ z \in Nat /\ c \in Buffer(z) /\ S16(l) \in {S16(l), S32(l)}
    <3>1. z <= z
      BY <1>1
    <3>2. i * v + v <= z
      BY <1>1, <3>1, CellInside
    <3> QED
      BY <1>1, <1>2, <3>2
  <2> HIDE DEF z
  <2> QED
    BY <2>1, HostSample DEF v
<1> QED
  BY <1>2, <1>3 DEF Same, w, v

\* The wide formats become numbers of 32 bits.
LEMMA To32 ==
  ASSUME NEW m \in Nat, NEW fmt \in Formats32, NEW x \in Buffer(m * 4),
         NEW l \in BOOLEAN, NEW c, c = audio_converter(x, fmt, converter_fmt_to_s32ne(fmt, l), l)
  PROVE  /\ c \in Buffer(m * 4)
         /\ \A i \in 0..(m - 1) : Signed(Load(c, i, 4, l), 4) = Amplitude(fmt, Cell(x, i, 4))
<1> DEFINE w == rsnd_format_to_bytes(fmt)
           n == m * w
<1>1. w = 4 /\ x \in Buffer(n)
  <2>1. fmt \in Formats
    BY DEF Formats
  <2>2. w = 4
    BY <2>1, FormatWidth
  <2> QED
    BY <2>2
<1>2. c \in Buffer(n) /\ \A i \in 0..(m - 1) : Signed(Load(c, i, w, l), w) = Amplitude(fmt, Cell(x, i, w))
  <2>1. x \in Buffer(n)
    BY <1>1
  <2> HIDE DEF n
  <2> QED
    BY <2>1, ToS32 DEF n
<1> HIDE DEF w
<1> QED
  BY <1>1, <1>2

\* The wide formats become the host's 32 bits.
LEMMA As32 ==
  ASSUME NEW m \in Nat, NEW fmt \in Formats32, NEW x \in Buffer(m * rsnd_format_to_bytes(fmt)), NEW l \in BOOLEAN,
         NEW c, c = audio_converter(x, fmt, converter_fmt_to_s32ne(fmt, l), l)
  PROVE  Same(fmt, x, S32(l), c, m)
<1> DEFINE w == rsnd_format_to_bytes(fmt)
           n == m * w
           v == rsnd_format_to_bytes(S32(l))
<1>1. w \in Width /\ v = w /\ n \in Nat /\ fmt \in Formats
  BY FormatWidth, HostFormats, Samples DEF Formats
<1>2. c \in Buffer(n) /\ \A i \in 0..(m - 1) : Signed(Load(c, i, w, l), w) = Amplitude(fmt, Cell(x, i, w))
  <2>1. w = 4 /\ x \in Buffer(m * w)
    BY <1>1, FormatWidth
  <2> HIDE DEF w
  <2>2. x \in Buffer(m * 4)
    BY <2>1
  <2> QED
    BY <2>1, <2>2, To32
<1>3. \A a : Scaled(fmt, S32(l), a) = a
  BY HostFormats DEF Scaled
<1> HIDE DEF w, v
<1>4. ASSUME NEW i \in 0..(m - 1)
      PROVE  Amplitude(S32(l), Cell(c, i, v)) = Signed(Load(c, i, v, l), v)
  <2>1. i \in Nat /\ i * v + v <= n /\ S32(l) \in {S16(l), S32(l)}
    <3>1. n <= n
      BY <1>1
    <3>2. i * v + v <= n
      BY <1>1, <3>1, CellInside
    <3> QED
      BY <1>1, <3>2
  <2> HIDE DEF n
  <2> QED
    BY <1>1, <1>2, <2>1, HostSample DEF v
<1> QED
  BY <1>1, <1>2, <1>3, <1>4 DEF Same, w, v

-----------------------------------------------------------------------------
(* What a driver does *)

StreamType == [fmt : Formats, wave : [1..Period -> 0..(Base - 1)], driver : Drivers,
               resample : BOOLEAN, little : BOOLEAN]

\* The format of the stream is one, and as wide as the client's.
LEMMA StreamFormats ==
  ASSUME stream \in StreamType
  PROVE  /\ rsd_format \in Formats /\ Bytes = rsnd_format_to_bytes(rsd_format) /\ Bytes \in Width
         /\ Bytes = 4 <=> rsd_format \in Formats32
         /\ Bytes = 4 <=> rsnd_format_to_bytes(stream.fmt) = 4
         /\ stream.fmt \in Formats /\ stream.little \in BOOLEAN
<1>1. stream.fmt \in Formats /\ stream.little \in BOOLEAN
  BY DEF StreamType
<1>2. /\ S16(stream.little) \in Formats /\ S32(stream.little) \in Formats
      /\ S16(stream.little) \notin Formats32 /\ S32(stream.little) \in Formats32
  BY <1>1, HostFormats DEF Plain
<1>3. rsd_format \in Formats /\ (rsd_format \in Formats32 <=> stream.fmt \in Formats32)
  BY <1>1, <1>2 DEF rsd_format
<1> QED
  BY <1>1, <1>3, FormatWidth DEF Bytes

\* pulse_open only changes the sign.
LEMMA PulseConverts ==
  ASSUME stream \in StreamType, NEW m \in Nat, NEW x \in Buffer(m * Bytes),
         NEW c, c = audio_converter(x, rsd_format, pulse_open.conv, stream.little)
  PROVE  /\ pulse_open.format \in Formats /\ rsnd_format_to_bytes(pulse_open.format) = Bytes
         /\ Same(rsd_format, x, pulse_open.format, c, m)
<1> DEFINE f == rsd_format
           l == stream.little
           Turned(a, b) == f = a /\ pulse_open = Opened(b, {"U_TO_S"})
<1>1. f \in Formats /\ Bytes = rsnd_format_to_bytes(f) /\ l \in BOOLEAN
  BY StreamFormats
<1>2. \/ Turned("U16_LE", "S16_LE") \/ Turned("U16_BE", "S16_BE")
      \/ Turned("U32_LE", "S32_LE") \/ Turned("U32_BE", "S32_BE")
      \/ f = "S8" /\ pulse_open = Opened("U8", {"S_TO_U"})
      \/ pulse_open = Opened(f, {})
  <2> HIDE DEF f
  <2>1. CASE f = "U16_LE"
    BY <2>1 DEF pulse_open, f
  <2>2. CASE f = "U16_BE"
    BY <2>2 DEF pulse_open, f
  <2>3. CASE f = "U32_LE"
    BY <2>3 DEF pulse_open, f
  <2>4. CASE f = "U32_BE"
    BY <2>4 DEF pulse_open, f
  <2>5. CASE f = "S8"
    BY <2>5 DEF pulse_open, f
  <2>6. CASE f \notin {"U16_LE", "U16_BE", "U32_LE", "U32_BE", "S8"}
    BY <2>6 DEF pulse_open, f, AsItIs
  <2> QED
    BY <2>1, <2>2, <2>3, <2>4, <2>5, <2>6
<1>3. ASSUME NEW a, NEW b, Turned(a, b), a \in Plain, b \in Plain, a \in Unsigned, b \notin Unsigned,
             (b \in BigEndian) = (a \in BigEndian),
             rsnd_format_to_bytes(a) = rsnd_format_to_bytes(b), rsnd_format_to_bytes(a) > 1,
             (a \in Formats32) = (b \in Formats32)
      PROVE  /\ pulse_open.format \in Formats /\ rsnd_format_to_bytes(pulse_open.format) = Bytes
             /\ Same(f, x, pulse_open.format, c, m)
  <2> DEFINE w == rsnd_format_to_bytes(a)
             n == m * w
  <2>1. /\ pulse_open.format = b /\ pulse_open.conv = {"U_TO_S"} /\ f = a /\ Bytes = w
        /\ a \in Formats /\ b \in Formats /\ w = rsnd_format_to_bytes(b)
    BY <1>1, <1>3 DEF Opened, Plain
  <2>2. x \in Buffer(n) /\ c = audio_converter(x, a, {"U_TO_S"}, l)
    BY <2>1
  <2> HIDE DEF n
  <2>3. b \in BigEndian <=> a \in BigEndian
    BY <1>3
  <2>4. c \in Buffer(n) /\ \A i \in 0..(m - 1) : Amplitude(b, Cell(c, i, w)) = Amplitude(a, Cell(x, i, w))
    BY <1>1, <1>3, <2>1, <2>2, <2>3, ToSigned DEF n
  <2>5. \A v : Scaled(a, b, v) = v
    BY <1>3, <2>1, FormatWidth DEF Scaled
  <2> HIDE DEF w, f
  <2> QED
    BY <2>1, <2>4, <2>5 DEF Same, n, w
<1>4. CASE \/ Turned("U16_LE", "S16_LE") \/ Turned("U16_BE", "S16_BE")
           \/ Turned("U32_LE", "S32_LE") \/ Turned("U32_BE", "S32_BE")
  <2>1. {"U16_LE", "S16_LE", "U16_BE", "S16_BE", "U32_LE", "S32_LE", "U32_BE", "S32_BE"} \subseteq Plain
    BY DEF Plain, Formats, Formats8, Formats16, Formats32
  <2>2. /\ rsnd_format_to_bytes("U16_LE") = 2 /\ rsnd_format_to_bytes("S16_LE") = 2
        /\ rsnd_format_to_bytes("U16_BE") = 2 /\ rsnd_format_to_bytes("S16_BE") = 2
        /\ rsnd_format_to_bytes("U32_LE") = 4 /\ rsnd_format_to_bytes("S32_LE") = 4
        /\ rsnd_format_to_bytes("U32_BE") = 4 /\ rsnd_format_to_bytes("S32_BE") = 4
    BY FormatWidth DEF Formats, Formats16, Formats32
  <2>3. Turned("U16_LE", "S16_LE") => 
          /\ pulse_open.format \in Formats /\ rsnd_format_to_bytes(pulse_open.format) = Bytes
          /\ Same(f, x, pulse_open.format, c, m)
    BY <1>3, <2>1, <2>2 DEF Unsigned, BigEndian, Formats32
  <2>4. Turned("U16_BE", "S16_BE") => 
          /\ pulse_open.format \in Formats /\ rsnd_format_to_bytes(pulse_open.format) = Bytes
          /\ Same(f, x, pulse_open.format, c, m)
    BY <1>3, <2>1, <2>2 DEF Unsigned, BigEndian, Formats32
  <2>5. Turned("U32_LE", "S32_LE") => 
          /\ pulse_open.format \in Formats /\ rsnd_format_to_bytes(pulse_open.format) = Bytes
          /\ Same(f, x, pulse_open.format, c, m)
    BY <1>3, <2>1, <2>2 DEF Unsigned, BigEndian, Formats32
  <2>6. Turned("U32_BE", "S32_BE") => 
          /\ pulse_open.format \in Formats /\ rsnd_format_to_bytes(pulse_open.format) = Bytes
          /\ Same(f, x, pulse_open.format, c, m)
    BY <1>3, <2>1, <2>2 DEF Unsigned, BigEndian, Formats32
  <2> HIDE DEF Turned, f
  <2> QED
    BY <1>4, <2>3, <2>4, <2>5, <2>6 DEF f
<1>5. CASE f = "S8" /\ pulse_open = Opened("U8", {"S_TO_U"})
  <2>1. pulse_open.format = "U8" /\ pulse_open.conv = {"S_TO_U"} /\ "U8" \in Formats /\ "S8" \in Formats
        /\ "U8" \in Formats8 /\ "S8" \in Formats8
    BY <1>5 DEF Opened, Formats, Formats8
  <2>2. rsnd_format_to_bytes("S8") = 1 /\ rsnd_format_to_bytes("U8") = 1
    BY <2>1, FormatWidth
  <2>3. x \in Buffer(m) /\ c = audio_converter(x, "S8", {"S_TO_U"}, l)
    BY <1>5, <1>1, <2>1, <2>2
  <2>4. c \in Buffer(m) /\ \A i \in 0..(m - 1) : Amplitude("U8", Cell(c, i, 1)) = Amplitude("S8", Cell(x, i, 1))
    BY <1>1, <2>3, ToU8
  <2>5. \A v : Scaled("S8", "U8", v) = v
    BY <2>2 DEF Scaled
  <2>6. Same("S8", x, "U8", c, m)
    <3>1. c \in Buffer(m * 1)
      BY <2>4
    <3> QED
      BY <3>1, <2>2, <2>4, <2>5 DEF Same
  <2> QED
    BY <1>1, <1>5, <2>1, <2>2, <2>6
<1>6. CASE pulse_open = Opened(f, {})
  <2>1. pulse_open.format = f /\ pulse_open.conv = {}
    BY <1>6 DEF Opened
  <2> HIDE DEF f
  <2>2. x \in Buffer(m * rsnd_format_to_bytes(f)) /\ c = audio_converter(x, f, {}, l)
    BY <1>1, <2>1 DEF f
  <2>3. Same(f, x, f, audio_converter(x, f, {}, l), m)
    BY <1>1, <2>2, NoConversion
  <2> QED
    BY <1>1, <2>1, <2>2, <2>3 DEF f
<1> HIDE DEF Turned, f
<1> QED
  BY <1>2, <1>4, <1>5, <1>6 DEF f

\* What the open of a driver asks for.
Opens ==
  \/ Device = AsItIs
  \/ Device = Native16 /\ stream.driver \in {"ao", "porta", "al", "dsound", "oss"}
  \/ Device = Native32 /\ rsd_format \in Formats32 /\ stream.driver \in {"ao", "porta"}
  \/ Device = pulse_open /\ stream.driver = "pulse"

\* Every driver opens its device with one of these.
LEMMA DeviceOpens ==
  ASSUME stream \in StreamType
  PROVE  Opens
<1>1. stream.driver \in {"alsa", "ao", "al", "dsound", "oss", "porta", "pulse", "roarvs", "muroar"}
  BY AudioPathAssumption DEF StreamType
<1> DEFINE d == stream.driver
<1>2. CASE d = "ao"
  BY <1>2 DEF Opens, Device, ao_rsd_open
<1>3. CASE d = "porta"
  BY <1>3 DEF Opens, Device, porta_open
<1>4. CASE d = "al"
  BY <1>4 DEF Opens, Device, al_open
<1>5. CASE d = "dsound"
  BY <1>5 DEF Opens, Device, ds_rsd_open
<1>6. CASE d = "oss"
  BY <1>6 DEF Opens, Device, oss_open
<1>7. CASE d = "pulse"
  BY <1>7 DEF Opens, Device
<1>8. CASE d \in {"alsa", "roarvs", "muroar"}
  BY <1>8 DEF Opens, Device, alsa_open, roarvs_rsd_open, muroar_rsd_open
<1> QED
  BY <1>1, <1>2, <1>3, <1>4, <1>5, <1>6, <1>7, <1>8

\* Whatever it opened with, its conversion preserves the amplitudes, on the
\* scale of the device.
LEMMA DeviceConverts ==
  ASSUME stream \in StreamType, NEW m \in Nat, NEW x \in Buffer(m * Bytes),
         NEW c, c = audio_converter(x, rsd_format, Device.conv, stream.little)
  PROVE  /\ Device.format \in Formats /\ Same(rsd_format, x, Device.format, c, m)
         /\ stream.driver = "pulse" => rsnd_format_to_bytes(Device.format) = Bytes
<1> DEFINE f == rsd_format
           l == stream.little
<1>1. f \in Formats /\ Bytes = rsnd_format_to_bytes(f) /\ l \in BOOLEAN
  BY StreamFormats
<1>2. x \in Buffer(m * rsnd_format_to_bytes(f))
  BY <1>1
<1>3. CASE Device = AsItIs
  <2>1. Device.format = f /\ Device.conv = {}
    BY <1>3 DEF AsItIs, Opened
  <2> HIDE DEF f
  <2>2. Same(f, x, f, audio_converter(x, f, {}, l), m)
    BY <1>1, <1>2, NoConversion
  <2> QED
    BY <1>1, <2>1, <2>2 DEF f
<1>4. CASE Device = Native16 /\ stream.driver \in {"ao", "porta", "al", "dsound", "oss"}
  <2>1. Device.format = S16(l) /\ Device.conv = converter_fmt_to_s16ne(f, l)
    BY <1>4 DEF Native16, Opened
  <2>2. S16(l) \in Formats
    BY <1>1, HostFormats DEF Plain
  <2> HIDE DEF f, l
  <2>3. c = audio_converter(x, f, converter_fmt_to_s16ne(f, l), l)
    BY <2>1 DEF f, l
  <2>4. Same(f, x, S16(l), c, m)
    BY <1>1, <1>2, <2>3, As16
  <2> QED
    BY <1>4, <2>1, <2>2, <2>4 DEF f
<1>5. CASE Device = Native32 /\ f \in Formats32 /\ stream.driver \in {"ao", "porta"}
  <2>1. Device.format = S32(l) /\ Device.conv = converter_fmt_to_s32ne(f, l)
    BY <1>5 DEF Native32, Opened
  <2>2. S32(l) \in Formats
    BY <1>1, HostFormats DEF Plain
  <2> HIDE DEF f, l
  <2>3. c = audio_converter(x, f, converter_fmt_to_s32ne(f, l), l)
    BY <2>1 DEF f, l
  <2>4. Same(f, x, S32(l), c, m)
    BY <1>1, <1>2, <1>5, <2>3, As32
  <2> QED
    BY <1>5, <2>1, <2>2, <2>4 DEF f
<1>6. CASE Device = pulse_open /\ stream.driver = "pulse"
  BY <1>6, PulseConverts
<1> QED
  BY <1>3, <1>4, <1>5, <1>6, DeviceOpens DEF Opens

\* PortAudio is told too much of a compressed format: see osize.
ToldRight == ~(stream.driver = "porta" /\ rsd_format \in {"ALAW", "MULAW"})

\* Each driver is told as much of its format as it is to take.
LEMMA OsizeIs ==
  ASSUME stream \in StreamType, ToldRight, NEW t \in Nat
  PROVE  osize(t * Bytes) = t * rsnd_format_to_bytes(Device.format)
<1> DEFINE f == rsd_format
           l == stream.little
           d == stream.driver
           v == rsnd_format_to_bytes(Device.format)
           size == t * Bytes
<1>1. f \in Formats /\ Bytes = rsnd_format_to_bytes(f) /\ l \in BOOLEAN /\ Bytes \in {1, 2, 4}
  BY StreamFormats DEF Width
<1>7. Device.conv = {} \/ stream.driver = "pulse" => osize(t * Bytes) = t * Bytes
  BY Zenon DEF osize
<1>2. CASE Device = AsItIs
  <2>1. Device.format = f /\ Device.conv = {}
    BY <1>2 DEF AsItIs, Opened
  <2>2. rsnd_format_to_bytes(Device.format) = Bytes
    BY <1>1, <2>1
  <2> QED
    BY <1>7, <2>1, <2>2
<1>3. CASE Device = pulse_open /\ d = "pulse"
  <2>1. v = Bytes
    <3> DEFINE x == [k \in 1..0 |-> 0]
    <3>1. x \in Buffer(0) /\ 0 * Bytes = 0
      BY <1>1 DEF Buffer
    <3> HIDE DEF x
    <3>2. x \in Buffer(0 * Bytes)
      BY <3>1
    <3> QED
      BY <1>3, <3>2, DeviceConverts
  <2> QED
    BY <1>3, <2>1 DEF osize
<1>4. CASE Device = Native32 /\ f \in Formats32 /\ d \in {"ao", "porta"}
  <2>1. Device.format = S32(l) /\ v = 4 /\ Bytes = 4 /\ f \notin {"ALAW", "MULAW"}
    BY <1>1, <1>4, HostFormats, FormatWidth DEF Native32, Opened, Formats32
  <2>2. CASE Device.conv = {}
    BY <1>7, <2>1, <2>2
  <2>3. CASE Device.conv # {} /\ d = "ao"
    BY <2>1, <2>3 DEF osize, ao_rsd_write
  <2>4. CASE Device.conv # {} /\ d = "porta"
    BY <2>1, <2>4 DEF osize, porta_write
  <2> QED
    BY <1>4, <2>2, <2>3, <2>4
<1>5. CASE Device = Native16 /\ d \in {"ao", "porta", "al", "dsound", "oss"}
  <2>1. Device.format = S16(l) /\ v = 2 /\ Device.conv = converter_fmt_to_s16ne(f, l)
    BY <1>1, <1>5, HostFormats DEF Native16, Opened
  <2>2. CASE Device.conv = {}
    <3>1. Bytes = 2
      <4>1. f \notin Formats32 /\ f \notin Formats8
        BY <2>1, <2>2 DEF converter_fmt_to_s16ne, Formats32, Formats8
      <4> QED
        BY <1>1, <4>1, FormatWidth
    <3> QED
      BY <1>7, <2>1, <2>2, <3>1
  <2>3. CASE Device.conv # {}
    <3> DEFINE b == Bytes
    <3>1. b \in {1, 2, 4} /\ t \in Nat
      BY <1>1
    <3>2. CASE d = "ao"
      <4>1. b # 4
        BY <1>1, <1>5, <2>1, <3>2, FormatWidth, HostFormats DEF Device, ao_rsd_open, Native32, Opened
      <4>2. osize(size) = ao_rsd_write(size)
        BY <2>3, <3>2 DEF osize
      <4>3. ao_rsd_write(size) = (IF b = 1 THEN 2 * (t * b) ELSE t * b)
        BY DEF ao_rsd_write
      <4> HIDE DEF b
      <4> QED
        BY <4>1, <4>2, <4>3, <3>1, <2>1
    <3>3. CASE d = "porta"
      <4>1. b # 4 /\ f \notin {"ALAW", "MULAW"}
        BY <1>1, <1>5, <2>1, <3>3, FormatWidth, HostFormats DEF Device, porta_open, Native32, Opened, ToldRight
      <4>2. osize(size) = porta_write(size)
        BY <2>3, <3>3 DEF osize
      <4>3. porta_write(size) = (IF b = 1 THEN 2 * (t * b) ELSE t * b)
        BY <4>1 DEF porta_write
      <4> HIDE DEF b
      <4> QED
        BY <4>1, <4>2, <4>3, <3>1, <2>1
    <3>4. CASE d = "al"
      <4>2. osize(size) = al_write(size)
        BY <2>3, <3>4 DEF osize
      <4>3. al_write(size) = (IF b = 1 THEN 2 * (t * b) ELSE IF b = 2 THEN t * b ELSE (t * b) \div 2)
        BY <3>1 DEF al_write
      <4> HIDE DEF b
      <4> QED
        BY <4>2, <4>3, <3>1, <2>1
    <3>5. CASE d = "dsound"
      <4>2. osize(size) = ds_rsd_write(size)
        BY <2>3, <3>5 DEF osize
      <4>3. ds_rsd_write(size) = (IF b = 1 THEN 2 * (t * b) ELSE IF b = 2 THEN t * b ELSE (t * b) \div 2)
        BY <3>1 DEF ds_rsd_write
      <4> HIDE DEF b
      <4> QED
        BY <4>2, <4>3, <3>1, <2>1
    <3>6. CASE d = "oss"
      <4>2. osize(size) = oss_write(size)
        BY <2>3, <3>6 DEF osize
      <4>3. oss_write(size) = ((t * b) * 2) \div b
        BY DEF oss_write
      <4> HIDE DEF b
      <4> QED
        BY <4>2, <4>3, <3>1, <2>1
    <3> QED
      BY <1>5, <3>2, <3>3, <3>4, <3>5, <3>6
  <2> QED
    BY <2>2, <2>3
<1> QED
  BY <1>2, <1>3, <1>4, <1>5, DeviceOpens DEF Opens

\* The amplitudes of a buffer, cell by cell.
LEMMA AmplitudesAre ==
  ASSUME NEW fmt \in Formats, NEW t \in Nat, NEW v, v = rsnd_format_to_bytes(fmt), NEW y \in Buffer(t * v)
  PROVE  /\ Len(Amplitudes(fmt, y)) = t
         /\ \A i \in 1..t : Amplitudes(fmt, y)[i] = Amplitude(fmt, Cell(y, i - 1, v))
<1> DEFINE n == t * v
<1>1. v \in Width /\ n \in Nat /\ n \div v = t /\ Len(y) = n
  BY FormatWidth, Samples DEF Buffer
<1>2. Amplitudes(fmt, y) = [i \in 1..(Len(y) \div v) |-> Amplitude(fmt, SubSeq(y, (i - 1) * v + 1, i * v))]
  BY DEF Amplitudes
<1>3. Amplitudes(fmt, y) = [i \in 1..t |-> Amplitude(fmt, SubSeq(y, (i - 1) * v + 1, i * v))]
  BY <1>1, <1>2
<1>4. ASSUME NEW i \in 1..t PROVE SubSeq(y, (i - 1) * v + 1, i * v) = Cell(y, i - 1, v)
  <2> DEFINE j == i - 1
  <2>1. j \in 0..(t - 1) /\ j \in Nat
    OBVIOUS
  <2>2. i * v = j * v + v
    BY <1>1 DEF Width
  <2> HIDE DEF j
  <2>3. n <= n
    BY <1>1
  <2>4. j * v + v <= n
    BY <1>1, <2>1, <2>3, CellInside
  <2> HIDE DEF n
  <2>5. y \in Buffer(n)
    BY DEF n
  <2>6. SubSeq(y, j * v + 1, j * v + v) = Cell(y, j, v)
    BY <1>1, <2>1, <2>4, <2>5, CellIs
  <2> QED
    BY <2>2, <2>6 DEF j
<1>5. Len(Amplitudes(fmt, y)) = t
  BY <1>3
<1>6. ASSUME NEW i \in 1..t PROVE Amplitudes(fmt, y)[i] = Amplitude(fmt, Cell(y, i - 1, v))
  BY <1>3, <1>4
<1> QED
  BY <1>5, <1>6

\* A device that takes t samples of x.
Plays(x, t, y) ==
  /\ Len(Amplitudes(Device.format, y)) = t
  /\ \A i \in 1..t : Amplitudes(Device.format, y)[i]
       = Scaled(rsd_format, Device.format, Amplitude(rsd_format, Cell(x, i - 1, Bytes)))

\* A driver that hands t samples of x to the device, whose size it converts
\* with osize, has the device play those t samples.
LEMMA TakesPlays ==
  ASSUME stream \in StreamType, ToldRight, NEW m \in Nat, NEW x \in Buffer(m * Bytes), NEW t \in 0..m
  PROVE  Plays(x, t, Takes(x, osize(t * Bytes)))
<1> DEFINE to == Device.format
           v  == rsnd_format_to_bytes(to)
           c  == audio_converter(x, rsd_format, Device.conv, stream.little)
           n  == t * v
           z  == m * v
           y  == SubSeq(c, 1, n)
<1>1. to \in Formats /\ Same(rsd_format, x, to, c, m)
  BY DeviceConverts
<1>2. v \in Width
  BY <1>1, FormatWidth
<1>3. /\ c \in Buffer(z)
      /\ \A i \in 0..(m - 1) : Amplitude(to, Cell(c, i, v))
           = Scaled(rsd_format, to, Amplitude(rsd_format, Cell(x, i, Bytes)))
  BY <1>1, StreamFormats DEF Same
<1>4. osize(t * Bytes) = n
  BY OsizeIs
<1>5. Takes(x, n) = SubSeq(c \o (IF n > Len(c) THEN [i \in 1..(n - Len(c)) |-> 0] ELSE << >>), 1, n)
  BY DEF Takes
<1>6. z \in Nat /\ n \in Nat /\ n <= z
  <2>1. (v = 1 /\ n = t /\ z = m) \/ (v = 2 /\ n = 2 * t /\ z = 2 * m) \/ (v = 4 /\ n = 4 * t /\ z = 4 * m)
    BY <1>2 DEF Width
  <2> HIDE DEF v, n, z
  <2> QED
    BY <2>1
<1>14. z = m * v /\ n = t * v
  OBVIOUS
<1> HIDE DEF z, n, v, to
<1>7. Takes(x, n) = y
  <2>1. Len(c) = z /\ c \in Seq(Byte)
    BY <1>3, <1>6 DEF Buffer
  <2> HIDE DEF c
  <2>2. ~(n > Len(c))
    BY <1>6, <2>1
  <2>3. Takes(x, n) = SubSeq(c \o << >>, 1, n)
    BY <1>5, <2>2
  <2>4. c \o << >> = c
    BY <2>1
  <2> QED
    BY <2>3, <2>4
<1> HIDE DEF c
<1>8. y \in Buffer(n) /\ \A i \in Nat : i * v + v <= n => Cell(y, i, v) = Cell(c, i, v)
  BY <1>2, <1>3, <1>6, CutIs
<1> HIDE DEF y
<1>9. /\ Len(Amplitudes(to, y)) = t
      /\ \A i \in 1..t : Amplitudes(to, y)[i] = Amplitude(to, Cell(y, i - 1, v))
  BY <1>1, <1>8, <1>14, AmplitudesAre DEF v
<1>10. ASSUME NEW i \in 1..t
       PROVE  Amplitudes(to, y)[i] = Scaled(rsd_format, to, Amplitude(rsd_format, Cell(x, i - 1, Bytes)))
  <2> DEFINE j == i - 1
  <2>1. j \in 0..(t - 1) /\ j \in 0..(m - 1) /\ j \in Nat
    OBVIOUS
  <2>2. Amplitudes(to, y)[i] = Amplitude(to, Cell(y, j, v))
    BY <1>9
  <2> HIDE DEF j
  <2>3. j * v + v <= n
    <3>1. t * v <= n
      BY <1>6, <1>14
    <3> QED
      BY <1>2, <1>6, <2>1, <3>1, CellInside
  <2>4. Cell(y, j, v) = Cell(c, j, v)
    BY <1>8, <2>1, <2>3
  <2>5. Amplitude(to, Cell(c, j, v)) = Scaled(rsd_format, to, Amplitude(rsd_format, Cell(x, j, Bytes)))
    BY <1>3, <2>1
  <2> QED
    BY <2>2, <2>4, <2>5 DEF j
<1>11. Plays(x, t, y)
  BY <1>9, <1>10 DEF Plays, to
<1> QED
  BY <1>4, <1>7, <1>11

-----------------------------------------------------------------------------
(* What the client sent *)

\* The amplitude of a sample is a number of 16 bits, or of 32.
LEMMA AmplitudeRange ==
  ASSUME NEW n \in Nat, NEW x \in Buffer(n), NEW fmt \in Formats, NEW w, w = rsnd_format_to_bytes(fmt),
         NEW i \in Nat, i * w + w <= n
  PROVE  InRange(Amplitude(fmt, Cell(x, i, w)), IF w = 4 THEN 4 ELSE 2)
<1>1. w \in Width
  BY FormatWidth
<1>2. CASE fmt \in {"ALAW", "MULAW"}
  <2>1. fmt \in Formats8
    BY <1>2 DEF Formats8
  <2>2. w = 1 /\ i \in 0..(n - 1)
    BY <2>1, FormatWidth
  <2>3. x[i + 1] \in Byte
    BY <2>2, ByteLoad
  <2>4. InRange(ALAWTable(x[i + 1]), 2) /\ InRange(MULAWTable(x[i + 1]), 2)
    BY <2>3, LawRanges
  <2>5. /\ Amplitude("ALAW", Cell(x, i, 1)) = ALAWTable(x[i + 1])
        /\ Amplitude("MULAW", Cell(x, i, 1)) = MULAWTable(x[i + 1])
    BY <2>2, LawAmplitude
  <2> QED
    BY <1>2, <2>2, <2>4, <2>5
<1>3. CASE fmt \notin {"ALAW", "MULAW"}
  <2> DEFINE u == Load(x, i, w, fmt \notin BigEndian)
             v == Level(fmt, u, w)
  <2>1. Amplitude(fmt, Cell(x, i, w)) = v * Scale(w)
    BY <1>1, <1>3, AmplitudeOf DEF Plain
  <2>2. u \in 0..(Base^w - 1)
    BY <1>1, LoadIs
  <2> HIDE DEF u
  <2>3. InRange(v, w)
    <3>1. InRange(Signed(u, w), w)
      BY <1>1, <2>2, SignedRange
    <3>2. InRange(u - Half(w), w)
      <4> DEFINE b == Base^w
                 h == Half(w)
      <4>1. h \in Nat /\ 2 * h = b /\ u \in 0..(b - 1)
        BY <1>1, <2>2, HalfFacts
      <4> HIDE DEF b, h
      <4>2. u - h \in Int /\ -h <= u - h /\ u - h < h
        BY <4>1
      <4> QED
        BY <4>2 DEF InRange, h
    <3> QED
      BY <3>1, <3>2 DEF Level
  <2> HIDE DEF v
  <2>4. CASE w = 1
    <3>1. InRange(v * Base, 2)
      BY <2>3, <2>4, WidenRange
    <3> QED
      BY <2>1, <2>4, <3>1 DEF Scale
  <2>5. CASE w # 1
    <3>1. v * 1 = v
      BY <2>3 DEF InRange
    <3> QED
      BY <1>1, <2>1, <2>3, <2>5, <3>1 DEF Scale, Width
  <2> QED
    BY <2>4, <2>5
<1> QED
  BY <1>2, <1>3

\* An amplitude is an integer.
LEMMA AmplitudeInt ==
  ASSUME NEW n \in Nat, NEW x \in Buffer(n), NEW fmt \in Formats, NEW w, w = rsnd_format_to_bytes(fmt),
         NEW i \in Nat, i * w + w <= n
  PROVE  Amplitude(fmt, Cell(x, i, w)) \in Int
BY AmplitudeRange DEF InRange

\* The client's sample k, and its amplitude.
Sample(k) ==
  LET w == rsnd_format_to_bytes(stream.fmt)
  IN  [q \in 1..w |-> stream.wave[((k * w + q - 1) % Period) + 1]]

Sound(k) == Amplitude(stream.fmt, Sample(k))

\* The wave repeats.
LEMMA WaveIs ==
  ASSUME stream \in StreamType, NEW k \in Int
  PROVE  stream.wave[(k % Period) + 1] \in Byte
<1>1. Period \in Nat /\ Period > 0
  BY AudioPathAssumption
<1>2. (k % Period) \in 0..(Period - 1)
  BY <1>1, DivMod
<1>3. (k % Period) + 1 \in 1..Period
  BY <1>1, <1>2
<1>4. stream.wave \in [1..Period -> 0..(Base - 1)]
  BY DEF StreamType
<1> QED
  BY <1>3, <1>4 DEF Byte

\* The client's bytes, sample by sample.
LEMMA SentIs ==
  ASSUME stream \in StreamType, NEW p \in Nat, NEW m \in Nat, NEW w, w = rsnd_format_to_bytes(stream.fmt)
  PROVE  /\ Sent(p, m) \in Buffer(m * w)
         /\ \A s \in 0..(m - 1) : Cell(Sent(p, m), s, w) = Sample(p + s)
<1> DEFINE x == Sent(p, m)
           at(k) == stream.wave[(k % Period) + 1]
<1>1. w \in Width /\ m * w \in Nat
  <2>1. stream.fmt \in Formats
    BY DEF StreamType
  <2> QED
    BY <2>1, FormatWidth, Samples
<1>4. x = [k \in 1..(m * w) |-> at((p * w) + k - 1)]
  BY DEF Sent
<1>5. \A k \in Int : at(k) \in Byte
  BY WaveIs
<1>7. \A s : Sample(s) = [q \in 1..w |-> at((s * w) + q - 1)]
  BY DEF Sample
<1> HIDE DEF at, x
<1>8. x \in Buffer(m * w)
  <2> DEFINE b == p * w
             z == m * w
  <2>1. b \in Nat /\ z \in Nat
    BY <1>1, Samples
  <2> HIDE DEF b, z
  <2>2. \A k \in 1..z : at(b + k - 1) \in Byte
    BY <1>5, <2>1
  <2>3. x = [k \in 1..z |-> at(b + k - 1)]
    BY <1>4 DEF b, z
  <2>4. x \in Buffer(z)
    BY <2>2, <2>3 DEF Buffer
  <2> QED
    BY <2>4 DEF z
<1>9. ASSUME NEW s \in 0..(m - 1) PROVE Cell(x, s, w) = Sample(p + s)
  <2>1. s \in Nat /\ s * w \in Nat /\ s * w + w <= m * w
    <3> DEFINE z == m * w
    <3>1. z \in Nat /\ z <= z
      BY <1>1
    <3>2. m * w <= z
      BY <3>1
    <3> HIDE DEF z
    <3>3. s * w \in Nat /\ s * w + w <= z
      BY <1>1, <3>1, <3>2, CellInside
    <3> QED
      BY <3>3 DEF z
  <2> DEFINE a == s * w
             b == p * w
             z == m * w
             h == (p + s) * w
  <2>2. h = b + a /\ b \in Nat /\ z \in Nat
    <3>1. w = 1 \/ w = 2 \/ w = 4
      BY <1>1 DEF Width
    <3> QED
      BY <3>1, <1>1, <2>1
  <2>3. Cell(x, s, w) = [q \in 1..w |-> x[a + q]] /\ Sample(p + s) = [q \in 1..w |-> at(h + q - 1)]
    BY <1>7 DEF Cell
  <2>4. x = [k \in 1..z |-> at(b + k - 1)] /\ a \in Nat /\ a + w <= z /\ w \in Nat
    BY <1>1, <1>4, <2>1 DEF Width
  <2> HIDE DEF a, b, z, h
  <2>5. \A q \in 1..w : x[a + q] = at(h + q - 1)
    <3> SUFFICES ASSUME NEW q \in 1..w PROVE x[a + q] = at(h + q - 1)
      OBVIOUS
    <3>1. a + q \in 1..z /\ b + (a + q) - 1 = h + q - 1
      BY <2>2, <2>4
    <3>2. x[a + q] = at(b + (a + q) - 1)
      BY <2>4, <3>1
    <3> QED
      BY <3>1, <3>2
  <2> QED
    BY <2>3, <2>5
<1> QED
  BY <1>8, <1>9 DEF x

\* What the client means by sample k fits its format.
LEMMA SoundRange ==
  ASSUME stream \in StreamType, NEW k \in Nat
  PROVE  InRange(Sound(k), IF rsnd_format_to_bytes(stream.fmt) = 4 THEN 4 ELSE 2)
<1> DEFINE w == rsnd_format_to_bytes(stream.fmt)
           x == Sample(k)
<1>1. w \in Width /\ w \in Nat /\ stream.fmt \in Formats
  BY FormatWidth DEF StreamType, Width
<1>2. k * w \in Nat
  BY <1>1
<1>3. x \in Buffer(w)
  <2>1. x = [q \in 1..w |-> stream.wave[((k * w + q - 1) % Period) + 1]]
    BY DEF Sample
  <2>2. \A q \in 1..w : k * w + q - 1 \in Int
    BY <1>1, <1>2
  <2>3. \A q \in 1..w : stream.wave[((k * w + q - 1) % Period) + 1] \in Byte
    BY <2>2, WaveIs
  <2> QED
    BY <2>1, <2>3 DEF Buffer
<1> HIDE DEF x
<1>4. Cell(x, 0, w) = x
  <2>1. Cell(x, 0, w) = [q \in 1..w |-> x[0 * w + q]]
    BY DEF Cell
  <2>2. \A q \in 1..w : 0 * w + q = q
    BY <1>1
  <2>3. Cell(x, 0, w) = [q \in 1..w |-> x[q]]
    BY <2>1, <2>2
  <2> QED
    BY <1>3, <2>3 DEF Buffer
<1>5. 0 * w + w <= w
  BY <1>1
<1>6. InRange(Amplitude(stream.fmt, Cell(x, 0, w)), IF w = 4 THEN 4 ELSE 2)
  BY <1>1, <1>3, <1>5, AmplitudeRange
<1> QED
  BY <1>4, <1>6 DEF Sound, x

\* And is an integer.
LEMMA SoundInt ==
  ASSUME stream \in StreamType, NEW k \in Nat
  PROVE  Sound(k) \in Int
BY SoundRange DEF InRange

\* The amplitude the device is to have, without the frame around it.
LEMMA MeantIs ==
  ASSUME stream \in StreamType, NEW k \in Nat
  PROVE  Meant(k) = Scaled(rsd_format, Device.format, Sound(k))
<1> DEFINE w == rsnd_format_to_bytes(stream.fmt)
           x == Sent(k, 1)
<1>1. w \in Width /\ stream.fmt \in Formats
  BY FormatWidth DEF StreamType
<1>2. 1 * w = w
  BY <1>1 DEF Width
<1>3. Sent(k, 1) = Sample(k)
  <2>1. Sent(k, 1) = [q \in 1..(1 * w) |-> stream.wave[(((k * w) + q - 1) % Period) + 1]]
    BY DEF Sent
  <2> QED
    BY <1>2, <2>1 DEF Sample
<1>4. Meant(k) = IF stream.fmt \in Formats32 /\ Device.format \notin Formats32 THEN Sound(k) \div Base^2
                 ELSE Sound(k)
  BY <1>3 DEF Meant, Sound
<1>5. stream.fmt \in Formats32 <=> rsnd_format_to_bytes(rsd_format) = 4
  <2>1. rsnd_format_to_bytes(stream.fmt) = 4 <=> stream.fmt \in Formats32
    BY <1>1, FormatWidth
  <2> QED
    BY <2>1, StreamFormats
<1> QED
  BY <1>4, <1>5 DEF Scaled

\* What samples of 32 bits may be off by, in steps of the one width or the other.
Off == IF Bytes = 4 THEN Blur ELSE 0

\* It is at most the tolerance on the scale of the device.
LEMMA ScaledNear ==
  ASSUME stream \in StreamType, NEW a \in Int, NEW b \in Int, a - b \in -(1 + Off)..(1 + Off)
  PROVE  Scaled(rsd_format, Device.format, a) - Scaled(rsd_format, Device.format, b) \in -Tolerance..Tolerance
<1> DEFINE d == Base^2
           p == a \div d
           q == b \div d
           e == Blur \div d
           o == Off
<1>1. d \in Nat /\ d > 0 /\ Blur \in Nat
  BY Halves, AudioPathAssumption DEF Halved, Width
<1>2. Bytes = 4 <=> rsd_format \in Formats32
  BY StreamFormats
<1>3. rsd_format \in Formats32 <=> stream.fmt \in Formats32
  BY StreamFormats, FormatWidth
<1>4. Bytes = rsnd_format_to_bytes(rsd_format)
  BY DEF Bytes
<1>5. o \in Nat /\ a - b \in -(1 + o)..(1 + o)
  BY <1>1 DEF Off
<1>6. CASE Bytes # 4
  <2>1. o = 0 /\ Tolerance = 1
    BY <1>2, <1>3, <1>6 DEF Off, Tolerance
  <2>2. \A v : Scaled(rsd_format, Device.format, v) = v
    BY <1>4, <1>6 DEF Scaled
  <2> QED
    BY <1>5, <2>1, <2>2
<1>7. CASE Bytes = 4 /\ Device.format \in Formats32
  <2>1. o = Blur /\ Tolerance = 1 + Blur
    BY <1>2, <1>3, <1>7 DEF Off, Tolerance
  <2>2. \A v : Scaled(rsd_format, Device.format, v) = v
    BY <1>7 DEF Scaled
  <2> HIDE DEF o
  <2> QED
    BY <1>5, <2>1, <2>2
<1>8. CASE Bytes = 4 /\ Device.format \notin Formats32
  <2>1. o = Blur /\ Tolerance = 1 + e
    BY <1>2, <1>3, <1>8 DEF Off, Tolerance
  <2>2. Scaled(rsd_format, Device.format, a) = p /\ Scaled(rsd_format, Device.format, b) = q
    BY <1>4, <1>8 DEF Scaled
  <2> HIDE DEF d, o
  <2>3. /\ p \in Int /\ d * p <= a /\ a < d * p + d /\ q \in Int /\ d * q <= b /\ b < d * q + d
        /\ e \in Nat /\ Blur < d * e + d
    BY <1>1, DivMod
  <2> HIDE DEF p, q, e
  <2>4. ASSUME NEW u \in Int, NEW v \in Int, NEW y \in Int, NEW z \in Int,
               d * u <= y, z < d * v + d, y <= z + 1 + Blur
        PROVE  u <= v + 1 + e
    <3> SUFFICES ASSUME u > v + 1 + e PROVE FALSE
      BY <2>3
    <3>1. PICK g \in Nat : u = v + 2 + e + g
      <4>1. u - v - 2 - e \in Nat /\ u = v + 2 + e + (u - v - 2 - e)
        BY <2>3
      <4> QED
        BY <4>1
    <3>2. d * u = d * v + d + d + d * e + d * g /\ d * g \in Nat /\ d * v \in Int /\ d * e \in Nat
      BY <1>1, <2>3, <3>1
    <3> QED
      BY <1>1, <2>3, <2>4, <3>2
  <2>5. p <= q + 1 + e /\ q <= p + 1 + e
    <3>1. a <= b + 1 + Blur /\ b <= a + 1 + Blur
      BY <1>1, <1>5, <2>1
    <3> QED
      BY <2>3, <2>4, <3>1
  <2>6. p - q \in -(1 + e)..(1 + e)
    BY <2>3, <2>5
  <2> QED
    BY <2>1, <2>2, <2>6
<1> QED
  BY <1>6, <1>7, <1>8

-----------------------------------------------------------------------------
(* The invariant *)

\* What sample k of the stream for the device may be.
Right(k, a) ==
  IF ~stream.resample THEN a = Sound(k)
  ELSE LET x == k \div Channels
       IN  EnoughFrames /\ Pos(x) * P = x * Q =>
             a - Sound((Pos(x) * Channels) + (k % Channels)) \in -(1 + Off)..(1 + Off)

\* The samples of the chunk that somebody wrote.
Made(s) == ~stream.resample \/ s < Frames * Channels

\* Whole samples of the chunk are written, and it holds the right amplitudes.
ChunkRight ==
  pc = "write" =>
    /\ ChunkStart \in Nat
    /\ buffer \in Buffer(ChunkSamples * Bytes)
    /\ \E b \in 0..(ChunkSamples - 1) : written = b * Bytes
    /\ \A s \in 0..(ChunkSamples - 1) :
         Made(s) => Right(ChunkStart + s, Amplitude(rsd_format, Cell(buffer, s, Bytes)))

\* The resampler has been given the amplitudes the client sent.
InputRight ==
  stream.resample =>
    \A j \in 1..Len(input), c \in 1..Channels : input[j][c] = Sound(((j - 1) * Channels) + c - 1)

\* The thread is in the resampler or in the driver, not in both.
OnePlace == step \in {"fill", "process"} => stream.resample /\ pc # "write"

PathInv ==
  /\ stream \in StreamType /\ received \in Nat /\ RInv
  /\ OnePlace /\ InputRight /\ ChunkRight /\ DeviceHears

\* A chunk has samples, and room for the frames of the resampler.
LEMMA ChunkSizes ==
  /\ ChunkSamples \in Nat \ {0}
  /\ Frames * Channels \in Nat /\ Frames * Channels <= ChunkSamples
<1> DEFINE N == Frames * Channels
           C == Channels
<1>1. C \in Nat /\ C > 0 /\ Frames \in Nat /\ Frames > 0 /\ Size \in Nat /\ Frames = Size \div C
  <2>1. C \in Nat /\ C > 0 /\ Frames \in Nat /\ Frames > 0
    BY ResamplerAssumption
  <2>2. Size \in Nat /\ Frames = Size \div C
    BY AudioPathAssumption
  <2> QED
    BY <2>1, <2>2
<1>2. N \in Nat /\ N > 0 /\ N = C * Frames
  <2>1. PICK e \in Nat : C = 1 + e
    <3>1. C - 1 \in Nat /\ C = 1 + (C - 1)
      BY <1>1
    <3> QED
      BY <3>1
  <2>2. N = Frames + Frames * e /\ Frames * e \in Nat
    BY <1>1, <2>1
  <2>3. N = C * Frames
    BY <1>1
  <2> HIDE DEF N
  <2> QED
    BY <1>1, <2>2, <2>3
<1> HIDE DEF N
<1>3. N <= Size
  BY <1>1, <1>2, DivMod
<1>4. ChunkSamples = N \/ ChunkSamples = Size
  BY Zenon DEF ChunkSamples, N
<1> QED
  BY <1>1, <1>2, <1>3, <1>4 DEF N

-----------------------------------------------------------------------------
(* A write *)

\* What is left of the chunk after b samples are the samples from b on.
LEMMA RestIs ==
  ASSUME stream \in StreamType, NEW M \in Nat, buffer \in Buffer(M * Bytes), NEW b \in 0..M, written = b * Bytes
  PROVE  /\ Len(buffer) = M * Bytes /\ Rest \in Buffer((M - b) * Bytes) /\ Len(Rest) = (M - b) * Bytes
         /\ \A i \in 0..((M - b) - 1) : Cell(Rest, i, Bytes) = Cell(buffer, b + i, Bytes)
<1> DEFINE w == Bytes
           n == M * w
           a == b * w
           m == M - b
           r == m * w
<1>1. w \in Width /\ w \in Nat
  BY StreamFormats DEF Width
<1>2. n \in Nat /\ a \in Nat /\ m \in Nat /\ r \in Nat /\ r = n - a /\ a <= n
  <2>1. m \in Nat /\ b \in Nat
    OBVIOUS
  <2>2. CASE w = 1
    BY <2>1, <2>2
  <2>3. CASE w = 2
    BY <2>1, <2>3
  <2>4. CASE w = 4
    BY <2>1, <2>4
  <2> QED
    BY <1>1, <2>2, <2>3, <2>4 DEF Width
<1>3. buffer \in Seq(Byte) /\ Len(buffer) = n
  <2> HIDE DEF n
  <2>1. buffer \in Buffer(n)
    BY DEF n
  <2> QED
    BY <1>2, <2>1 DEF Buffer
<1>4. Rest = SubSeq(buffer, a + 1, n)
  BY <1>3 DEF Rest
<1>10. written = a /\ \A i : i * w = i * w
  OBVIOUS
<1>5. Rest \in Seq(Byte) /\ Len(Rest) = r /\ \A k \in 1..r : Rest[k] = buffer[a + k]
  <2> HIDE DEF n, a, r
  <2> QED
    BY <1>2, <1>3, <1>4, SubSeqFacts
<1>6. Rest \in Buffer(r)
  <2> HIDE DEF r
  <2> QED
    BY <1>2, <1>5 DEF Buffer
<1>7. ASSUME NEW i \in 0..(m - 1) PROVE Cell(Rest, i, w) = Cell(buffer, b + i, w)
  <2> DEFINE p == i * w
             d == (b + i) * w
  <2>1. p \in Nat /\ p + w <= r /\ d = a + p
    <3>1. r <= r
      BY <1>2
    <3>2. p \in Nat /\ p + w <= r
      <4> HIDE DEF m
      <4> QED
        BY <1>1, <1>2, <3>1, CellInside
    <3>3. d = a + p
      <4>1. b \in Nat /\ i \in Nat
        OBVIOUS
      <4> QED
        BY <1>1, <4>1 DEF Width
    <3> QED
      BY <3>2, <3>3
  <2>2. Cell(Rest, i, w) = [k \in 1..w |-> Rest[p + k]] /\ Cell(buffer, b + i, w) = [k \in 1..w |-> buffer[d + k]]
    BY DEF Cell
  <2> HIDE DEF p, d, a, r, m, n, w
  <2>3. \A k \in 1..w : Rest[p + k] = buffer[d + k]
    <3> SUFFICES ASSUME NEW k \in 1..w PROVE Rest[p + k] = buffer[d + k]
      OBVIOUS
    <3>1. p + k \in 1..r /\ a + (p + k) = d + k
      BY <1>1, <1>2, <2>1
    <3> QED
      BY <1>5, <3>1
  <2> QED
    BY <2>2, <2>3
<1> QED
  BY <1>3, <1>5, <1>6, <1>7

\* What DeviceHears says of one write.
Fine(h) ==
  ToldRight =>
    LET plays == Amplitudes(Device.format, h.bytes) IN
    /\ Len(plays) * Bytes = h.n
    /\ \A i \in 1..Len(plays) :
         LET s == h.at + i - 1
             k == h.start + s
             x == k \div Channels
         IN
         IF ~stream.resample THEN plays[i] = Meant(k)
         ELSE EnoughFrames /\ s < Frames * Channels /\ Pos(x) * P = x * Q =>
                plays[i] - Meant((Pos(x) * Channels) + (k % Channels)) \in -Tolerance..Tolerance

\* What the device may play for sample k.
MayPlay(k, y) ==
  LET x == k \div Channels
  IN  IF ~stream.resample THEN y = Meant(k)
      ELSE EnoughFrames /\ Pos(x) * P = x * Q =>
             y - Meant((Pos(x) * Channels) + (k % Channels)) \in -Tolerance..Tolerance

\* A right amplitude, on the scale of the device, is what the client meant.
LEMMA RightPlays ==
  ASSUME stream \in StreamType, NEW k \in Nat, NEW a \in Int, Right(k, a),
         NEW y, y = Scaled(rsd_format, Device.format, a)
  PROVE  MayPlay(k, y)
<1> DEFINE x == k \div Channels
           g == (Pos(x) * Channels) + (k % Channels)
<1>1. x \in Nat /\ g \in Nat
  <2>1. Channels \in Nat /\ Channels > 0
    BY ResamplerAssumption
  <2>2. x \in Nat /\ (k % Channels) \in Nat
    BY <2>1, DivMod
  <2> HIDE DEF x
  <2>3. Pos(x) \in Nat
    BY <2>2, PosType
  <2>4. Pos(x) * Channels \in Nat
    BY <2>1, <2>3
  <2> QED
    BY <2>2, <2>4
<1>2. CASE ~stream.resample
  <2>1. a = Sound(k)
    BY <1>2 DEF Right
  <2> QED
    BY <1>2, <2>1, MeantIs DEF MayPlay
<1>3. CASE stream.resample
  <2> SUFFICES ASSUME EnoughFrames, Pos(x) * P = x * Q PROVE y - Meant(g) \in -Tolerance..Tolerance
    BY <1>3 DEF MayPlay
  <2>1. a - Sound(g) \in -(1 + Off)..(1 + Off)
    BY <1>3 DEF Right
  <2> HIDE DEF g
  <2>2. Meant(g) = Scaled(rsd_format, Device.format, Sound(g)) /\ Sound(g) \in Int
    BY <1>1, MeantIs, SoundInt
  <2> QED
    BY <2>1, <2>2, ScaledNear
<1> QED
  BY <1>2, <1>3

\* When the chunk is right, what any part of it plays is what the client meant.
LEMMA Delivered ==
  ASSUME stream \in StreamType, ChunkRight, pc = "write",
         NEW b \in 0..ChunkSamples, written = b * Bytes,
         NEW t \in 0..(ChunkSamples - b), NEW n, n = t * Bytes, Hear(n)
  PROVE  Fine(heard')
<1> DEFINE M == ChunkSamples
           m == M - b
           w == Bytes
           S == ChunkStart
           h == heard'
           plays == Amplitudes(Device.format, h.bytes)
           V(i) == Amplitude(rsd_format, Cell(buffer, b + (i - 1), w))
<1>1. w \in Width /\ M \in Nat /\ S \in Nat /\ m \in Nat /\ b \in Nat
  BY ChunkSizes, StreamFormats DEF ChunkRight
<1>2. /\ buffer \in Buffer(M * w)
      /\ \A s \in 0..(M - 1) : Made(s) => Right(S + s, Amplitude(rsd_format, Cell(buffer, s, w)))
  BY DEF ChunkRight
<1>3. b \div 1 = b /\ h = [start |-> S, at |-> written \div w, n |-> n, bytes |-> Takes(Rest, osize(n))]
  BY <1>1 DEF Hear
<1>4. /\ Rest \in Buffer(m * w)
      /\ \A i \in 0..(m - 1) : Cell(Rest, i, w) = Cell(buffer, b + i, w)
  BY <1>1, <1>2, RestIs
<1>6. h.start = S /\ h.at = b /\ h.n = t * w /\ h.bytes = Takes(Rest, osize(t * Bytes))
  <2>1. (b * w) \div w = b
    BY <1>1, Samples
  <2> QED
    BY <1>3, <2>1
<1> HIDE DEF h, S
<1> SUFFICES ASSUME ToldRight
             PROVE  /\ Len(plays) * Bytes = h.n
                    /\ \A i \in 1..Len(plays) : Made(b + (i - 1)) => MayPlay(S + (b + (i - 1)), plays[i])
  <2>1. ASSUME NEW i, i \in 1..Len(plays) PROVE h.at + i - 1 = b + (i - 1) /\ h.start + (h.at + i - 1) = S + (b + (i - 1))
    BY <1>1, <1>6, <2>1
  <2> QED
    BY <2>1, Zenon DEF Fine, MayPlay, Made, h
<1>5. Plays(Rest, t, h.bytes)
  <2> HIDE DEF m
  <2>1. t \in 0..m
    BY DEF m
  <2>2. Plays(Rest, t, Takes(Rest, osize(t * Bytes)))
    BY <1>1, <1>4, <2>1, TakesPlays
  <2> QED
    BY <1>6, <2>2
<1>7. Len(plays) = t
  BY <1>5 DEF Plays
<1>8. ASSUME NEW i \in 1..t, Made(b + (i - 1)) PROVE MayPlay(S + (b + (i - 1)), plays[i])
  <2> DEFINE s == b + (i - 1)
             k == S + s
  <2>1. i - 1 \in 0..(m - 1) /\ s \in 0..(M - 1) /\ k \in Nat /\ s \in Nat
    <3> HIDE DEF M
    <3> QED
      BY <1>1 DEF M
  <2>2. plays[i] = Scaled(rsd_format, Device.format, Amplitude(rsd_format, Cell(Rest, i - 1, w)))
    BY <1>5 DEF Plays
  <2>3. Cell(Rest, i - 1, w) = Cell(buffer, s, w)
    BY <1>4, <2>1
  <2>4. Right(k, V(i))
    BY <1>2, <1>8, <2>1
  <2>5. V(i) \in Int
    <3> DEFINE z == M * w
    <3>1. z \in Nat /\ z <= z /\ buffer \in Buffer(z)
      BY <1>1, <1>2, Samples
    <3>2. s * w + w <= z
      BY <1>1, <2>1, <3>1, CellInside
    <3> HIDE DEF z, s
    <3>3. Amplitude(rsd_format, Cell(buffer, s, w)) \in Int
      BY <2>1, <3>1, <3>2, StreamFormats, AmplitudeInt
    <3> QED
      BY <3>3 DEF s
  <2>6. plays[i] = Scaled(rsd_format, Device.format, V(i))
    BY <2>2, <2>3
  <2> HIDE DEF V, k, plays
  <2>7. MayPlay(k, plays[i])
    BY <2>1, <2>4, <2>5, <2>6, RightPlays
  <2> QED
    BY <2>7 DEF k
<1> HIDE DEF plays
<1> QED
  BY <1>6, <1>7, <1>8

-----------------------------------------------------------------------------
(* Frames and samples *)

\* The samples of a frame lie next to each other.
LEMMA FrameIndex ==
  ASSUME NEW C \in Nat, NEW n \in Nat, NEW j \in 1..n, NEW c \in 1..C
  PROVE  /\ (j - 1) * C \in Nat /\ ((j - 1) * C) + c - 1 \in 0..(n * C - 1)
<1> DEFINE e == j - 1
           g == e * C
<1>1. PICK d \in Nat : n = e + 1 + d
  <2>1. n - j \in Nat /\ n = e + 1 + (n - j)
    OBVIOUS
  <2> QED
    BY <2>1
<1>2. e \in Nat
  OBVIOUS
<1> HIDE DEF e
<1>3. g \in Nat /\ n * C = g + C + d * C /\ d * C \in Nat
  BY <1>1, <1>2
<1> HIDE DEF g
<1>4. g + c - 1 \in 0..(n * C - 1)
  BY <1>3
<1> QED
  BY <1>3, <1>4 DEF g, e

\* The bytes that the callback asks for.
Asked(w) == IF w = 4 THEN converter_fmt_to_s32ne(stream.fmt, stream.little)
                     ELSE converter_fmt_to_s16ne(stream.fmt, stream.little)

\* The frames that the callback of the resampler makes of the client's bytes
\* have the amplitudes that the client sent.
LEMMA FramesAre ==
  ASSUME stream \in StreamType, NEW k \in Nat, NEW n \in Nat,
         NEW w, w = (IF stream.fmt \in Formats32 THEN 4 ELSE 2),
         NEW F, F = ToFrames(audio_converter(Sent(k * Channels, n * Channels), stream.fmt, Asked(w), stream.little), w)
  PROVE  /\ F \in Seq(Frame) /\ Len(F) = n
         /\ \A j \in 1..n, c \in 1..Channels : F[j][c] = Sound((((k + j) - 1) * Channels) + c - 1)
<1> DEFINE fmt == stream.fmt
           l == stream.little
           u == rsnd_format_to_bytes(fmt)
           C == Channels
           m == n * C
           x == Sent(k * C, m)
           b == audio_converter(x, fmt, Asked(w), l)
<1>1. /\ fmt \in Formats /\ l \in BOOLEAN /\ u \in Width /\ w \in Width /\ C \in Nat /\ C > 0 /\ m \in Nat
      /\ k * C \in Nat
  BY ResamplerAssumption, FormatWidth DEF StreamType, Width
<1>2. x \in Buffer(m * u) /\ \A s \in 0..(m - 1) : Cell(x, s, u) = Sample(k * C + s)
  <2> DEFINE p == k * C
  <2>1. p \in Nat /\ x = Sent(p, m)
    BY <1>1
  <2> HIDE DEF p, m, x
  <2>2. x \in Buffer(m * u) /\ \A s \in 0..(m - 1) : Cell(x, s, u) = Sample(p + s)
    BY <1>1, <2>1, SentIs
  <2> QED
    BY <2>2 DEF p
<1> HIDE DEF x
<1>3. b \in Buffer(m * w) /\ \A s \in 0..(m - 1) : Signed(Load(b, s, w, l), w) = Amplitude(fmt, Cell(x, s, u))
  <2> HIDE DEF m
  <2>1. CASE fmt \in Formats32
    <3>1. w = 4 /\ u = 4 /\ b = audio_converter(x, fmt, converter_fmt_to_s32ne(fmt, l), l)
      BY <2>1, <1>1, FormatWidth DEF Asked
    <3>2. x \in Buffer(m * 4)
      BY <1>2, <3>1
    <3> HIDE DEF b, u
    <3>3. b \in Buffer(m * 4) /\ \A s \in 0..(m - 1) : Signed(Load(b, s, 4, l), 4) = Amplitude(fmt, Cell(x, s, 4))
      BY <1>1, <2>1, <3>1, <3>2, To32
    <3> QED
      BY <3>1, <3>3
  <2>2. CASE fmt \notin Formats32
    <3>1. w = 2 /\ u # 4 /\ b = audio_converter(x, fmt, converter_fmt_to_s16ne(fmt, l), l)
      BY <2>2, <1>1, FormatWidth DEF Asked
    <3> HIDE DEF b, u
    <3>2. b \in Buffer(m * 2)
          /\ \A s \in 0..(m - 1) : Signed(Load(b, s, 2, l), 2) = Shorter(u, Amplitude(fmt, Cell(x, s, u)))
      BY <1>1, <1>2, <3>1, To16 DEF u
    <3>3. \A a : Shorter(u, a) = a
      BY <3>1 DEF Shorter
    <3> QED
      BY <3>1, <3>2, <3>3
  <2> QED
    BY <2>1, <2>2
<1>4. \A s \in 0..(m - 1) : Signed(Load(b, s, w, l), w) = Sound(k * C + s)
  BY <1>2, <1>3 DEF Sound
<1>10. F = ToFrames(b, w)
  BY DEF x
<1> HIDE DEF b
<1>5. F = [i \in 1..(Len(b) \div (w * C)) |-> [c \in 1..C |-> Signed(Load(b, ((i - 1) * C) + c - 1, w, l), w)]]
  BY <1>10, Zenon DEF ToFrames
<1>6. Len(b) \div (w * C) = n
  <2> DEFINE z == m * w
             q == w * C
  <2>1. Len(b) = z
    <3>1. z \in Nat
      BY <1>1, Samples
    <3>2. b \in Buffer(z)
      BY <1>3
    <3> HIDE DEF z
    <3> QED
      BY <3>1, <3>2 DEF Buffer
  <2>2. z = q * n + 0 /\ q \in Nat /\ q > 0 /\ 0 \in 0..(q - 1) /\ z \in Int
    BY <1>1 DEF Width
  <2> HIDE DEF z, q
  <2>3. z \div q = n
    BY <2>2, DivUnique
  <2> QED
    BY <2>1, <2>3 DEF q
<1>7. F = [i \in 1..n |-> [c \in 1..C |-> Signed(Load(b, ((i - 1) * C) + c - 1, w, l), w)]]
  BY <1>5, <1>6
<1>8. ASSUME NEW j \in 1..n, NEW c \in 1..C
      PROVE  F[j][c] = Sound((((k + j) - 1) * C) + c - 1) /\ F[j][c] \in Int
  <2> DEFINE s == ((j - 1) * C) + c - 1
             d == (((k + j) - 1) * C) + c - 1
  <2>1. s \in 0..(m - 1) /\ (j - 1) * C \in Nat
    BY <1>1, FrameIndex
  <2>2. F[j][c] = Signed(Load(b, s, w, l), w)
    <3> DEFINE W(a) == Signed(Load(b, a, w, l), w)
    <3>1. F = [i \in 1..n |-> [q \in 1..C |-> W(((i - 1) * C) + q - 1)]]
      BY <1>7
    <3> HIDE DEF W
    <3>2. F[j] = [q \in 1..C |-> W(((j - 1) * C) + q - 1)]
      BY <3>1, Zenon
    <3>3. F[j][c] = W(((j - 1) * C) + c - 1)
      BY <3>2, Zenon
    <3> QED
      BY <3>3 DEF W
  <2>3. d = k * C + s
    <3>1. ((k + j) - 1) * C = k * C + (j - 1) * C
      BY <1>1
    <3> DEFINE g == (j - 1) * C
               h == k * C
               e == ((k + j) - 1) * C
    <3>2. e = h + g /\ g \in Nat /\ h \in Nat
      BY <1>1, <2>1, <3>1
    <3>3. d = e + c - 1 /\ s = g + c - 1
      OBVIOUS
    <3> HIDE DEF g, h, e, s, d
    <3>4. d = h + s
      BY <1>1, <3>2, <3>3
    <3> QED
      BY <3>4 DEF h
  <2>4. d \in Nat
    BY <1>1, <2>1, <2>3
  <2> HIDE DEF s, d
  <2>5. F[j][c] = Sound(d)
    BY <1>4, <2>1, <2>2, <2>3
  <2>6. Sound(d) \in Int
    BY <2>4, SoundInt
  <2> QED
    BY <2>5, <2>6 DEF d
<1>9. F \in Seq(Frame) /\ Len(F) = n
  <2>1. \A j \in 1..n : F[j] \in [1..C -> Int]
    BY <1>7, <1>8
  <2>2. F \in [1..n -> Frame]
    BY <1>7, <2>1 DEF Frame
  <2> QED
    BY <2>2
<1> QED
  BY <1>8, <1>9

-----------------------------------------------------------------------------
(* From the resampler to the chunk *)

\* A float comes back as an integer that fits: it saturates.
LEMMA FloatToRange ==
  ASSUME NEW v \in Int, NEW w \in {2, 4}
  PROVE  InRange(FloatTo(v, w), w)
<1> DEFINE D == 2 * P * P
           n == Trunc(v + (P * P), D)
           h == Half(w)
<1>1. D \in Nat /\ D > 0 /\ P * P \in Nat
  BY ResamplerAssumption
<1> HIDE DEF D
<1>2. \A u \in Int : u \div D \in Int
  BY <1>1, DivMod
<1>3. n \in Int
  BY <1>1, <1>2 DEF Trunc
<1>4. h \in Nat /\ h > 1 /\ h = Base^w \div 2
  <2>1. w \in Width
    BY DEF Width
  <2>2. h \in Nat /\ h = Base^w \div 2
    BY <2>1, HalfFacts DEF Half
  <2>3. h > 1
    <3>1. ASSUME Base = 4 PROVE Half(2) > 1 /\ Half(4) > 1
      BY <3>1 DEF Half
    <3>2. ASSUME Base = 16 PROVE Half(2) > 1 /\ Half(4) > 1
      BY <3>2 DEF Half
    <3>3. ASSUME Base = 256 PROVE Half(2) > 1 /\ Half(4) > 1
      BY <3>3 DEF Half
    <3> QED
      BY <3>1, <3>2, <3>3, BaseAssumption
  <2> QED
    BY <2>2, <2>3
<1> HIDE DEF n, h
<1>5. FloatTo(v, w) = (IF n > h - 2 THEN h - 2 ELSE IF n < 1 - h THEN 1 - h ELSE n)
  BY <1>4 DEF FloatTo, n, D
<1>6. FloatTo(v, w) \in Int /\ -h <= FloatTo(v, w) /\ FloatTo(v, w) < h
  BY <1>3, <1>4, <1>5
<1> QED
  BY <1>6 DEF InRange, h

\* The widths behind the resampler.
Wide(w) == w \in {2, 4}

\* A sample that is off by some steps comes back to within one step more.
LEMMA FloatToNear ==
  ASSUME NEW w, Wide(w), NEW s, InRange(s, w), NEW B \in Nat, NEW u \in Int, u - s \in -B..B,
         NEW v, v = 2 * P * P * u
  PROVE  FloatTo(v, w) - s \in -(1 + B)..(1 + B)
<1> DEFINE D == 2 * P * P
           q == P * P
           n == Trunc(v + q, D)
           h == Half(w)
<1>1. q \in Nat /\ q > 0 /\ D = 2 * q /\ D \in Nat /\ D > 0
  BY ResamplerAssumption
<1>2. w \in Width /\ s \in Int /\ -h <= s /\ s < h
  BY DEF Width, InRange, Wide
<1>3. h \in Nat /\ h = Base^w \div 2
  BY <1>2, HalfFacts DEF Half
<1>4. v = D * u
  OBVIOUS
<1>7. FloatTo(v, w) = (IF n > h - 2 THEN h - 2 ELSE IF n < 1 - h THEN 1 - h ELSE n)
  BY <1>3 DEF FloatTo
<1>8. n = (IF v + q >= 0 THEN (v + q) \div D ELSE -((-(v + q)) \div D))
  BY DEF Trunc
<1> HIDE DEF D, q, n, h
<1>9. n = u \/ n = u + 1
  <2>5. CASE u >= 0
    <3>1. v \in Nat /\ v + q \in Int /\ v + q >= 0 /\ v + q = D * u + q /\ q \in 0..(D - 1)
      BY <1>1, <1>4, <2>5
    <3>2. (v + q) \div D = u
      BY <1>1, <3>1, DivUnique
    <3> QED
      BY <1>8, <3>1, <3>2
  <2>6. CASE u < 0
    <3>1. PICK e \in Nat : u = -e - 1
      <4>1. -u - 1 \in Nat /\ u = -(-u - 1) - 1
        BY <2>6
      <4> QED
        BY <4>1
    <3>2. D * e \in Nat /\ v + q = -(D * e) - q
      <4>1. D * (-e - 1) = -(D * e) - D /\ D * e \in Nat
        BY <1>1, <3>1
      <4> QED
        BY <1>1, <1>4, <3>1, <4>1
    <3>3. v + q < 0 /\ -(v + q) = D * e + q /\ -(v + q) \in Int /\ q \in 0..(D - 1) /\ e \in Int
      BY <1>1, <3>2
    <3>4. (-(v + q)) \div D = e
      BY <1>1, <3>3, DivUnique
    <3>5. n = -e
      BY <1>8, <3>2, <3>3, <3>4, <1>1
    <3> QED
      BY <3>1, <3>5
  <2> QED
    BY <2>5, <2>6
<1> QED
  BY <1>2, <1>3, <1>7, <1>9

\* Numbers that fit are read as they were stored.
StoredAre(x, m, w, l, val) == \A i \in 0..(m - 1) : Signed(Load(x, i, w, l), w) = val[i]

\* Which is what a loop that stores numbers that fit gives.
LEMMA StoredFits ==
  ASSUME NEW n \in Nat, NEW x \in Buffer(n), NEW m \in Nat, NEW w \in Width, m * w <= n,
         NEW l, NEW val \in [0..(m - 1) -> Int], Stored(x, m, w, l, val), \A i \in 0..(m - 1) : InRange(val[i], w)
  PROVE  StoredAre(x, m, w, l, val)
<1>1. ASSUME NEW i \in 0..(m - 1) PROVE Signed(Load(x, i, w, l), w) = val[i]
  <2>1. Load(x, i, w, l) = val[i] % Base^w
    BY StoredLoads
  <2>2. Signed(val[i] % Base^w, w) = val[i]
    BY SignedMod
  <2> QED
    BY <2>1, <2>2
<1> QED
  BY <1>1 DEF StoredAre

\* The chunk that is made of the samples f.
Filling(f, N, w, l) == Each(Up(N), [k \in 1..(N * w) |-> 0], w, l, LAMBDA b, i : FloatTo(f[i], w))

\* The chunk that the loop over the resampler's output fills.
LEMMA FillingIs ==
  ASSUME NEW w \in Width, \A v \in Int : InRange(FloatTo(v, w), w),
         NEW l, NEW f, NEW N \in Nat, \A k \in 0..(N - 1) : f[k] \in Int
  PROVE  /\ Filling(f, N, w, l) \in Buffer(N * w)
         /\ \A k \in 0..(N - 1) : Signed(Load(Filling(f, N, w, l), k, w, l), w) = FloatTo(f[k], w)
<1> DEFINE n    == N * w
           zero == [k \in 1..n |-> 0]
           val  == [i \in 0..(N - 1) |-> FloatTo(f[i], w)]
           g    == [i \in 0..(N - 1) |-> [x \in Buffer(n) |-> val[i]]]
           loop == CHOOSE u : u = [k \in 0..Len(Up(N)) |->
                     IF k = 0 THEN zero
                     ELSE LET b == u[k - 1] IN Store(b, Up(N)[k], w, FloatTo(f[Up(N)[k]], w), l)]
<1>1. w \in Width /\ n \in Nat /\ n <= n
  <2>1. w \in Width
    OBVIOUS
  <2>2. n \in Nat
    BY <2>1, Samples
  <2> HIDE DEF n
  <2> QED
    BY <2>1, <2>2
<1>2. zero \in Buffer(n)
  <2>1. 0 \in Byte
    BY BaseAssumption DEF Byte
  <2> HIDE DEF n
  <2> QED
    BY <2>1 DEF Buffer
<1>3. \A i \in 0..(N - 1) : val[i] = FloatTo(f[i], w) /\ InRange(val[i], w)
  OBVIOUS
<1>4. val \in [0..(N - 1) -> Int]
  <2>1. \A i \in 0..(N - 1) : FloatTo(f[i], w) \in Int
    BY <1>3 DEF InRange
  <2> QED
    BY <2>1
<1> HIDE DEF val
<1>5. g \in [0..(N - 1) -> [Buffer(n) -> Int]]
  <2> HIDE DEF n
  <2> QED
    BY <1>4
<1>6. \A i \in 0..(N - 1), x \in Buffer(n) : g[i][x] = val[i]
  OBVIOUS
<1> HIDE DEF g
<1>7. Up(N) \in Order(N) /\ Len(Up(N)) = N /\ \A k \in 1..N : Up(N)[k] = k - 1 /\ Up(N)[k] \in 0..(N - 1)
  BY UpOrder
<1>20. n = N * w
  OBVIOUS
<1>21. zero = [k \in 1..(N * w) |-> 0]
  OBVIOUS
<1> HIDE DEF n, zero
<1>8. \A k \in 1..N : \A x \in Buffer(n) : g[Up(N)[k]][x] = val[Up(N)[k]]
  BY <1>6, <1>7
<1>9. Stores(zero, n, N, Up(N), w, l, g, val)
  <2>1. \A k \in 1..N : \A x \in Buffer(n) :
          Untouched(x, zero, n, Up(N), k - 1, w) => g[Up(N)[k]][x] = val[Up(N)[k]]
    BY <1>8
  <2>2. N * w <= n
    BY <1>1, <1>20
  <2> QED
    BY <1>1, <1>2, <1>4, <1>5, <1>7, <2>1, <2>2, LoopStores
<1>10. PICK r \in [0..N -> Buffer(n)] : Loop(r, zero, N, Up(N), w, l, g) /\ Stored(r[N], N, w, l, val)
  BY <1>9 DEF Stores
<1>11. \A k \in 1..N : r[k] = Store(r[k - 1], Up(N)[k], w, FloatTo(f[Up(N)[k]], w), l)
  <2>1. \A k \in 1..N : r[k - 1] \in Buffer(n) /\ Up(N)[k] \in 0..(N - 1)
    BY <1>7, <1>10
  <2>2. \A k \in 1..N : g[Up(N)[k]][r[k - 1]] = FloatTo(f[Up(N)[k]], w)
    BY <1>3, <1>6, <2>1
  <2> QED
    BY <1>10, <2>2 DEF Loop
<1>12. loop = [k \in 0..N |-> IF k = 0 THEN zero
               ELSE LET b == loop[k - 1] IN Store(b, Up(N)[k], w, FloatTo(f[Up(N)[k]], w), l)]
  <2>1. r = [k \in 0..N |-> IF k = 0 THEN zero
             ELSE LET b == r[k - 1] IN Store(b, Up(N)[k], w, FloatTo(f[Up(N)[k]], w), l)]
    BY <1>10, <1>11 DEF Loop
  <2>2. \E u : u = [k \in 0..Len(Up(N)) |-> IF k = 0 THEN zero
             ELSE LET b == u[k - 1] IN Store(b, Up(N)[k], w, FloatTo(f[Up(N)[k]], w), l)]
    BY <2>1, <1>7
  <2> QED
    BY <2>2, <1>7, Zenon
<1>13. Filling(f, N, w, l) = loop[N]
  BY <1>7, <1>21 DEF Filling, Each
<1> HIDE DEF loop
<1>14. loop[0] = zero
  BY <1>12
<1>15. \A k \in 1..N : loop[k] = Store(loop[k - 1], Up(N)[k], w, FloatTo(f[Up(N)[k]], w), l)
  BY <1>12
<1>16. r[N] = loop[N]
  <2>1. r[0] = loop[0]
    BY <1>10, <1>14 DEF Loop
  <2>2. ASSUME NEW k \in 1..N, r[k - 1] = loop[k - 1] PROVE r[k] = loop[k]
    BY <1>11, <1>15, <2>2, Zenon
  <2> QED
    BY <2>1, <2>2, SameEnd
<1> DEFINE c == Filling(f, N, w, l)
<1>17. c \in Buffer(n) /\ Stored(c, N, w, l, val)
  BY <1>10, <1>13, <1>16
<1> HIDE DEF c
<1>18. StoredAre(c, N, w, l, val)
  <2>1. N * w <= n /\ \A i \in 0..(N - 1) : InRange(val[i], w)
    BY <1>1, <1>3, <1>20
  <2> QED
    BY <1>1, <1>4, <1>17, <2>1, StoredFits
<1>19. \A k \in 0..(N - 1) : Signed(Load(c, k, w, l), w) = FloatTo(f[k], w)
  BY <1>3, <1>18 DEF StoredAre
<1> QED
  BY <1>17, <1>19, <1>20 DEF c

\* And the chunk of the thread: the output frames, converted to integers.
LEMMA ChunkIs ==
  ASSUME NEW w, w = Bytes, Wide(w), NEW l, l = stream.little,
         NEW f, NEW N \in Nat, N = ChunkSamples, \A k \in 0..(N - 1) : f[k] \in Int
  PROVE  /\ Chunk(f) \in Buffer(N * w)
         /\ \A k \in 0..(N - 1) : Signed(Load(Chunk(f), k, w, l), w) = FloatTo(f[k], w)
<1>1. Chunk(f) = Filling(f, N, w, l)
  BY DEF Chunk, Filling
<1>2. w \in Width /\ \A v \in Int : InRange(FloatTo(v, w), w)
  BY FloatToRange DEF Width, Wide
<1> QED
  BY <1>1, <1>2, FillingIs

-----------------------------------------------------------------------------
(* What a step leaves as it is *)

\* The operators that depend on the stream alone.
LEMMA StreamStays ==
  ASSUME stream' = stream
  PROVE  /\ rsd_format' = rsd_format /\ Bytes' = Bytes /\ Device' = Device
         /\ ChunkSamples' = ChunkSamples /\ Tolerance' = Tolerance
         /\ \A k : Sound(k)' = Sound(k) /\ Meant(k)' = Meant(k) /\ Made(k)' = Made(k)
         /\ \A k, a : Right(k, a)' <=> Right(k, a)
<1>1. rsd_format' = rsd_format
  BY DEF rsd_format
<1>2. Bytes' = Bytes
  BY <1>1 DEF Bytes
<1>3. /\ AsItIs' = AsItIs /\ Native16' = Native16 /\ Native32' = Native32
  BY <1>1 DEF AsItIs, Native16, Native32
<1>4. /\ ao_rsd_open' = ao_rsd_open /\ porta_open' = porta_open /\ al_open' = al_open
      /\ ds_rsd_open' = ds_rsd_open /\ oss_open' = oss_open
  BY <1>1, <1>3 DEF ao_rsd_open, porta_open, al_open, ds_rsd_open, oss_open
<1>5. /\ alsa_open' = alsa_open /\ roarvs_rsd_open' = roarvs_rsd_open /\ muroar_rsd_open' = muroar_rsd_open
  BY <1>3 DEF alsa_open, roarvs_rsd_open, muroar_rsd_open
<1>6. pulse_open' = pulse_open
  BY <1>1, <1>3 DEF pulse_open
<1>7. Device' = Device
  BY <1>4, <1>5, <1>6 DEF Device
<1>8. \A k : Sample(k)' = Sample(k)
  BY DEF Sample
<1>9. \A k : Sound(k)' = Sound(k)
  BY <1>8 DEF Sound
<1>10. \A i, n : Sent(i, n)' = Sent(i, n)
  BY DEF Sent
<1>11. \A k : Meant(k)' = Meant(k)
  BY <1>7, <1>10 DEF Meant
<1>12. ASSUME NEW k, NEW a PROVE Right(k, a)' <=> Right(k, a)
  <2>1. Off' = Off
    BY <1>2 DEF Off
  <2> QED
    BY <1>9, <2>1 DEF Right, Pos, EnoughFrames
<1>13. ChunkSamples' = ChunkSamples /\ \A k : Made(k)' = Made(k)
  BY DEF ChunkSamples, Made
<1>14. Tolerance' = Tolerance
  BY <1>7 DEF Tolerance
<1> QED
  BY <1>1, <1>2, <1>7, <1>9, <1>11, <1>12, <1>13, <1>14

\* What the device hears next only has to be fine itself.
LEMMA HeardNext ==
  ASSUME stream' = stream, heard' # << >> => Fine(heard')
  PROVE  DeviceHears'
<1>1. /\ rsd_format' = rsd_format /\ Bytes' = Bytes /\ Device' = Device
      /\ Tolerance' = Tolerance /\ \A k : Meant(k)' = Meant(k)
  BY StreamStays
<1> QED
  BY <1>1 DEF DeviceHears, Fine, ToldRight, EnoughFrames, Pos

\* A step that gives the resampler nothing keeps InputRight.
LEMMA InputStays ==
  ASSUME InputRight, stream' = stream, input' = input
  PROVE  InputRight'
BY StreamStays DEF InputRight

\* A new chunk is right when its amplitudes are.
LEMMA NewChunk ==
  ASSUME stream \in StreamType, stream' = stream, written' = 0, ChunkStart' \in Nat,
         buffer' \in Buffer(ChunkSamples * Bytes),
         \A s \in 0..(ChunkSamples - 1) :
           Made(s) => Right(ChunkStart' + s, Amplitude(rsd_format, Cell(buffer', s, Bytes)))
  PROVE  ChunkRight'
<1>1. /\ rsd_format' = rsd_format /\ Bytes' = Bytes /\ ChunkSamples' = ChunkSamples
      /\ \A k : Made(k)' = Made(k)
      /\ \A k, a : Right(k, a)' <=> Right(k, a)
  BY StreamStays
<1>2. \E b \in 0..(ChunkSamples - 1) : written' = b * Bytes
  <2>1. 0 \in 0..(ChunkSamples - 1) /\ 0 * Bytes = 0
    BY ChunkSizes, StreamFormats DEF Width
  <2>2. written' = 0 * Bytes
    BY <2>1
  <2> QED
    BY <2>1, <2>2
<1> QED
  BY <1>1, <1>2 DEF ChunkRight

-----------------------------------------------------------------------------
(* Every step keeps it *)

\* The invariant holds at first.
LEMMA PathInitInv == Init => PathInv
<1> SUFFICES ASSUME Init PROVE PathInv
  OBVIOUS
<1>1. RInv
  BY RInitInv DEF Init
<1>2. stream \in StreamType /\ received \in Nat /\ pc = "loop" /\ heard = << >> /\ step = "idle" /\ input = << >>
  BY DEF Init, RInit, StreamType
<1>3. OnePlace /\ ChunkRight /\ DeviceHears
  BY <1>2 DEF OnePlace, ChunkRight, DeviceHears
<1>4. InputRight
  BY <1>2 DEF InputRight
<1> QED
  BY <1>1, <1>2, <1>3, <1>4 DEF PathInv

\* A step after which the device heard the same keeps DeviceHears.
LEMMA HearsStays ==
  ASSUME DeviceHears, stream' = stream, heard' = heard
  PROVE  DeviceHears'
<1>1. heard' # << >> => Fine(heard')
  BY DEF DeviceHears, Fine, ToldRight
<1> QED
  BY <1>1, HeardNext

\* receive_data without a resampler: the chunk is the next frames of the client.
LEMMA receive_dataInv == PathInv /\ receive_data => PathInv'
<1> SUFFICES ASSUME PathInv, receive_data PROVE PathInv'
  OBVIOUS
<1>1. /\ pc = "loop" /\ ~stream.resample /\ UNCHANGED <<rvars, stream>> /\ heard' = << >>
      /\ stream \in StreamType /\ received \in Nat /\ RInv /\ OnePlace /\ InputRight
  BY DEF receive_data, PathInv
<1>2. stream' \in StreamType /\ RInv' /\ OnePlace' /\ InputRight' /\ DeviceHears'
  <2>1. RInv'
    BY <1>1, RNextInv
  <2>2. InputRight'
    BY <1>1, InputStays DEF rvars
  <2>3. OnePlace'
    BY <1>1 DEF OnePlace, rvars
  <2>4. DeviceHears'
    BY <1>1 DEF DeviceHears
  <2> QED
    BY <1>1, <2>1, <2>2, <2>3, <2>4
<1>3. CASE received + ChunkSamples <= StreamFrames * Channels
  <2>1. /\ buffer' = Sent(received, ChunkSamples) /\ received' = received + ChunkSamples
        /\ pc' = "write" /\ written' = 0
    BY <1>3 DEF receive_data
  <2>2. received' \in Nat /\ ChunkSamples \in Nat
    BY <1>1, <2>1, ChunkSizes
  <2>3. rsd_format = stream.fmt /\ Bytes = rsnd_format_to_bytes(stream.fmt)
    BY <1>1 DEF rsd_format, Bytes
  <2>4. ChunkStart' = received
    <3>1. ChunkSamples' = ChunkSamples
      BY <1>1, StreamStays
    <3>2. ChunkStart' = received' - ChunkSamples
      BY <1>1, <3>1 DEF ChunkStart
    <3> QED
      BY <1>1, <2>1, <2>2, <3>2
  <2>5. /\ buffer' \in Buffer(ChunkSamples * Bytes)
        /\ \A s \in 0..(ChunkSamples - 1) : Cell(buffer', s, Bytes) = Sample(received + s)
    BY <1>1, <2>1, <2>2, <2>3, SentIs
  <2>6. \A s \in 0..(ChunkSamples - 1) : Right(received + s, Amplitude(rsd_format, Cell(buffer', s, Bytes)))
    BY <1>1, <2>3, <2>5 DEF Right, Sound
  <2>7. ChunkRight'
    BY <1>1, <2>1, <2>4, <2>5, <2>6, NewChunk
  <2> QED
    BY <1>2, <2>2, <2>7 DEF PathInv
<1>4. CASE ~(received + ChunkSamples <= StreamFrames * Channels)
  <2>1. pc' = "exit" /\ received' = received
    BY <1>4 DEF receive_data
  <2>2. ChunkRight'
    BY <2>1 DEF ChunkRight
  <2> QED
    BY <1>1, <1>2, <2>1, <2>2 DEF PathInv
<1> QED
  BY <1>3, <1>4

\* The thread enters the resampler.
LEMMA ResampleInv == PathInv /\ Resample => PathInv'
<1> SUFFICES ASSUME PathInv, Resample PROVE PathInv'
  OBVIOUS
<1>1. /\ pc = "loop" /\ stream.resample /\ resampler_cb_read
      /\ UNCHANGED <<stream, pc, received>> /\ heard' = << >>
      /\ stream \in StreamType /\ received \in Nat /\ RInv /\ OnePlace /\ InputRight
  BY DEF Resample, PathInv
<1>2. RInv'
  BY <1>1, CbReadInv
<1>3. InputRight'
  BY <1>1, InputStays DEF resampler_cb_read
<1>4. OnePlace' /\ ChunkRight' /\ DeviceHears'
  BY <1>1 DEF OnePlace, ChunkRight, DeviceHears
<1> QED
  BY <1>1, <1>2, <1>3, <1>4 DEF PathInv

\* The callback: it gives the amplitudes of the client's next frames, or the
\* stream ends.
LEMMA resample_callbackInv == PathInv /\ resample_callback => PathInv'
<1> SUFFICES ASSUME PathInv, resample_callback PROVE PathInv'
  OBVIOUS
<1>1. /\ UNCHANGED <<stream, received, buffer, written, heard>>
      /\ stream \in StreamType /\ received \in Nat /\ RInv /\ OnePlace /\ InputRight /\ DeviceHears
  BY DEF resample_callback, PathInv
<1>2. DeviceHears' /\ stream' \in StreamType /\ received' \in Nat
  BY <1>1, HearsStays
<1> DEFINE w == IF stream.fmt \in Formats32 THEN 4 ELSE 2
           n == Len(input)
           F == ToFrames(audio_converter(Sent(n * Channels, InFrames * Channels), stream.fmt, Asked(w), stream.little), w)
<1>3. CASE n + InFrames <= StreamFrames
  <2>1. func(F) /\ pc' = pc
    BY <1>3 DEF resample_callback, Asked
  <2>2. step = "fill" /\ input' = input \o F
    BY <2>1 DEF func
  <2>3. stream.resample /\ pc # "write"
    BY <1>1, <2>2 DEF OnePlace
  <2>4. n \in Nat /\ InFrames \in Nat \ {0} /\ input \in Seq(Frame)
    BY <1>1, AudioPathAssumption DEF RInv, RTypeOK
  <2>5. /\ F \in Seq(Frame) /\ Len(F) = InFrames
        /\ \A j \in 1..InFrames, c \in 1..Channels : F[j][c] = Sound((((n + j) - 1) * Channels) + c - 1)
    <3> HIDE DEF n
    <3>1. w = (IF stream.fmt \in Formats32 THEN 4 ELSE 2)
      OBVIOUS
    <3> HIDE DEF w
    <3> QED
      BY <1>1, <2>4, <3>1, FramesAre
  <2> HIDE DEF F
  <2>6. RInv'
    BY <1>1, <2>1, <2>5, FuncInv
  <2>7. ASSUME NEW j \in 1..Len(input'), NEW c \in 1..Channels
        PROVE  input'[j][c] = Sound(((j - 1) * Channels) + c - 1)
    <3>1. /\ Len(input') = n + InFrames
          /\ \A i \in 1..n : input'[i] = input[i]
          /\ \A i \in 1..InFrames : input'[n + i] = F[i]
      <4> DEFINE u == input'
      <4>1. input \in Seq(Frame) /\ F \in Seq(Frame) /\ u = input \o F
        BY <2>2, <2>4, <2>5
      <4> HIDE DEF u
      <4>2. /\ Len(u) = Len(input) + Len(F)
            /\ \A i \in 1..Len(input) : u[i] = input[i]
            /\ \A i \in 1..Len(F) : u[Len(input) + i] = F[i]
        BY <4>1, ConcatFacts
      <4> QED
        BY <4>2, <2>5 DEF u
    <3>2. CASE j \in 1..n
      BY <1>1, <2>3, <3>1, <3>2 DEF InputRight
    <3>3. CASE j \notin 1..n
      <4> DEFINE i == j - n
      <4>1. i \in 1..InFrames /\ j = n + i
        BY <2>4, <3>1, <3>3
      <4> HIDE DEF i, n
      <4>2. input'[j] = F[i] /\ F[i][c] = Sound((((n + i) - 1) * Channels) + c - 1)
        BY <2>5, <3>1, <4>1
      <4> QED
        BY <4>1, <4>2
    <3> QED
      BY <3>2, <3>3
  <2>8. InputRight'
    BY <1>1, <2>7, StreamStays DEF InputRight
  <2>9. OnePlace' /\ ChunkRight'
    BY <1>1, <2>1, <2>3 DEF OnePlace, ChunkRight
  <2> QED
    BY <1>2, <2>6, <2>8, <2>9 DEF PathInv
<1>4. CASE ~(n + InFrames <= StreamFrames)
  <2>1. func_ends /\ pc' = "exit"
    BY <1>4 DEF resample_callback
  <2>2. RInv'
    BY <1>1, <2>1, EndsInv
  <2>3. InputRight'
    BY <1>1, <2>1, InputStays DEF func_ends
  <2>4. OnePlace' /\ ChunkRight'
    BY <2>1 DEF OnePlace, ChunkRight, func_ends
  <2> QED
    BY <1>2, <2>2, <2>3, <2>4 DEF PathInv
<1> QED
  BY <1>3, <1>4

\* A frame that the resampler makes is made of numbers.
LEMMA OutInt ==
  ASSUME RInv, step = "process", NEW behind \in [1..Channels -> Noise],
         NEW x \in sum_output_frames..(sum_output_frames + Frames - 1), NEW c \in 1..Channels
  PROVE  OutFrame(x, behind)[c] \in Int
<1> DEFINE f == First(x)
           v == x_val(x)
           y(i) == FrameAt(i, behind)[c]
<1>1. x \in Nat /\ f \in Nat \ {0}
  BY ProcessReads
<1>2. sum_input_frames \in Nat /\ P \in Nat /\ Q \in Nat /\ data \in Seq(Frame) /\ Len(data) \in Nat
  BY ResamplerAssumption DEF RInv, RTypeOK
<1>3. OutFrame(x, behind)[c] = Poly(y(f + 0), y(f + 1), y(f + 2), v)
  BY DEF OutFrame
<1>4. v = (x * Q) - (P * (sum_input_frames + f - 1))
  BY DEF x_val
<1>5. ASSUME NEW i \in Nat \ {0} PROVE y(i) \in Int
  <2>1. CASE i <= Len(data)
    <3>1. i \in 1..Len(data) /\ FrameAt(i, behind) = data[i]
      BY <1>2, <2>1 DEF FrameAt
    <3>2. data[i] \in Frame
      BY <1>2, <3>1
    <3> QED
      BY <3>1, <3>2 DEF Frame
  <2>2. CASE ~(i <= Len(data))
    <3>1. FrameAt(i, behind) = behind
      BY <2>2 DEF FrameAt
    <3>2. behind[c] \in Int
      BY ResamplerAssumption
    <3> QED
      BY <3>1, <3>2
  <2> QED
    BY <2>1, <2>2
<1> HIDE DEF f, v, y
<1>6. f + 0 \in Nat \ {0} /\ f + 1 \in Nat \ {0} /\ f + 2 \in Nat \ {0}
  BY <1>1
<1>7. y(f + 0) \in Int /\ y(f + 1) \in Int /\ y(f + 2) \in Int
  BY <1>5, <1>6
<1>8. v \in Int
  <2>1. x * Q \in Int /\ sum_input_frames + f - 1 \in Int
    BY <1>1, <1>2
  <2>2. P * (sum_input_frames + f - 1) \in Int
    BY <2>1, <1>2
  <2> QED
    BY <1>4, <2>1, <2>2
<1>9. ASSUME NEW a \in Int, NEW b \in Int, NEW d \in Int PROVE Poly(a, b, d, v) \in Int
  BY <1>2, <1>8 DEF Poly
<1> QED
  BY <1>3, <1>7, <1>9

\* The input reaches as far as the frames that are made of it.
LEMMA InputReaches ==
  ASSUME RInv, step = "process",
         NEW x \in sum_output_frames..(sum_output_frames + Frames - 1)
  PROVE  Pos(x) + 1 \in 1..Len(input)
<1> DEFINE f == First(x)
           p == Pos(x)
           z == Len(input)
           d == Len(data)
<1>1. p \in Nat /\ f \in Nat /\ sum_input_frames <= p /\ f + 1 <= d
  BY ProcessReads
<1>2. /\ sum_input_frames \in Nat /\ temp_buf = << >> /\ z = sum_input_frames + d + Len(temp_buf)
      /\ d \in Nat /\ Len(temp_buf) = 0
  BY DEF RInv, RTypeOK, Kept
<1>3. f = (IF p = sum_input_frames THEN 1 ELSE p - sum_input_frames)
  BY DEF First
<1> HIDE DEF f, p, z, d
<1>4. p + 1 \in 1..z
  BY <1>1, <1>2, <1>3
<1> QED
  BY <1>4 DEF p, z

\* Sample s of the frames from frame S on.
LEMMA SampleOf ==
  ASSUME NEW S \in Nat, NEW s \in 0..(Frames * Channels - 1)
  PROVE  /\ s \div Channels \in 0..(Frames - 1) /\ (s % Channels) \in 0..(Channels - 1)
         /\ ((S * Channels) + s) \div Channels = S + (s \div Channels)
         /\ ((S * Channels) + s) % Channels = s % Channels
<1> DEFINE C == Channels
           d == s \div C
           r == s % C
           k == (S * C) + s
<1>1. C \in Nat /\ C > 0 /\ Frames \in Nat /\ Frames * C \in Nat /\ S * C \in Nat
  BY ResamplerAssumption
<1>2. s \in Nat /\ s < Frames * C
  BY <1>1
<1>3. d \in Nat /\ r \in 0..(C - 1) /\ s = C * d + r
  BY <1>1, <1>2, DivMod
<1> HIDE DEF d, r
<1>4. d \in 0..(Frames - 1)
  <2> SUFFICES ASSUME d >= Frames PROVE FALSE
    BY <1>1, <1>3
  <2>1. PICK e \in Nat : d = Frames + e
    <3>1. d - Frames \in Nat /\ d = Frames + (d - Frames)
      BY <1>1, <1>3
    <3> QED
      BY <3>1
  <2>2. C * d = Frames * C + C * e /\ C * e \in Nat
    BY <1>1, <2>1
  <2> QED
    BY <1>1, <1>2, <1>3, <2>2
<1>5. k = C * (S + d) + r /\ S + d \in Int /\ k \in Int
  <2>1. C * (S + d) = S * C + C * d
    BY <1>1, <1>3
  <2> QED
    BY <1>1, <1>2, <1>3, <2>1
<1> HIDE DEF k
<1>6. k \div C = S + d /\ (k % C) = r
  BY <1>1, <1>3, <1>5, DivUnique
<1> QED
  BY <1>3, <1>4, <1>6 DEF d, r, k

\* resampler_process fills the chunk with frames that are right: on an input
\* frame it is that frame (KeepsTime), to within the rounding of the conversion.
LEMMA ProcessPathInv == PathInv /\ Process => PathInv'
<1> SUFFICES ASSUME PathInv, Process PROVE PathInv'
  OBVIOUS
<1> DEFINE S == sum_output_frames
           C == Channels
           N == Frames * C
           M == ChunkSamples
           w == Bytes
           l == stream.little
           f == out'
<1>1. /\ UNCHANGED <<stream, received, heard>> /\ resampler_process /\ pc' = "write" /\ written' = 0
      /\ stream \in StreamType /\ received \in Nat /\ RInv /\ OnePlace /\ InputRight /\ DeviceHears
  BY DEF Process, PathInv
<1>15. PICK lost \in [0..(N - 1) -> Lost], left \in [N..(M - 1) -> Noise] :
         buffer' = Chunk([k \in 0..(M - 1) |-> IF k < N THEN At(f, k) + (2 * P * P * lost[k]) ELSE left[k]])
  BY DEF Process
<1> DEFINE r == [k \in 0..(M - 1) |-> IF k < N THEN At(f, k) + (2 * P * P * lost[k]) ELSE left[k]]
<1>2. /\ step = "process" /\ step' = "idle" /\ input' = input /\ sum_output_frames' = S + Frames
  BY <1>1 DEF resampler_process
<1>16. PICK behind \in [1..C -> Noise] : f = [i \in 1..Frames |-> OutFrame(S + i - 1, behind)]
  BY <1>1 DEF resampler_process
<1>3. stream.resample
  BY <1>1, <1>2 DEF OnePlace
<1>4. S \in Nat /\ Frames \in Nat /\ C \in Nat /\ C > 0 /\ N \in Nat /\ M \in Nat /\ N <= M
  BY <1>1, ResamplerAssumption, ChunkSizes DEF RInv, RTypeOK
<1>5. rsd_format \in {S16(l), S32(l)} /\ w = rsnd_format_to_bytes(rsd_format) /\ l \in BOOLEAN
  BY <1>1, <1>3, StreamFormats DEF rsd_format
<1>13. w = 2 \/ w = 4
  BY <1>5, HostFormats
<1>14. w = IF rsnd_format_to_bytes(stream.fmt) = 4 THEN 4 ELSE 2
  <2>1. w = 4 <=> rsnd_format_to_bytes(stream.fmt) = 4
    BY <1>1, StreamFormats
  <2> QED
    BY <1>13, <2>1
<1>17. Off \in Nat /\ \A s \in 0..(N - 1) : lost[s] \in -Off..Off
  <2>1. Off \in Nat
    BY AudioPathAssumption DEF Off
  <2>2. Lost \subseteq -Off..Off
    BY AudioPathAssumption DEF Lost, Off
  <2> QED
    BY <2>1, <2>2
<1> DEFINE b == Chunk(r)
<1>8. buffer' = b
  BY <1>15
<1> HIDE DEF f, N, M, w
<1>6. ASSUME NEW s \in 0..(N - 1)
      PROVE  /\ S + (s \div C) \in S..(S + Frames - 1)
             /\ (s % C) + 1 \in 1..C
             /\ At(f, s) = OutFrame(S + (s \div C), behind)[(s % C) + 1]
             /\ At(f, s) \in Int
  <2> DEFINE d == s \div C
             e == s % C
  <2>1. d \in 0..(Frames - 1) /\ e \in 0..(C - 1)
    BY <1>4, SampleOf DEF N
  <2>2. At(f, s) = f[d + 1][e + 1]
    BY DEF At
  <2> HIDE DEF d, e
  <2>3. d + 1 \in 1..Frames /\ S + (d + 1) - 1 = S + d /\ S + d \in S..(S + Frames - 1) /\ e + 1 \in 1..C
    BY <1>4, <2>1
  <2>4. f[d + 1] = OutFrame(S + d, behind)
    BY <1>16, <2>3
  <2>5. OutFrame(S + d, behind)[e + 1] \in Int
    BY <1>1, <1>2, <2>3, OutInt
  <2> QED
    BY <2>2, <2>3, <2>4, <2>5 DEF d, e
<1>18. ASSUME NEW s \in 0..(M - 1) PROVE r[s] \in Int
  <2>1. CASE s < N
    <3>1. s \in 0..(N - 1) /\ r[s] = At(f, s) + (2 * P * P * lost[s])
      BY <1>4, <2>1
    <3>2. At(f, s) \in Int /\ lost[s] \in Int /\ 2 * P * P \in Int
      BY <1>6, <1>17, <3>1, ResamplerAssumption
    <3>3. \A i, j, k \in Int : i + (j * k) \in Int
      OBVIOUS
    <3> QED
      BY <3>1, <3>2, <3>3
  <2>2. CASE ~(s < N)
    <3>1. s \in N..(M - 1) /\ r[s] = left[s]
      BY <1>4, <2>2
    <3>2. left[s] \in Noise
      BY <1>15, <3>1
    <3> QED
      BY <3>1, <3>2, ResamplerAssumption
  <2> QED
    BY <2>1, <2>2
<1>19. ASSUME NEW s \in 0..(N - 1) PROVE s \in 0..(M - 1) /\ r[s] = At(f, s) + (2 * P * P * lost[s])
  BY <1>4
<1> HIDE DEF r
<1>7. /\ b \in Buffer(M * w)
      /\ \A s \in 0..(M - 1) : Signed(Load(b, s, w, l), w) = FloatTo(r[s], w)
  <2>1. w = Bytes /\ l = stream.little /\ M = ChunkSamples
    BY DEF w, M
  <2>2. Wide(w) /\ M \in Nat
    BY <1>4, <1>13 DEF Wide
  <2> HIDE DEF l
  <2> QED
    BY <1>18, <2>1, <2>2, ChunkIs
<1> HIDE DEF b
<1>9. ASSUME NEW s \in 0..(N - 1) PROVE Right((S * C) + s, Amplitude(rsd_format, Cell(b, s, w)))
  <2> DEFINE x == S + (s \div C)
             e == s % C
             c == e + 1
             g == (Pos(x) * C) + e
             a == Amplitude(rsd_format, Cell(b, s, w))
  <2>1. ((S * C) + s) \div C = x /\ ((S * C) + s) % C = e
    BY <1>4, SampleOf DEF N
  <2>2. x \in S..(S + Frames - 1) /\ c \in 1..C /\ At(f, s) = OutFrame(x, behind)[c] /\ e \in Nat
    <3>1. e \in 0..(C - 1)
      BY <1>4, SampleOf DEF N
    <3> HIDE DEF e
    <3> QED
      BY <1>6, <3>1 DEF e
  <2>3. a = FloatTo(r[s], w)
    <3> DEFINE z == M * w
    <3>1. w \in Width /\ s \in 0..(M - 1)
      BY <1>13, <1>19 DEF Width
    <3>2. z \in Nat /\ z <= z /\ b \in Buffer(z)
      <4>1. z \in Nat
        BY <1>4, <3>1, Samples
      <4> HIDE DEF z
      <4>2. b \in Buffer(z)
        BY <1>7 DEF z
      <4> QED
        BY <4>1, <4>2
    <3>3. s \in Nat /\ s * w + w <= z
      BY <1>4, <3>1, <3>2, CellInside
    <3> HIDE DEF z
    <3>4. a = Signed(Load(b, s, w, l), w)
      BY <1>5, <3>2, <3>3, HostSample
    <3> QED
      BY <1>7, <3>1, <3>4
  <2> SUFFICES ASSUME EnoughFrames, Pos(x) * P = x * Q PROVE a - Sound(g) \in -(1 + Off)..(1 + Off)
    BY <1>3, <2>1 DEF Right
  <2>4. OutFrame(x, behind)[c] = 2 * P * P * input[Pos(x) + 1][c]
    BY <1>1, <1>2, <2>2, OnTheFrame
  <2>5. Pos(x) + 1 \in 1..Len(input) /\ Pos(x) \in Nat
    BY <1>1, <1>2, <2>2, InputReaches, ProcessReads
  <2>6. input[Pos(x) + 1][c] = Sound(g) /\ g \in Nat
    <3> DEFINE p == Pos(x)
               j == p + 1
    <3>1. j \in 1..Len(input) /\ j - 1 = p /\ p \in Nat
      BY <2>5
    <3> HIDE DEF p, j, e
    <3>2. p * C \in Nat
      BY <1>4, <3>1
    <3>3. input[j][c] = Sound(((j - 1) * C) + c - 1)
      BY <1>1, <1>3, <2>2, <3>1 DEF InputRight
    <3>4. ((j - 1) * C) + c - 1 = (p * C) + e /\ (p * C) + e \in Nat
      <4> DEFINE q == p * C
      <4>1. q \in Nat /\ (j - 1) * C = q
        BY <3>1, <3>2
      <4> HIDE DEF q
      <4>2. q + c - 1 = q + e /\ q + e \in Nat
        BY <2>2, <4>1
      <4> QED
        BY <4>1, <4>2 DEF q
    <3> QED
      BY <3>3, <3>4 DEF p, j
  <2> HIDE DEF g
  <2>7. InRange(Sound(g), w) /\ Sound(g) \in Int
    BY <1>1, <1>14, <2>6, SoundRange, SoundInt
  <2> DEFINE m == Sound(g)
             u == m + lost[s]
             D == 2 * P * P
  <2>8. r[s] = D * m + D * lost[s] /\ D \in Int /\ lost[s] \in -Off..Off
    <3>1. D \in Int
      BY ResamplerAssumption
    <3>2. r[s] = At(f, s) + D * lost[s] /\ At(f, s) = D * m
      BY <1>19, <2>2, <2>4, <2>6
    <3> QED
      BY <1>17, <3>1, <3>2
  <2>9. m \in Int /\ InRange(m, w)
    BY <2>7
  <2> HIDE DEF m
  <2>10. u \in Int /\ u - m \in -Off..Off /\ lost[s] \in Int
    BY <1>17, <2>8, <2>9
  <2>11. r[s] = D * u
    <3>1. \A i, j, k \in Int : i * j + i * k = i * (j + k)
      OBVIOUS
    <3> HIDE DEF D
    <3> QED
      BY <2>8, <2>9, <2>10, <3>1
  <2>12. FloatTo(r[s], w) - m \in -(1 + Off)..(1 + Off)
    <3>1. r[s] = 2 * P * P * u /\ Wide(w)
      BY <1>13, <2>11 DEF Wide
    <3> HIDE DEF u, D
    <3> QED
      BY <1>17, <2>9, <2>10, <3>1, FloatToNear
  <2> QED
    BY <2>3, <2>12 DEF m
<1>10. ChunkStart' = S * C
  <2>1. (S + Frames) - Frames = S
    BY <1>4
  <2> QED
    <3>1. stream' = stream /\ sum_output_frames' = S + Frames
      BY <1>1, <1>2
    <3>2. ChunkStart' = (sum_output_frames' - Frames) * C
      BY <1>3, <3>1 DEF ChunkStart
    <3> HIDE DEF S, C
    <3> QED
      BY <2>1, <3>1, <3>2
<1>11. ChunkRight'
  <2>1. buffer' \in Buffer(ChunkSamples * Bytes) /\ ChunkStart' \in Nat
    BY <1>4, <1>7, <1>8, <1>10 DEF M, w
  <2>2. \A s \in 0..(ChunkSamples - 1) :
          Made(s) => Right(ChunkStart' + s, Amplitude(rsd_format, Cell(buffer', s, Bytes)))
    <3> SUFFICES ASSUME NEW s \in 0..(ChunkSamples - 1), Made(s)
                 PROVE  Right((S * C) + s, Amplitude(rsd_format, Cell(b, s, w)))
      BY <1>8, <1>10 DEF w
    <3>1. s \in 0..(N - 1)
      BY <1>3, <1>4 DEF Made, N, M
    <3> QED
      BY <1>9, <3>1
  <2> QED
    BY <1>1, <2>1, <2>2, NewChunk
<1>12. RInv' /\ InputRight' /\ OnePlace' /\ DeviceHears' /\ stream' \in StreamType /\ received' \in Nat
  <2>1. RInv'
    BY <1>1, ProcessInv
  <2>2. InputRight'
    BY <1>1, <1>2, InputStays
  <2>3. OnePlace'
    BY <1>2 DEF OnePlace
  <2>4. DeviceHears'
    BY <1>1, HearsStays
  <2> QED
    BY <1>1, <2>1, <2>2, <2>3, <2>4
<1> QED
  BY <1>11, <1>12 DEF PathInv

\* The chunk, of which b samples are written.
Written(b) ==
  /\ written = b * Bytes /\ Len(buffer) = ChunkSamples * Bytes
  /\ Len(Rest) = (ChunkSamples - b) * Bytes
  /\ Len(Rest) \in Nat /\ written \in Nat /\ written + Len(Rest) = Len(buffer)

\* In a write some samples of the chunk are written, not all of them.
LEMMA WriteFacts ==
  ASSUME stream \in StreamType, ChunkRight, pc = "write"
  PROVE  \E b \in 0..(ChunkSamples - 1) : Written(b)
<1> DEFINE M == ChunkSamples
           w == Bytes
<1>1. PICK b \in 0..(M - 1) : written = b * w
  BY DEF ChunkRight
<1>2. w \in Width /\ M \in Nat /\ b \in Nat /\ b <= M
  BY ChunkSizes, StreamFormats
<1>3. Len(buffer) = M * w /\ Len(Rest) = (M - b) * w
  <2>1. buffer \in Buffer(M * Bytes) /\ b \in 0..M /\ written = b * Bytes
    BY <1>1, <1>2 DEF ChunkRight
  <2> HIDE DEF M
  <2> QED
    BY <1>2, <2>1, RestIs
<1>4. (M - b) * w \in Nat /\ b * w \in Nat /\ b * w + (M - b) * w = M * w
  <2> HIDE DEF M, w
  <2>1. w = 1 \/ w = 2 \/ w = 4
    BY <1>2 DEF Width
  <2> QED
    BY <1>2, <2>1
<1>5. Written(b)
  BY <1>1, <1>3, <1>4 DEF Written
<1> QED
  BY <1>5

\* A step of a driver changes nothing else.
LEMMA WriteStays ==
  ASSUME PathInv, UNCHANGED <<rvars, stream, received>>, pc = "write", DeviceHears', ChunkRight'
  PROVE  PathInv'
<1>1. RInv' /\ InputRight'
  BY RNextInv, InputStays DEF PathInv, rvars
<1>2. OnePlace'
  BY DEF OnePlace, PathInv, rvars
<1> QED
  BY <1>1, <1>2 DEF PathInv

\* What a write needs of the invariant.
LEMMA WriteNeeds ==
  ASSUME PathInv
  PROVE  stream \in StreamType /\ ChunkRight /\ DeviceHears
BY DEF PathInv

\* A driver that writes all of it; PulseAudio converts the chunk in place.
LEMMA WriteAllInv == PathInv /\ WriteAll => PathInv'
<1> SUFFICES ASSUME PathInv, WriteAll PROVE PathInv'
  OBVIOUS
<1>1. /\ pc = "write" /\ UNCHANGED <<rvars, stream, received>>
      /\ Hear(Len(Rest)) /\ Advance(Len(Rest))
  BY DEF WriteAll
<1>2. PICK b \in 0..(ChunkSamples - 1) : Written(b)
  BY <1>1, WriteNeeds, WriteFacts
<1>3. pc' = "loop"
  BY <1>1, <1>2 DEF Advance, Written
<1>4. Fine(heard')
  <2> DEFINE t == ChunkSamples - b
             n == Len(Rest)
  <2>1. /\ b \in 0..ChunkSamples /\ t \in 0..(ChunkSamples - b)
        /\ n = t * Bytes /\ written = b * Bytes
    BY <1>2, ChunkSizes DEF Written
  <2> HIDE DEF t, n
  <2>2. Hear(n)
    BY <1>1 DEF n
  <2> QED
    BY <1>1, <2>1, <2>2, WriteNeeds, Delivered
<1>5. DeviceHears'
  BY <1>1, <1>4, HeardNext
<1>6. ChunkRight'
  BY <1>3 DEF ChunkRight
<1> QED
  BY <1>1, <1>5, <1>6, WriteStays

\* A driver that writes some samples of it.
LEMMA WriteSomeInv == PathInv /\ WriteSome => PathInv'
<1> SUFFICES ASSUME PathInv, WriteSome PROVE PathInv'
  OBVIOUS
<1>1. PICK t \in 1..ChunkSamples :
        /\ pc = "write" /\ t * Bytes <= Len(Rest) /\ Hear(t * Bytes) /\ Advance(t * Bytes)
        /\ UNCHANGED <<rvars, stream, received, buffer>>
  BY DEF WriteSome
<1>2. PICK b \in 0..(ChunkSamples - 1) : Written(b)
  BY <1>1, WriteNeeds, WriteFacts
<1> DEFINE w == Bytes
           M == ChunkSamples
           n == t * w
<1>3. M \in Nat /\ t \in Nat /\ b \in Nat /\ b <= M /\ b \in 0..M /\ w \in Width
  BY WriteNeeds, StreamFormats, ChunkSizes
<1>4. written = b * w /\ Len(Rest) = (M - b) * w /\ Len(buffer) = M * w
  BY <1>2 DEF Written
<1>5. n <= (M - b) * w
  BY <1>1, <1>4
<1>6. t \in 0..(M - b)
  <2> HIDE DEF M, w
  <2>1. w = 1 \/ w = 2 \/ w = 4
    BY <1>3 DEF Width
  <2> QED
    BY <1>3, <1>4, <1>5, <2>1
<1>7. Fine(heard')
  <2>1. n = t * Bytes /\ b \in 0..ChunkSamples /\ t \in 0..(ChunkSamples - b) /\ written = b * Bytes
    BY <1>3, <1>4, <1>6
  <2>2. Hear(n)
    BY <1>1
  <2> HIDE DEF n
  <2> QED
    BY <1>1, <2>1, <2>2, WriteNeeds, Delivered
<1>8. DeviceHears'
  BY <1>1, <1>7, HeardNext
<1>9. ChunkRight'
  <2>1. /\ pc' = (IF written + n < Len(buffer) THEN "write" ELSE "loop")
        /\ written' = written + n /\ UNCHANGED <<rvars, stream, received, buffer>>
    BY <1>1 DEF Advance
  <2>2. CASE written + n < Len(buffer)
    <3>1. b + t \in 0..(M - 1) /\ written' = (b + t) * w
      <4> HIDE DEF M, w
      <4>1. w = 1 \/ w = 2 \/ w = 4
        BY <1>3 DEF Width
      <4> QED
        BY <1>3, <1>4, <2>1, <2>2, <4>1
    <3>2. /\ rsd_format' = rsd_format /\ Bytes' = Bytes /\ ChunkSamples' = ChunkSamples
          /\ \A s : Made(s)' = Made(s)
          /\ \A s, a : Right(s, a)' <=> Right(s, a)
      BY <2>1, StreamStays
    <3>3. ChunkStart' = ChunkStart
      BY <2>1, <3>2 DEF ChunkStart, rvars
    <3>4. \E i \in 0..(ChunkSamples - 1) : written' = i * Bytes
      BY <3>1
    <3>5. /\ ChunkStart \in Nat /\ buffer \in Buffer(ChunkSamples * Bytes)
          /\ \A s \in 0..(ChunkSamples - 1) :
               Made(s) => Right(ChunkStart + s, Amplitude(rsd_format, Cell(buffer, s, Bytes)))
      BY <1>1, WriteNeeds DEF ChunkRight
    <3>6. buffer' = buffer
      BY <2>1
    <3> QED
      BY <3>2, <3>3, <3>4, <3>5, <3>6 DEF ChunkRight
  <2>3. CASE ~(written + n < Len(buffer))
    BY <2>1, <2>3 DEF ChunkRight
  <2> QED
    BY <2>2, <2>3
<1> QED
  BY <1>1, <1>8, <1>9, WriteStays

\* An underrun of ALSA: the rest counts as written.
LEMMA RecoverInv == PathInv /\ Recover => PathInv'
<1> SUFFICES ASSUME PathInv, Recover PROVE PathInv'
  OBVIOUS
<1>1. /\ pc = "write" /\ UNCHANGED <<rvars, stream, received, buffer, heard>> /\ Advance(Len(Rest))
  BY DEF Recover
<1>2. PICK b \in 0..(ChunkSamples - 1) : Written(b)
  BY <1>1, WriteNeeds, WriteFacts
<1>3. pc' = "loop"
  BY <1>1, <1>2 DEF Advance, Written
<1>4. ChunkRight' /\ DeviceHears'
  BY <1>1, <1>3, WriteNeeds, HearsStays DEF ChunkRight
<1> QED
  BY <1>1, <1>4, WriteStays

\* A driver that gives up.
LEMMA WriteFailsInv == PathInv /\ WriteFails => PathInv'
<1> SUFFICES ASSUME PathInv, WriteFails PROVE PathInv'
  OBVIOUS
<1>1. pc = "write" /\ pc' = "exit" /\ heard' = << >> /\ UNCHANGED <<rvars, stream, received>>
  BY DEF WriteFails
<1>2. ChunkRight' /\ DeviceHears'
  BY <1>1 DEF ChunkRight, DeviceHears
<1> QED
  BY <1>1, <1>2, WriteStays

\* A stutter.
LEMMA UnchangedInv == PathInv /\ UNCHANGED vars => PathInv'
<1> SUFFICES ASSUME PathInv, UNCHANGED vars PROVE PathInv'
  OBVIOUS
<1>1. UNCHANGED <<rvars, stream, pc, received, buffer, written, heard>>
  BY DEF vars
<1>2. /\ stream \in StreamType /\ received \in Nat /\ RInv
      /\ OnePlace /\ InputRight /\ ChunkRight /\ DeviceHears
  BY DEF PathInv
<1>3. RInv' /\ InputRight' /\ DeviceHears'
  <2>1. RInv'
    BY <1>1, <1>2, RNextInv
  <2>2. InputRight'
    BY <1>1, <1>2, InputStays DEF rvars
  <2>3. DeviceHears'
    BY <1>1, <1>2, HearsStays
  <2> QED
    BY <2>1, <2>2, <2>3
<1>4. OnePlace'
  BY <1>1, <1>2 DEF OnePlace, rvars
<1>5. ChunkRight'
  <2>1. /\ rsd_format' = rsd_format /\ Bytes' = Bytes /\ ChunkSamples' = ChunkSamples
        /\ \A s : Made(s)' = Made(s)
        /\ \A s, a : Right(s, a)' <=> Right(s, a)
    BY <1>1, StreamStays
  <2>2. ChunkStart' = ChunkStart
    BY <1>1, <2>1 DEF ChunkStart, rvars
  <2>3. buffer' = buffer /\ written' = written /\ pc' = pc
    BY <1>1
  <2> QED
    BY <1>2, <2>1, <2>2, <2>3 DEF ChunkRight
<1> QED
  BY <1>1, <1>2, <1>3, <1>4, <1>5 DEF PathInv

\* Every step keeps the invariant.
LEMMA PathNextInv == PathInv /\ [Next]_vars => PathInv'
<1> SUFFICES ASSUME PathInv, [Next]_vars PROVE PathInv'
  OBVIOUS
<1>1. CASE receive_data
  BY <1>1, receive_dataInv
<1>2. CASE Resample
  BY <1>2, ResampleInv
<1>3. CASE resample_callback
  BY <1>3, resample_callbackInv
<1>4. CASE Process
  BY <1>4, ProcessPathInv
<1>5. CASE WriteAll
  BY <1>5, WriteAllInv
<1>6. CASE WriteSome
  BY <1>6, WriteSomeInv
<1>7. CASE Recover
  BY <1>7, RecoverInv
<1>8. CASE WriteFails
  BY <1>8, WriteFailsInv
<1>9. CASE Exited
  BY <1>9, UnchangedInv DEF Exited
<1>10. CASE UNCHANGED vars
  BY <1>10, UnchangedInv
<1> QED
  BY <1>1, <1>2, <1>3, <1>4, <1>5, <1>6, <1>7, <1>8, <1>9, <1>10 DEF Next

(***************************************************************************)
(* The inductive invariant of the path: the resampler was given what the    *)
(* client sent, every sample of the chunk that the server made is right     *)
(* (Right, Made: not the remainder of a resampled chunk, nor a frame        *)
(* between two of the input; with EnoughFrames; to within the rounding and  *)
(* what floats lose), and the thread is in the resampler or in the driver.  *)
(***************************************************************************)
THEOREM AudioPathInvariant == Spec => []PathInv
BY PathInitInv, PathNextInv, PTL DEF Spec

(***************************************************************************)
(* Every write of every driver gives the device the amplitudes of exactly   *)
(* the samples that it says it took: through receive_data or the resampler, *)
(* audio_converter and the sizes of the driver, for every format, byte      *)
(* order, wave, number of channels, chunk and ratio.  Behind the resampler  *)
(* this is about the samples it made: with a number of channels that does   *)
(* not divide the chunk, what follows them is not the client's, and with a  *)
(* chunk shorter than EnoughFrames nothing is claimed.  32 bits come        *)
(* through its floats to within Blur steps.                                 *)
(***************************************************************************)
THEOREM AudioPathHears == Spec => []DeviceHears
<1>1. PathInv => DeviceHears
  BY DEF PathInv
<1> QED
  BY <1>1, AudioPathInvariant, PTL

\* A step of the path is a step of the resampler, or leaves it alone.
LEMMA PathStepResamples == PathInv /\ [Next]_vars => [RNext]_rvars
<1> SUFFICES ASSUME PathInv, [Next]_vars PROVE [RNext]_rvars
  OBVIOUS
<1>1. CASE Resample
  BY <1>1 DEF Resample, RNext
<1>2. CASE resample_callback
  <2> DEFINE w == IF stream.fmt \in Formats32 THEN 4 ELSE 2
             n == Len(input)
             F == ToFrames(audio_converter(Sent(n * Channels, InFrames * Channels), stream.fmt, Asked(w), stream.little), w)
  <2>1. CASE n + InFrames <= StreamFrames
    <3>1. func(F)
      BY <1>2, <2>1 DEF resample_callback, Asked
    <3>2. stream \in StreamType /\ n \in Nat /\ InFrames \in Nat \ {0}
      BY AudioPathAssumption DEF PathInv, RInv, RTypeOK
    <3>3. F \in Seq(Frame) /\ Len(F) = InFrames
      <4> HIDE DEF n
      <4>1. w = (IF stream.fmt \in Formats32 THEN 4 ELSE 2)
        OBVIOUS
      <4> HIDE DEF w
      <4> QED
        BY <3>2, <4>1, FramesAre
    <3> HIDE DEF F
    <3>4. F # << >>
      BY <3>2, <3>3
    <3> QED
      BY <3>1, <3>3, <3>4 DEF RNext
  <2>2. CASE ~(n + InFrames <= StreamFrames)
    BY <1>2, <2>2 DEF resample_callback, RNext
  <2> QED
    BY <2>1, <2>2
<1>3. CASE Process
  BY <1>3 DEF Process, RNext
<1>4. CASE receive_data \/ WriteAll \/ WriteSome \/ Recover \/ WriteFails \/ Exited \/ UNCHANGED vars
  <2>1. UNCHANGED rvars
    BY <1>4 DEF receive_data, WriteAll, WriteSome, Recover, WriteFails, Exited, vars
  <2> QED
    BY <2>1
<1> QED
  BY <1>1, <1>2, <1>3, <1>4 DEF Next

(***************************************************************************)
(* rsd_thread uses the resampler as its module has it: the path implements  *)
(* RSpec, so what is proved of the resampler alone holds in the path.       *)
(***************************************************************************)
THEOREM AudioPathResamples == Spec => RSpec
<1>1. Init => RInit
  BY DEF Init
<1> QED
  BY <1>1, AudioPathInvariant, PathStepResamples, PTL DEF Spec, RSpec

(***************************************************************************)
(* In the path the resampler reads only frames that are in data, for every  *)
(* ratio and chunk with EnoughFrames.  The server does not see to that: see *)
(* ReadsInside.                                                             *)
(***************************************************************************)
THEOREM AudioPathReadsInside == Spec => []ReadsInside
BY AudioPathResamples, ResamplerReadsInside, PTL

(***************************************************************************)
(* In the path the frames in data are the input from sum_input_frames on,   *)
(* though the callback gives it in the sizes of the stream.                 *)
(***************************************************************************)
THEOREM AudioPathKeepsTheInput == Spec => []KeepsTheInput
BY AudioPathResamples, ResamplerKeepsTheInput, PTL

(***************************************************************************)
(* In the path an output frame that falls on an input frame is that frame:  *)
(* the server does not drift against the ratio that it computed.            *)
(***************************************************************************)
THEOREM AudioPathKeepsTime == Spec => []KeepsTime
BY AudioPathResamples, ResamplerKeepsTime, PTL

-----------------------------------------------------------------------------
(* Types *)

\* While no chunk is written, what is left of the last one is a buffer.
LastChunk ==
  /\ pc \in {"loop", "write", "exit"}
  /\ pc # "write" => buffer \in Seq(Byte) /\ written \in 0..Len(buffer)

\* While one is, ChunkRight says so.
LEMMA ChunkTypes ==
  ASSUME PathInv, pc = "write"
  PROVE  /\ buffer \in Seq(Byte) /\ written \in 0..Len(buffer)
         /\ Len(buffer) \in Nat /\ Len(Rest) \in Nat /\ written + Len(Rest) = Len(buffer)
<1>1. PICK b \in 0..(ChunkSamples - 1) : Written(b)
  BY WriteNeeds, WriteFacts
<1>2. Len(Rest) \in Nat /\ written \in Nat /\ written + Len(Rest) = Len(buffer)
  BY <1>1 DEF Written
<1>3. PICK n : n = ChunkSamples * Bytes /\ buffer \in Buffer(n)
  BY WriteNeeds DEF ChunkRight
<1>4. n \in Nat
  <2>1. ChunkSamples \in Nat /\ Bytes \in Nat
    BY ChunkSizes, WriteNeeds, StreamFormats DEF Width
  <2> QED
    BY <1>3, <2>1
<1>5. buffer \in Seq(Byte)
  BY <1>3, <1>4 DEF Buffer
<1> QED
  BY <1>2, <1>5

\* PulseAudio converts in place what is left of the chunk, and keeps its length.
LEMMA ConvertsInPlace ==
  ASSUME PathInv, pc = "write", stream.driver = "pulse"
  PROVE  LET c == audio_converter(Rest, rsd_format, Device.conv, stream.little)
         IN  c \in Seq(Byte) /\ Len(c) = Len(Rest)
<1> DEFINE c == audio_converter(Rest, rsd_format, Device.conv, stream.little)
           M == ChunkSamples
<1>1. stream \in StreamType /\ M \in Nat /\ Bytes \in Nat
  BY ChunkSizes, WriteNeeds, StreamFormats DEF Width
<1>2. PICK b \in 0..(M - 1) : Written(b)
  BY WriteNeeds, WriteFacts
<1>3. b \in 0..M /\ written = b * Bytes /\ buffer \in Buffer(M * Bytes)
  <2>1. written = b * Bytes
    BY <1>2 DEF Written
  <2>2. buffer \in Buffer(M * Bytes)
    BY WriteNeeds DEF ChunkRight
  <2> HIDE DEF M
  <2> QED
    BY <1>1, <2>1, <2>2
<1> HIDE DEF M
<1>4. Rest \in Buffer((M - b) * Bytes) /\ Len(Rest) = (M - b) * Bytes
  BY <1>1, <1>3, RestIs
<1>5. PICK m \in Nat : m = M - b
  BY <1>1, <1>3
<1>6. Rest \in Buffer(m * Bytes) /\ Len(Rest) = m * Bytes
  BY <1>4, <1>5
<1>7. /\ Same(rsd_format, Rest, Device.format, c, m)
      /\ rsnd_format_to_bytes(Device.format) = Bytes
  BY <1>1, <1>6, DeviceConverts
<1>8. c \in Buffer(m * Bytes) /\ m * Bytes \in Nat
  BY <1>1, <1>7 DEF Same
<1> HIDE DEF c
<1> QED
  BY <1>6, <1>8 DEF Buffer, c

\* Every step keeps it.
LEMMA LastChunkStep == PathInv /\ LastChunk /\ [Next]_vars => LastChunk'
<1> SUFFICES ASSUME PathInv, LastChunk, [Next]_vars PROVE LastChunk'
  OBVIOUS
<1>1. CASE receive_data
  BY <1>1 DEF receive_data, LastChunk
<1>2. CASE Resample
  <2>1. << >> \in Seq(Byte) /\ 0 \in 0..Len(<< >>)
    OBVIOUS
  <2> QED
    BY <1>2, <2>1 DEF Resample, LastChunk
<1>3. CASE resample_callback
  <2>1. pc # "write"
    BY <1>3 DEF resample_callback, func, func_ends, PathInv, OnePlace
  <2>2. UNCHANGED <<buffer, written>> /\ (pc' = pc \/ pc' = "exit")
    BY <1>3 DEF resample_callback
  <2> QED
    BY <2>1, <2>2 DEF LastChunk
<1>4. CASE Process
  BY <1>4 DEF Process, LastChunk
<1>5. CASE WriteAll
  <2>1. pc = "write" /\ Advance(Len(Rest))
    BY <1>5 DEF WriteAll
  <2>2. /\ buffer \in Seq(Byte) /\ written \in 0..Len(buffer)
        /\ Len(buffer) \in Nat /\ Len(Rest) \in Nat /\ written + Len(Rest) = Len(buffer)
    BY <2>1, ChunkTypes
  <2>3. written' = Len(buffer) /\ pc' = "loop"
    BY <2>1, <2>2 DEF Advance
  <2>4. buffer' \in Seq(Byte) /\ Len(buffer') = Len(buffer)
    <3>1. CASE stream.driver = "pulse"
      <4> DEFINE c == audio_converter(Rest, rsd_format, Device.conv, stream.little)
      <4>1. c \in Seq(Byte) /\ Len(c) = Len(Rest)
        BY <2>1, <3>1, ConvertsInPlace
      <4>2. buffer' = SubSeq(buffer, 1, written) \o c
        BY <1>5, <3>1 DEF WriteAll
      <4> HIDE DEF c
      <4>3. SubSeq(buffer, 1, written) \in Seq(Byte) /\ Len(SubSeq(buffer, 1, written)) = written
        BY <2>2
      <4>4. PICK s \in Seq(Byte) : s = SubSeq(buffer, 1, written)
        BY <4>3
      <4>5. buffer' = s \o c /\ Len(s) = written /\ s \o c \in Seq(Byte) /\ Len(s \o c) = Len(s) + Len(c)
        BY <4>1, <4>2, <4>3, <4>4
      <4> QED
        BY <2>2, <4>1, <4>5
    <3>2. CASE stream.driver # "pulse"
      BY <1>5, <2>2, <3>2 DEF WriteAll
    <3> QED
      BY <3>1, <3>2
  <2> QED
    BY <2>2, <2>3, <2>4 DEF LastChunk
<1>6. CASE WriteSome
  <2>1. PICK k \in 1..ChunkSamples :
          pc = "write" /\ k * Bytes <= Len(Rest) /\ Advance(k * Bytes) /\ UNCHANGED buffer
    BY <1>6 DEF WriteSome
  <2>2. /\ buffer \in Seq(Byte) /\ written \in 0..Len(buffer)
        /\ Len(buffer) \in Nat /\ Len(Rest) \in Nat /\ written + Len(Rest) = Len(buffer)
    BY <2>1, ChunkTypes
  <2>3. k * Bytes \in Nat
    <3>1. k \in Nat /\ Bytes \in Nat
      BY WriteNeeds, StreamFormats DEF Width
    <3> QED
      BY <3>1
  <2>4. written' \in 0..Len(buffer) /\ pc' \in {"loop", "write"}
    BY <2>1, <2>2, <2>3 DEF Advance
  <2> QED
    BY <2>1, <2>2, <2>4 DEF LastChunk
<1>7. CASE Recover
  <2>1. pc = "write" /\ Advance(Len(Rest)) /\ UNCHANGED buffer
    BY <1>7 DEF Recover
  <2>2. /\ buffer \in Seq(Byte) /\ written \in 0..Len(buffer)
        /\ Len(buffer) \in Nat /\ Len(Rest) \in Nat /\ written + Len(Rest) = Len(buffer)
    BY <2>1, ChunkTypes
  <2> QED
    BY <2>1, <2>2 DEF Advance, LastChunk
<1>8. CASE WriteFails
  <2>1. << >> \in Seq(Byte) /\ 0 \in 0..Len(<< >>)
    OBVIOUS
  <2> QED
    BY <1>8, <2>1 DEF WriteFails, LastChunk
<1>9. CASE Exited \/ UNCHANGED vars
  BY <1>9 DEF Exited, vars, LastChunk
<1> QED
  BY <1>1, <1>2, <1>3, <1>4, <1>5, <1>6, <1>7, <1>8, <1>9 DEF Next

(***************************************************************************)
(* Type correctness of the path.                                            *)
(***************************************************************************)
THEOREM AudioPathTypes == Spec => []TypeOK
<1>1. Init => LastChunk
  BY DEF Init, LastChunk
<1>2. PathInv /\ LastChunk => TypeOK
  <2> SUFFICES ASSUME PathInv, LastChunk PROVE TypeOK
    OBVIOUS
  <2>1. RTypeOK
    BY DEF PathInv, RInv
  <2>2. buffer \in Seq(Byte) /\ written \in 0..Len(buffer)
    BY ChunkTypes DEF LastChunk
  <2> QED
    BY <2>1, <2>2 DEF TypeOK, LastChunk, Byte
<1> QED
  BY <1>1, <1>2, LastChunkStep, AudioPathInvariant, PTL DEF Spec
==============================================================================
