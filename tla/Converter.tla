----------------------------- MODULE Converter -----------------------------
(***************************************************************************)
(* Sample formats and their conversion on the server (src/src/audio.c,      *)
(* src/src/endian.c).                                                       *)
(*                                                                         *)
(* A buffer is a sequence of bytes, a byte one of Base values (256 in the   *)
(* code; a smaller even power of two keeps every case: sign, byte order,    *)
(* width and wrap-around).  audio_converter works in place, so the loops    *)
(* that widen or narrow samples run over the bytes they are still to read:  *)
(* their direction matters and is kept.                                     *)
(***************************************************************************)
EXTENDS Integers, Sequences, SequencesExt

CONSTANT Base   \* values of a byte

ASSUME BaseAssumption == Base \in {4, 16, 256}

Formats8  == {"U8", "S8", "ALAW", "MULAW"}
Formats16 == {"S16_LE", "S16_BE", "U16_LE", "U16_BE"}
Formats32 == {"S32_LE", "S32_BE", "U32_LE", "U32_BE"}
Formats   == Formats8 \cup Formats16 \cup Formats32

BigEndian == {"S16_BE", "U16_BE", "S32_BE", "U32_BE"}
Unsigned  == {"U8", "U16_LE", "U16_BE", "U32_LE", "U32_BE"}

rsnd_format_to_bytes(fmt) ==
  CASE fmt \in Formats8 -> 1 [] fmt \in Formats16 -> 2 [] fmt \in Formats32 -> 4

\* The formats that are native to the host.
S16(little) == IF little THEN "S16_LE" ELSE "S16_BE"
S32(little) == IF little THEN "S32_LE" ELSE "S32_BE"

\* ALAWTable and MULAWTable are 256 constants; any two tables will do.
ALAWTable(b)  == ((3 * b * b + b) % (Base * Base)) - ((Base * Base) \div 2)
MULAWTable(b) == ((Base * Base) \div 2) - 1 - (b * (Base - 1))

-----------------------------------------------------------------------------
(* Numbers in memory *)

Up(n)   == [i \in 1..n |-> i - 1]
Down(n) == [i \in 1..n |-> n - i]

\* The number that digits, most significant first, stand for; and its digits.
Number(digits) ==
  LET upto[k \in 0..Len(digits)] == IF k = 0 THEN 0 ELSE upto[k - 1] * Base + digits[k]
  IN  upto[Len(digits)]
Digits(n, w)   == [k \in 1..w |-> (n \div Base^(w - k)) % Base]

\* An unsigned number of w bytes as a signed one.
Signed(n, w) == IF n >= Base^w \div 2 THEN n - Base^w ELSE n

InOrder(bytes, little) == IF little THEN Reverse(bytes) ELSE bytes

\* Sample i of an array of w-byte numbers, as the host reads and writes it.
Load(buf, i, w, little) == Number(InOrder(SubSeq(buf, i * w + 1, i * w + w), little))
Store(buf, i, w, n, little) ==
  SubSeq(buf, 1, i * w) \o InOrder(Digits(n % Base^w, w), little) \o SubSeq(buf, i * w + w + 1, Len(buf))

\* A loop over an array: sample i becomes f of what it reads there.
Each(order, buf, w, little, F(_, _)) ==
  LET loop[k \in 0..Len(order)] ==
        IF k = 0 THEN buf
        ELSE LET b == loop[k - 1] IN Store(b, order[k], w, F(b, order[k]), little)
  IN  loop[Len(order)]

-----------------------------------------------------------------------------
(* The loops of audio_converter; bytes is the part of the buffer in use *)

swap(buf, bytes, w, little) ==
  Each(Up(bytes \div w), buf, w, little, LAMBDA b, i : Load(b, i, w, ~little))

alaw_to_s16(buf, bytes, little) ==
  Each(Down(bytes), buf, 2, little, LAMBDA b, i : ALAWTable(b[i + 1]))

mulaw_to_s16(buf, bytes, little) ==
  Each(Down(bytes), buf, 2, little, LAMBDA b, i : MULAWTable(b[i + 1]))

\* Faulty variant: runs upwards, over bytes it has yet to read.
s8_to_s16_up(buf, bytes, little) ==
  Each(Up(bytes), buf, 2, little, LAMBDA b, i : Signed(b[i + 1], 1) * Base)

s8_to_s16(buf, bytes, little) ==
  Each(Down(bytes), buf, 2, little, LAMBDA b, i : Signed(b[i + 1], 1) * Base)

\* The code runs this loop four times as far as there are samples; what it
\* reads and writes there is outside the part that is copied back.
s32_to_s16(buf, bytes, little) ==
  Each(Up(bytes \div 4), buf, 2, little, LAMBDA b, i : Signed(Load(b, i, 4, little), 4) \div Base^2)

\* S_TO_U and U_TO_S: half the range is added, or taken away.
flip_sign(buf, bytes, w, little) ==
  Each(Up(bytes \div w), buf, w, little, LAMBDA b, i : Load(b, i, w, little) + (Base^w \div 2))

\* The buffer behind a step that is taken only under a condition.
When(condition, changed, buf) == IF condition THEN changed ELSE buf

(***************************************************************************)
(* The buffer after the operations, and how many bytes of it count.  The    *)
(* width is the one of the format that came in.  Samples are put into the   *)
(* host's order before they are touched; SWAP_ENDIAN then means that they   *)
(* stay there, or are swapped if they were native.                          *)
(***************************************************************************)
audio_converter(buf, format, op, little) ==
  LET bytes == Len(buf)
      w     == rsnd_format_to_bytes(format)
      law   == op \cap {"ALAW_TO_S16", "MULAW_TO_S16"} # {}
      fmt   == IF law THEN S16(little) ELSE format
      n1    == IF law THEN 2 * bytes ELSE bytes
      b0 == buf \o [i \in 1..bytes |-> 0]
      b1 == When("ALAW_TO_S16" \in op, alaw_to_s16(b0, bytes, little), b0)
      b2 == When("MULAW_TO_S16" \in op, mulaw_to_s16(b1, bytes, little), b1)
      swapped == w > 1 /\ little = (fmt \in BigEndian)
      b3 == When(swapped, swap(b2, n1, w, little), b2)
      b4 == When(op \cap {"S_TO_U", "U_TO_S"} # {}, flip_sign(b3, n1, w, little), b3)
      b5 == When("S8_TO_S16" \in op, s8_to_s16(b4, n1, little), b4)
      b6 == When("S32_TO_S16" \in op, s32_to_s16(b5, n1, little), b5)
      n2 == CASE "S8_TO_S16" \in op -> 2 * n1 [] "S32_TO_S16" \in op -> n1 \div 2 [] OTHER -> n1
      b7 == When(w > 1 /\ swapped # ("SWAP_ENDIAN" \in op), swap(b6, n2, w, little), b6)
  IN  IF op = {} THEN buf ELSE SubSeq(b7, 1, n2)

-----------------------------------------------------------------------------
(* Which operations bring a format to the host's 16 or 32 bits *)

Swapped(fmt, little) == IF rsnd_format_to_bytes(fmt) > 1 /\ little = (fmt \in BigEndian)
                        THEN {"SWAP_ENDIAN"} ELSE {}

converter_fmt_to_s16ne(fmt, little) ==
  Swapped(fmt, little)
    \cup (IF fmt \in Unsigned THEN {"U_TO_S"} ELSE {})
    \cup (CASE fmt \in Formats32 -> {"S32_TO_S16"}
            [] fmt \in {"U8", "S8"} -> {"S8_TO_S16"}
            [] fmt = "ALAW" -> {"ALAW_TO_S16"}
            [] fmt = "MULAW" -> {"MULAW_TO_S16"}
            [] OTHER -> {})

converter_fmt_to_s32ne(fmt, little) ==
  Swapped(fmt, little) \cup (IF fmt \in Unsigned THEN {"U_TO_S"} ELSE {})

-----------------------------------------------------------------------------
(* What a format means, stated without the code: the amplitude of the one   *)
(* sample that bytes is, on a scale of 16 bits, or 32 for the wide formats. *)

Amplitude(fmt, bytes) ==
  LET w == Len(bytes)
      n == Number(InOrder(bytes, fmt \notin BigEndian))
  IN
  CASE fmt = "ALAW"  -> ALAWTable(n)
    [] fmt = "MULAW" -> MULAWTable(n)
    [] OTHER -> (IF fmt \in Unsigned THEN n - (Base^w \div 2) ELSE Signed(n, w))
                  * (IF w = 1 THEN Base ELSE 1)

Amplitudes(fmt, bytes) ==
  LET w == rsnd_format_to_bytes(fmt)
  IN  [i \in 1..(Len(bytes) \div w) |-> Amplitude(fmt, SubSeq(bytes, (i - 1) * w + 1, i * w))]
=============================================================================
