-------------------------------- MODULE Fifo --------------------------------
(***************************************************************************)
(* The ring buffer of src/src/librsound/buffer.c (shared with cuse-ross).   *)
(* A ring of Size + 1 cells, of which one always stays unused so that       *)
(* first = end means empty; every write and read is cut in at most two      *)
(* memcpy calls at the end of the allocation.  The refinement mapping       *)
(* Contents shows it to be the bounded queue of ByteQueue.                  *)
(***************************************************************************)
EXTENDS Integers, Sequences

CONSTANTS Byte,    \* byte values
          Zero,    \* the byte calloc fills the buffer with
          Size     \* the size passed to rsnd_fifo_new

ASSUME FifoAssumption == Size \in Nat \ {0} /\ Zero \in Byte

VARIABLES buffer,  \* the allocation, cells 0 .. bufsize - 1
          first,   \* index of the oldest byte
          end,     \* index of the next cell to write
          out      \* what the last rsnd_fifo_read copied to its caller

vars == <<buffer, first, end, out>>

bufsize == Size + 1

\* What a caller may pass to a write: a block that fits an empty queue.
Blocks == UNION {[1..n -> Byte] : n \in 0..Size}

-----------------------------------------------------------------------------
rsnd_fifo_new ==
  /\ buffer = [k \in 0..Size |-> Zero]
  /\ first = 0
  /\ end = 0
  /\ out = << >>

\* end, unrolled past the wrap-around so that it is never behind first
unrolledEnd == IF end < first THEN end + bufsize ELSE end

rsnd_fifo_read_avail == unrolledEnd - first

\* Faulty variant: forgets the cell that tells a full ring from an empty one.
write_avail_allCells == bufsize - (unrolledEnd - first)

rsnd_fifo_write_avail == (bufsize - 1) - (unrolledEnd - first)

\* How many of n bytes from ring index i on come before the end of the ring.
FirstPart(i, n) == IF i + n > bufsize THEN bufsize - i ELSE n

\* Faulty variant: an index that runs off the ring instead of wrapping.
Advance_noWrap(i, n) == i + n

\* The ring index n bytes after index i.
Advance(i, n) == (i + n) % bufsize

\* memcpy(ring + at, src + from, n)
CopyIn(ring, at, src, from, n) ==
  [k \in 0..Size |-> IF at <= k /\ k < at + n THEN src[k - at + from + 1] ELSE ring[k]]

\* The assertion rsnd_fifo_write makes of its caller is the guard.
rsnd_fifo_write(data) ==
  LET size        == Len(data)
      first_write == FirstPart(end, size)
      rest_write  == size - first_write
  IN  /\ rsnd_fifo_write_avail >= size
      /\ buffer' = CopyIn(CopyIn(buffer, end, data, 0, first_write),
                          0, data, first_write, rest_write)
      /\ end' = Advance(end, size)
      /\ UNCHANGED <<first, out>>

rsnd_fifo_read(size) ==
  LET first_read == FirstPart(first, size)
  IN  /\ rsnd_fifo_read_avail >= size
      /\ out' = [i \in 1..size |-> IF i <= first_read THEN buffer[first + i - 1]
                                   ELSE buffer[i - first_read - 1]]
      /\ first' = Advance(first, size)
      /\ UNCHANGED <<buffer, end>>

Next == \/ \E data \in Blocks : rsnd_fifo_write(data)
        \/ \E size \in 0..Size : rsnd_fifo_read(size)

Spec == rsnd_fifo_new /\ [][Next]_vars

-----------------------------------------------------------------------------
\* Both indices stay inside the allocation (rsnd_fifo_write and rsnd_fifo_read
\* reduce them modulo bufsize), and every cell holds a byte.
TypeOK ==
  /\ buffer \in [0..Size -> Byte]
  /\ first \in 0..Size
  /\ end \in 0..Size
  /\ out \in Blocks

\* The ring cells between first and end, in the order they are read.
Contents ==
  [i \in 1..rsnd_fifo_read_avail |->
     buffer[IF first + i - 1 >= bufsize THEN first + i - 1 - bufsize ELSE first + i - 1]]

Queue == INSTANCE ByteQueue WITH Capacity <- Size, queue <- Contents

(***************************************************************************)
(* The ring is a bounded FIFO queue: whatever mixture of block sizes is     *)
(* written and read, and wherever the wrap-around cuts them, each read      *)
(* returns the oldest bytes, once and in order, and no write overruns bytes *)
(* that are still to be read.                                               *)
(***************************************************************************)
ImplementsByteQueue == Queue!Spec
=============================================================================
