----------------------------- MODULE ByteQueue -----------------------------
(***************************************************************************)
(* What rsnd_fifo_* (src/src/librsound/buffer.c) promises its users, and    *)
(* what librsound.c and cuse-ross.c rely on: a bounded first-in first-out   *)
(* queue of bytes.  Nothing of the ring is visible here.                    *)
(***************************************************************************)
EXTENDS Naturals, Sequences

CONSTANTS Byte,      \* the bytes a client can write
          Capacity   \* the size the queue was created with

VARIABLES queue,     \* the bytes written and not yet read, oldest first
          out        \* the bytes the last read returned

vars == <<queue, out>>

Init == queue = << >> /\ out = << >>

\* Blocks of at most Capacity bytes.
Blocks == UNION {[1..n -> Byte] : n \in 0..Capacity}

Put(data) ==
  /\ Len(queue) + Len(data) <= Capacity
  /\ queue' = queue \o data
  /\ UNCHANGED out

Get(n) ==
  /\ n <= Len(queue)
  /\ out' = SubSeq(queue, 1, n)
  /\ queue' = SubSeq(queue, n + 1, Len(queue))

Next == \/ \E data \in Blocks : Put(data)
        \/ \E n \in 0..Capacity : Get(n)

Spec == Init /\ [][Next]_vars
=============================================================================
