--------------------------- MODULE CuseRossProofs ---------------------------
(***************************************************************************)
(* What ross and the callback mode of librsound promise each other, for     *)
(* every size of chunk, fragment, buffer and write and any number of        *)
(* callback threads.                                                        *)
(***************************************************************************)
EXTENDS CuseRoss, TLAPS

-----------------------------------------------------------------------------
(* The inductive invariant *)

Requests == {"none", "write", "poll", "SETFRAGMENT", "RESET", "release"}

RoType == [started : BOOLEAN, error : BOOLEAN, nonblock : BOOLEAN, ph : BOOLEAN,
           buffer : BOOLEAN, bufsize : BufSizes]

AppType == [pc : Labels, req : Requests, size : Nat, written : Nat, write_avail : Nat,
            fits : BOOLEAN, replies : Nat]

CbType == [pc : CbLabels, buf : Seq(Int), has_read : Nat, missing : Nat]

\* The types that the proof needs.
TypeInv ==
  /\ ro \in RoType /\ app \in AppType
  /\ capacity \in BufSizes /\ fifo \in Seq(Int) /\ sent \in Seq(Int) /\ accepted \in Nat
  /\ thread_active \in BOOLEAN /\ threadId \in Nat
  /\ cb \in [Cb -> CbType]
  /\ \A t \in Cb : cb[t].has_read + cb[t].missing <= ChunkSize

\* A callback thread that still uses the stream, or the connection.
Busy(t) == cb[t].pc \in {"run", "fill", "notify", "signal", "short", "send"}
Live(t) == Busy(t) \/ cb[t].pc = "failed"

\* Only the thread that was started last does, while the device is started and
\* nobody who waited for it has gone on.
OneInv ==
  /\ \A t \in Cb : Live(t) => /\ t = threadId /\ ro.started
                              /\ app.pc \notin {"reset", "clear", "free", "closed"}
                              /\ (~thread_active => app.pc = "join")
  /\ app.pc = "join" => ~thread_active

\* Where a handler uses the buffer, or will.
Using == {"w_copy", "w_test", "w_wait", "w_asleep", "w_loop", "p_avail"}

\* A started device has its buffer until it is closed; the handlers that use it
\* have seen that it is started.
BufferInv ==
  /\ ro.started => threadId \in Cb
  /\ ro.started /\ app.pc # "closed" => ro.buffer
  /\ app.pc = "w_start" => ~ro.started
  /\ app.pc \in Using => ro.started

\* A write that fits has the room it was told of until it has taken it.
RoomInv ==
  /\ Len(fifo) <= capacity
  /\ app.fits =>
       /\ app.pc \in {"w_check", "w_start", "w_copy", "w_test", "w_loop", "w_reply"}
       /\ app.pc \in {"w_check", "w_start", "w_copy"} => app.size > 0
       /\ app.pc \in {"w_check", "w_start"} => app.size <= (IF ro.started THEN capacity - Len(fifo) ELSE ro.bufsize)
       /\ app.pc = "w_copy" => app.size <= capacity - Len(fifo)
       /\ app.pc = "w_test" => app.write_avail > 0
       /\ app.pc \in {"w_test", "w_loop", "w_reply"} => app.size = 0

\* What was sent, the bytes in the chunk and the FIFO follow each other.
OrderInv ==
  /\ \A i \in 1..Len(sent) : sent[i] = i
  /\ \A t \in Cb : cb[t].pc \in {"none", "run"} => cb[t].buf = << >>
  /\ \A t \in Cb : Busy(t) =>
       /\ \A i \in 1..Len(cb[t].buf) : cb[t].buf[i] = Len(sent) + i
       /\ \A i \in 1..Len(fifo) : fifo[i] = Len(sent) + Len(cb[t].buf) + i
       /\ Len(sent) + Len(cb[t].buf) + Len(fifo) = accepted

Inv == TypeInv /\ OneInv /\ BufferInv /\ RoomInv /\ OrderInv

-----------------------------------------------------------------------------
(* Sequences and sizes *)

\* The constants are sizes.
LEMMA Sizes ==
  /\ ChunkSize \in Nat \ {0} /\ FragSize \in Nat \ {0} /\ MaxThreads \in Nat /\ MaxBytes \in Nat
  /\ \A b \in BufSizes : b \in Nat \ {0}
  /\ \A n \in WriteSizes : n \in Nat \ {0}
  BY CuseRossAssumption

\* The lesser of two.
LEMMA SmallerFacts ==
  ASSUME NEW a \in Nat, NEW b \in Nat
  PROVE  /\ Smaller(a, b) \in Nat /\ Smaller(a, b) <= a /\ Smaller(a, b) <= b
         /\ (a <= b => Smaller(a, b) = a) /\ (b <= a => Smaller(a, b) = b)
         /\ (a > 0 /\ b > 0 => Smaller(a, b) > 0)
  BY DEF Smaller

\* The n bytes after the first a.
LEMMA BytesFacts ==
  ASSUME NEW a \in Nat, NEW n \in Nat
  PROVE  /\ Bytes(a + 1, a + n) \in Seq(Int) /\ Len(Bytes(a + 1, a + n)) = n
         /\ \A i \in 1..n : Bytes(a + 1, a + n)[i] = a + i
<1>1. (a + n) - (a + 1) + 1 = n /\ \A i \in 1..n : (a + 1) + i - 1 = a + i
  OBVIOUS
<1>2. Bytes(a + 1, a + n) = [i \in 1..n |-> a + i]
  BY <1>1 DEF Bytes
<1> QED
  BY <1>2

\* A sequence with another one behind it.
LEMMA ConcatFacts ==
  ASSUME NEW s \in Seq(Int), NEW u \in Seq(Int)
  PROVE  /\ s \o u \in Seq(Int) /\ Len(s \o u) = Len(s) + Len(u)
         /\ \A i \in 1..Len(s) : (s \o u)[i] = s[i]
         /\ \A i \in 1..Len(u) : (s \o u)[Len(s) + i] = u[i]
  OBVIOUS

\* The first n elements.
LEMMA HeadFacts ==
  ASSUME NEW s \in Seq(Int), NEW n \in 0..Len(s)
  PROVE  /\ SubSeq(s, 1, n) \in Seq(Int) /\ Len(SubSeq(s, 1, n)) = n
         /\ \A i \in 1..n : SubSeq(s, 1, n)[i] = s[i]
  OBVIOUS

\* What is left without them.
LEMMA DropFacts ==
  ASSUME NEW s \in Seq(Int), NEW n \in 0..Len(s)
  PROVE  /\ Drop(s, n) \in Seq(Int) /\ Len(Drop(s, n)) = Len(s) - n
         /\ \A i \in 1..(Len(s) - n) : Drop(s, n)[i] = s[n + i]
  BY DEF Drop

\* A stretch of the stream that is continued by another one.
LEMMA Continued ==
  ASSUME NEW s \in Seq(Int), NEW u \in Seq(Int), NEW a \in Nat,
         \A i \in 1..Len(s) : s[i] = a + i,
         \A i \in 1..Len(u) : u[i] = a + Len(s) + i
  PROVE  \A i \in 1..Len(s \o u) : (s \o u)[i] = a + i
<1> DEFINE q == s \o u
           k == Len(s)
           m == Len(u)
<1>1. k \in Nat /\ m \in Nat /\ Len(q) = k + m
  BY ConcatFacts
<1>2. /\ \A i \in 1..k : q[i] = a + i
      /\ \A i \in 1..m : q[k + i] = a + k + i
  BY ConcatFacts
<1> HIDE DEF q, k, m
<1>3. ASSUME NEW i \in 1..(k + m) PROVE q[i] = a + i
  <2>1. CASE i <= k
    BY <2>1, <1>1, <1>2
  <2>2. CASE i > k
    <3>1. i - k \in 1..m /\ k + (i - k) = i /\ a + k + (i - k) = a + i
      BY <2>2, <1>1
    <3> QED
      BY <3>1, <1>2
  <2> QED
    BY <2>1, <2>2, <1>1
<1> QED
  BY <1>1, <1>3 DEF q

\* The same from the stream's first byte on.
LEMMA ContinuedStream ==
  ASSUME NEW s \in Seq(Int), NEW u \in Seq(Int),
         \A i \in 1..Len(s) : s[i] = i,
         \A i \in 1..Len(u) : u[i] = Len(s) + i
  PROVE  \A i \in 1..Len(s \o u) : (s \o u)[i] = i
<1> DEFINE a == 0
<1>1. a \in Nat /\ \A i \in Int : a + i = i
  OBVIOUS
<1>2. Len(s) \in Int /\ Len(u) \in Int /\ Len(s \o u) \in Int
  OBVIOUS
<1> HIDE DEF a
<1>3. \A i \in 1..Len(s) : s[i] = a + i
  BY <1>1, <1>2
<1>4. a + Len(s) = Len(s)
  BY <1>1, <1>2
<1>5. \A i \in 1..Len(u) : u[i] = a + Len(s) + i
  BY <1>4
<1>6. \A i \in 1..Len(s \o u) : (s \o u)[i] = a + i
  BY <1>1, <1>3, <1>5, Continued
<1> QED
  BY <1>1, <1>2, <1>6

\* A sequence is a stretch of the stream when its elements say so.
LEMMA IsBytes ==
  ASSUME NEW s \in Seq(Int), NEW n \in Nat, Len(s) = n, \A i \in 1..n : s[i] = i
  PROVE  s = Bytes(1, n)
<1>1. n - 1 + 1 = n /\ \A i \in 1..n : 1 + i - 1 = i
  OBVIOUS
<1>2. Bytes(1, n) = [i \in 1..n |-> i]
  BY <1>1 DEF Bytes
<1>3. s = [i \in 1..n |-> s[i]]
  OBVIOUS
<1> QED
  BY <1>2, <1>3

-----------------------------------------------------------------------------
(* Steps of the application that leave the stream and the thread alone *)

Quiet ==
  \/ \E size \in WriteSizes : ross_write(size)
  \/ ross_poll \/ SetNonblock
  \/ \E b \in BufSizes : SetFragment(b)
  \/ \E req \in {"RESET", "release"} : Stop(req)
  \/ WriteCheck \/ WriteTest \/ WriteWait \/ WriteWake \/ WriteLoop \/ WriteReply
  \/ PollSteps

LEMMA InitInv == Init => Inv
<1> SUFFICES ASSUME Init PROVE Inv
  OBVIOUS
<1>1. PICK b \in BufSizes :
        /\ ro = [started |-> FALSE, error |-> FALSE, nonblock |-> FALSE, ph |-> FALSE,
                 buffer |-> FALSE, bufsize |-> b]
        /\ capacity = b
  BY DEF Init
<1>2. /\ fifo = << >> /\ accepted = 0 /\ sent = << >> /\ thread_active = FALSE /\ threadId = 0
      /\ cb = [t \in Cb |-> [pc |-> "none", buf |-> << >>, has_read |-> 0, missing |-> 0]]
      /\ app = [pc |-> "idle", req |-> "none", size |-> 0, written |-> 0, write_avail |-> 0,
                fits |-> FALSE, replies |-> 1]
  BY DEF Init
<1>3. TypeInv
  <2>1. cb \in [Cb -> CbType]
    BY <1>2 DEF CbLabels, CbType
  <2>2. app \in AppType
    BY <1>2 DEF AppType, Labels, Requests
  <2>3. ro \in RoType
    BY <1>1 DEF RoType
  <2>4. \A t \in Cb : cb[t].has_read + cb[t].missing <= ChunkSize
    BY <1>2, Sizes
  <2>5. fifo \in Seq(Int) /\ sent \in Seq(Int) /\ accepted \in Nat /\ threadId \in Nat
    BY <1>2
  <2>6. thread_active \in BOOLEAN
    BY <1>2
  <2> QED
    BY <1>1, <2>1, <2>2, <2>3, <2>4, <2>5, <2>6 DEF TypeInv
<1>4. \A t \in Cb : cb[t].pc = "none" /\ cb[t].buf = << >>
  BY <1>2
<1>5. OneInv /\ BufferInv
  BY <1>1, <1>2, <1>4 DEF OneInv, BufferInv, Live, Busy, Using
<1>6. RoomInv
  BY <1>1, <1>2, Sizes DEF RoomInv
<1>7. OrderInv
  BY <1>2, <1>4 DEF OrderInv, Busy
<1> QED
  BY <1>3, <1>5, <1>6, <1>7 DEF Inv

\* Moving on within a request.
LEMMA GotoFacts ==
  ASSUME app \in AppType, NEW label \in Labels, Goto(label)
  PROVE  /\ app' \in AppType /\ app'.pc = label
         /\ app'.size = app.size /\ app'.write_avail = app.write_avail /\ app'.fits = app.fits
  BY DEF AppType, Goto

\* Answering one.
LEMMA ReplyFacts ==
  ASSUME NEW n \in Nat, Reply(n)
  PROVE  app' \in AppType /\ app'.pc = "idle" /\ app'.fits = FALSE
  BY DEF AppType, Reply, Labels, Requests

\* Beginning one.
LEMMA RequestFacts ==
  ASSUME app \in AppType, NEW req \in Requests, NEW label \in Labels
  PROVE  /\ Request(req, label) \in AppType /\ Request(req, label).pc = label
         /\ Request(req, label).fits = app.fits
  BY DEF AppType, Request

Ends == {"join", "reset", "clear", "free", "closed"}

\* What a quiet step changes.
LEMMA QuietFacts ==
  ASSUME Inv, Quiet
  PROVE  /\ UNCHANGED <<capacity, fifo, sent, accepted, thread_active, threadId, cb>>
         /\ ro' \in RoType /\ ro'.started = ro.started /\ ro'.buffer = ro.buffer
         /\ app' \in AppType /\ app.pc \notin Ends /\ app'.pc \notin Ends
<1>1. ro \in RoType /\ app \in AppType
  BY DEF Inv, TypeInv
<1>2. UNCHANGED <<capacity, fifo, sent, accepted, thread_active, threadId, cb>>
  BY DEF Quiet, ross_write, ross_poll, SetNonblock, SetFragment, Stop, WriteCheck, WriteTest, WriteWait,
     WriteWake, WriteLoop, WriteReply, PollSteps, ross_update_notify, PollError, PollAvail, PollAgain,
     stream, handle, net
<1>3. ro' \in RoType /\ ro'.started = ro.started /\ ro'.buffer = ro.buffer
  <2>1. CASE UNCHANGED ro
    BY <1>1, <2>1
  <2>2. CASE ro' = [ro EXCEPT !.nonblock = TRUE] \/ ro' = [ro EXCEPT !.ph = TRUE]
    BY <1>1, <2>2 DEF RoType
  <2>3. CASE \E b \in BufSizes : ro' = [ro EXCEPT !.bufsize = b]
    BY <1>1, <2>3 DEF RoType
  <2> QED
    BY <2>1, <2>2, <2>3 DEF Quiet, ross_write, ross_poll, SetNonblock, SetFragment, Stop, WriteCheck,
       WriteTest, WriteWait, WriteWake, WriteLoop, WriteReply, PollSteps, ross_update_notify, PollError,
       PollAvail, PollAgain
<1>4. app.pc \notin Ends
  BY DEF Quiet, ross_write, ross_poll, SetNonblock, SetFragment, Stop, WriteCheck, WriteTest, WriteWait,
     WriteWake, WriteLoop, WriteReply, PollSteps, ross_update_notify, PollError, PollAvail, PollAgain, Ends
<1>5. CASE \E n \in {1} : Reply(n)
  BY <1>1, <1>2, <1>3, <1>4, <1>5, ReplyFacts DEF Ends
<1>6. CASE \E label \in Labels \ Ends : Goto(label)
  BY <1>1, <1>2, <1>3, <1>4, <1>6, GotoFacts
<1>7. CASE \E size \in WriteSizes : ross_write(size)
  <2>1. PICK size \in WriteSizes : ross_write(size)
    BY <1>7
  <2>2. size \in Nat /\ (size <= ross_write_avail) \in BOOLEAN
    BY Sizes
  <2>3. Request("write", "w_check") \in AppType /\ Request("write", "w_check").pc = "w_check"
    BY <1>1, RequestFacts DEF Requests, Labels
  <2>4. app' = [Request("write", "w_check") EXCEPT !.size = size, !.written = 0, !.fits = (size <= ross_write_avail)]
    BY <2>1 DEF ross_write
  <2> HIDE DEF ross_write_avail
  <2>5. app' \in AppType /\ app'.pc = "w_check"
    BY <2>2, <2>3, <2>4 DEF AppType
  <2> QED
    BY <1>2, <1>3, <1>4, <2>5 DEF Ends
<1>8. CASE ross_poll \/ \E req \in {"RESET", "release"} : Stop(req)
  <2>1. \E req \in Requests, label \in Labels \ Ends : app' = Request(req, label)
    BY <1>8 DEF ross_poll, Stop, Requests, Labels, Ends
  <2> QED
    BY <1>1, <1>2, <1>3, <1>4, <2>1, RequestFacts
<1>9. CASE \E b \in BufSizes : SetFragment(b)
  <2>1. CASE Reply(1)
    BY <2>1, <1>5
  <2>2. CASE app' = [Request("SETFRAGMENT", "idle") EXCEPT !.replies = 2]
    <3>1. Request("SETFRAGMENT", "idle") \in AppType /\ Request("SETFRAGMENT", "idle").pc = "idle"
      BY <1>1, RequestFacts DEF Requests, Labels
    <3>2. app' \in AppType /\ app'.pc = "idle"
      BY <3>1, <2>2 DEF AppType
    <3> QED
      BY <1>2, <1>3, <1>4, <3>2 DEF Ends
  <2> QED
    BY <1>9, <2>1, <2>2 DEF SetFragment
<1>10. CASE SetNonblock \/ WriteCheck \/ WriteTest \/ WriteWait \/ WriteWake \/ WriteLoop \/ WriteReply \/ PollSteps
  <2>1. Reply(1) \/ \E label \in Labels \ Ends : Goto(label)
    BY <1>10 DEF SetNonblock, WriteCheck, WriteTest, WriteWait, WriteWake, WriteLoop, WriteReply, PollSteps,
       ross_update_notify, PollError, PollAvail, PollAgain, Labels, Ends
  <2> QED
    BY <2>1, <1>5, <1>6
<1> QED
  BY <1>7, <1>8, <1>9, <1>10 DEF Quiet

Steady == {"w_check", "w_start", "w_copy", "w_test", "w_loop", "w_reply"}

\* How it moves the application.
LEMMA QuietMoves ==
  ASSUME Inv, Quiet
  PROVE  \/ Reply(1)
         \/ \E size \in WriteSizes : ross_write(size)
         \/ \E req \in Requests, label \in {"p_update", "stop"} : app' = Request(req, label)
         \/ app' = [Request("SETFRAGMENT", "idle") EXCEPT !.replies = 2]
         \/ \E label \in Labels : /\ Goto(label)
                                 /\ (label = "w_start" => ~ro.started)
                                 /\ (label \in Using => ro.started)
<1>1. CASE ross_poll \/ \E req \in {"RESET", "release"} : Stop(req)
  BY <1>1 DEF ross_poll, Stop, Requests
<1>2. CASE SetNonblock \/ \E b \in BufSizes : SetFragment(b)
  BY <1>2 DEF SetNonblock, SetFragment
<1>3. CASE WriteCheck
  BY <1>3 DEF WriteCheck, Labels, Using
<1>4. CASE WriteTest \/ WriteLoop
  <2>1. ro.started
    BY <1>4 DEF WriteTest, WriteLoop, Inv, BufferInv, Using
  <2> QED
    BY <2>1, <1>4 DEF WriteTest, WriteLoop, Labels
<1>5. CASE WriteWait \/ WriteWake
  <2>1. ro.started
    BY <1>5 DEF WriteWait, WriteWake, Inv, BufferInv, Using
  <2> QED
    BY <2>1, <1>5 DEF WriteWait, WriteWake, Labels
<1>6. CASE WriteReply
  BY <1>6 DEF WriteReply
<1>7. CASE PollSteps
  BY <1>7 DEF PollSteps, ross_update_notify, PollError, PollAvail, PollAgain, Labels, Using
<1> QED
  BY <1>1, <1>2, <1>3, <1>4, <1>5, <1>6, <1>7 DEF Quiet

\* What the move changes of the fields the invariant looks at.
LEMMA QuietFields ==
  ASSUME Inv, Quiet
  PROVE  /\ app'.pc = "w_start" => ~ro.started
         /\ app'.pc \in Using => ro.started
         /\ \/ \E size \in WriteSizes : ross_write(size)
            \/ app'.fits = app.fits \/ app'.fits = FALSE
<1>1. app \in AppType
  BY DEF Inv, TypeInv
<1>2. CASE Reply(1)
  BY <1>2, ReplyFacts DEF Using
<1>3. CASE \E size \in WriteSizes : ross_write(size)
  <2>1. app'.pc = "w_check"
    BY <1>1, <1>3 DEF ross_write, Request, AppType
  <2> QED
    BY <1>3, <2>1 DEF Using
<1>4. CASE \E req \in Requests, label \in {"p_update", "stop"} : app' = Request(req, label)
  BY <1>1, <1>4, RequestFacts DEF Labels, Using
<1>5. CASE app' = [Request("SETFRAGMENT", "idle") EXCEPT !.replies = 2]
  BY <1>1, <1>5 DEF Request, AppType, Using
<1>6. CASE \E label \in Labels : /\ Goto(label)
                               /\ (label = "w_start" => ~ro.started)
                               /\ (label \in Using => ro.started)
  BY <1>1, <1>6, GotoFacts
<1> QED
  BY <1>2, <1>3, <1>4, <1>5, <1>6, QuietMoves

LEMMA QuietKeeps ==
  ASSUME Inv, Quiet
  PROVE  Inv'
<1>1. /\ UNCHANGED <<capacity, fifo, sent, accepted, thread_active, threadId, cb>>
      /\ ro' \in RoType /\ ro'.started = ro.started /\ ro'.buffer = ro.buffer
      /\ app' \in AppType /\ app.pc \notin Ends /\ app'.pc \notin Ends
  BY QuietFacts
<1>2. ro \in RoType /\ app \in AppType
  BY DEF Inv, TypeInv
<1>3. TypeInv'
  BY <1>1 DEF Inv, TypeInv
<1>4. OneInv'
  BY <1>1 DEF Inv, OneInv, Live, Busy, Ends
<1>5. BufferInv'
  BY <1>1, QuietFields DEF Inv, BufferInv, Ends
<1>6. RoomInv'
  <2>1. Len(fifo') <= capacity' /\ (app.fits => app.pc \in Steady)
    BY <1>1 DEF Inv, RoomInv, Steady
  <2>2. CASE Reply(1)
    BY <2>1, <2>2, ReplyFacts DEF RoomInv
  <2>3. CASE \E size \in WriteSizes : ross_write(size)
    <3>1. PICK size \in WriteSizes : ross_write(size)
      BY <2>3
    <3>2. size \in Nat \ {0}
      BY Sizes
    <3>3. ro' = ro /\ app'.pc = "w_check" /\ app'.size = size /\ app'.fits = (size <= ross_write_avail)
      BY <3>1, <1>2 DEF ross_write, Request, AppType
    <3>4. app'.fits => size <= (IF ro.started THEN capacity - Len(fifo) ELSE ro.bufsize)
      BY <3>3 DEF ross_write_avail, write_avail
    <3> QED
      BY <2>1, <3>2, <3>3, <3>4, <1>1 DEF RoomInv
  <2>4. CASE app.pc \notin Steady /\ ~ \E size \in WriteSizes : ross_write(size)
    <3>1. ~app.fits
      BY <2>1, <2>4
    <3>2. app'.fits = app.fits \/ app'.fits = FALSE
      BY <2>4, QuietFields
    <3> QED
      BY <2>1, <3>1, <3>2 DEF RoomInv
  <2>5. CASE app.pc \in Steady /\ ~Reply(1)
    <3>1. ro' = ro
      BY <2>5 DEF Quiet, ross_write, ross_poll, SetNonblock, SetFragment, Stop, WriteCheck, WriteTest, WriteWait,
         WriteWake, WriteLoop, WriteReply, PollSteps, ross_update_notify, PollError, PollAvail, PollAgain, Steady
    <3>2. \/ app.pc = "w_check" /\ Goto(IF ro.started THEN "w_copy" ELSE "w_start")
          \/ app.pc = "w_test" /\ Goto(IF ro.nonblock \/ ro.error THEN "w_reply"
                                       ELSE IF app.write_avail = 0 THEN "w_wait" ELSE "w_loop")
          \/ app.pc = "w_loop" /\ Goto(IF app.size > 0 /\ ~ro.error THEN "w_copy" ELSE "w_reply")
      BY <2>5, Zenon DEF Quiet, ross_write, ross_poll, SetNonblock, SetFragment, Stop, WriteCheck, WriteTest, WriteWait,
         WriteWake, WriteLoop, WriteReply, PollSteps, ross_update_notify, PollError, PollAvail, PollAgain, Steady
    <3>3. app'.size = app.size /\ app'.write_avail = app.write_avail /\ app'.fits = app.fits
      BY <1>2, <3>2, GotoFacts DEF Labels
    <3>4. CASE app.pc = "w_check"
      <4>1. app'.pc = IF ro.started THEN "w_copy" ELSE "w_start"
        BY <1>2, <3>2, <3>4 DEF Goto, AppType
      <4> QED
        BY <1>1, <2>1, <3>1, <3>3, <3>4, <4>1 DEF Inv, RoomInv
    <3>5. CASE app.pc = "w_test"
      <4>1. app'.pc \in {"w_reply", "w_loop"} \/ app.write_avail = 0
        BY <1>2, <3>2, <3>5 DEF Goto, AppType
      <4> QED
        BY <1>1, <2>1, <3>1, <3>3, <3>5, <4>1 DEF Inv, RoomInv
    <3>6. CASE app.pc = "w_loop"
      <4>1. app'.pc = "w_reply" \/ app.size > 0
        BY <1>2, <3>2, <3>6 DEF Goto, AppType
      <4> QED
        BY <1>1, <2>1, <3>1, <3>3, <3>6, <4>1 DEF Inv, RoomInv
    <3> QED
      BY <3>2, <3>4, <3>5, <3>6
  <2> QED
    BY <2>2, <2>3, <2>4, <2>5
<1>7. OrderInv'
  BY <1>1 DEF Inv, OrderInv, Busy
<1> QED
  BY <1>3, <1>4, <1>5, <1>6, <1>7 DEF Inv

-----------------------------------------------------------------------------
(* Steps of the application that start, feed and stop the stream *)

\* ross_start, when the server takes the stream: the thread it starts is the
\* only one that uses it.
LEMMA StartKeeps ==
  ASSUME Inv, ross_start
  PROVE  Inv'
<1>1. /\ ro \in RoType /\ app \in AppType /\ cb \in [Cb -> CbType] /\ sent \in Seq(Int)
      /\ app.pc = "w_start" /\ ~ro.started
      /\ capacity' = ro.bufsize /\ fifo' = << >> /\ accepted' = 0
  BY DEF Inv, TypeInv, BufferInv, ross_start
<1>2. ro.bufsize \in BufSizes /\ ro.bufsize \in Nat /\ Len(fifo') = 0 /\ fifo' \in Seq(Int)
  BY <1>1, Sizes DEF RoType
<1>3. \A t \in Cb : ~Live(t)
  BY <1>1 DEF Inv, OneInv
<1>4. app.fits => app.size > 0 /\ app.size <= ro.bufsize
  BY <1>1 DEF Inv, RoomInv
<1>5. CASE /\ \E t \in Cb :
                /\ cb[t].pc = "none" /\ cb' = [cb EXCEPT ![t].pc = "run"]
                /\ thread_active' = TRUE /\ threadId' = t /\ sent' = << >>
           /\ ro' = [ro EXCEPT !.buffer = TRUE, !.started = TRUE]
           /\ Goto("w_copy")
  <2>1. PICK t \in Cb :
          /\ cb[t].pc = "none" /\ cb' = [cb EXCEPT ![t].pc = "run"]
          /\ thread_active' = TRUE /\ threadId' = t /\ sent' = << >>
    BY <1>5
  <2>2. /\ ro' \in RoType /\ ro'.started /\ ro'.buffer /\ ro'.bufsize = ro.bufsize
    BY <1>1, <1>5 DEF RoType
  <2>3. app' \in AppType /\ app'.pc = "w_copy" /\ app'.size = app.size /\ app'.fits = app.fits
    BY <1>1, <1>5, GotoFacts DEF Labels
  <2>4. /\ cb' \in [Cb -> CbType] /\ cb'[t].pc = "run" /\ cb'[t].buf = cb[t].buf
        /\ cb'[t].has_read = cb[t].has_read /\ cb'[t].missing = cb[t].missing
        /\ \A u \in Cb : u # t => cb'[u] = cb[u]
    BY <1>1, <2>1 DEF CbType, CbLabels
  <2>5. cb[t].buf = << >>
    BY <2>1 DEF Inv, OrderInv
  <2>6. t \in Nat
    BY Sizes DEF Cb
  <2>7. TypeInv'
    <3>1. \A u \in Cb : cb'[u].has_read + cb'[u].missing <= ChunkSize
      BY <2>4 DEF Inv, TypeInv
    <3>2. sent' \in Seq(Int) /\ accepted' \in Nat /\ threadId' \in Nat
      BY <1>1, <2>1, <2>6
    <3>3. thread_active' \in BOOLEAN
      BY <2>1
    <3> QED
      BY <3>1, <3>2, <3>3, <1>1, <1>2, <2>2, <2>3, <2>4 DEF TypeInv
  <2>8. \A u \in Cb : Live(u)' => u = t
    BY <1>3, <2>4 DEF Live, Busy
  <2>9. OneInv'
    BY <2>1, <2>2, <2>3, <2>8 DEF OneInv
  <2>10. BufferInv'
    BY <2>1, <2>2, <2>3 DEF BufferInv
  <2>11. RoomInv'
    BY <1>1, <1>2, <1>4, <2>2, <2>3 DEF RoomInv
  <2>12. OrderInv'
    <3>1. Len(sent') = 0
      BY <2>1
    <3>2. \A u \in Cb : cb'[u].pc \in {"none", "run"} => cb'[u].buf = << >>
      BY <2>4, <2>5 DEF Inv, OrderInv
    <3>3. cb'[t].buf = << >> /\ Len(cb'[t].buf) = 0
      BY <2>4, <2>5
    <3>4. \A u \in Cb : Busy(u)' => u = t
      BY <2>8 DEF Live
    <3> QED
      BY <1>1, <1>2, <3>1, <3>2, <3>3, <3>4 DEF OrderInv, Busy
  <2> QED
    BY <2>7, <2>9, <2>10, <2>11, <2>12 DEF Inv
<1>6. CASE /\ ro' = [ro EXCEPT !.buffer = TRUE]
           /\ Reply(1)
           /\ UNCHANGED <<thread_active, threadId, cb, sent>>
  <2>1. ro' \in RoType /\ ~ro'.started
    BY <1>1, <1>6 DEF RoType
  <2>2. app' \in AppType /\ app'.pc = "idle" /\ app'.fits = FALSE
    BY <1>6, ReplyFacts
  <2>3. TypeInv'
    BY <1>1, <1>2, <1>6, <2>1, <2>2 DEF Inv, TypeInv
  <2>4. \A t \in Cb : ~Live(t)' /\ ~Busy(t)'
    BY <1>3, <1>6 DEF Live, Busy
  <2>5. OneInv'
    BY <2>2, <2>4 DEF OneInv
  <2>6. BufferInv'
    BY <2>1, <2>2 DEF BufferInv, Using
  <2>7. RoomInv'
    BY <1>1, <1>2, <2>2 DEF RoomInv
  <2>8. OrderInv'
    BY <1>6, <2>4 DEF Inv, OrderInv
  <2> QED
    BY <2>3, <2>5, <2>6, <2>7, <2>8 DEF Inv
<1> QED
  BY <1>5, <1>6 DEF ross_start, handle, net

\* A turn of ross_write's loop.
LEMMA CopyKeeps ==
  ASSUME Inv, WriteCopy
  PROVE  Inv'
<1> DEFINE len == Len(fifo)
           n == Smaller(write_avail, app.size)
           new == Bytes(accepted + 1, accepted + n)
<1>1. /\ app \in AppType /\ fifo \in Seq(Int) /\ sent \in Seq(Int) /\ accepted \in Nat /\ capacity \in Nat
      /\ len \in Nat /\ len <= capacity /\ app.size \in Nat /\ app.pc = "w_copy"
  BY Sizes DEF Inv, TypeInv, RoomInv, AppType, WriteCopy
<1>2. write_avail \in Nat /\ write_avail = capacity - len
  BY <1>1 DEF write_avail
<1>3. /\ n \in Nat /\ n <= write_avail /\ n <= app.size
      /\ (app.size <= write_avail => n = app.size)
  BY <1>1, <1>2, SmallerFacts
<1>4. /\ fifo' = fifo \o new /\ accepted' = accepted + n
      /\ app' = [app EXCEPT !.pc = "w_test", !.write_avail = n, !.size = @ - n, !.written = @ + n]
      /\ UNCHANGED <<ro, capacity, thread_active, threadId, cb, sent>>
  BY DEF WriteCopy, handle, net
<1> HIDE DEF n
<1>5. new \in Seq(Int) /\ Len(new) = n /\ \A i \in 1..n : new[i] = accepted + i
  BY <1>1, <1>3, BytesFacts
<1> HIDE DEF new
<1>6. /\ fifo' \in Seq(Int) /\ Len(fifo') = len + n
      /\ \A i \in 1..len : fifo'[i] = fifo[i]
      /\ \A i \in 1..n : fifo'[len + i] = new[i]
  BY <1>1, <1>4, <1>5, ConcatFacts
<1> HIDE DEF len
<1>7. /\ app' \in AppType /\ app'.pc = "w_test" /\ app'.write_avail = n /\ app'.size = app.size - n
      /\ app'.fits = app.fits
  <2>1. app.size - n \in Nat /\ app.written + n \in Nat
    BY <1>1, <1>3 DEF AppType
  <2> QED
    BY <2>1, <1>1, <1>3, <1>4 DEF AppType, Labels
<1>8. TypeInv'
  <2>1. accepted' \in Nat
    BY <1>1, <1>3, <1>4
  <2> QED
    BY <2>1, <1>4, <1>6, <1>7 DEF Inv, TypeInv
<1>9. OneInv' /\ BufferInv'
  BY <1>1, <1>4, <1>7 DEF Inv, OneInv, BufferInv, Live, Busy, Using
<1>10. RoomInv'
  <2>1. Len(fifo') <= capacity'
    BY <1>1, <1>2, <1>3, <1>4, <1>6
  <2>2. app.fits => app.size > 0 /\ app.size <= write_avail
    BY <1>1, <1>2 DEF Inv, RoomInv, len
  <2>3. app.fits => n > 0 /\ app.size - n = 0
    BY <2>2, <1>1, <1>3
  <2> QED
    BY <2>1, <2>3, <1>7 DEF RoomInv
<1>11. OrderInv'
  <2> SUFFICES ASSUME NEW t \in Cb, Busy(t)
               PROVE  /\ \A i \in 1..(len + n) : fifo'[i] = Len(sent) + Len(cb[t].buf) + i
                      /\ Len(sent) + Len(cb[t].buf) + (len + n) = accepted + n
    BY <1>4, <1>6 DEF Inv, OrderInv, Busy
  <2> DEFINE k == Len(sent) + Len(cb[t].buf)
  <2>1. k \in Nat
    BY <1>1 DEF Inv, TypeInv, CbType
  <2>2. k + len = accepted /\ \A i \in 1..len : fifo[i] = k + i
    BY DEF Inv, OrderInv, len
  <2> HIDE DEF k
  <2>3. ASSUME NEW i \in 1..(len + n) PROVE fifo'[i] = k + i
    <3>1. CASE i <= len
      BY <3>1, <1>1, <1>6, <2>2
    <3>2. CASE i > len
      <4>1. i - len \in 1..n /\ len + (i - len) = i /\ accepted + (i - len) = k + i
        BY <3>2, <1>1, <1>3, <2>1, <2>2
      <4> QED
        BY <4>1, <1>5, <1>6
    <3> QED
      BY <3>1, <3>2, <1>1
  <2>4. k + (len + n) = accepted + n
    BY <1>1, <1>3, <2>1, <2>2
  <2> QED
    BY <2>3, <2>4 DEF k
<1> QED
  BY <1>8, <1>9, <1>10, <1>11 DEF Inv

\* rsd_stop and what follows it: nobody uses the stream when it is cleared.
LEMMA StopKeeps ==
  ASSUME Inv, StopSteps
  PROVE  Inv'
<1>1. ro \in RoType /\ app \in AppType /\ sent \in Seq(Int) /\ thread_active \in BOOLEAN
  BY DEF Inv, TypeInv
<1>2. UNCHANGED <<capacity, threadId, cb>>
  BY DEF StopSteps, StopThread, Join, StopReset, ross_reset, ross_release, stream, handle
<1>3. app.pc \in {"stop", "join", "reset", "clear", "free"} /\ ~app.fits
  BY DEF StopSteps, StopThread, Join, StopReset, ross_reset, ross_release, Inv, RoomInv
<1>4. /\ app' \in AppType /\ app'.pc \in {"join", "reset", "clear", "free", "idle", "closed"}
      /\ app'.fits = FALSE
  <2>1. CASE \E label \in {"join", "reset", "clear", "free"} : Goto(label)
    <3>1. app'.fits = app.fits /\ app' \in AppType /\ app'.pc \in {"join", "reset", "clear", "free"}
      BY <1>1, <2>1, GotoFacts DEF Labels
    <3>2. app'.fits \in BOOLEAN
      BY <3>1 DEF AppType
    <3> QED
      BY <3>1, <3>2, <1>3
  <2>2. CASE Reply(1)
    BY <2>2, ReplyFacts
  <2>3. CASE app' = [app EXCEPT !.pc = "closed", !.req = "none", !.replies = 1]
    <3>1. app'.fits = app.fits /\ app' \in AppType /\ app'.pc = "closed"
      BY <1>1, <2>3 DEF AppType, Labels, Requests
    <3>2. app'.fits \in BOOLEAN
      BY <3>1 DEF AppType
    <3> QED
      BY <3>1, <3>2, <1>3
  <2> QED
    BY <2>1, <2>2, <2>3 DEF StopSteps, StopThread, Join, StopReset, ross_reset, ross_release
<1>5. ro' \in RoType /\ (ro'.started => ro.started)
  BY <1>1 DEF StopSteps, StopThread, Join, StopReset, ross_reset, ross_release, RoType
<1>6. /\ (fifo' = fifo /\ accepted' = accepted) \/ (fifo' = << >> /\ accepted' = 0)
      /\ (sent' = sent) \/ (sent' = << >>)
      /\ (thread_active' = thread_active) \/ (thread_active' = FALSE)
  BY DEF StopSteps, StopThread, Join, StopReset, ross_reset, ross_release, stream, handle, net
<1>7. TypeInv'
  <2>0. << >> \in Seq(Int) /\ 0 \in Nat /\ fifo \in Seq(Int) /\ accepted \in Nat
    BY DEF Inv, TypeInv
  <2>1. fifo' \in Seq(Int) /\ accepted' \in Nat
    BY <2>0, <1>6, Zenon
  <2>2. sent' \in Seq(Int)
    BY <2>0, <1>1, <1>6, Zenon
  <2>3. thread_active' \in BOOLEAN
    BY <1>1, <1>6, Zenon
  <2> QED
    BY <2>1, <2>2, <2>3, <1>2, <1>4, <1>5 DEF Inv, TypeInv
<1>8. BufferInv'
  <2>1. ro'.started /\ app'.pc # "closed" => ro'.buffer
    <3>1. CASE StopThread \/ Join \/ StopReset
      <4>1. ro' = ro /\ app.pc # "closed"
        BY <3>1 DEF StopThread, Join, StopReset
      <4> QED
        BY <4>1 DEF Inv, BufferInv
    <3>2. CASE ross_reset
      <4>1. ro'.started = FALSE
        BY <1>1, <3>2 DEF ross_reset, RoType
      <4> QED
        BY <4>1
    <3>3. CASE ross_release
      <4>1. app'.pc = "closed"
        BY <1>1, <3>3 DEF ross_release, AppType
      <4> QED
        BY <4>1
    <3> QED
      BY <3>1, <3>2, <3>3 DEF StopSteps
  <2> QED
    BY <2>1, <1>2, <1>4, <1>5 DEF Inv, BufferInv, Using
<1>9. RoomInv'
  <2>1. Len(fifo') <= capacity'
    <3>1. CASE fifo' = fifo
      BY <3>1, <1>2 DEF Inv, RoomInv
    <3>2. CASE fifo' = << >>
      BY <3>2, <1>2, Sizes DEF Inv, TypeInv
    <3> QED
      BY <3>1, <3>2, <1>6
  <2> QED
    BY <2>1, <1>4 DEF RoomInv
<1>10. CASE StopThread /\ thread_active
  <2>1. /\ app'.pc = "join" /\ thread_active' = FALSE
        /\ UNCHANGED <<ro, sent, fifo, accepted>>
    BY <1>1, <1>10 DEF StopThread, Goto, AppType, stream, net
  <2>2. OneInv'
    BY <2>1, <1>2 DEF Inv, OneInv, Live, Busy
  <2>3. OrderInv'
    BY <2>1, <1>2 DEF Inv, OrderInv, Busy
  <2> QED
    BY <2>2, <2>3, <1>7, <1>8, <1>9 DEF Inv
<1>11. CASE ~(StopThread /\ thread_active)
  <2>1. \A t \in Cb : ~Live(t)
    <3>1. CASE StopThread \/ StopReset \/ ross_reset \/ ross_release
      BY <3>1, <1>11 DEF StopThread, StopReset, ross_reset, ross_release, Inv, OneInv
    <3>2. CASE Join
      BY <3>2 DEF Join, Inv, OneInv, Live, Busy
    <3> QED
      BY <3>1, <3>2 DEF StopSteps
  <2>2. \A t \in Cb : ~Live(t)' /\ ~Busy(t)'
    BY <2>1, <1>2 DEF Live, Busy
  <2>3. app'.pc # "join"
    <3>1. CASE Reply(1)
      BY <3>1, ReplyFacts
    <3>2. CASE \E label \in {"reset", "clear", "free"} : Goto(label)
      BY <1>1, <3>2, GotoFacts DEF Labels
    <3>3. CASE app' = [app EXCEPT !.pc = "closed", !.req = "none", !.replies = 1]
      BY <1>1, <3>3 DEF AppType
    <3> QED
      BY <1>11, <3>1, <3>2, <3>3 DEF StopSteps, StopThread, Join, StopReset, ross_reset, ross_release
  <2>4. OneInv'
    BY <2>2, <2>3 DEF OneInv
  <2>5. \A i \in 1..Len(sent') : sent'[i] = i
    BY <1>6 DEF Inv, OrderInv
  <2>6. OrderInv'
    BY <2>2, <2>5, <1>2 DEF Inv, OrderInv
  <2> QED
    BY <2>4, <2>6, <1>7, <1>8, <1>9 DEF Inv
<1> QED
  BY <1>10, <1>11

-----------------------------------------------------------------------------
(* Steps of a callback thread *)

\* What all of them have in common.
CbFrame(t) ==
  /\ UNCHANGED <<capacity, threadId, app, accepted>>
  /\ ro' \in RoType /\ ro'.started = ro.started /\ ro'.buffer = ro.buffer /\ ro'.bufsize = ro.bufsize
  /\ cb' \in [Cb -> CbType] /\ \A u \in Cb : u # t => cb'[u] = cb[u]
  /\ cb'[t].has_read + cb'[t].missing <= ChunkSize
  /\ fifo' \in Seq(Int) /\ Len(fifo') <= Len(fifo) /\ sent' \in Seq(Int)
  /\ Live(t)' => Live(t)
  /\ \/ thread_active' = thread_active
     \/ thread_active' = FALSE /\ Live(t) /\ ~Live(t)'

\* They keep all but the order of the bytes, which depends on the step.
LEMMA FrameKeeps ==
  ASSUME Inv, NEW t \in Cb, CbFrame(t)
  PROVE  TypeInv' /\ OneInv' /\ BufferInv' /\ RoomInv'
<1>1. /\ UNCHANGED <<capacity, threadId, app, accepted>>
      /\ ro' \in RoType /\ ro'.started = ro.started /\ ro'.buffer = ro.buffer /\ ro'.bufsize = ro.bufsize
      /\ cb' \in [Cb -> CbType] /\ \A u \in Cb : u # t => cb'[u] = cb[u]
  BY DEF CbFrame
<1>2. TypeInv'
  <2>1. \A u \in Cb : cb'[u].has_read + cb'[u].missing <= ChunkSize
    BY <1>1 DEF CbFrame, Inv, TypeInv
  <2>2. thread_active \in BOOLEAN
    BY DEF Inv, TypeInv
  <2>3. thread_active' \in BOOLEAN
    BY <2>2, Zenon DEF CbFrame
  <2> QED
    BY <1>1, <2>1, <2>3 DEF CbFrame, Inv, TypeInv
<1>3. \A u \in Cb : Live(u)' => Live(u)
  <2>1. Live(t)' => Live(t)
    BY DEF CbFrame
  <2>2. \A u \in Cb : u # t => (Live(u)' => Live(u))
    BY <1>1 DEF Live, Busy
  <2> QED
    BY <2>1, <2>2
<1>4. RoomInv'
  <2>1. Len(fifo) \in Nat /\ Len(fifo') \in Nat /\ Len(fifo') <= Len(fifo) /\ capacity \in Nat
    BY Sizes DEF CbFrame, Inv, TypeInv
  <2>2. app.size \in Nat
    BY DEF Inv, TypeInv, AppType
  <2>3. Len(fifo) <= capacity
    BY DEF Inv, RoomInv
  <2>4. Len(fifo') <= capacity
    BY <2>1, <2>3
  <2>5. app.size <= capacity - Len(fifo) => app.size <= capacity - Len(fifo')
    BY <2>1, <2>2
  <2> QED
    BY <1>1, <2>4, <2>5 DEF Inv, RoomInv
<1>5. CASE thread_active' = thread_active
  <2>1. OneInv'
    BY <1>1, <1>3, <1>5 DEF Inv, OneInv
  <2>2. BufferInv'
    BY <1>1 DEF Inv, BufferInv
  <2> QED
    BY <1>2, <2>1, <2>2, <1>4
<1>6. CASE thread_active' = FALSE /\ Live(t) /\ ~Live(t)'
  <2>1. \A u \in Cb : ~Live(u)'
    BY <1>3, <1>6 DEF Inv, OneInv
  <2>2. OneInv'
    BY <2>1, <1>6 DEF OneInv
  <2>3. BufferInv'
    BY <1>1 DEF Inv, BufferInv
  <2> QED
    BY <1>2, <1>4, <2>2, <2>3
<1> QED
  BY <1>5, <1>6 DEF CbFrame

\* While a thread is live nobody else is busy.
LEMMA Alone ==
  ASSUME Inv, NEW t \in Cb, NEW u \in Cb, Live(t), Busy(u)
  PROVE  u = t
  BY DEF Inv, OneInv, Live

\* Where no byte moves.
LEMMA LooksKeep ==
  ASSUME Inv, NEW t \in Cb,
         \/ CbLoop(t) \/ CbNotify(t) \/ CbSignal(t) \/ CbSilence(t) \/ CbSleep(t)
         \/ ross_err_cb(t) \/ ErrNotify(t) \/ ErrSignal(t)
  PROVE  Inv'
<1>1. /\ ro \in RoType /\ cb \in [Cb -> CbType] /\ cb[t] \in CbType
      /\ fifo \in Seq(Int) /\ sent \in Seq(Int) /\ Len(fifo) \in Nat
      /\ cb[t].has_read + cb[t].missing <= ChunkSize /\ cb[t].has_read \in Nat /\ cb[t].missing \in Nat
  BY DEF Inv, TypeInv, CbType
<1>2. UNCHANGED <<capacity, threadId, app, accepted, fifo, sent, thread_active>>
  BY DEF CbLoop, CbNotify, CbSignal, CbSilence, CbSleep, ross_err_cb, ErrNotify, ErrSignal, stream, handle, net
<1>3. ro' \in RoType /\ ro'.started = ro.started /\ ro'.buffer = ro.buffer /\ ro'.bufsize = ro.bufsize
  <2>1. ro' = ro \/ ro' = [ro EXCEPT !.ph = FALSE] \/ ro' = [ro EXCEPT !.error = TRUE]
    BY DEF CbLoop, CbNotify, CbSignal, CbSilence, CbSleep, ross_err_cb, ErrNotify, ErrSignal, NotifyPoll
  <2> QED
    BY <2>1, <1>1 DEF RoType
<1>4. /\ cb' \in [Cb -> CbType] /\ \A u \in Cb : u # t => cb'[u] = cb[u]
      /\ cb'[t].has_read + cb'[t].missing <= ChunkSize
      /\ cb'[t].buf = cb[t].buf
      /\ cb'[t].pc # "run" /\ cb'[t].pc # "none"
      /\ Live(t)' => Busy(t) /\ Busy(t)'
  <2>1. CASE CbLoop(t)
    <3>1. cb[t].buf = << >>
      BY <2>1 DEF CbLoop, Inv, OrderInv
    <3>0. PICK label \in {"fill", "exited"} :
            cb' = [cb EXCEPT ![t].pc = label, ![t].buf = << >>, ![t].has_read = 0]
      <4>1. (IF thread_active THEN "fill" ELSE "exited") \in {"fill", "exited"}
        OBVIOUS
      <4> QED
        BY <2>1, <4>1, Zenon DEF CbLoop
    <3>2. /\ cb' \in [Cb -> CbType] /\ \A u \in Cb : u # t => cb'[u] = cb[u]
          /\ cb'[t].has_read = 0 /\ cb'[t].missing = cb[t].missing /\ cb'[t].buf = << >>
          /\ cb'[t].pc = label
      <4>1. << >> \in Seq(Int) /\ 0 \in Nat /\ label \in CbLabels
        BY DEF CbLabels
      <4> DEFINE none == << >>
      <4> HIDE DEF none
      <4>2. cb' = [cb EXCEPT ![t].pc = label, ![t].buf = none, ![t].has_read = 0] /\ none \in Seq(Int)
        BY <3>0, <4>1 DEF none
      <4>3. /\ cb' \in [Cb -> CbType] /\ \A u \in Cb : u # t => cb'[u] = cb[u]
            /\ cb'[t].has_read = 0 /\ cb'[t].missing = cb[t].missing /\ cb'[t].buf = none
            /\ cb'[t].pc = label
        BY <4>1, <4>2, <1>1 DEF CbType
      <4> QED
        BY <4>3 DEF none
    <3>3. 0 + cb[t].missing <= ChunkSize
      BY <1>1, Sizes
    <3> QED
      BY <2>1, <3>1, <3>2, <3>3 DEF CbLoop, Live, Busy
  <2>2. CASE CbNotify(t) \/ ross_err_cb(t) \/ ErrNotify(t) \/ ErrSignal(t)
    <3>1. PICK label \in {"signal", "err_notify", "err_signal", "exited"} :
            cb' = [cb EXCEPT ![t].pc = label] /\ (label = "signal" => cb[t].pc = "notify")
      BY <2>2 DEF CbNotify, ross_err_cb, ErrNotify, ErrSignal, CbGoto
    <3>2. /\ cb' \in [Cb -> CbType] /\ \A u \in Cb : u # t => cb'[u] = cb[u]
          /\ cb'[t].has_read = cb[t].has_read /\ cb'[t].missing = cb[t].missing /\ cb'[t].buf = cb[t].buf
          /\ cb'[t].pc = label
      BY <3>1, <1>1 DEF CbType, CbLabels
    <3> QED
      BY <1>1, <3>1, <3>2 DEF Live, Busy
  <2>3. CASE CbSignal(t)
    <3>1. PICK label \in {"short", "send", "fill"} : cb' = [cb EXCEPT ![t].pc = label]
      BY <2>3 DEF CbSignal, CbGoto, Filled
    <3>2. /\ cb' \in [Cb -> CbType] /\ \A u \in Cb : u # t => cb'[u] = cb[u]
          /\ cb'[t].has_read = cb[t].has_read /\ cb'[t].missing = cb[t].missing /\ cb'[t].buf = cb[t].buf
          /\ cb'[t].pc = label
      BY <3>1, <1>1 DEF CbType, CbLabels
    <3> QED
      BY <1>1, <2>3, <3>1, <3>2 DEF CbSignal, Live, Busy
  <2>4. CASE CbSilence(t)
    <3>1. PICK label \in {"send", "fill"} :
            cb' = [cb EXCEPT ![t].pc = label, ![t].has_read = cb[t].has_read + cb[t].missing, ![t].missing = 0]
      BY <2>4 DEF CbSilence, Filled
    <3>2. cb[t].has_read + cb[t].missing \in Nat /\ cb[t].has_read + cb[t].missing + 0 <= ChunkSize
      BY <1>1, Sizes
    <3>3. /\ cb' \in [Cb -> CbType] /\ \A u \in Cb : u # t => cb'[u] = cb[u]
          /\ cb'[t].has_read = cb[t].has_read + cb[t].missing /\ cb'[t].missing = 0 /\ cb'[t].buf = cb[t].buf
          /\ cb'[t].pc = label
      BY <3>1, <3>2, <1>1 DEF CbType, CbLabels
    <3> QED
      BY <2>4, <3>1, <3>2, <3>3 DEF CbSilence, Live, Busy
  <2>5. CASE CbSleep(t)
    <3>1. /\ cb' \in [Cb -> CbType] /\ \A u \in Cb : u # t => cb'[u] = cb[u]
          /\ cb'[t].has_read = cb[t].has_read /\ cb'[t].missing = 0 /\ cb'[t].buf = cb[t].buf
          /\ cb'[t].pc = "fill"
      BY <2>5, <1>1 DEF CbSleep, CbType, CbLabels
    <3>2. cb[t].has_read + 0 <= ChunkSize
      BY <1>1, Sizes
    <3> QED
      BY <2>5, <3>1, <3>2 DEF CbSleep, Live, Busy
  <2> QED
    BY <2>1, <2>2, <2>3, <2>4, <2>5
<1>5. CbFrame(t)
  BY <1>1, <1>2, <1>3, <1>4 DEF CbFrame, Live
<1>6. OrderInv'
  <2>1. \A u \in Cb : cb'[u].buf = cb[u].buf /\ (Busy(u)' => Busy(u))
    BY <1>4 DEF Live, Busy
  <2>2. \A u \in Cb : cb'[u].pc \in {"none", "run"} => cb'[u].buf = << >>
    BY <1>4 DEF Inv, OrderInv
  <2>3. ASSUME NEW u \in Cb, Busy(u)'
        PROVE  /\ \A i \in 1..Len(cb'[u].buf) : cb'[u].buf[i] = Len(sent') + i
               /\ \A i \in 1..Len(fifo') : fifo'[i] = Len(sent') + Len(cb'[u].buf) + i
               /\ Len(sent') + Len(cb'[u].buf) + Len(fifo') = accepted'
    <3>1. Busy(u) /\ cb'[u].buf = cb[u].buf
      BY <2>1, <2>3
    <3> QED
      BY <3>1, <1>2 DEF Inv, OrderInv
  <2>4. \A i \in 1..Len(sent') : sent'[i] = i
    BY <1>2 DEF Inv, OrderInv
  <2> QED
    BY <2>2, <2>3, <2>4 DEF OrderInv, Busy
<1> QED
  BY <1>5, <1>6, FrameKeeps DEF Inv

\* The callback moves the front of the FIFO behind what is in the chunk.
LEMMA TakeKeeps ==
  ASSUME Inv, NEW t \in Cb, ross_audio_cb(t)
  PROVE  Inv'
<1> DEFINE will_read == Smaller(read_size, ChunkSize - cb[t].has_read)
           ret == Smaller(read_avail, will_read)
           old == cb[t].buf
           head == SubSeq(fifo, 1, ret)
<1>1. /\ cb \in [Cb -> CbType] /\ fifo \in Seq(Int) /\ sent \in Seq(Int) /\ old \in Seq(Int) /\ ro \in RoType
      /\ Len(fifo) \in Nat /\ Len(sent) \in Nat /\ Len(old) \in Nat
      /\ cb[t].has_read \in Nat /\ cb[t].has_read + cb[t].missing <= ChunkSize /\ cb[t].missing \in Nat
      /\ cb[t].pc = "fill"
  BY DEF Inv, TypeInv, CbType, ross_audio_cb
<1>2. will_read \in Nat /\ will_read <= ChunkSize - cb[t].has_read
  <2> DEFINE room == ChunkSize - cb[t].has_read
  <2>1. read_size \in Nat
    BY Sizes, SmallerFacts DEF read_size
  <2>2. room \in Nat
    BY <1>1, Sizes
  <2> HIDE DEF room
  <2>3. Smaller(read_size, room) \in Nat /\ Smaller(read_size, room) <= room
    BY <2>1, <2>2, SmallerFacts
  <2> QED
    BY <2>3 DEF room
<1> HIDE DEF will_read
<1>3. ret \in 0..Len(fifo) /\ ret <= will_read
  <2>1. read_avail \in Nat /\ read_avail = Len(fifo)
    BY <1>1 DEF read_avail
  <2> QED
    BY <1>2, <2>1, SmallerFacts
<1>4. /\ fifo' = Drop(fifo, ret)
      /\ cb' = [cb EXCEPT ![t] = [pc |-> IF ret > 0 THEN "notify" ELSE "short", buf |-> old \o head,
                                  has_read |-> cb[t].has_read + ret, missing |-> will_read - ret]]
      /\ UNCHANGED <<ro, capacity, threadId, app, accepted, thread_active, sent>>
  BY DEF ross_audio_cb, handle, net, will_read
<1> HIDE DEF ret
<1>5. /\ fifo' \in Seq(Int) /\ Len(fifo') = Len(fifo) - ret
      /\ \A i \in 1..(Len(fifo) - ret) : fifo'[i] = fifo[ret + i]
  BY <1>1, <1>3, <1>4, DropFacts
<1>6. head \in Seq(Int) /\ Len(head) = ret /\ \A i \in 1..ret : head[i] = fifo[i]
  BY <1>1, <1>3, HeadFacts
<1> HIDE DEF head, old
<1>7. old \o head \in Seq(Int) /\ Len(old \o head) = Len(old) + ret
  BY <1>1, <1>6, ConcatFacts
<1>8. /\ cb' \in [Cb -> CbType] /\ \A u \in Cb : u # t => cb'[u] = cb[u]
      /\ cb'[t].buf = old \o head /\ cb'[t].has_read = cb[t].has_read + ret /\ cb'[t].missing = will_read - ret
      /\ cb'[t].pc \in {"notify", "short"}
  <2> DEFINE label == IF ret > 0 THEN "notify" ELSE "short"
             new == old \o head
             got == cb[t].has_read + ret
             lacks == will_read - ret
  <2>1. label \in {"notify", "short"} /\ label \in CbLabels
    BY DEF CbLabels
  <2>2. got \in Nat /\ lacks \in Nat /\ new \in Seq(Int)
    BY <1>1, <1>2, <1>3, <1>7
  <2> HIDE DEF label, new, got, lacks
  <2>3. cb' = [cb EXCEPT ![t] = [pc |-> label, buf |-> new, has_read |-> got, missing |-> lacks]]
    BY <1>4 DEF label, new, got, lacks
  <2>4. /\ cb' \in [Cb -> CbType] /\ \A u \in Cb : u # t => cb'[u] = cb[u]
        /\ cb'[t].buf = new /\ cb'[t].has_read = got /\ cb'[t].missing = lacks /\ cb'[t].pc = label
    BY <1>1, <2>1, <2>2, <2>3 DEF CbType
  <2> QED
    BY <2>1, <2>4 DEF new, got, lacks
<1>9. (cb[t].has_read + ret) + (will_read - ret) <= ChunkSize
  BY <1>1, <1>2, <1>3, Sizes
<1>10. Busy(t) /\ Live(t)
  BY <1>1 DEF Busy, Live
<1>11. CbFrame(t)
  BY <1>1, <1>3, <1>4, <1>5, <1>8, <1>9, <1>10 DEF CbFrame
<1>12. OrderInv'
  <2> DEFINE k == Len(sent)
             m == Len(old)
             len == Len(fifo)
  <2>1. /\ k \in Nat /\ m \in Nat /\ len \in Nat /\ ret \in 0..len /\ k + m + len = accepted
        /\ \A i \in 1..m : old[i] = k + i
        /\ \A i \in 1..len : fifo[i] = k + m + i
    BY <1>1, <1>3, <1>10 DEF Inv, OrderInv, old
  <2>2. \A i \in 1..Len(old \o head) : (old \o head)[i] = k + i
    <3>1. \A i \in 1..Len(head) : head[i] = k + Len(old) + i
      <4>1. \A i \in 1..ret : i \in 1..len
        BY <2>1
      <4> QED
        BY <4>1, <1>6, <2>1
    <3> QED
      BY <1>1, <1>6, <2>1, <3>1, Continued
  <2>3. \A i \in 1..(len - ret) : fifo'[i] = k + (m + ret) + i
    <3>1. \A i \in 1..(len - ret) : fifo'[i] = fifo[ret + i]
      BY <1>5
    <3> HIDE DEF k, m, len
    <3>2. \A i \in 1..(len - ret) : ret + i \in 1..len /\ k + m + (ret + i) = k + (m + ret) + i
      BY <2>1
    <3> QED
      BY <2>1, <3>1, <3>2
  <2>4. k + (m + ret) + (len - ret) = accepted
    <3> HIDE DEF k, m, len
    <3> QED
      BY <2>1
  <2>5. \A u \in Cb : cb'[u].pc \in {"none", "run"} => cb'[u].buf = << >>
    BY <1>8 DEF Inv, OrderInv
  <2>6. \A u \in Cb : Busy(u)' => u = t
    BY <1>8, <1>10, Alone DEF Busy
  <2>7. \A i \in 1..Len(sent') : sent'[i] = i
    BY <1>4 DEF Inv, OrderInv
  <2>8. /\ Len(sent') = k /\ accepted' = accepted /\ cb'[t].buf = old \o head /\ Len(cb'[t].buf) = m + ret
        /\ Len(fifo') = len - ret
    BY <1>4, <1>5, <1>7, <1>8
  <2> HIDE DEF k, m, len
  <2>9. /\ \A i \in 1..Len(cb'[t].buf) : cb'[t].buf[i] = Len(sent') + i
        /\ \A i \in 1..Len(fifo') : fifo'[i] = Len(sent') + Len(cb'[t].buf) + i
        /\ Len(sent') + Len(cb'[t].buf) + Len(fifo') = accepted'
    BY <2>2, <2>3, <2>4, <2>8
  <2> QED
    BY <2>5, <2>6, <2>7, <2>9 DEF OrderInv, Busy
<1> QED
  BY <1>11, <1>12, FrameKeeps DEF Inv

\* A chunk goes behind what was sent; if the link breaks, a part of it.
LEMMA SendKeeps ==
  ASSUME Inv, NEW t \in Cb, CbSend(t)
  PROVE  Inv'
<1> DEFINE buf == cb[t].buf
<1>1. /\ cb \in [Cb -> CbType] /\ fifo \in Seq(Int) /\ sent \in Seq(Int) /\ buf \in Seq(Int) /\ ro \in RoType
      /\ Len(fifo) \in Nat /\ Len(sent) \in Nat /\ Len(buf) \in Nat /\ cb[t].pc = "send"
  BY DEF Inv, TypeInv, CbType, CbSend
<1>2. UNCHANGED <<ro, capacity, fifo, accepted, threadId, thread_active, app>>
  BY DEF CbSend, stream, handle
<1>3. Busy(t) /\ Live(t)
  BY <1>1 DEF Busy, Live
<1>4. /\ \A i \in 1..Len(sent) : sent[i] = i
      /\ \A i \in 1..Len(buf) : buf[i] = Len(sent) + i
      /\ \A i \in 1..Len(fifo) : fifo[i] = Len(sent) + Len(buf) + i
      /\ Len(sent) + Len(buf) + Len(fifo) = accepted
  BY <1>3 DEF Inv, OrderInv
<1>5. PICK n \in 0..Len(buf), label \in {"run", "failed"} :
        /\ sent' = sent \o SubSeq(buf, 1, n)
        /\ label = "run" => n = Len(buf)
        /\ cb' = [cb EXCEPT ![t] = [pc |-> label, buf |-> << >>, has_read |-> 0, missing |-> 0]]
  <2>1. SubSeq(buf, 1, Len(buf)) = buf /\ Len(buf) \in 0..Len(buf)
    BY <1>1
  <2> HIDE DEF buf
  <2> QED
    BY <2>1 DEF CbSend, buf
<1> DEFINE part == SubSeq(buf, 1, n)
<1>6. part \in Seq(Int) /\ Len(part) = n /\ \A i \in 1..n : part[i] = buf[i]
  BY <1>1, HeadFacts
<1>7. \A i \in 1..Len(part) : part[i] = Len(sent) + i
  BY <1>1, <1>4, <1>6
<1> HIDE DEF part
<1>8. /\ sent' \in Seq(Int) /\ Len(sent') = Len(sent) + n
      /\ \A i \in 1..Len(sent') : sent'[i] = i
  <2>1. sent' = sent \o part
    BY <1>5 DEF part
  <2>2. \A i \in 1..Len(sent \o part) : (sent \o part)[i] = i
    BY <1>1, <1>4, <1>6, <1>7, ContinuedStream
  <2> QED
    BY <2>1, <2>2, <1>1, <1>6, ConcatFacts
<1>9. /\ cb' \in [Cb -> CbType] /\ \A u \in Cb : u # t => cb'[u] = cb[u]
      /\ cb'[t].pc = label /\ cb'[t].buf = << >> /\ cb'[t].has_read = 0 /\ cb'[t].missing = 0
  <2> DEFINE none == << >>
  <2>1. none \in Seq(Int) /\ label \in CbLabels
    BY DEF CbLabels
  <2> HIDE DEF none
  <2>2. cb' = [cb EXCEPT ![t] = [pc |-> label, buf |-> none, has_read |-> 0, missing |-> 0]]
    BY <1>5 DEF none
  <2>3. /\ cb' \in [Cb -> CbType] /\ \A u \in Cb : u # t => cb'[u] = cb[u]
        /\ cb'[t].pc = label /\ cb'[t].buf = none /\ cb'[t].has_read = 0 /\ cb'[t].missing = 0
    BY <1>1, <2>1, <2>2 DEF CbType
  <2> QED
    BY <2>3 DEF none
<1>10. CbFrame(t)
  BY <1>1, <1>2, <1>3, <1>8, <1>9, Sizes DEF CbFrame
<1>11. OrderInv'
  <2>1. \A u \in Cb : cb'[u].pc \in {"none", "run"} => cb'[u].buf = << >>
    BY <1>9 DEF Inv, OrderInv
  <2>2. \A u \in Cb : Busy(u)' => u = t
    BY <1>9, <1>3, Alone DEF Busy
  <2>3. \A i \in 1..Len(sent') : sent'[i] = i
    BY <1>8
  <2>4. ASSUME Busy(t)'
        PROVE  /\ \A i \in 1..Len(cb'[t].buf) : cb'[t].buf[i] = Len(sent') + i
               /\ \A i \in 1..Len(fifo') : fifo'[i] = Len(sent') + Len(cb'[t].buf) + i
               /\ Len(sent') + Len(cb'[t].buf) + Len(fifo') = accepted'
    <3>1. label = "run"
      BY <2>4, <1>9 DEF Busy
    <3>2. n = Len(buf)
      BY <3>1, <1>5
    <3>3. Len(cb'[t].buf) = 0 /\ Len(sent') = Len(sent) + Len(buf) /\ Len(fifo') = Len(fifo) /\ fifo' = fifo
      BY <3>2, <1>2, <1>8, <1>9
    <3> DEFINE k == Len(sent) + Len(buf)
               len == Len(fifo)
    <3>4. k \in Nat /\ len \in Nat
      BY <1>1
    <3>5. k + len = accepted /\ \A i \in 1..len : fifo[i] = k + i
      BY <1>4
    <3>6. Len(sent') = k /\ Len(fifo') = len
      BY <3>3
    <3> HIDE DEF k, len, buf
    <3>7. Len(sent') + Len(cb'[t].buf) = k
      BY <3>3, <3>4, <3>6
    <3>8. \A i \in 1..Len(cb'[t].buf) : FALSE
      BY <3>3
    <3>9. \A i \in 1..Len(fifo') : fifo'[i] = Len(sent') + Len(cb'[t].buf) + i
      BY <3>5, <3>6, <3>7, <1>2
    <3>10. Len(sent') + Len(cb'[t].buf) + Len(fifo') = accepted'
      BY <3>5, <3>6, <3>7, <1>2
    <3> QED
      BY <3>8, <3>9, <3>10
  <2> QED
    BY <2>1, <2>2, <2>3, <2>4 DEF OrderInv, Busy
<1> QED
  BY <1>10, <1>11, FrameKeeps DEF Inv

\* After a failure the connection is gone, and the thread done with the stream.
LEMMA ResetKeeps ==
  ASSUME Inv, NEW t \in Cb, CbReset(t)
  PROVE  Inv'
<1>1. /\ cb \in [Cb -> CbType] /\ fifo \in Seq(Int) /\ ro \in RoType /\ Len(fifo) \in Nat
      /\ cb[t].has_read + cb[t].missing <= ChunkSize
  BY DEF Inv, TypeInv
<1>2. /\ UNCHANGED <<ro, capacity, fifo, accepted, threadId, app>>
      /\ thread_active' = FALSE /\ sent' = << >> /\ cb[t].pc = "failed"
      /\ cb' = [cb EXCEPT ![t].pc = "error"]
  BY DEF CbReset, CbGoto, stream
<1>3. /\ cb' \in [Cb -> CbType] /\ \A u \in Cb : u # t => cb'[u] = cb[u]
      /\ cb'[t].pc = "error" /\ cb'[t].has_read = cb[t].has_read /\ cb'[t].missing = cb[t].missing
  BY <1>1, <1>2 DEF CbType, CbLabels
<1>4. Live(t) /\ ~Live(t)'
  BY <1>2, <1>3 DEF Live, Busy
<1>5. sent' \in Seq(Int) /\ Len(sent') = 0
  BY <1>2
<1>6. CbFrame(t)
  BY <1>1, <1>2, <1>3, <1>4, <1>5 DEF CbFrame
<1>7. OrderInv'
  <2>1. \A u \in Cb : ~Busy(u)'
    BY <1>3, <1>4, Alone DEF Busy, Live
  <2>2. \A u \in Cb : cb'[u].pc \in {"none", "run"} => cb'[u].buf = << >>
    BY <1>3 DEF Inv, OrderInv
  <2> QED
    BY <2>1, <2>2, <1>5 DEF OrderInv
<1> QED
  BY <1>6, <1>7, FrameKeeps DEF Inv

LEMMA NextInv == Inv /\ [Next]_vars => Inv'
<1> SUFFICES ASSUME Inv, [Next]_vars PROVE Inv'
  OBVIOUS
<1>1. CASE Quiet
  BY <1>1, QuietKeeps
<1>2. CASE ross_start \/ WriteCopy \/ StopSteps
  BY <1>2, StartKeeps, CopyKeeps, StopKeeps
<1>3. CASE \E t \in Cb : rsnd_cb_thread(t)
  BY <1>3, LooksKeep, TakeKeeps, SendKeeps, ResetKeeps DEF rsnd_cb_thread
<1>4. CASE UNCHANGED vars
  BY <1>4 DEF vars, Inv, TypeInv, OneInv, BufferInv, RoomInv, OrderInv, Live, Busy
<1> QED
  BY <1>1, <1>2, <1>3, <1>4 DEF Next, NewRequest, Handlers, WriteSteps, Quiet

-----------------------------------------------------------------------------
(* The theorems *)

\* Every byte that the application wrote to a stream was sent, is in the chunk
\* being filled or in the FIFO, in order and once, however often a callback
\* finds too little (ross_write, ross_audio_cb, rsnd_cb_thread).
THEOREM NothingIsLost == Spec => []NothingLost
<1>1. Inv => NothingLost
  <2> SUFFICES ASSUME Inv PROVE NothingLost
    OBVIOUS
  <2>1. fifo \in Seq(Int) /\ sent \in Seq(Int) /\ Len(sent) \in Nat /\ accepted \in Nat
    BY DEF Inv, TypeInv
  <2>2. sent = Bytes(1, Len(sent))
    BY <2>1, IsBytes DEF Inv, OrderInv
  <2>3. ASSUME ro.started, cb[threadId].pc \in {"run", "fill", "notify", "signal", "short", "send"}
        PROVE  sent \o cb[threadId].buf \o fifo = Bytes(1, accepted)
    <3> DEFINE buf == cb[threadId].buf
               two == sent \o buf
    <3>1. threadId \in Cb /\ Busy(threadId) /\ buf \in Seq(Int)
      BY <2>3 DEF Inv, BufferInv, Busy, TypeInv, CbType
    <3>2. /\ \A i \in 1..Len(sent) : sent[i] = i
          /\ \A i \in 1..Len(buf) : buf[i] = Len(sent) + i
          /\ \A i \in 1..Len(fifo) : fifo[i] = Len(sent) + Len(buf) + i
          /\ Len(sent) + Len(buf) + Len(fifo) = accepted
      BY <3>1 DEF Inv, OrderInv
    <3> HIDE DEF buf
    <3>3. two \in Seq(Int) /\ Len(two) = Len(sent) + Len(buf)
      BY <2>1, <3>1, ConcatFacts
    <3>4. Len(sent) \in Nat /\ Len(buf) \in Nat /\ Len(fifo) \in Nat
      BY <2>1, <3>1
    <3>5. \A i \in 1..Len(two) : two[i] = i
      BY <2>1, <3>1, <3>2, ContinuedStream
    <3>6. two \o fifo \in Seq(Int) /\ Len(two \o fifo) = accepted
      BY <2>1, <3>2, <3>3, ConcatFacts
    <3> HIDE DEF two
    <3>7. \A i \in 1..Len(two \o fifo) : (two \o fifo)[i] = i
      <4>1. \A i \in 1..Len(fifo) : fifo[i] = Len(two) + i
        BY <3>2, <3>3
      <4> QED
        BY <2>1, <3>3, <3>5, <4>1, ContinuedStream
    <3>8. \A i \in 1..accepted : (two \o fifo)[i] = i
      BY <3>6, <3>7
    <3>9. two \o fifo = Bytes(1, accepted)
      BY <2>1, <3>6, <3>8, IsBytes
    <3> QED
      BY <3>9 DEF two, buf
  <2> QED
    BY <2>2, <2>3 DEF NothingLost
<1> QED
  BY InitInv, NextInv, <1>1, PTL DEF Spec

\* RESET and close free the FIFO only when no callback and no writer can touch
\* it any more, also when the connection breaks meanwhile (ross_reset,
\* ross_close).
THEOREM BufferOutlivesItsUsers == Spec => []BufferAlive
<1>1. Inv => BufferAlive
  BY DEF Inv, OneInv, BufferInv, BufferAlive, Live, Busy, Using
<1> QED
  BY InitInv, NextInv, <1>1, PTL DEF Spec

\* A write of at most what GETOSPACE returned is taken whole and does not
\* sleep (ross_write_avail, ross_write).
THEOREM SpaceIsReal == Spec => []SpaceIsHonest
<1>1. Inv => SpaceIsHonest
  BY DEF Inv, RoomInv, SpaceIsHonest
<1> QED
  BY InitInv, NextInv, <1>1, PTL DEF Spec
=============================================================================
