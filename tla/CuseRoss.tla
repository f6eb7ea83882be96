------------------------------ MODULE CuseRoss ------------------------------
(***************************************************************************)
(* The callback mode of librsound (rsnd_cb_thread) with the one program of  *)
(* this repository that uses it: ross, the OSS device in user space of      *)
(* src/src/cuse-ross/cuse-ross.c.  One application thread has the device    *)
(* open and writes, polls and calls ioctl; FUSE runs the handlers.  The     *)
(* callback thread takes bytes from the same FIFO and sends them.           *)
(*                                                                         *)
(* rsd_start and rsd_stop are the ones of LibRsound, here in the steps that *)
(* the callback thread can tell apart.  The sample rate and format, which   *)
(* only decide how long to sleep, and the byte count behind GETOPTR are     *)
(* left out.  Byte i of a stream is the number i; the silence in a chunk is *)
(* counted, not kept.                                                       *)
(***************************************************************************)
EXTENDS Integers, Sequences

CONSTANTS
  ChunkSize,   \* backend_info.chunk_size
  FragSize,    \* ro->fragsize, the most one callback may ask for
  BufSizes,    \* buffer sizes that SNDCTL_DSP_SETFRAGMENT may set
  WriteSizes,  \* sizes of the application's writes
  Faults,      \* "break": the server goes away; "refuse": it cannot be reached
  MaxBytes,    \* bound: bytes written to one stream
  MaxThreads   \* bound: callback threads started

ASSUME CuseRossAssumption ==
  /\ ChunkSize \in Nat \ {0} /\ FragSize \in Nat \ {0}
  /\ BufSizes \subseteq Nat \ {0} /\ BufSizes # {}
  /\ WriteSizes \subseteq Nat \ {0}
  /\ Faults \subseteq {"break", "refuse"}
  /\ MaxBytes \in Nat /\ MaxThreads \in Nat

Cb == 1..MaxThreads

VARIABLES
  ro,            \* the ross_t: started, error, nonblock, ph (is a poll handle
                 \* stored), buffer (is one allocated), bufsize
  fifo,          \* what is in ro->buffer
  capacity,      \* the size ro->buffer was made with
  thread_active, \* of the handle ro->rd
  threadId,      \* of the handle ro->rd
  cb_lock,       \* is rsd_callback_lock held by a callback in progress
  asleep,        \* is a writer blocked on ro->cond
  missed,        \* was ro->cond signalled since the writer found no room and
                 \* before it blocked
  cb,            \* the callback threads: pc, the stream's bytes in the chunk,
                 \* has_read (silence too), bytes missing after a short read
  link,          \* does the server take data
  app,           \* the application's request in progress
  freed,         \* ro has been freed
  notified,      \* the kernel has been told to poll again
  accepted,      \* bytes put into the FIFO of this stream
  sent           \* bytes sent on this connection, silence not counted

vars == <<ro, fifo, capacity, thread_active, threadId, cb_lock, asleep, missed, cb, link, app,
          freed, notified, accepted, sent>>

stream == <<fifo, capacity, accepted>>
handle == <<thread_active, threadId>>
cond   == <<asleep, missed>>
net    == <<link, sent>>

-----------------------------------------------------------------------------
(* Helpers *)

Smaller(a, b)  == IF a <= b THEN a ELSE b

write_avail    == capacity - Len(fifo)
read_avail     == Len(fifo)
Bytes(a, b)    == [i \in 1..(b - a + 1) |-> a + i - 1]
Drop(s, n)     == SubSeq(s, n + 1, Len(s))
Goto(label)    == app' = [app EXCEPT !.pc = label]
CbGoto(t, label) == cb' = [cb EXCEPT ![t].pc = label]

\* Faulty variant: the size it was made with, whatever is in it.
ross_write_avail_whole == ro.bufsize

\* SNDCTL_DSP_GETOSPACE
ross_write_avail == IF ro.started THEN write_avail ELSE ro.bufsize

\* fuse_reply_*, n times
Reply(n) == app' = [pc |-> "idle", req |-> "none", size |-> 0, written |-> 0, write_avail |-> 0,
                    fits |-> FALSE, replies |-> n]

\* rsd_init and ross_open
Init ==
  /\ \E b \in BufSizes :
       /\ ro = [started |-> FALSE, error |-> FALSE, nonblock |-> FALSE, ph |-> FALSE,
                buffer |-> FALSE, bufsize |-> b]
       /\ capacity = b
  /\ fifo = << >> /\ accepted = 0 /\ sent = << >>
  /\ thread_active = FALSE /\ threadId = 0 /\ cb_lock = FALSE
  /\ asleep = FALSE /\ missed = FALSE
  /\ cb = [t \in Cb |-> [pc |-> "none", buf |-> << >>, has_read |-> 0, missing |-> 0]]
  /\ link = "down"
  /\ app = [pc |-> "idle", req |-> "none", size |-> 0, written |-> 0, write_avail |-> 0,
            fits |-> FALSE, replies |-> 1]
  /\ freed = FALSE /\ notified = FALSE

-----------------------------------------------------------------------------
(* ross_write                                                               *)

Request(req, label) == [app EXCEPT !.pc = label, !.req = req]

ross_write(size) ==
  /\ app.pc = "idle"
  /\ (IF ro.started THEN accepted ELSE 0) + size <= MaxBytes
  /\ app' = [Request("write", "w_check") EXCEPT !.size = size, !.written = 0,
                                                !.fits = (size <= ross_write_avail)]
  /\ UNCHANGED <<ro, stream, handle, cb_lock, cond, cb, net, freed, notified>>

WriteCheck ==
  /\ app.pc = "w_check"
  /\ IF ro.error THEN Reply(1) ELSE Goto(IF ro.started THEN "w_copy" ELSE "w_start")
  /\ UNCHANGED <<ro, stream, handle, cb_lock, cond, cb, net, freed, notified>>

\* A new FIFO, then rsd_start.
ross_start ==
  /\ app.pc = "w_start"
  /\ capacity' = ro.bufsize /\ fifo' = << >> /\ accepted' = 0
  /\ \/ \E t \in Cb :
          /\ cb[t].pc = "none" /\ \A u \in Cb : cb[u].pc = "none" => t <= u
          /\ cb' = [cb EXCEPT ![t].pc = "run"]
          /\ thread_active' = TRUE /\ threadId' = t
          /\ link' = "up" /\ sent' = << >>
          /\ ro' = [ro EXCEPT !.buffer = TRUE, !.started = TRUE]
          /\ Goto("w_copy")
     \/ /\ "refuse" \in Faults
        /\ ro' = [ro EXCEPT !.buffer = TRUE]
        /\ Reply(1)
        /\ UNCHANGED <<handle, cb, net>>
  /\ UNCHANGED <<cb_lock, cond, freed, notified>>

\* Under rsd_callback_lock.
WriteCopy ==
  /\ app.pc = "w_copy" /\ ~cb_lock
  /\ LET n == Smaller(write_avail, app.size)
     IN  /\ fifo' = fifo \o Bytes(accepted + 1, accepted + n)
         /\ accepted' = accepted + n
         /\ app' = [app EXCEPT !.pc = "w_test", !.write_avail = n, !.size = @ - n,
                               !.written = @ + n]
  /\ missed' = FALSE
  /\ UNCHANGED <<ro, capacity, handle, cb_lock, asleep, cb, net, freed, notified>>

WriteTest ==
  /\ app.pc = "w_test"
  /\ Goto(IF ro.nonblock \/ ro.error THEN "w_reply"
          ELSE IF app.write_avail = 0 THEN "w_wait" ELSE "w_loop")
  /\ UNCHANGED <<ro, stream, handle, cb_lock, cond, cb, net, freed, notified>>

WriteWait ==
  /\ app.pc = "w_wait"
  /\ asleep' = TRUE
  /\ Goto("w_asleep")
  /\ UNCHANGED <<ro, stream, handle, cb_lock, missed, cb, net, freed, notified>>

WriteWake ==
  /\ app.pc = "w_asleep" /\ ~asleep
  /\ missed' = FALSE
  /\ Goto("w_loop")
  /\ UNCHANGED <<ro, stream, handle, cb_lock, asleep, cb, net, freed, notified>>

WriteLoop ==
  /\ app.pc = "w_loop"
  /\ Goto(IF app.size > 0 /\ ~ro.error THEN "w_copy" ELSE "w_reply")
  /\ UNCHANGED <<ro, stream, handle, cb_lock, cond, cb, net, freed, notified>>

\* EPIPE, EAGAIN or the number of bytes written.
WriteReply ==
  /\ app.pc = "w_reply"
  /\ Reply(1)
  /\ missed' = FALSE
  /\ UNCHANGED <<ro, stream, handle, cb_lock, asleep, cb, net, freed, notified>>

WriteSteps == WriteCheck \/ ross_start \/ WriteCopy \/ WriteTest \/ WriteWait \/ WriteWake
              \/ WriteLoop \/ WriteReply

-----------------------------------------------------------------------------
(* ross_poll: the application waits until it may write                      *)

ross_poll ==
  /\ app.pc = "idle"
  /\ app' = Request("poll", "p_update")
  /\ UNCHANGED <<ro, stream, handle, cb_lock, cond, cb, net, freed, notified>>

ross_update_notify ==
  /\ app.pc = "p_update"
  /\ ro' = [ro EXCEPT !.ph = TRUE]
  /\ notified' = FALSE
  /\ Goto("p_error")
  /\ UNCHANGED <<stream, handle, cb_lock, cond, cb, net, freed>>

PollError ==
  /\ app.pc = "p_error"
  /\ IF ro.error \/ ~ro.started THEN Reply(1) ELSE Goto("p_avail")
  /\ UNCHANGED <<ro, stream, handle, cb_lock, cond, cb, net, freed, notified>>

\* The answer 0 leaves the application waiting in the kernel.
PollAvail ==
  /\ app.pc = "p_avail" /\ ~cb_lock
  /\ IF ross_write_avail > 0 THEN Reply(1) ELSE Goto("p_wait")
  /\ UNCHANGED <<ro, stream, handle, cb_lock, cond, cb, net, freed, notified>>

\* Notified, the kernel polls again.
PollAgain ==
  /\ app.pc = "p_wait" /\ notified
  /\ Goto("p_update")
  /\ UNCHANGED <<ro, stream, handle, cb_lock, cond, cb, net, freed, notified>>

PollSteps == ross_update_notify \/ PollError \/ PollAvail \/ PollAgain

-----------------------------------------------------------------------------
(* ross_ioctl and ross_release                                              *)

\* SNDCTL_DSP_NONBLOCK
SetNonblock ==
  /\ app.pc = "idle"
  /\ ro' = [ro EXCEPT !.nonblock = TRUE]
  /\ Reply(1)
  /\ UNCHANGED <<stream, handle, cb_lock, cond, cb, net, freed, notified>>

\* SNDCTL_DSP_SETFRAGMENT: once started it answers EINVAL and, as it does not
\* return, asks for the argument too.
SetFragment(b) ==
  /\ app.pc = "idle"
  /\ \/ /\ ~ro.started
        /\ ro' = [ro EXCEPT !.bufsize = b]
        /\ Reply(1)
     \/ /\ ro.started
        /\ app' = [Request("SETFRAGMENT", "idle") EXCEPT !.replies = 2]
        /\ UNCHANGED ro
  /\ UNCHANGED <<stream, handle, cb_lock, cond, cb, net, freed, notified>>

\* SNDCTL_DSP_RESET and ross_release begin with rsd_stop: rsnd_stop_thread ...
Stop(req) ==
  /\ app.pc = "idle"
  /\ app' = Request(req, "stop")
  /\ UNCHANGED <<ro, stream, handle, cb_lock, cond, cb, net, freed, notified>>

StopThread ==
  /\ app.pc = "stop"
  /\ thread_active' = FALSE
  /\ Goto(IF thread_active THEN "join" ELSE "reset")
  /\ UNCHANGED <<ro, stream, threadId, cb_lock, cond, cb, net, freed, notified>>

\* Faulty variant: does not wait for the thread to end.
Join_noWait ==
  /\ app.pc = "join"
  /\ Goto("reset")
  /\ UNCHANGED <<ro, stream, handle, cb_lock, cond, cb, net, freed, notified>>

Join ==
  /\ app.pc = "join" /\ cb[threadId].pc = "exited"
  /\ Goto("reset")
  /\ UNCHANGED <<ro, stream, handle, cb_lock, cond, cb, net, freed, notified>>

\* ... and rsnd_reset.
StopReset ==
  /\ app.pc = "reset"
  /\ thread_active' = FALSE /\ link' = "down" /\ sent' = << >>
  /\ Goto(IF app.req = "RESET" THEN "clear" ELSE "free")
  /\ UNCHANGED <<ro, stream, threadId, cb_lock, cond, cb, freed, notified>>

ross_reset ==
  /\ app.pc = "clear"
  /\ ro' = [ro EXCEPT !.started = FALSE, !.error = FALSE, !.buffer = FALSE]
  /\ fifo' = << >> /\ accepted' = 0
  /\ Reply(1)
  /\ UNCHANGED <<capacity, handle, cb_lock, cond, cb, net, freed, notified>>

\* The rest of ross_close and ross_release.
ross_release ==
  /\ app.pc = "free"
  /\ ro' = [ro EXCEPT !.buffer = FALSE]
  /\ freed' = TRUE
  /\ app' = [app EXCEPT !.pc = "closed", !.req = "none", !.replies = 1]
  /\ UNCHANGED <<stream, handle, cb_lock, cond, cb, net, notified>>

StopSteps == StopThread \/ Join \/ StopReset \/ ross_reset \/ ross_release

-----------------------------------------------------------------------------
(* rsnd_cb_thread, with ross_audio_cb and ross_err_cb                       *)

read_size == Smaller(FragSize, ChunkSize)

\* Faulty variant: only a failed send ends the thread.
CbLoop_ignoresStop(t) ==
  /\ cb[t].pc = "run"
  /\ cb' = [cb EXCEPT ![t].pc = "fill", ![t].buf = << >>, ![t].has_read = 0]
  /\ UNCHANGED <<ro, stream, handle, cb_lock, cond, net, app, freed, notified>>

CbLoop(t) ==
  /\ cb[t].pc = "run"
  /\ cb' = [cb EXCEPT ![t].pc = IF thread_active THEN "fill" ELSE "exited", ![t].buf = << >>,
                      ![t].has_read = 0]
  /\ UNCHANGED <<ro, stream, handle, cb_lock, cond, net, app, freed, notified>>

\* The next label once a part of the chunk has been filled in.
Filled(has_read) == IF has_read = ChunkSize THEN "send" ELSE "fill"

\* Faulty variant: after a short read the chunk is filled from its start again.
ross_audio_cb_restarts(t) ==
  LET will_read == Smaller(read_size, ChunkSize - cb[t].has_read)
      ret       == Smaller(read_avail, will_read)
  IN
  /\ cb[t].pc = "fill" /\ ~cb_lock
  /\ fifo' = Drop(fifo, ret)
  /\ cb' = [cb EXCEPT ![t] = [pc |-> IF ret > 0 THEN "notify" ELSE "short",
                              buf |-> IF ret < will_read THEN << >> ELSE @.buf \o SubSeq(fifo, 1, ret),
                              has_read |-> IF ret < will_read THEN 0 ELSE @.has_read + ret,
                              missing |-> will_read - ret]]
  /\ cb_lock' = (ret > 0)
  /\ UNCHANGED <<ro, capacity, accepted, handle, cond, net, app, freed, notified>>

\* Under rsd_callback_lock, which is kept to the end of ross_notify.
ross_audio_cb(t) ==
  LET will_read == Smaller(read_size, ChunkSize - cb[t].has_read)
      ret       == Smaller(read_avail, will_read)
  IN
  /\ cb[t].pc = "fill" /\ ~cb_lock
  /\ fifo' = Drop(fifo, ret)
  /\ cb' = [cb EXCEPT ![t] = [pc |-> IF ret > 0 THEN "notify" ELSE "short",
                              buf |-> @.buf \o SubSeq(fifo, 1, ret), has_read |-> @.has_read + ret,
                              missing |-> will_read - ret]]
  /\ cb_lock' = (ret > 0)
  /\ UNCHANGED <<ro, capacity, accepted, handle, cond, net, app, freed, notified>>

\* ross_notify under poll_lock: a stored poll handle is used up.
NotifyPoll ==
  /\ ro' = [ro EXCEPT !.ph = FALSE]
  /\ notified' = (notified \/ ro.ph)

CbNotify(t) ==
  /\ cb[t].pc = "notify"
  /\ NotifyPoll
  /\ CbGoto(t, "signal")
  /\ UNCHANGED <<stream, handle, cb_lock, cond, net, app, freed>>

\* pthread_cond_signal(&ro->cond), without cond_lock.
SignalWriter ==
  /\ asleep' = FALSE
  /\ missed' = (missed \/ (app.pc \in {"w_test", "w_wait"} /\ app.write_avail = 0))

\* Faulty variant: only pollers are notified.
CbSignal_pollersOnly(t) ==
  /\ cb[t].pc = "signal"
  /\ cb_lock' = FALSE
  /\ CbGoto(t, IF cb[t].missing > 0 THEN "short" ELSE Filled(cb[t].has_read))
  /\ UNCHANGED <<ro, stream, handle, cond, net, app, freed, notified>>

\* The signal, then the callback returns.
CbSignal(t) ==
  /\ cb[t].pc = "signal"
  /\ SignalWriter
  /\ cb_lock' = FALSE
  /\ CbGoto(t, IF cb[t].missing > 0 THEN "short" ELSE Filled(cb[t].has_read))
  /\ UNCHANGED <<ro, stream, handle, net, app, freed, notified>>

\* Less than asked for: silence if the latency is low ...
CbSilence(t) ==
  LET has_read == cb[t].has_read + cb[t].missing
  IN
  /\ cb[t].pc = "short"
  /\ cb' = [cb EXCEPT ![t].pc = Filled(has_read), ![t].has_read = has_read, ![t].missing = 0]
  /\ UNCHANGED <<ro, stream, handle, cb_lock, cond, net, app, freed, notified>>

\* ... else a short sleep and another call.
CbSleep(t) ==
  /\ cb[t].pc = "short"
  /\ cb' = [cb EXCEPT ![t].pc = "fill", ![t].missing = 0]
  /\ UNCHANGED <<ro, stream, handle, cb_lock, cond, net, app, freed, notified>>

\* rsnd_send_chunk, blocking; on failure a part may have been sent.
CbSend(t) ==
  /\ cb[t].pc = "send"
  /\ \/ /\ link = "up"
        /\ sent' = sent \o cb[t].buf
        /\ cb' = [cb EXCEPT ![t] = [pc |-> "run", buf |-> << >>, has_read |-> 0, missing |-> 0]]
     \/ /\ "break" \in Faults
        /\ \E n \in 0..Len(cb[t].buf) : n < ChunkSize /\ sent' = sent \o SubSeq(cb[t].buf, 1, n)
        /\ cb' = [cb EXCEPT ![t] = [pc |-> "failed", buf |-> << >>, has_read |-> 0, missing |-> 0]]
  /\ UNCHANGED <<ro, stream, handle, cb_lock, cond, link, app, freed, notified>>

\* rsnd_reset; then error_callback
CbReset(t) ==
  /\ cb[t].pc = "failed"
  /\ thread_active' = FALSE /\ link' = "down" /\ sent' = << >>
  /\ CbGoto(t, "error")
  /\ UNCHANGED <<ro, stream, threadId, cb_lock, cond, app, freed, notified>>

ross_err_cb(t) ==
  /\ cb[t].pc = "error"
  /\ ro' = [ro EXCEPT !.error = TRUE]
  /\ CbGoto(t, "err_notify")
  /\ UNCHANGED <<stream, handle, cb_lock, cond, net, app, freed, notified>>

\* Faulty variant: only a sleeping writer is told of the error.
ErrNotify_skipped(t) ==
  /\ cb[t].pc = "err_notify"
  /\ CbGoto(t, "err_signal")
  /\ UNCHANGED <<ro, stream, handle, cb_lock, cond, net, app, freed, notified>>

ErrNotify(t) ==
  /\ cb[t].pc = "err_notify"
  /\ NotifyPoll
  /\ CbGoto(t, "err_signal")
  /\ UNCHANGED <<stream, handle, cb_lock, cond, net, app, freed>>

ErrSignal(t) ==
  /\ cb[t].pc = "err_signal"
  /\ SignalWriter
  /\ CbGoto(t, "exited")
  /\ UNCHANGED <<ro, stream, handle, cb_lock, net, app, freed, notified>>

rsnd_cb_thread(t) ==
  \/ CbLoop(t) \/ ross_audio_cb(t) \/ CbNotify(t) \/ CbSignal(t) \/ CbSilence(t) \/ CbSleep(t)
  \/ CbSend(t) \/ CbReset(t) \/ ross_err_cb(t) \/ ErrNotify(t) \/ ErrSignal(t)

-----------------------------------------------------------------------------
NewRequest ==
  \/ \E size \in WriteSizes : ross_write(size)
  \/ ross_poll \/ SetNonblock
  \/ \E b \in BufSizes : SetFragment(b)
  \/ \E req \in {"RESET", "release"} : Stop(req)

Handlers == WriteSteps \/ PollSteps \/ StopSteps

Next == NewRequest \/ Handlers \/ \E t \in Cb : rsnd_cb_thread(t)

Spec == Init /\ [][Next]_vars

(* FUSE runs the handler of a request, and the callback thread runs.  The    *)
(* latency falls while nothing is sent, so a thread that keeps finding too   *)
(* little data fills in silence at some point.  The application owes nothing *)
(* (it need not make another request).                                       *)
Fairness ==
  /\ WF_vars(Handlers)
  /\ \A t \in Cb : WF_vars(rsnd_cb_thread(t)) /\ SF_vars(CbSilence(t))

FairSpec == Spec /\ Fairness

-----------------------------------------------------------------------------
(* Properties                                                               *)

Labels == {"idle", "closed", "w_check", "w_start", "w_copy", "w_test", "w_wait", "w_asleep",
           "w_loop", "w_reply", "p_update", "p_error", "p_avail", "p_wait", "stop", "join",
           "reset", "clear", "free"}

CbLabels == {"none", "run", "fill", "notify", "signal", "short", "send", "failed", "error",
             "err_notify", "err_signal", "exited"}

\* Every variable has its type; the FIFO never holds more than it was made for.
TypeOK ==
  /\ ro \in [started : BOOLEAN, error : BOOLEAN, nonblock : BOOLEAN, ph : BOOLEAN,
             buffer : BOOLEAN, bufsize : BufSizes]
  /\ capacity \in BufSizes
  /\ fifo \in Seq(1..MaxBytes) /\ Len(fifo) <= capacity
  /\ thread_active \in BOOLEAN /\ threadId \in 0..MaxThreads
  /\ cb_lock \in BOOLEAN /\ asleep \in BOOLEAN /\ missed \in BOOLEAN
  /\ cb \in [Cb -> [pc : CbLabels, buf : Seq(1..MaxBytes), has_read : 0..ChunkSize, missing : 0..ChunkSize]]
  /\ \A t \in Cb : Len(cb[t].buf) <= cb[t].has_read
  /\ link \in {"up", "down"}
  /\ app \in [pc : Labels, req : STRING, size : 0..MaxBytes, written : 0..MaxBytes,
              write_avail : 0..MaxBytes, fits : BOOLEAN, replies : 1..2]
  /\ freed \in BOOLEAN /\ notified \in BOOLEAN
  /\ accepted \in 0..MaxBytes /\ sent \in Seq(1..MaxBytes)

(***************************************************************************)
(* ross_write and rsnd_cb_thread: however often a callback finds too little *)
(* and silence is put in, every byte the application wrote is sent, in the  *)
(* chunk being filled or in the FIFO, in order and once.                    *)
(***************************************************************************)
NothingLost ==
  /\ sent = Bytes(1, Len(sent))
  /\ (ro.started /\ cb[threadId].pc \in {"run", "fill", "notify", "signal", "short", "send"})
       => sent \o cb[threadId].buf \o fifo = Bytes(1, accepted)

(***************************************************************************)
(* ross_reset and ross_close free the FIFO only when no callback and no     *)
(* writer can touch it any more.                                            *)
(***************************************************************************)
BufferAlive ==
  /\ \A t \in Cb : cb[t].pc \in {"fill", "notify", "signal"} => ro.buffer
  /\ app.pc \in {"w_copy", "p_avail"} => ro.buffer

(***************************************************************************)
(* GETOSPACE: a write of at most the size it returned is taken whole, even  *)
(* on a non-blocking device, and does not sleep (what test-oss.c relies on).*)
(***************************************************************************)
SpaceIsHonest ==
  app.fits => /\ app.pc # "w_asleep"
              /\ app.pc = "w_reply" /\ ~ro.error => app.size = 0

(***************************************************************************)
(* ross_poll stores the handle before it looks at the FIFO: an application  *)
(* that was told to wait is woken when there is room, or an error.          *)
(***************************************************************************)
PollerIsWoken ==
  (app.pc = "p_wait" /\ (ross_write_avail > 0 \/ ro.error)) ~> (app.pc # "p_wait")

(***************************************************************************)
(* ross_write returns, with one exception: room or an error was signalled   *)
(* after it had looked and before it slept, for which it takes cond_lock    *)
(* but the callback thread does not.                                        *)
(***************************************************************************)
WriteReturns ==
  (app.req = "write") ~>
    \/ app.pc = "idle"
    \/ app.pc = "w_asleep" /\ missed

(***************************************************************************)
(* RESET and close return: the callback thread they wait for ends whatever  *)
(* it is doing.                                                             *)
(***************************************************************************)
StopReturns == (app.pc = "join") ~> (app.pc \in {"idle", "closed"})
=============================================================================
