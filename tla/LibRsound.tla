----------------------------- MODULE LibRsound -----------------------------
(***************************************************************************)
(* The blocking mode of librsound (src/src/librsound/librsound.c): one      *)
(* application thread calling rsd_start, rsd_write, rsd_stop, rsd_exec and  *)
(* rsd_free, and the playback threads (rsnd_thread) it creates, over one    *)
(* handle (rsound_t), two mutexes, one condition variable and a pair of     *)
(* sockets.                                                                 *)
(*                                                                         *)
(* One action is one step between two points where another thread can       *)
(* observe or change the shared state: a critical section, an unlocked      *)
(* read of thread_active, a cond_signal, a system call.  rsnd_reset, whose  *)
(* assignments other threads read without the mutex, is cut in two.         *)
(*                                                                         *)
(* Bytes are numbered from 1 in the order the application writes them to    *)
(* one stream.  The control socket's messages and the latency estimate      *)
(* (use_latency, delay_offset, total_written, has_written) are left out:    *)
(* they never decide a branch here.                                         *)
(***************************************************************************)
EXTENDS Integers, Sequences, FiniteSets

CONSTANTS
  ChunkSize,    \* backend_info.chunk_size, after the clamp of rsnd_get_backend_info
  BufferSize,   \* rd->buffer_size, after the same clamp
  WriteSizes,   \* the sizes the application passes to rsd_write
  Calls,        \* the calls the application makes: "write", "exec", "stop"
  Faults,       \* what may go wrong: "break" (the server or the network goes away),
                \* "stall" (a live server does not read for 10 s, then resumes),
                \* "create" (pthread_create fails)
  MaxBytes,     \* bound: bytes written to one stream
  MaxConns,     \* bound: connections made with rsd_start
  MaxThreads,   \* bound: playback threads created
  MaxSpurious   \* bound: spurious wake-ups of pthread_cond_wait

(* rsnd_get_backend_info leaves a chunk of 1 to 1024 bytes and a buffer of   *)
(* at least two chunks; the last conjunct excludes the one case (chunk 1,    *)
(* buffer 2) in which rsd_write could never write a byte.                    *)
ASSUME LibRsoundAssumption ==
  /\ ChunkSize \in Nat \ {0}
  /\ BufferSize \in Nat
  /\ BufferSize >= 2 * ChunkSize
  /\ BufferSize >= 3
  /\ WriteSizes \subseteq Nat \ {0}
  /\ Calls \subseteq {"write", "exec", "stop"}
  /\ Faults \subseteq {"break", "stall", "create"}
  /\ MaxBytes \in Nat /\ MaxConns \in Nat /\ MaxThreads \in Nat /\ MaxSpurious \in Nat

App    == 0                    \* the application thread
Player == 1..MaxThreads        \* the playback threads, in order of creation
Thread == 0..MaxThreads
Nobody == -1                   \* owner of an unlocked mutex
Fd     == 1..(2 * MaxConns)    \* the sockets of connection c are 2c-1 and 2c

VARIABLES
  rd,           \* the handle: the rsound_t fields the control flow depends on
  freed,        \* rsd_free has run
  mutex,        \* owner of thread.mutex
  cond_mutex,   \* owner of thread.cond_mutex
  waiters,      \* threads blocked in pthread_cond_wait on thread.cond
  pc,           \* where each thread is
  chunk,        \* each playback thread's local buffer
  detached,     \* playback threads that called pthread_detach on themselves
  app,          \* the call in progress and its locals: bytes still to write (todo),
                \* rsd_exec's fd; and what the application knows: whether the
                \* write fits what rsd_get_avail returned (fits), whether the
                \* last call left the stream closed (told)
  open,         \* descriptors that are open
  link,         \* does the server still take data from the current connection
  conns,        \* connections made so far
  written,      \* bytes accepted by rsd_write on the current stream
  sent,         \* bytes handed to the network on the current connection
  spurious      \* spurious wake-ups so far

vars == <<rd, freed, mutex, cond_mutex, waiters, pc, chunk, detached, app,
          open, link, conns, written, sent, spurious>>

locks   == <<mutex, cond_mutex, waiters>>
network == <<open, link, conns, sent>>
threads == <<chunk, detached>>

-----------------------------------------------------------------------------
(* Helpers *)

Goto(x, label) == pc' = [pc EXCEPT ![x] = label]

\* pthread_cond_signal: wakes one of the threads blocked on the condition.
Signal == IF waiters = {} THEN waiters' = {}
          ELSE \E x \in waiters : waiters' = waiters \ {x}

\* rsnd_fifo_write_avail and rsnd_fifo_read_avail
write_avail == BufferSize - Len(rd.fifo)
read_avail  == Len(rd.fifo)

rsd_get_avail == BufferSize - read_avail

max_write == (BufferSize - ChunkSize) \div 2

\* The piece rsd_write passes to rsnd_fill_buffer next.
write_size == IF app.todo > max_write THEN max_write ELSE app.todo

\* The numbers of the bytes a .. b.
Bytes(a, b) == [i \in 1..(b - a + 1) |-> a + i - 1]

Prefix(s, n) == SubSeq(s, 1, n)
Drop(s, n)   == SubSeq(s, n + 1, Len(s))

\* A blocking rsnd_send_chunk on socket fd that fails: at once on a dead or
\* closed connection, after a part of the data when the connection breaks on
\* the way or the server does not read for 10 s.
SendFails(fd, data) ==
  \E n \in 0..(Len(data) - 1) :
    /\ sent' = sent \o Prefix(data, n)
    /\ \/ (link = "down" \/ fd \notin open) /\ n = 0 /\ link' = link
       \/ link = "up" /\ fd \in open /\ "break" \in Faults /\ link' = "down"
       \/ link = "up" /\ fd \in open /\ "stall" \in Faults /\ link' = "up"

\* The call in progress returns to the application.
Return(closed) ==
  /\ Goto(App, "idle")
  /\ app' = [app EXCEPT !.call = "none", !.todo = 0, !.told = closed]

\* An assertion of buffer.c fails: the process is over.
Abort ==
  /\ pc' = [x \in Thread |-> IF x = App THEN "done" ELSE "exited"]
  /\ app' = [app EXCEPT !.call = "none"]
  /\ freed' = TRUE

\* rsd_init
Init ==
  /\ rd = [socket |-> -1, ctl_socket |-> -1, ready_for_data |-> FALSE,
           thread_active |-> FALSE, threadId |-> 0, fifo |-> << >>]
  /\ freed = FALSE
  /\ mutex = Nobody /\ cond_mutex = Nobody /\ waiters = {}
  /\ pc = [x \in Thread |-> IF x = App THEN "idle" ELSE "none"]
  /\ chunk = [t \in Player |-> << >>]
  /\ detached = {}
  /\ app = [call |-> "none", todo |-> 0, fd |-> -1, fits |-> FALSE, told |-> TRUE]
  /\ open = {} /\ link = "down" /\ conns = 0
  /\ written = 0 /\ sent = << >> /\ spurious = 0

-----------------------------------------------------------------------------
(* rsd_start, rsnd_create_connection                                        *)

\* Playback threads the bound still allows.
Spare == {t \in Player : pc[t] = "none"}

rsd_start ==
  /\ pc[App] = "idle" /\ ~freed
  /\ conns < MaxConns /\ Spare # {}
  /\ app' = [app EXCEPT !.call = "start"]
  /\ Goto(App, "connect")
  /\ UNCHANGED <<rd, freed, locks, threads, network, written, spurious>>

\* rsnd_stop_thread, the STOP message and rsnd_reset follow on every failure.
EnterStop ==
  /\ Goto(App, "stop_thread")
  /\ app' = [app EXCEPT !.call = "stop", !.todo = 0]

\* Both sockets are created and connected, or the sockets created so far
\* stay in the handle and rsd_stop closes them.
rsnd_connect_server ==
  /\ pc[App] = "connect"
  /\ rd.socket <= 0 /\ rd.ctl_socket <= 0
  /\ conns < MaxConns
  /\ conns' = conns + 1
  /\ \E made \in SUBSET {2 * conns + 1, 2 * conns + 2} :
       /\ open' = open \cup made
       /\ rd' = [rd EXCEPT
            !.socket = IF 2 * conns + 1 \in made THEN 2 * conns + 1 ELSE -1,
            !.ctl_socket = IF 2 * conns + 2 \in made THEN 2 * conns + 2 ELSE -1]
       /\ \/ /\ made = {2 * conns + 1, 2 * conns + 2}
             /\ link' = "up" /\ sent' = << >>
             /\ Goto(App, "handshake")
             /\ UNCHANGED app
          \/ /\ link' = "down"
             /\ EnterStop
             /\ UNCHANGED sent
  /\ UNCHANGED <<freed, locks, threads, written, spurious>>

\* Already connected: only the handshake may be missing.
AlreadyConnected ==
  /\ pc[App] = "connect"
  /\ rd.socket > 0 \/ rd.ctl_socket > 0
  /\ IF rd.ready_for_data
     THEN IF app.call = "exec" THEN Goto(App, "exec_ctl") /\ UNCHANGED app
          ELSE Return(FALSE)
     ELSE Goto(App, "handshake") /\ UNCHANGED app
  /\ UNCHANGED <<rd, freed, locks, threads, network, written, spurious>>

\* rsnd_send_header_info and rsnd_get_backend_info, which replaces the FIFO.
Handshake ==
  /\ pc[App] = "handshake"
  /\ \/ /\ link = "up" /\ rd.socket \in open
        /\ rd' = [rd EXCEPT !.fifo = << >>]
        /\ written' = 0
        /\ Goto(App, "start_thread")
        /\ UNCHANGED app
     \/ EnterStop /\ UNCHANGED <<rd, written>>
  /\ UNCHANGED <<freed, locks, threads, network, spurious>>

\* rsnd_start_thread, then the application continues at label.  The code
\* tests pthread_create for a negative result, which it never returns.
StartThread(label) ==
  \/ /\ rd.thread_active
     /\ Goto(App, label)
     /\ UNCHANGED rd
  \/ /\ ~rd.thread_active
     /\ \E t \in Spare :
          /\ \A u \in Spare : t <= u
          /\ rd' = [rd EXCEPT !.thread_active = TRUE, !.threadId = t]
          /\ pc' = [pc EXCEPT ![App] = label, ![t] = "run"]
  \/ /\ ~rd.thread_active /\ "create" \in Faults
     /\ rd' = [rd EXCEPT !.thread_active = TRUE]
     /\ Goto(App, label)

rsnd_start_thread ==
  /\ pc[App] = "start_thread"
  /\ StartThread("ready")
  /\ UNCHANGED <<freed, locks, threads, app, network, written, spurious>>

Ready ==
  /\ pc[App] = "ready"
  /\ rd' = [rd EXCEPT !.ready_for_data = TRUE]
  /\ IF app.call = "exec" THEN Goto(App, "exec_ctl") /\ UNCHANGED app
     ELSE Return(FALSE)
  /\ UNCHANGED <<freed, locks, threads, network, written, spurious>>

-----------------------------------------------------------------------------
(* rsd_write and rsnd_fill_buffer                                           *)

rsd_write(size) ==
  /\ "write" \in Calls
  /\ pc[App] = "idle" /\ ~freed
  /\ written + size <= MaxBytes
  /\ IF rd.ready_for_data
     THEN /\ app' = [app EXCEPT !.call = "write", !.todo = size, !.fits = (size <= rsd_get_avail)]
          /\ Goto(App, "fill")
     ELSE Return(TRUE)
  /\ UNCHANGED <<rd, freed, locks, threads, network, written, spurious>>

FillTestActive ==
  /\ pc[App] = "fill"
  /\ IF rd.thread_active THEN Goto(App, "fill_check") /\ UNCHANGED app
     ELSE EnterStop
  /\ UNCHANGED <<rd, freed, locks, threads, network, written, spurious>>

\* Faulty variant: a piece that exactly fills the buffer does not fit.
FillCheckRoom_strict ==
  /\ pc[App] = "fill_check"
  /\ mutex = Nobody
  /\ Goto(App, IF write_avail > write_size THEN "fill_write" ELSE "fill_sleep")
  /\ UNCHANGED <<rd, freed, locks, threads, app, network, written, spurious>>

FillCheckRoom ==
  /\ pc[App] = "fill_check"
  /\ mutex = Nobody
  /\ Goto(App, IF write_avail >= write_size THEN "fill_write" ELSE "fill_sleep")
  /\ UNCHANGED <<rd, freed, locks, threads, app, network, written, spurious>>

\* Faulty variant: goes to sleep without waking the playback thread first.
FillSleep_noSignal ==
  /\ pc[App] = "fill_sleep"
  /\ cond_mutex = Nobody
  /\ waiters' = waiters \cup {App}
  /\ Goto(App, "fill_asleep")
  /\ UNCHANGED <<rd, freed, mutex, cond_mutex, threads, app, network, written, spurious>>

\* Under cond_mutex: cond_signal, then cond_wait.
FillSleep ==
  /\ pc[App] = "fill_sleep"
  /\ cond_mutex = Nobody
  /\ IF waiters = {} THEN waiters' = {App}
     ELSE \E x \in waiters : waiters' = (waiters \ {x}) \cup {App}
  /\ Goto(App, "fill_asleep")
  /\ UNCHANGED <<rd, freed, mutex, cond_mutex, threads, app, network, written, spurious>>

FillWake ==
  /\ pc[App] = "fill_asleep"
  /\ App \notin waiters /\ cond_mutex = Nobody
  /\ Goto(App, "fill")
  /\ UNCHANGED <<rd, freed, locks, threads, app, network, written, spurious>>

FillWrite ==
  /\ pc[App] = "fill_write"
  /\ mutex = Nobody
  /\ IF write_avail >= write_size
     THEN /\ rd' = [rd EXCEPT !.fifo = @ \o Bytes(written + 1, written + write_size)]
          /\ written' = written + write_size
          /\ Goto(App, "fill_signal")
          /\ UNCHANGED <<freed, app>>
     ELSE Abort /\ UNCHANGED <<rd, written>>
  /\ UNCHANGED <<locks, threads, network, spurious>>

FillSignal ==
  /\ pc[App] = "fill_signal"
  /\ Signal
  /\ IF app.todo > write_size
     THEN app' = [app EXCEPT !.todo = @ - write_size] /\ Goto(App, "fill")
     ELSE Return(FALSE)
  /\ UNCHANGED <<rd, freed, mutex, cond_mutex, threads, network, written, spurious>>

-----------------------------------------------------------------------------
(* rsd_stop, rsnd_stop_thread, rsnd_reset                                   *)

rsd_stop ==
  /\ "stop" \in Calls
  /\ pc[App] = "idle" /\ ~freed
  /\ EnterStop
  /\ UNCHANGED <<rd, freed, locks, threads, network, written, spurious>>

\* Where the application goes once rsnd_stop_thread returns.
AfterStopThread == IF app.call = "exec" THEN "exec_flags" ELSE "reset_close"

StopTestActive ==
  /\ pc[App] = "stop_thread"
  /\ Goto(App, IF rd.thread_active THEN "stop_flag" ELSE AfterStopThread)
  /\ UNCHANGED <<rd, freed, locks, threads, app, network, written, spurious>>

\* Faulty variant: clears the flag and does not wake the thread.
StopFlag_noSignal ==
  /\ pc[App] = "stop_flag"
  /\ cond_mutex = Nobody
  /\ rd' = [rd EXCEPT !.thread_active = FALSE]
  /\ Goto(App, "join")
  /\ UNCHANGED <<freed, locks, threads, app, network, written, spurious>>

\* Under cond_mutex: clear thread_active, then cond_signal.
StopFlag ==
  /\ pc[App] = "stop_flag"
  /\ cond_mutex = Nobody
  /\ rd' = [rd EXCEPT !.thread_active = FALSE]
  /\ Signal
  /\ Goto(App, "join")
  /\ UNCHANGED <<freed, mutex, cond_mutex, threads, app, network, written, spurious>>

\* Faulty variant: does not wait for the playback thread.
Join_noWait ==
  /\ pc[App] = "join"
  /\ Goto(App, AfterStopThread)
  /\ UNCHANGED <<rd, freed, locks, threads, app, network, written, spurious>>

\* pthread_join waits for the thread to exit; on one that is detached, or was
\* never created, its outcome is undefined, and here it may return at once.
Join ==
  /\ pc[App] = "join"
  /\ rd.threadId = 0 \/ rd.threadId \in detached \/ pc[rd.threadId] = "exited"
  /\ Goto(App, AfterStopThread)
  /\ UNCHANGED <<rd, freed, locks, threads, app, network, written, spurious>>

(* rsnd_reset, run by the application in rsd_stop or by a playback thread    *)
(* whose send failed.  The sockets are closed before the mutex is taken.     *)
ResetClose(x) ==
  /\ pc[x] = "reset_close"
  /\ open' = open \ {rd.socket, rd.ctl_socket}
  /\ Goto(x, "reset_lock")
  /\ UNCHANGED <<rd, freed, locks, threads, app, link, conns, written, sent, spurious>>

\* Faulty variant: forgets to invalidate the control socket.
ResetConnection_keepsCtl(x) ==
  /\ pc[x] = "reset_lock"
  /\ mutex = Nobody
  /\ mutex' = x
  /\ rd' = [rd EXCEPT !.socket = -1, !.ready_for_data = FALSE]
  /\ Goto(x, "reset_rest")
  /\ UNCHANGED <<freed, cond_mutex, waiters, threads, app, network, written, spurious>>

ResetConnection(x) ==
  /\ pc[x] = "reset_lock"
  /\ mutex = Nobody
  /\ mutex' = x
  /\ rd' = [rd EXCEPT !.socket = -1, !.ctl_socket = -1, !.ready_for_data = FALSE]
  /\ Goto(x, "reset_rest")
  /\ UNCHANGED <<freed, cond_mutex, waiters, threads, app, network, written, spurious>>

ResetActive(x) ==
  /\ pc[x] = "reset_rest"
  /\ rd' = [rd EXCEPT !.thread_active = FALSE]
  /\ mutex' = Nobody
  /\ Goto(x, "reset_signal")
  /\ UNCHANGED <<freed, cond_mutex, waiters, threads, app, network, written, spurious>>

ResetSignal(x) ==
  /\ pc[x] = "reset_signal"
  /\ Signal
  /\ IF x = App THEN Return(TRUE)
     ELSE Goto(x, "late_signal") /\ UNCHANGED app
  /\ UNCHANGED <<rd, freed, mutex, cond_mutex, threads, network, written, spurious>>

-----------------------------------------------------------------------------
(* rsd_exec and rsd_free                                                    *)

rsd_exec ==
  /\ "exec" \in Calls
  /\ pc[App] = "idle" /\ ~freed
  /\ Cardinality(Spare) >= 2 /\ conns < MaxConns
  /\ app' = [app EXCEPT !.call = "exec"]
  /\ Goto(App, IF rd.socket < 0 THEN "connect" ELSE "exec_ctl")
  /\ UNCHANGED <<rd, freed, locks, threads, network, written, spurious>>

\* The call fails; the handle is not freed and the stream may be running.
ExecFailed == [app EXCEPT !.call = "none", !.fd = -1, !.told = FALSE]

ExecFails == Goto(App, "idle") /\ app' = ExecFailed

\* rsnd_close_ctl up to its close(): no PROTO support, no answer in 2 s, an
\* error or a closed descriptor fail; a hang-up seen at once returns success
\* and leaves the socket open.
ExecCloseRequest ==
  /\ pc[App] = "exec_ctl"
  /\ \/ rd.ctl_socket \in open /\ Goto(App, "exec_close") /\ UNCHANGED app
     \/ link = "down" /\ Goto(App, "exec_fd") /\ UNCHANGED app
     \/ ExecFails
  /\ UNCHANGED <<rd, freed, locks, threads, network, written, spurious>>

ExecCloseCtl ==
  /\ pc[App] = "exec_close"
  /\ open' = open \ {rd.ctl_socket}
  /\ Goto(App, "exec_fd")
  /\ UNCHANGED <<rd, freed, locks, threads, app, link, conns, written, sent, spurious>>

\* int fd = rsound->conn.socket, kept while the thread is being stopped
ExecTakeFd ==
  /\ pc[App] = "exec_fd"
  /\ app' = [app EXCEPT !.fd = rd.socket]
  /\ Goto(App, "stop_thread")
  /\ UNCHANGED <<rd, freed, locks, threads, network, written, spurious>>

\* fcntl fails on a descriptor that has been closed.
ExecFlags ==
  /\ pc[App] = "exec_flags"
  /\ Goto(App, IF app.fd \in open THEN "exec_flush" ELSE "exec_restart")
  /\ UNCHANGED <<rd, freed, locks, threads, app, network, written, spurious>>

ExecRestartThread ==
  /\ pc[App] = "exec_restart"
  /\ StartThread("idle")
  /\ app' = ExecFailed
  /\ UNCHANGED <<freed, locks, threads, network, written, spurious>>

\* The rest of the FIFO is read and sent; a failure closes fd, which stays
\* in the handle.  On success the handle is freed and fd returned.
ExecFlush ==
  /\ pc[App] = "exec_flush"
  /\ rd' = [rd EXCEPT !.fifo = << >>]
  /\ \/ /\ rd.fifo = << >> \/ link = "up"
        /\ sent' = sent \o rd.fifo
        /\ freed' = TRUE
        /\ Goto(App, "done")
        /\ UNCHANGED <<app, open, link>>
     \/ /\ SendFails(app.fd, rd.fifo)
        /\ open' = open \ {app.fd}
        /\ ExecFails
        /\ UNCHANGED freed
  /\ UNCHANGED <<locks, threads, conns, written, spurious>>

\* The application frees a handle it believes closed: rsd_stop returned, a
\* call failed, or the stream was never started.
rsd_free ==
  /\ pc[App] = "idle" /\ ~freed
  /\ app.told
  /\ freed' = TRUE
  /\ Goto(App, "done")
  /\ UNCHANGED <<rd, locks, threads, app, network, written, spurious>>

-----------------------------------------------------------------------------
(* rsnd_thread, the playback thread                                         *)

\* Leaves the inner loop when the thread has been told to stop.
TestCancel(t, from, to) ==
  /\ pc[t] = from
  /\ Goto(t, IF rd.thread_active THEN to ELSE "out")
  /\ UNCHANGED <<rd, freed, locks, threads, app, network, written, spurious>>

LoopTestCancel(t) == TestCancel(t, "run", "check")

\* Faulty variant: tests for an empty buffer instead of a full chunk.
CheckChunk_anyData(t) ==
  /\ pc[t] = "check"
  /\ mutex = Nobody
  /\ Goto(t, IF read_avail = 0 \/ ~rd.thread_active THEN "out" ELSE "before_read")
  /\ UNCHANGED <<rd, freed, locks, threads, app, network, written, spurious>>

CheckChunk(t) ==
  /\ pc[t] = "check"
  /\ mutex = Nobody
  /\ Goto(t, IF read_avail < ChunkSize \/ ~rd.thread_active THEN "out" ELSE "before_read")
  /\ UNCHANGED <<rd, freed, locks, threads, app, network, written, spurious>>

ReadTestCancel(t) == TestCancel(t, "before_read", "read")

ReadChunk(t) ==
  /\ pc[t] = "read"
  /\ mutex = Nobody
  /\ IF read_avail >= ChunkSize
     THEN /\ chunk' = [chunk EXCEPT ![t] = Prefix(rd.fifo, ChunkSize)]
          /\ rd' = [rd EXCEPT !.fifo = Drop(@, ChunkSize)]
          /\ Goto(t, "send")
          /\ UNCHANGED <<freed, app>>
     ELSE Abort /\ UNCHANGED <<rd, chunk>>
  /\ UNCHANGED <<locks, detached, network, written, spurious>>

\* rsnd_send_chunk, blocking: all of the chunk within 10 s, or an error.
SendChunk(t) ==
  /\ pc[t] = "send"
  /\ \/ /\ link = "up" /\ rd.socket \in open
        /\ sent' = sent \o chunk[t]
        /\ Goto(t, "sent")
        /\ UNCHANGED link
     \/ /\ SendFails(rd.socket, chunk[t])
        /\ Goto(t, "failed")
  /\ chunk' = [chunk EXCEPT ![t] = << >>]
  /\ UNCHANGED <<rd, freed, locks, detached, app, open, conns, written, spurious>>

\* Faulty variant: goes on with the next chunk after a failed send.
FailTestCancel_goesOn(t) == TestCancel(t, "failed", "run")

FailTestCancel(t) == TestCancel(t, "failed", "reset_close")

\* Buffer has decreased, signal fill_buffer().
SentSignal(t) ==
  /\ pc[t] = "sent"
  /\ Signal
  /\ Goto(t, "run")
  /\ UNCHANGED <<rd, freed, mutex, cond_mutex, threads, app, network, written, spurious>>

\* After rsnd_reset: wake rsnd_fill_buffer once more, detach and exit.
LateSignal(t) ==
  /\ pc[t] = "late_signal"
  /\ Signal
  /\ Goto(t, "detach")
  /\ UNCHANGED <<rd, freed, mutex, cond_mutex, threads, app, network, written, spurious>>

DetachAndExit(t) ==
  /\ pc[t] = "detach"
  /\ detached' = detached \cup {t}
  /\ Goto(t, "exited")
  /\ UNCHANGED <<rd, freed, locks, chunk, app, network, written, spurious>>

OuterTestActive(t) ==
  /\ pc[t] = "out"
  /\ Goto(t, IF rd.thread_active THEN "sleep" ELSE "quit")
  /\ UNCHANGED <<rd, freed, locks, threads, app, network, written, spurious>>

\* Takes cond_mutex, signals, and keeps the mutex only to wait.
SleepSignal(t) ==
  /\ pc[t] = "sleep"
  /\ cond_mutex = Nobody
  /\ Signal
  /\ IF rd.thread_active THEN cond_mutex' = t /\ Goto(t, "sleep_wait")
     ELSE cond_mutex' = Nobody /\ Goto(t, "run")
  /\ UNCHANGED <<rd, freed, mutex, threads, app, network, written, spurious>>

SleepWait(t) ==
  /\ pc[t] = "sleep_wait"
  /\ cond_mutex' = Nobody
  /\ waiters' = waiters \cup {t}
  /\ Goto(t, "asleep")
  /\ UNCHANGED <<rd, freed, mutex, threads, app, network, written, spurious>>

Wake(t) ==
  /\ pc[t] = "asleep"
  /\ t \notin waiters /\ cond_mutex = Nobody
  /\ Goto(t, "run")
  /\ UNCHANGED <<rd, freed, locks, threads, app, network, written, spurious>>

Quit(t) ==
  /\ pc[t] = "quit"
  /\ Signal
  /\ Goto(t, "exited")
  /\ UNCHANGED <<rd, freed, mutex, cond_mutex, threads, app, network, written, spurious>>

-----------------------------------------------------------------------------
(* The environment, and the specification                                   *)

\* The server, or the network between, goes away.
LinkBreaks ==
  /\ "break" \in Faults
  /\ link = "up"
  /\ link' = "down"
  /\ UNCHANGED <<rd, freed, locks, pc, threads, app, open, conns, written, sent, spurious>>

\* POSIX lets pthread_cond_wait return without a signal.
SpuriousWakeup ==
  /\ spurious < MaxSpurious
  /\ spurious' = spurious + 1
  /\ \E x \in waiters : waiters' = waiters \ {x}
  /\ UNCHANGED <<rd, freed, mutex, cond_mutex, pc, threads, app, network, written>>

\* The application makes a call.
AppCall ==
  \/ rsd_start
  \/ \E size \in WriteSizes : rsd_write(size)
  \/ rsd_stop
  \/ rsd_exec
  \/ rsd_free

\* A call of the application takes a step.
AppStep ==
  \/ rsnd_connect_server \/ AlreadyConnected \/ Handshake \/ rsnd_start_thread \/ Ready
  \/ FillTestActive \/ FillCheckRoom \/ FillSleep \/ FillWake \/ FillWrite \/ FillSignal
  \/ StopTestActive \/ StopFlag \/ Join
  \/ ResetClose(App) \/ ResetConnection(App) \/ ResetActive(App) \/ ResetSignal(App)
  \/ ExecCloseRequest \/ ExecCloseCtl \/ ExecTakeFd \/ ExecFlags \/ ExecRestartThread
  \/ ExecFlush

rsnd_thread(t) ==
  \/ LoopTestCancel(t) \/ CheckChunk(t) \/ ReadTestCancel(t) \/ ReadChunk(t)
  \/ SendChunk(t) \/ SentSignal(t) \/ FailTestCancel(t)
  \/ ResetClose(t) \/ ResetConnection(t) \/ ResetActive(t) \/ ResetSignal(t)
  \/ LateSignal(t) \/ DetachAndExit(t)
  \/ OuterTestActive(t) \/ SleepSignal(t) \/ SleepWait(t) \/ Wake(t) \/ Quit(t)

\* Everything is over: the handle is freed and no playback thread is left.
Finished ==
  /\ freed
  /\ \A t \in Player : pc[t] \in {"none", "exited"}
  /\ UNCHANGED vars

Next ==
  \/ AppCall
  \/ AppStep
  \/ \E t \in Player : rsnd_thread(t)
  \/ LinkBreaks
  \/ SpuriousWakeup
  \/ Finished

Spec == Init /\ [][Next]_vars

(* The operating system schedules every thread that can run; the blocking    *)
(* calls of the code (poll with a timeout) all return.  Nothing forces the   *)
(* application to make another call, the link to break, or a spurious        *)
(* wake-up to happen.                                                        *)
Fairness ==
  /\ WF_vars(AppStep)
  /\ \A t \in Player : WF_vars(rsnd_thread(t))

FairSpec == Spec /\ Fairness

-----------------------------------------------------------------------------
(* Properties                                                               *)

AppLabels == {"idle", "done", "connect", "handshake", "start_thread", "ready", "fill",
  "fill_check", "fill_sleep", "fill_asleep", "fill_write", "fill_signal", "stop_thread",
  "stop_flag", "join", "reset_close", "reset_lock", "reset_rest", "reset_signal",
  "exec_ctl", "exec_close", "exec_fd", "exec_flags", "exec_restart", "exec_flush"}

PlayerLabels == {"none", "run", "check", "before_read", "read", "send", "sent", "failed",
  "reset_close", "reset_lock", "reset_rest", "reset_signal", "late_signal", "detach",
  "out", "sleep", "sleep_wait", "asleep", "quit", "exited"}

PcOK ==
  /\ pc \in [Thread -> AppLabels \cup PlayerLabels]
  /\ pc[App] \in AppLabels
  /\ \A t \in Player : pc[t] \in PlayerLabels

HandleOK ==
  rd \in [socket : Fd \cup {-1}, ctl_socket : Fd \cup {-1}, ready_for_data : BOOLEAN,
         thread_active : BOOLEAN, threadId : Thread, fifo : Seq(Nat)]

AppOK ==
  app \in [call : {"none", "start", "write", "stop", "exec"}, todo : Nat,
          fd : Fd \cup {-1}, fits : BOOLEAN, told : BOOLEAN]

\* Every variable has its type; a descriptor in the handle is -1 or one that
\* rsnd_connect_server made.
TypeOK ==
  /\ HandleOK
  /\ freed \in BOOLEAN
  /\ mutex \in Thread \cup {Nobody}
  /\ cond_mutex \in Thread \cup {Nobody}
  /\ waiters \subseteq Thread
  /\ PcOK
  /\ chunk \in [Player -> Seq(Nat)]
  /\ detached \subseteq Player
  /\ AppOK
  /\ open \subseteq Fd
  /\ link \in {"up", "down"}
  /\ conns \in 0..MaxConns
  /\ written \in Nat
  /\ sent \in Seq(Nat)
  /\ spurious \in 0..MaxSpurious

\* A playback thread that still uses the stream, as opposed to one that is
\* ending after a failure or a stop.
Playing(t) == pc[t] \in {"run", "check", "before_read", "read", "send", "sent", "out",
                         "sleep", "sleep_wait", "asleep"}

(***************************************************************************)
(* The network is given the bytes the application wrote, in order, none     *)
(* twice and none skipped.                                                  *)
(***************************************************************************)
SentInOrder == sent = Bytes(1, Len(sent))

(***************************************************************************)
(* The assertions of rsnd_fifo_write and rsnd_fifo_read hold although each  *)
(* caller gave the mutex back between checking the room and using it.       *)
(***************************************************************************)
FifoAssertionsHold ==
  /\ pc[App] = "fill_write" => write_avail >= write_size
  /\ \A t \in Player : pc[t] = "read" => read_avail >= ChunkSize

(***************************************************************************)
(* "avoids complete deadlocks at the very least" (rsnd_thread): the writer  *)
(* and the playback thread are never both asleep on the condition variable. *)
(***************************************************************************)
NeverBothAsleep == \A x, y \in waiters : x = y

(***************************************************************************)
(* Why that holds: a thread joins the wait set only under cond_mutex, in    *)
(* the critical section in which it has signalled.  While a playback thread *)
(* keeps cond_mutex between its signal and its wait, nobody is waiting.     *)
(***************************************************************************)
CondMutexInv ==
  /\ NeverBothAsleep
  /\ cond_mutex # Nobody => waiters = {}
  /\ \A t \in Player : pc[t] = "sleep_wait" => cond_mutex = t

(***************************************************************************)
(* No descriptor is closed twice: whoever reaches close() holds one that is *)
(* open, or -1.  (A second close could hit a descriptor of another part of  *)
(* the application.)                                                        *)
(***************************************************************************)
ClosesOnlyOpenSockets ==
  /\ \A x \in Thread : pc[x] = "reset_close" =>
       {rd.socket, rd.ctl_socket} \subseteq open \cup {-1}
  /\ pc[App] = "exec_close" => rd.ctl_socket \in open \cup {-1}

(***************************************************************************)
(* DOCUMENTATION, rsd_get_avail: "the amount of bytes that can be written   *)
(* to rsd_write() without blocking".  A write of at most what rsd_get_avail *)
(* returned before the call never sleeps, however it is cut into pieces.    *)
(***************************************************************************)
AvailIsHonest ==
  app.fits => pc[App] \notin {"fill_sleep", "fill_asleep"}

(***************************************************************************)
(* Two playback threads never serve the same stream, even when one dies     *)
(* while the application starts the stream again.                           *)
(***************************************************************************)
OnePlayer == \A t, u \in Player : Playing(t) /\ Playing(u) => t = u

(***************************************************************************)
(* Every call returns.  In particular rsd_write gets room or an error: "we  *)
(* should make sure that subsequent and current calls to rsd_write() will   *)
(* fail" (rsnd_thread, when a send fails).                                  *)
(***************************************************************************)
CallsReturn == (pc[App] \notin {"idle", "done"}) ~> (pc[App] \in {"idle", "done"})

(***************************************************************************)
(* Every call returns, rsd_stop with its join included, with one exception: *)
(* an rsd_write asleep on a stream that no playback thread serves any more. *)
(***************************************************************************)
CallsReturnWhilePlayed ==
  (pc[App] \notin {"idle", "done"}) ~>
    \/ pc[App] \in {"idle", "done"}
    \/ pc[App] = "fill_asleep" /\ \A t \in Player : ~Playing(t)

(***************************************************************************)
(* DOCUMENTATION, rsd_exec: "This call will block until all internal        *)
(* buffers have been written to the network."  When rsd_exec hands over the *)
(* descriptor, every byte written before has been sent, the chunk that the  *)
(* playback thread held when it was stopped included.                       *)
(***************************************************************************)
ExecFlushesEverything ==
  (pc[App] = "done" /\ app.call = "exec") => sent = Bytes(1, written)

(***************************************************************************)
(* rsnd_create_connection: "The first thing it expects is the wave header." *)
(* No audio is sent on a connection before its handshake.                   *)
(***************************************************************************)
HeaderFirst == pc[App] = "handshake" => sent = << >>
=============================================================================
