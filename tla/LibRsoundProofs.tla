-------------------------- MODULE LibRsoundProofs --------------------------
(***************************************************************************)
(* Proofs about the blocking client of librsound, for every chunk and       *)
(* buffer size, every set of write sizes and every bound.  Types, the       *)
(* condition variable, the one playback thread and rsd_get_avail: for every *)
(* combination of calls and faults.  Sockets, assertions and the bytes      *)
(* sent: for every combination but rsd_exec together with links that break  *)
(* or stall (Calm), where the client does not keep them.                    *)
(***************************************************************************)
EXTENDS LibRsound, TLAPS

USE LibRsoundAssumption

\* The application and the playback threads are the threads.
LEMMA ThreadFacts ==
  /\ App \in Thread
  /\ Player \subseteq Thread
  /\ App \notin Player
  /\ \A x \in Thread : x = App \/ x \in Player
  /\ Nobody \notin Thread
BY DEF App, Thread, Player, Nobody

\* A step of the application to one of its labels keeps pc well typed.
LEMMA GotoAppOK ==
  ASSUME PcOK, NEW l \in AppLabels, Goto(App, l)
  PROVE  PcOK'
BY ThreadFacts DEF PcOK, Goto

\* So does a step of a playback thread to one of its labels.
LEMMA GotoPlayerOK ==
  ASSUME PcOK, NEW t \in Player, NEW l \in PlayerLabels, Goto(t, l)
  PROVE  PcOK'
BY ThreadFacts DEF PcOK, Goto

\* pthread_cond_signal only removes threads from the wait set.
LEMMA SignalRemoves ==
  ASSUME Signal
  PROVE  /\ waiters' \subseteq waiters
         /\ (\A x, y \in waiters : x = y) => waiters' = {}
BY DEF Signal

\* The sizes rsd_write works with are natural numbers, and a piece is not empty.
LEMMA WriteSizeFacts ==
  ASSUME AppOK, HandleOK
  PROVE  /\ max_write \in Nat /\ write_size \in Nat
         /\ write_avail \in Int /\ read_avail \in Nat
         /\ app.todo > write_size => app.todo - write_size \in Nat
BY DEF AppOK, HandleOK, max_write, write_size, write_avail, read_avail

\* The empty sequence is a sequence of bytes.
LEMMA EmptyOK == << >> \in Seq(Nat)
OBVIOUS

\* Replacing the contents of the FIFO keeps the handle well typed.
LEMMA FifoOK ==
  ASSUME HandleOK, NEW s \in Seq(Nat), rd' = [rd EXCEPT !.fifo = s]
  PROVE  HandleOK'
BY DEF HandleOK

-----------------------------------------------------------------------------
(* What the shared pieces of the actions do to the types.                   *)

\* Returning from a call keeps the types of pc and of the call record.
LEMMA ReturnOK ==
  ASSUME PcOK, AppOK, NEW closed \in BOOLEAN, Return(closed)
  PROVE  PcOK' /\ AppOK'
<1>1. Goto(App, "idle") /\ "idle" \in AppLabels
  BY DEF Return, AppLabels
<1>2. PcOK'
  BY <1>1, GotoAppOK
<1>3. AppOK'
  BY DEF Return, AppOK
<1> QED BY <1>2, <1>3

\* So does turning a failed call into rsd_stop.
LEMMA EnterStopOK ==
  ASSUME PcOK, AppOK, EnterStop
  PROVE  PcOK' /\ AppOK'
<1>1. Goto(App, "stop_thread") /\ "stop_thread" \in AppLabels
  BY DEF EnterStop, AppLabels
<1>2. PcOK'
  BY <1>1, GotoAppOK
<1>3. AppOK'
  BY DEF EnterStop, AppOK
<1> QED BY <1>2, <1>3

\* So does the failure return of rsd_exec.
LEMMA ExecFailsOK ==
  ASSUME PcOK, AppOK, ExecFails
  PROVE  PcOK' /\ AppOK'
<1>1. Goto(App, "idle") /\ "idle" \in AppLabels
  BY DEF ExecFails, AppLabels
<1>2. PcOK'
  BY <1>1, GotoAppOK
<1>3. AppOK'
  BY DEF ExecFails, ExecFailed, AppOK
<1> QED BY <1>2, <1>3

\* A failed assertion of buffer.c ends every thread at a final label.
LEMMA AbortOK ==
  ASSUME AppOK, Abort
  PROVE  PcOK' /\ AppOK' /\ freed' \in BOOLEAN
<1>1. AppOK' /\ freed' \in BOOLEAN
  BY DEF Abort, AppOK
<1>2. "done" \in AppLabels /\ "exited" \in PlayerLabels
  BY DEF AppLabels, PlayerLabels
<1>3. PcOK'
  BY <1>2, ThreadFacts DEF Abort, PcOK
<1> QED BY <1>1, <1>3

\* rsnd_start_thread records a thread that exists and starts it at its first label.
LEMMA StartThreadOK ==
  ASSUME PcOK, HandleOK, NEW l \in AppLabels, StartThread(l)
  PROVE  PcOK' /\ HandleOK'
<1>1. CASE rd.thread_active /\ Goto(App, l) /\ UNCHANGED rd
  BY <1>1, GotoAppOK DEF HandleOK
<1>2. ASSUME NEW t \in Spare,
             rd' = [rd EXCEPT !.thread_active = TRUE, !.threadId = t],
             pc' = [pc EXCEPT ![App] = l, ![t] = "run"]
      PROVE  PcOK' /\ HandleOK'
  <2>1. t \in Player /\ t \in Thread
    BY ThreadFacts DEF Spare
  <2>2. HandleOK'
    BY <1>2, <2>1 DEF HandleOK
  <2>3. "run" \in PlayerLabels
    BY DEF PlayerLabels
  <2>4. PcOK'
    BY <1>2, <2>1, <2>3, ThreadFacts DEF PcOK
  <2> QED BY <2>2, <2>4
<1>3. CASE /\ rd' = [rd EXCEPT !.thread_active = TRUE]
           /\ Goto(App, l)
  BY <1>3, GotoAppOK DEF HandleOK
<1> QED BY <1>1, <1>2, <1>3 DEF StartThread

\* A prefix of a sequence of bytes is one, and so is the rest.
LEMMA CutOK ==
  ASSUME NEW s \in Seq(Nat), NEW n \in 0..Len(s)
  PROVE  Prefix(s, n) \in Seq(Nat) /\ Drop(s, n) \in Seq(Nat)
BY DEF Prefix, Drop

\* A failed send adds a prefix of the data to what was sent.
LEMMA SendFailsOK ==
  ASSUME NEW fd, NEW data \in Seq(Nat), sent \in Seq(Nat), link \in {"up", "down"},
         SendFails(fd, data)
  PROVE  sent' \in Seq(Nat) /\ link' \in {"up", "down"}
<1>1. PICK n \in 0..(Len(data) - 1) :
        /\ sent' = sent \o Prefix(data, n)
        /\ link' = link \/ link' = "down" \/ link' = "up"
  BY DEF SendFails
<1>2. Prefix(data, n) \in Seq(Nat)
  BY CutOK
<1> QED BY <1>1, <1>2

-----------------------------------------------------------------------------
(* Type correctness: one lemma per group of actions.                        *)

\* Starting a call keeps the types.
LEMMA AppCallTypes == TypeOK /\ AppCall => TypeOK'
<1> SUFFICES ASSUME TypeOK, AppCall PROVE TypeOK'
  OBVIOUS
<1> USE ThreadFacts, GotoAppOK
<1>1. CASE rsd_start
  BY <1>1 DEF TypeOK, HandleOK, AppOK, rsd_start, locks, threads, network, AppLabels
<1>2. CASE \E size \in WriteSizes : rsd_write(size)
  <2> PICK size \in WriteSizes : rsd_write(size)
    BY <1>2
  <2>1. CASE rd.ready_for_data
    <3>1. PcOK'
      BY <2>1, GotoAppOK DEF TypeOK, rsd_write, AppLabels
    <3>2. size \in Nat /\ (size <= rsd_get_avail) \in BOOLEAN
      OBVIOUS
    <3>3. PICK b \in BOOLEAN :
            app' = [app EXCEPT !.call = "write", !.todo = size, !.fits = b]
      BY <2>1, <3>2 DEF rsd_write
    <3>4. AppOK'
      BY <3>2, <3>3 DEF TypeOK, AppOK
    <3> QED BY <3>1, <3>4 DEF TypeOK, HandleOK, rsd_write, locks, threads, network
  <2>2. CASE ~rd.ready_for_data
    <3>1. PcOK' /\ AppOK'
      BY <2>2, ReturnOK DEF TypeOK, rsd_write
    <3> QED BY <3>1 DEF TypeOK, HandleOK, rsd_write, locks, threads, network
  <2> QED BY <2>1, <2>2
<1>3. CASE rsd_stop
  BY <1>3 DEF TypeOK, HandleOK, AppOK, rsd_stop, EnterStop, locks, threads, network, AppLabels
<1>4. CASE rsd_exec
  BY <1>4 DEF TypeOK, HandleOK, AppOK, rsd_exec, locks, threads, network, AppLabels
<1>5. CASE rsd_free
  BY <1>5 DEF TypeOK, HandleOK, AppOK, rsd_free, locks, threads, network, AppLabels
<1> QED BY <1>1, <1>2, <1>3, <1>4, <1>5 DEF AppCall

\* Every step of a call keeps the types.
LEMMA AppStepTypes == TypeOK /\ AppStep => TypeOK'
<1> SUFFICES ASSUME TypeOK, AppStep PROVE TypeOK'
  OBVIOUS
<1> USE ThreadFacts, GotoAppOK
<1>1. CASE rsnd_connect_server
  <2>1. PICK made \in SUBSET {2 * conns + 1, 2 * conns + 2} :
          /\ open' = open \cup made
          /\ rd' = [rd EXCEPT
               !.socket = IF 2 * conns + 1 \in made THEN 2 * conns + 1 ELSE -1,
               !.ctl_socket = IF 2 * conns + 2 \in made THEN 2 * conns + 2 ELSE -1]
          /\ \/ /\ link' = "up" /\ sent' = << >>
                /\ Goto(App, "handshake")
                /\ UNCHANGED app
             \/ /\ link' = "down"
                /\ EnterStop
                /\ UNCHANGED sent
    BY <1>1 DEF rsnd_connect_server
  <2>2. conns < MaxConns /\ conns' = conns + 1 /\ conns \in 0..MaxConns
    BY <1>1 DEF rsnd_connect_server, TypeOK
  <2>3. 2 * conns + 1 \in Fd /\ 2 * conns + 2 \in Fd
    BY <2>2 DEF Fd
  <2>4. open' \subseteq Fd
    BY <2>1, <2>3 DEF TypeOK
  <2>5. HandleOK'
    BY <2>1, <2>3 DEF TypeOK, HandleOK
  <2>6. PcOK' /\ AppOK'
    <3>1. CASE Goto(App, "handshake") /\ UNCHANGED app
      BY <3>1, GotoAppOK DEF TypeOK, AppOK, AppLabels
    <3>2. CASE EnterStop
      BY <3>2, EnterStopOK DEF TypeOK
    <3> QED BY <2>1, <3>1, <3>2
  <2>7. link' \in {"up", "down"}
    BY <2>1
  <2>8. sent' \in Seq(Nat)
    BY <2>1, EmptyOK DEF TypeOK
  <2>9. conns' \in 0..MaxConns
    BY <2>2
  <2>10. UNCHANGED <<freed, mutex, cond_mutex, waiters, chunk, detached, written, spurious>>
    BY <1>1 DEF rsnd_connect_server, locks, threads
  <2> QED BY <2>4, <2>5, <2>6, <2>7, <2>8, <2>9, <2>10 DEF TypeOK
<1>2. CASE AlreadyConnected
  <2>1. PcOK' /\ AppOK'
    <3>1. CASE Goto(App, "exec_ctl") /\ UNCHANGED app
      BY <3>1, GotoAppOK DEF TypeOK, AppOK, AppLabels
    <3>2. CASE Return(FALSE)
      BY <3>2, ReturnOK DEF TypeOK
    <3>3. CASE Goto(App, "handshake") /\ UNCHANGED app
      BY <3>3, GotoAppOK DEF TypeOK, AppOK, AppLabels
    <3> QED BY <1>2, <3>1, <3>2, <3>3 DEF AlreadyConnected
  <2> QED BY <1>2, <2>1 DEF TypeOK, HandleOK, AlreadyConnected, locks, threads, network
<1>3. CASE Handshake
  <2>1. PcOK' /\ AppOK'
    <3>1. CASE Goto(App, "start_thread") /\ UNCHANGED app
      BY <3>1, GotoAppOK DEF TypeOK, AppOK, AppLabels
    <3>2. CASE EnterStop
      BY <3>2, EnterStopOK DEF TypeOK
    <3> QED BY <1>3, <3>1, <3>2 DEF Handshake
  <2>2. HandleOK'
    <3>1. CASE rd' = [rd EXCEPT !.fifo = << >>]
      BY <3>1, EmptyOK, FifoOK DEF TypeOK
    <3>2. CASE UNCHANGED rd
      BY <3>2 DEF TypeOK, HandleOK
    <3> QED BY <1>3, <3>1, <3>2 DEF Handshake
  <2>3. written' \in Nat
    BY <1>3 DEF TypeOK, Handshake
  <2> QED BY <1>3, <2>1, <2>2, <2>3 DEF TypeOK, Handshake, locks, threads, network
<1>4. CASE rsnd_start_thread
  <2>1. PcOK' /\ HandleOK'
    BY <1>4, StartThreadOK DEF TypeOK, rsnd_start_thread, AppLabels
  <2> QED BY <1>4, <2>1 DEF TypeOK, AppOK, rsnd_start_thread, locks, threads, network
<1>5. CASE Ready
  <2>1. PcOK' /\ AppOK'
    <3>1. CASE Goto(App, "exec_ctl") /\ UNCHANGED app
      BY <3>1, GotoAppOK DEF TypeOK, AppOK, AppLabels
    <3>2. CASE Return(FALSE)
      BY <3>2, ReturnOK DEF TypeOK
    <3> QED BY <1>5, <3>1, <3>2 DEF Ready
  <2>2. HandleOK'
    BY <1>5 DEF TypeOK, HandleOK, Ready
  <2> QED BY <1>5, <2>1, <2>2 DEF TypeOK, Ready, locks, threads, network
<1>6. CASE FillTestActive
  <2>1. PcOK' /\ AppOK'
    <3>1. CASE Goto(App, "fill_check") /\ UNCHANGED app
      BY <3>1, GotoAppOK DEF TypeOK, AppOK, AppLabels
    <3>2. CASE EnterStop
      BY <3>2, EnterStopOK DEF TypeOK
    <3> QED BY <1>6, <3>1, <3>2 DEF FillTestActive
  <2> QED BY <1>6, <2>1 DEF TypeOK, HandleOK, FillTestActive, locks, threads, network
<1>7. CASE FillCheckRoom
  BY <1>7 DEF TypeOK, HandleOK, AppOK, FillCheckRoom, locks, threads, network, AppLabels
<1>8. CASE FillSleep
  BY <1>8 DEF TypeOK, HandleOK, AppOK, FillSleep, locks, threads, network, AppLabels
<1>9. CASE FillWake
  BY <1>9 DEF TypeOK, HandleOK, AppOK, FillWake, locks, threads, network, AppLabels
<1>10. CASE FillWrite
  <2>1. CASE write_avail >= write_size
    <3>1. write_size \in Nat
      BY WriteSizeFacts DEF TypeOK
    <3>2. Bytes(written + 1, written + write_size) \in Seq(Nat)
      BY <3>1 DEF Bytes, TypeOK
    <3>3. HandleOK'
      <4> DEFINE s == rd.fifo \o Bytes(written + 1, written + write_size)
      <4>1. s \in Seq(Nat)
        BY <3>2 DEF TypeOK, HandleOK
      <4>2. rd' = [rd EXCEPT !.fifo = s]
        BY <1>10, <2>1 DEF FillWrite
      <4> HIDE DEF s
      <4> QED BY <4>1, <4>2, FifoOK DEF TypeOK
    <3>4. PcOK'
      BY <1>10, <2>1, GotoAppOK DEF TypeOK, FillWrite, AppLabels
    <3>5. written' \in Nat
      BY <1>10, <2>1, <3>1 DEF TypeOK, FillWrite
    <3> QED BY <1>10, <2>1, <3>3, <3>4, <3>5 DEF TypeOK, AppOK, FillWrite, locks, threads, network
  <2>2. CASE ~(write_avail >= write_size)
    <3>1. PcOK' /\ AppOK' /\ freed' \in BOOLEAN
      BY <1>10, <2>2, AbortOK DEF TypeOK, FillWrite
    <3> QED BY <1>10, <2>2, <3>1 DEF TypeOK, HandleOK, FillWrite, locks, threads, network
  <2> QED BY <2>1, <2>2
<1>11. CASE FillSignal
  <2>1. PcOK' /\ AppOK'
    <3>1. CASE app.todo > write_size
      <4>1. PcOK'
        BY <1>11, <3>1, GotoAppOK DEF TypeOK, FillSignal, AppLabels
      <4>2. app.todo - write_size \in Nat
        BY <3>1, WriteSizeFacts DEF TypeOK
      <4>3. AppOK'
        BY <1>11, <3>1, <4>2 DEF TypeOK, AppOK, FillSignal
      <4> QED BY <4>1, <4>3
    <3>2. CASE ~(app.todo > write_size)
      BY <1>11, <3>2, ReturnOK DEF TypeOK, FillSignal
    <3> QED BY <3>1, <3>2
  <2>2. waiters' \subseteq Thread
    BY <1>11, SignalRemoves DEF TypeOK, FillSignal
  <2> QED BY <1>11, <2>1, <2>2 DEF TypeOK, HandleOK, FillSignal, locks, threads, network
<1>12. CASE StopTestActive
  BY <1>12 DEF TypeOK, HandleOK, AppOK, StopTestActive, AfterStopThread, locks, threads, network, AppLabels
<1>13. CASE StopFlag
  BY <1>13 DEF TypeOK, HandleOK, AppOK, StopFlag, Signal, locks, threads, network, AppLabels
<1>14. CASE Join
  BY <1>14 DEF TypeOK, HandleOK, AppOK, Join, AfterStopThread, locks, threads, network, AppLabels
<1>15. CASE ResetClose(App)
  BY <1>15 DEF TypeOK, HandleOK, AppOK, ResetClose, locks, threads, network, AppLabels
<1>16. CASE ResetConnection(App)
  BY <1>16 DEF TypeOK, HandleOK, AppOK, ResetConnection, locks, threads, network, AppLabels
<1>17. CASE ResetActive(App)
  BY <1>17 DEF TypeOK, HandleOK, AppOK, ResetActive, locks, threads, network, AppLabels
<1>18. CASE ResetSignal(App)
  <2>1. PcOK' /\ AppOK'
    BY <1>18, ReturnOK DEF TypeOK, ResetSignal
  <2>2. waiters' \subseteq Thread
    BY <1>18, SignalRemoves DEF TypeOK, ResetSignal
  <2> QED BY <1>18, <2>1, <2>2 DEF TypeOK, HandleOK, ResetSignal, locks, threads, network
<1>19. CASE ExecCloseRequest
  <2>1. PcOK' /\ AppOK'
    <3>1. CASE Goto(App, "exec_close") /\ UNCHANGED app
      BY <3>1, GotoAppOK DEF TypeOK, AppOK, AppLabels
    <3>2. CASE Goto(App, "exec_fd") /\ UNCHANGED app
      BY <3>2, GotoAppOK DEF TypeOK, AppOK, AppLabels
    <3>3. CASE ExecFails
      BY <3>3, ExecFailsOK DEF TypeOK
    <3> QED BY <1>19, <3>1, <3>2, <3>3 DEF ExecCloseRequest
  <2> QED BY <1>19, <2>1 DEF TypeOK, HandleOK, ExecCloseRequest, locks, threads, network
<1>20. CASE ExecCloseCtl
  BY <1>20 DEF TypeOK, HandleOK, AppOK, ExecCloseCtl, locks, threads, network, AppLabels
<1>21. CASE ExecTakeFd
  BY <1>21 DEF TypeOK, HandleOK, AppOK, ExecTakeFd, locks, threads, network, AppLabels
<1>22. CASE ExecFlags
  BY <1>22 DEF TypeOK, HandleOK, AppOK, ExecFlags, locks, threads, network, AppLabels
<1>23. CASE ExecRestartThread
  <2>1. PcOK' /\ HandleOK'
    BY <1>23, StartThreadOK DEF TypeOK, ExecRestartThread, AppLabels
  <2>2. AppOK'
    BY <1>23 DEF TypeOK, AppOK, ExecRestartThread, ExecFailed
  <2> QED BY <1>23, <2>1, <2>2 DEF TypeOK, ExecRestartThread, locks, threads, network
<1>24. CASE ExecFlush
  <2>1. HandleOK' /\ rd.fifo \in Seq(Nat)
    <3>1. rd.fifo \in Seq(Nat)
      BY DEF TypeOK, HandleOK
    <3>2. rd' = [rd EXCEPT !.fifo = << >>] \/ UNCHANGED rd
      BY <1>24 DEF ExecFlush
    <3>3. CASE rd' = [rd EXCEPT !.fifo = << >>]
      BY <3>1, <3>3, EmptyOK, FifoOK DEF TypeOK
    <3>4. CASE UNCHANGED rd
      BY <3>1, <3>4 DEF TypeOK, HandleOK
    <3> QED BY <3>2, <3>3, <3>4
  <2>2. CASE /\ sent' = sent \o rd.fifo
             /\ freed' = TRUE
             /\ Goto(App, "done")
             /\ UNCHANGED <<app, open, link>>
    <3>1. PcOK'
      BY <2>2, GotoAppOK DEF TypeOK, AppLabels
    <3>2. sent' \in Seq(Nat)
      BY <2>1, <2>2 DEF TypeOK
    <3> QED BY <1>24, <2>1, <2>2, <3>1, <3>2 DEF TypeOK, AppOK, ExecFlush, locks, threads, network
  <2>3. CASE /\ SendFails(app.fd, rd.fifo)
             /\ open' = open \ {app.fd}
             /\ ExecFails
             /\ UNCHANGED freed
    <3>1. PcOK' /\ AppOK'
      BY <2>3, ExecFailsOK DEF TypeOK
    <3>2. sent' \in Seq(Nat) /\ link' \in {"up", "down"}
      BY <2>1, <2>3, SendFailsOK DEF TypeOK
    <3> QED BY <1>24, <2>1, <2>3, <3>1, <3>2 DEF TypeOK, ExecFlush, locks, threads
  <2> QED BY <1>24, <2>2, <2>3 DEF ExecFlush
<1> QED BY <1>1, <1>2, <1>3, <1>4, <1>5, <1>6, <1>7, <1>8, <1>9, <1>10, <1>11, <1>12, <1>13, <1>14, <1>15, <1>16, <1>17, <1>18, <1>19, <1>20, <1>21, <1>22, <1>23, <1>24 DEF AppStep

\* Every step of a playback thread keeps the types.
LEMMA PlayerTypes == ASSUME NEW t \in Player PROVE TypeOK /\ rsnd_thread(t) => TypeOK'
<1> SUFFICES ASSUME TypeOK, rsnd_thread(t) PROVE TypeOK'
  OBVIOUS
<1> USE ThreadFacts, GotoPlayerOK
<1>1. CASE LoopTestCancel(t)
  BY <1>1 DEF TypeOK, HandleOK, AppOK, LoopTestCancel, TestCancel, locks, threads, network, PlayerLabels
<1>2. CASE CheckChunk(t)
  BY <1>2 DEF TypeOK, HandleOK, AppOK, CheckChunk, locks, threads, network, PlayerLabels
<1>3. CASE ReadTestCancel(t)
  BY <1>3 DEF TypeOK, HandleOK, AppOK, ReadTestCancel, TestCancel, locks, threads, network, PlayerLabels
<1>4. CASE ReadChunk(t)
  <2>1. CASE read_avail >= ChunkSize
    <3>1. rd.fifo \in Seq(Nat) /\ ChunkSize \in 0..Len(rd.fifo)
      BY <2>1 DEF TypeOK, HandleOK, read_avail
    <3>2. Prefix(rd.fifo, ChunkSize) \in Seq(Nat) /\ Drop(rd.fifo, ChunkSize) \in Seq(Nat)
      BY <3>1, CutOK
    <3>3. PcOK'
      BY <1>4, <2>1, GotoPlayerOK DEF TypeOK, ReadChunk, PlayerLabels
    <3>4. HandleOK'
      <4>1. rd' = [rd EXCEPT !.fifo = Drop(rd.fifo, ChunkSize)]
        BY <1>4, <2>1 DEF ReadChunk
      <4> QED BY <3>2, <4>1, FifoOK DEF TypeOK
    <3>5. chunk' \in [Player -> Seq(Nat)]
      BY <1>4, <2>1, <3>2 DEF TypeOK, ReadChunk
    <3> QED BY <1>4, <2>1, <3>3, <3>4, <3>5 DEF TypeOK, AppOK, ReadChunk, locks, threads, network
  <2>2. CASE ~(read_avail >= ChunkSize)
    <3>1. PcOK' /\ AppOK' /\ freed' \in BOOLEAN
      BY <1>4, <2>2, AbortOK DEF TypeOK, ReadChunk
    <3> QED BY <1>4, <2>2, <3>1 DEF TypeOK, HandleOK, ReadChunk, locks, threads, network
  <2> QED BY <2>1, <2>2
<1>5. CASE SendChunk(t)
  <2>1. chunk[t] \in Seq(Nat) /\ chunk' \in [Player -> Seq(Nat)]
    BY <1>5 DEF TypeOK, SendChunk
  <2>2. PcOK' /\ sent' \in Seq(Nat) /\ link' \in {"up", "down"}
    <3>1. CASE sent' = sent \o chunk[t] /\ Goto(t, "sent") /\ UNCHANGED link
      BY <2>1, <3>1, GotoPlayerOK DEF TypeOK, PlayerLabels
    <3>2. CASE SendFails(rd.socket, chunk[t]) /\ Goto(t, "failed")
      <4>1. PcOK'
        BY <3>2, GotoPlayerOK DEF TypeOK, PlayerLabels
      <4> QED BY <2>1, <3>2, <4>1, SendFailsOK DEF TypeOK
    <3> QED BY <1>5, <3>1, <3>2 DEF SendChunk
  <2> QED BY <1>5, <2>1, <2>2 DEF TypeOK, HandleOK, AppOK, SendChunk, locks, threads
<1>6. CASE SentSignal(t)
  BY <1>6 DEF TypeOK, HandleOK, AppOK, SentSignal, Signal, locks, threads, network, PlayerLabels
<1>7. CASE FailTestCancel(t)
  BY <1>7 DEF TypeOK, HandleOK, AppOK, FailTestCancel, TestCancel, locks, threads, network, PlayerLabels
<1>8. CASE ResetClose(t)
  BY <1>8 DEF TypeOK, HandleOK, AppOK, ResetClose, locks, threads, network, PlayerLabels
<1>9. CASE ResetConnection(t)
  BY <1>9 DEF TypeOK, HandleOK, AppOK, ResetConnection, locks, threads, network, PlayerLabels
<1>10. CASE ResetActive(t)
  BY <1>10 DEF TypeOK, HandleOK, AppOK, ResetActive, locks, threads, network, PlayerLabels
<1>11. CASE ResetSignal(t)
  BY <1>11 DEF TypeOK, HandleOK, AppOK, ResetSignal, Signal, locks, threads, network, PlayerLabels
<1>12. CASE LateSignal(t)
  BY <1>12 DEF TypeOK, HandleOK, AppOK, LateSignal, Signal, locks, threads, network, PlayerLabels
<1>13. CASE DetachAndExit(t)
  BY <1>13 DEF TypeOK, HandleOK, AppOK, DetachAndExit, locks, threads, network, PlayerLabels
<1>14. CASE OuterTestActive(t)
  BY <1>14 DEF TypeOK, HandleOK, AppOK, OuterTestActive, locks, threads, network, PlayerLabels
<1>15. CASE SleepSignal(t)
  BY <1>15 DEF TypeOK, HandleOK, AppOK, SleepSignal, Signal, locks, threads, network, PlayerLabels
<1>16. CASE SleepWait(t)
  BY <1>16 DEF TypeOK, HandleOK, AppOK, SleepWait, locks, threads, network, PlayerLabels
<1>17. CASE Wake(t)
  BY <1>17 DEF TypeOK, HandleOK, AppOK, Wake, locks, threads, network, PlayerLabels
<1>18. CASE Quit(t)
  BY <1>18 DEF TypeOK, HandleOK, AppOK, Quit, Signal, locks, threads, network, PlayerLabels
<1> QED BY <1>1, <1>2, <1>3, <1>4, <1>5, <1>6, <1>7, <1>8, <1>9, <1>10, <1>11, <1>12, <1>13, <1>14, <1>15, <1>16, <1>17, <1>18 DEF rsnd_thread

(***************************************************************************)
(* Every variable of the client keeps its type, and every descriptor in the *)
(* handle is -1 or one made by rsnd_connect_server, in every behaviour of   *)
(* the application thread and the playback threads of librsound.c.          *)
(***************************************************************************)
THEOREM TypeCorrect == Spec => []TypeOK
<1>1. Init => TypeOK
  <2> SUFFICES ASSUME Init PROVE TypeOK
    OBVIOUS
  <2>1. HandleOK
    BY ThreadFacts, EmptyOK DEF Init, HandleOK, App
  <2>2. PcOK
    BY ThreadFacts DEF Init, PcOK, AppLabels, PlayerLabels
  <2>3. AppOK
    BY DEF Init, AppOK
  <2>4. chunk \in [Player -> Seq(Nat)] /\ sent \in Seq(Nat)
    BY EmptyOK DEF Init
  <2>5. waiters \subseteq Thread /\ detached \subseteq Player /\ open \subseteq Fd
    BY DEF Init
  <2>6. freed \in BOOLEAN /\ link \in {"up", "down"}
    BY DEF Init
  <2>7. mutex \in Thread \cup {Nobody} /\ cond_mutex \in Thread \cup {Nobody}
    BY DEF Init
  <2>8. conns \in 0..MaxConns /\ written \in Nat /\ spurious \in 0..MaxSpurious
    BY DEF Init
  <2> QED BY <2>1, <2>2, <2>3, <2>4, <2>5, <2>6, <2>7, <2>8 DEF TypeOK
<1>2. TypeOK /\ [Next]_vars => TypeOK'
  <2> SUFFICES ASSUME TypeOK, [Next]_vars PROVE TypeOK'
    OBVIOUS
  <2>1. CASE AppCall
    BY <2>1, AppCallTypes
  <2>2. CASE AppStep
    BY <2>2, AppStepTypes
  <2>3. CASE \E t \in Player : rsnd_thread(t)
    BY <2>3, PlayerTypes
  <2>4. CASE LinkBreaks
    BY <2>4 DEF TypeOK, PcOK, HandleOK, AppOK, LinkBreaks, locks, threads
  <2>5. CASE SpuriousWakeup
    BY <2>5 DEF TypeOK, PcOK, HandleOK, AppOK, SpuriousWakeup, threads, network
  <2>6. CASE UNCHANGED vars
    BY <2>6 DEF TypeOK, PcOK, HandleOK, AppOK, vars
  <2> QED BY <2>1, <2>2, <2>3, <2>4, <2>5, <2>6 DEF Next, Finished
<1> QED BY <1>1, <1>2, PTL DEF Spec

-----------------------------------------------------------------------------
(* The condition variable                                                   *)

\* A step that leaves the condition variable and its mutex alone, and does
\* not bring a playback thread to its wait, keeps CondMutexInv.
LEMMA CondUntouched ==
  ASSUME CondMutexInv, UNCHANGED <<cond_mutex, waiters>>,
         \A t \in Player : pc'[t] = "sleep_wait" => pc[t] = "sleep_wait"
  PROVE  CondMutexInv'
BY DEF CondMutexInv, NeverBothAsleep

\* So does a step that only signals.
LEMMA CondSignalled ==
  ASSUME CondMutexInv, Signal, UNCHANGED cond_mutex,
         \A t \in Player : pc'[t] = "sleep_wait" => pc[t] = "sleep_wait"
  PROVE  CondMutexInv'
BY SignalRemoves DEF CondMutexInv, NeverBothAsleep

\* A thread that goes to a label other than its wait brings no playback
\* thread there.
LEMMA GotoNoWait ==
  ASSUME PcOK, NEW x \in Thread, NEW l, l # "sleep_wait", Goto(x, l)
  PROVE  \A t \in Player : pc'[t] = "sleep_wait" => pc[t] = "sleep_wait"
BY ThreadFacts DEF PcOK, Goto

\* Neither does a failed assertion, which ends every thread.
LEMMA AbortNoWait ==
  ASSUME Abort
  PROVE  \A t \in Player : pc'[t] = "sleep_wait" => pc[t] = "sleep_wait"
BY ThreadFacts DEF Abort

\* Nor does rsnd_start_thread, whose new thread starts at "run".
LEMMA StartThreadNoWait ==
  ASSUME PcOK, NEW l, l # "sleep_wait", StartThread(l)
  PROVE  \A t \in Player : pc'[t] = "sleep_wait" => pc[t] = "sleep_wait"
<1>1. CASE Goto(App, l)
  BY <1>1, GotoNoWait, ThreadFacts
<1>2. CASE \E u \in Spare : pc' = [pc EXCEPT ![App] = l, ![u] = "run"]
  <2> PICK u \in Spare : pc' = [pc EXCEPT ![App] = l, ![u] = "run"]
    BY <1>2
  <2> QED BY ThreadFacts DEF PcOK, Spare
<1> QED BY <1>1, <1>2 DEF StartThread

\* A call of the application never touches the condition variable.
LEMMA AppCallCond == TypeOK /\ CondMutexInv /\ AppCall => CondMutexInv'
<1> SUFFICES ASSUME TypeOK, CondMutexInv, AppCall PROVE CondMutexInv'
  OBVIOUS
<1>1. UNCHANGED <<cond_mutex, waiters>>
  BY DEF AppCall, rsd_start, rsd_write, rsd_stop, rsd_exec, rsd_free, locks
<1>2. \E l \in AppLabels : l # "sleep_wait" /\ Goto(App, l)
  BY DEF AppCall, rsd_start, rsd_write, rsd_stop, rsd_exec, rsd_free, Return, EnterStop, AppLabels
<1> QED BY <1>1, <1>2, CondUntouched, GotoNoWait, ThreadFacts DEF TypeOK

\* The steps of a call: rsnd_fill_buffer signals before it waits, so the one
\* thread that may have been waiting is awake when the writer goes to sleep.
LEMMA AppStepCond == TypeOK /\ CondMutexInv /\ AppStep => CondMutexInv'
<1> SUFFICES ASSUME TypeOK, CondMutexInv, AppStep PROVE CondMutexInv'
  OBVIOUS
<1> USE ThreadFacts
<1>0. PcOK
  BY DEF TypeOK
<1>1. CASE FillSleep
  <2>1. waiters' = {App}
    BY <1>1 DEF FillSleep, CondMutexInv, NeverBothAsleep
  <2>2. UNCHANGED cond_mutex /\ cond_mutex = Nobody
    BY <1>1 DEF FillSleep
  <2>3. \A t \in Player : pc'[t] = "sleep_wait" => pc[t] = "sleep_wait"
    BY <1>0, <1>1, GotoNoWait DEF FillSleep
  <2> QED BY <2>1, <2>2, <2>3 DEF CondMutexInv, NeverBothAsleep
<1>2. CASE FillSignal \/ StopFlag \/ ResetSignal(App)
  <2>1. Signal /\ UNCHANGED cond_mutex
    BY <1>2 DEF FillSignal, StopFlag, ResetSignal, locks
  <2>2. \E l \in AppLabels : l # "sleep_wait" /\ Goto(App, l)
    BY <1>2 DEF FillSignal, StopFlag, ResetSignal, Return, AppLabels
  <2> QED BY <1>0, <2>1, <2>2, CondSignalled, GotoNoWait
<1>3. CASE rsnd_start_thread \/ ExecRestartThread
  <2>1. UNCHANGED <<cond_mutex, waiters>>
    BY <1>3 DEF rsnd_start_thread, ExecRestartThread, locks
  <2>2. StartThread("ready") \/ StartThread("idle")
    BY <1>3 DEF rsnd_start_thread, ExecRestartThread
  <2> QED BY <1>0, <2>1, <2>2, CondUntouched, StartThreadNoWait
<1>4. CASE FillWrite
  <2>1. UNCHANGED <<cond_mutex, waiters>>
    BY <1>4 DEF FillWrite, locks
  <2>2. Goto(App, "fill_signal") \/ Abort
    BY <1>4 DEF FillWrite
  <2> QED BY <1>0, <2>1, <2>2, CondUntouched, GotoNoWait, AbortNoWait
<1>5. CASE \/ rsnd_connect_server \/ AlreadyConnected \/ Handshake \/ Ready
           \/ FillTestActive \/ FillCheckRoom \/ FillWake
  <2>1. UNCHANGED <<cond_mutex, waiters>>
    BY <1>5 DEF rsnd_connect_server, AlreadyConnected, Handshake, Ready, FillTestActive,
                FillCheckRoom, FillWake, locks
  <2>2. \E l \in AppLabels : l # "sleep_wait" /\ Goto(App, l)
    BY <1>5 DEF rsnd_connect_server, AlreadyConnected, Handshake, Ready, FillTestActive,
                FillCheckRoom, FillWake, Return, EnterStop, AppLabels
  <2> QED BY <1>0, <2>1, <2>2, CondUntouched, GotoNoWait
<1>6. CASE \/ StopTestActive \/ Join
           \/ ResetClose(App) \/ ResetConnection(App) \/ ResetActive(App)
           \/ ExecCloseRequest \/ ExecCloseCtl \/ ExecTakeFd \/ ExecFlags \/ ExecFlush
  <2>1. UNCHANGED <<cond_mutex, waiters>>
    BY <1>6 DEF StopTestActive, Join, ResetClose, ResetConnection, ResetActive,
                ExecCloseRequest, ExecCloseCtl, ExecTakeFd, ExecFlags, ExecFlush, locks
  <2>2. \E l \in AppLabels : l # "sleep_wait" /\ Goto(App, l)
    BY <1>6 DEF StopTestActive, Join, ResetClose, ResetConnection, ResetActive,
                ExecCloseRequest, ExecCloseCtl, ExecTakeFd, ExecFlags, ExecFlush,
                ExecFails, AfterStopThread, AppLabels
  <2> QED BY <1>0, <2>1, <2>2, CondUntouched, GotoNoWait
<1> QED BY <1>1, <1>2, <1>3, <1>4, <1>5, <1>6 DEF AppStep

\* The steps of a playback thread: it signals when it takes cond_mutex and
\* keeps it until it waits, so it joins an empty wait set.
LEMMA PlayerCond ==
  ASSUME NEW t \in Player
  PROVE  TypeOK /\ CondMutexInv /\ rsnd_thread(t) => CondMutexInv'
<1> SUFFICES ASSUME TypeOK, CondMutexInv, rsnd_thread(t) PROVE CondMutexInv'
  OBVIOUS
<1> USE ThreadFacts
<1>0. PcOK
  BY DEF TypeOK
<1>1. CASE SleepSignal(t)
  <2>1. waiters' = {} /\ cond_mutex = Nobody
    BY <1>1, SignalRemoves DEF SleepSignal, CondMutexInv, NeverBothAsleep
  <2>2. \A u \in Player : pc[u] # "sleep_wait"
    BY <2>1 DEF CondMutexInv
  <2>3. \A u \in Player : pc'[u] = "sleep_wait" => u = t /\ cond_mutex' = t
    BY <1>0, <1>1, <2>2 DEF SleepSignal, Goto, PcOK
  <2> QED BY <2>1, <2>3 DEF CondMutexInv, NeverBothAsleep
<1>2. CASE SleepWait(t)
  <2>1. cond_mutex = t /\ waiters = {}
    BY <1>2 DEF SleepWait, CondMutexInv
  <2>2. waiters' = {t} /\ cond_mutex' = Nobody
    BY <1>2, <2>1 DEF SleepWait
  <2>3. \A u \in Player : pc'[u] # "sleep_wait"
    BY <1>0, <1>2, <2>1 DEF SleepWait, CondMutexInv, Goto, PcOK
  <2> QED BY <2>2, <2>3 DEF CondMutexInv, NeverBothAsleep
<1>3. CASE SentSignal(t) \/ ResetSignal(t) \/ LateSignal(t) \/ Quit(t)
  <2>1. Signal /\ UNCHANGED cond_mutex
    BY <1>3 DEF SentSignal, ResetSignal, LateSignal, Quit
  <2>2. \E l \in PlayerLabels : l # "sleep_wait" /\ Goto(t, l)
    BY <1>3 DEF SentSignal, ResetSignal, LateSignal, Quit, PlayerLabels
  <2> QED BY <1>0, <2>1, <2>2, CondSignalled, GotoNoWait
<1>4. CASE ReadChunk(t)
  <2>1. UNCHANGED <<cond_mutex, waiters>>
    BY <1>4 DEF ReadChunk, locks
  <2>2. Goto(t, "send") \/ Abort
    BY <1>4 DEF ReadChunk
  <2> QED BY <1>0, <2>1, <2>2, CondUntouched, GotoNoWait, AbortNoWait
<1>5. CASE \/ LoopTestCancel(t) \/ CheckChunk(t) \/ ReadTestCancel(t) \/ SendChunk(t)
           \/ FailTestCancel(t) \/ ResetClose(t) \/ ResetConnection(t) \/ ResetActive(t)
           \/ DetachAndExit(t) \/ OuterTestActive(t) \/ Wake(t)
  <2>1. UNCHANGED <<cond_mutex, waiters>>
    BY <1>5 DEF LoopTestCancel, CheckChunk, ReadTestCancel, SendChunk, FailTestCancel,
                TestCancel, ResetClose, ResetConnection, ResetActive, DetachAndExit,
                OuterTestActive, Wake, locks
  <2>2. \E l \in PlayerLabels : l # "sleep_wait" /\ Goto(t, l)
    BY <1>5 DEF LoopTestCancel, CheckChunk, ReadTestCancel, SendChunk, FailTestCancel,
                TestCancel, ResetClose, ResetConnection, ResetActive, DetachAndExit,
                OuterTestActive, Wake, PlayerLabels
  <2> QED BY <1>0, <2>1, <2>2, CondUntouched, GotoNoWait
<1> QED BY <1>1, <1>2, <1>3, <1>4, <1>5 DEF rsnd_thread

(***************************************************************************)
(* The discipline of the condition variable: whoever waits has signalled    *)
(* in the same critical section of cond_mutex, in rsnd_fill_buffer and in   *)
(* rsnd_thread, and nobody waits while a playback thread holds cond_mutex.  *)
(***************************************************************************)
THEOREM CondMutexDiscipline == Spec => []CondMutexInv
<1>1. Init => CondMutexInv
  BY ThreadFacts DEF Init, CondMutexInv, NeverBothAsleep
<1>2. TypeOK /\ CondMutexInv /\ [Next]_vars => CondMutexInv'
  <2> SUFFICES ASSUME TypeOK, CondMutexInv, [Next]_vars PROVE CondMutexInv'
    OBVIOUS
  <2>1. CASE LinkBreaks
    BY <2>1, CondUntouched DEF LinkBreaks, locks
  <2>2. CASE SpuriousWakeup
    BY <2>2 DEF SpuriousWakeup, CondMutexInv, NeverBothAsleep
  <2>3. CASE UNCHANGED vars
    BY <2>3, CondUntouched DEF vars
  <2> QED
    BY <2>1, <2>2, <2>3, AppCallCond, AppStepCond, PlayerCond DEF Next, Finished
<1> QED BY <1>1, <1>2, TypeCorrect, PTL DEF Spec

(***************************************************************************)
(* The writer and the playback thread never both sleep on thread.cond, for  *)
(* any number of playback threads and whatever fails: the "complete         *)
(* deadlock" that the comment in rsnd_thread sets out to avoid.             *)
(***************************************************************************)
THEOREM SleepersExclude == Spec => []NeverBothAsleep
<1>1. CondMutexInv => NeverBothAsleep
  BY DEF CondMutexInv
<1> QED BY <1>1, CondMutexDiscipline, PTL

-----------------------------------------------------------------------------
(* One playback thread                                                      *)

\* Where a playback thread uses the stream or still has to reset the handle.
BusyLabels == {"run", "check", "before_read", "read", "send", "sent", "failed", "reset_close",
  "reset_lock", "reset_rest", "out", "sleep", "sleep_wait", "asleep"}

\* Where the application is once rsnd_stop_thread has returned.
QuietLabels == {"reset_close", "reset_lock", "reset_rest", "reset_signal",
  "exec_flags", "exec_restart", "exec_flush"}

(* A busy thread is the one the handle names, and thread_active stays set    *)
(* until it has reset the handle or the application waits for it to exit.    *)
(* rsnd_start_thread, which tests thread_active, then finds no busy thread.  *)
OneInv ==
  /\ \A t \in Player : pc[t] \in BusyLabels =>
       /\ t = rd.threadId
       /\ rd.thread_active \/ pc[App] = "join"
       /\ pc[App] \notin QuietLabels
  /\ \A t \in detached : pc[t] = "exited"

\* The application moves on and leaves thread_active and threadId alone.
LEMMA AppMoves ==
  ASSUME PcOK, detached \subseteq Player, OneInv, NEW l, Goto(App, l),
         rd'.threadId = rd.threadId, rd'.thread_active = rd.thread_active,
         UNCHANGED detached,
         pc[App] # "join",
         l \in QuietLabels => pc[App] \in QuietLabels \/ ~rd.thread_active
  PROVE  OneInv'
BY ThreadFacts DEF PcOK, OneInv, Goto

\* A playback thread moves on and leaves them alone.
LEMMA PlayerMoves ==
  ASSUME PcOK, detached \subseteq Player, OneInv, NEW t \in Player, NEW l, Goto(t, l),
         rd'.threadId = rd.threadId, rd'.thread_active = rd.thread_active,
         UNCHANGED detached, pc[t] # "exited",
         l \in BusyLabels => pc[t] \in BusyLabels
  PROVE  OneInv'
BY ThreadFacts DEF PcOK, OneInv, Goto

\* The application starts a thread where none is busy.
LEMMA StartMoves ==
  ASSUME PcOK, detached \subseteq Player, HandleOK, OneInv, NEW l, l \notin QuietLabels,
         StartThread(l), UNCHANGED detached, pc[App] # "join"
  PROVE  OneInv'
<1>1. CASE rd.thread_active /\ Goto(App, l) /\ UNCHANGED rd
  BY <1>1, AppMoves
<1>2. ASSUME ~rd.thread_active, NEW t \in Spare,
             rd' = [rd EXCEPT !.thread_active = TRUE, !.threadId = t],
             pc' = [pc EXCEPT ![App] = l, ![t] = "run"]
      PROVE  OneInv'
  <2>1. t \in Player /\ pc[t] = "none"
    BY DEF Spare
  <2>2. \A u \in Player : pc[u] \notin BusyLabels
    BY <1>2 DEF OneInv
  <2>3. rd'.thread_active /\ rd'.threadId = t
    BY <1>2 DEF HandleOK
  <2>4. pc'[App] = l /\ \A u \in Player : u # t => pc'[u] = pc[u]
    BY <1>2, <2>1, ThreadFacts DEF PcOK
  <2>5. t \notin detached
    BY <2>1 DEF OneInv
  <2> QED BY <2>2, <2>3, <2>4, <2>5 DEF OneInv
<1>3. CASE ~rd.thread_active /\ rd' = [rd EXCEPT !.thread_active = TRUE] /\ Goto(App, l)
  BY <1>3, ThreadFacts DEF OneInv, HandleOK, PcOK, Goto
<1> QED BY <1>1, <1>2, <1>3 DEF StartThread

\* A failed assertion ends every thread.
LEMMA AbortOne == detached \subseteq Player /\ Abort /\ UNCHANGED detached => OneInv'
BY ThreadFacts DEF Abort, OneInv, BusyLabels

\* The steps of the application.
LEMMA AppOne == TypeOK /\ OneInv /\ (AppCall \/ AppStep) => OneInv'
<1> SUFFICES ASSUME TypeOK, OneInv, AppCall \/ AppStep PROVE OneInv'
  OBVIOUS
<1>0. PcOK /\ HandleOK /\ detached \subseteq Player
  BY DEF TypeOK
<1>1. CASE rsnd_start_thread \/ ExecRestartThread
  <2>1. /\ StartThread("ready") \/ StartThread("idle")
        /\ UNCHANGED detached /\ pc[App] # "join"
    BY <1>1 DEF rsnd_start_thread, ExecRestartThread, threads
  <2> QED BY <1>0, <2>1, StartMoves DEF QuietLabels
<1>2. CASE FillWrite
  <2>1. CASE Abort
    BY <1>0, <1>2, <2>1, AbortOne DEF FillWrite, threads
  <2>2. CASE rd' = [rd EXCEPT !.fifo = @ \o Bytes(written + 1, written + write_size)]
             /\ Goto(App, "fill_signal")
    BY <1>0, <1>2, <2>2, AppMoves DEF FillWrite, threads, HandleOK, QuietLabels
  <2> QED BY <1>2, <2>1, <2>2 DEF FillWrite
<1>3. CASE StopFlag
  BY <1>0, <1>3, ThreadFacts DEF StopFlag, threads, HandleOK, PcOK, Goto, OneInv, QuietLabels
<1>4. CASE Join
  <2>1. \A t \in Player : pc[t] \notin BusyLabels
    BY <1>0, <1>4, ThreadFacts DEF Join, OneInv, BusyLabels, App
  <2> QED BY <1>0, <1>4, <2>1, ThreadFacts DEF Join, threads, PcOK, Goto, OneInv
<1>5. CASE ResetActive(App)
  <2>1. \A t \in Player : pc[t] \notin BusyLabels
    BY <1>5 DEF ResetActive, OneInv, QuietLabels
  <2> QED BY <1>0, <1>5, <2>1, ThreadFacts DEF ResetActive, threads, PcOK, Goto, OneInv
<1>6. CASE StopTestActive
  BY <1>0, <1>6, AppMoves DEF StopTestActive, threads, QuietLabels
<1>7. CASE \/ rsnd_connect_server \/ Handshake \/ Ready \/ ResetConnection(App) \/ ExecFlush
  <2>1. rd'.threadId = rd.threadId /\ rd'.thread_active = rd.thread_active
    BY <1>0, <1>7 DEF rsnd_connect_server, Handshake, Ready, ResetConnection, ExecFlush, HandleOK
  <2>2. UNCHANGED detached /\ pc[App] # "join"
    BY <1>7 DEF rsnd_connect_server, Handshake, Ready, ResetConnection, ExecFlush, threads
  <2>3. \E l \in AppLabels : Goto(App, l) /\ (l \in QuietLabels => pc[App] \in QuietLabels)
    BY <1>7 DEF rsnd_connect_server, Handshake, Ready, ResetConnection, ExecFlush, EnterStop,
                ExecFails, Return, QuietLabels, AppLabels
  <2> QED BY <1>0, <2>1, <2>2, <2>3, AppMoves
<1>8. CASE \/ AppCall \/ AlreadyConnected
           \/ FillTestActive \/ FillCheckRoom \/ FillSleep \/ FillWake \/ FillSignal
           \/ ResetClose(App) \/ ResetSignal(App)
           \/ ExecCloseRequest \/ ExecCloseCtl \/ ExecTakeFd \/ ExecFlags
  <2>1. UNCHANGED <<rd, detached>> /\ pc[App] # "join"
    BY <1>8 DEF AppCall, rsd_start, rsd_write, rsd_stop, rsd_exec, rsd_free, AlreadyConnected,
                FillTestActive, FillCheckRoom, FillSleep, FillWake, FillSignal, ResetClose,
                ResetSignal, ExecCloseRequest, ExecCloseCtl, ExecTakeFd, ExecFlags, threads
  <2>2. \E l \in AppLabels : Goto(App, l) /\ (l \in QuietLabels => pc[App] \in QuietLabels)
    BY <1>8 DEF AppCall, rsd_start, rsd_write, rsd_stop, rsd_exec, rsd_free, AlreadyConnected,
                FillTestActive, FillCheckRoom, FillSleep, FillWake, FillSignal, ResetClose,
                ResetSignal, ExecCloseRequest, ExecCloseCtl, ExecTakeFd, ExecFlags,
                EnterStop, Return, ExecFails, QuietLabels, AppLabels
  <2> QED BY <1>0, <2>1, <2>2, AppMoves
<1> QED BY <1>1, <1>2, <1>3, <1>4, <1>5, <1>6, <1>7, <1>8 DEF AppStep

\* The steps of a playback thread: its reset clears thread_active last, and
\* from there on it is not busy.
LEMMA PlayerOne ==
  ASSUME NEW t \in Player
  PROVE  TypeOK /\ OneInv /\ rsnd_thread(t) => OneInv'
<1> SUFFICES ASSUME TypeOK, OneInv, rsnd_thread(t) PROVE OneInv'
  OBVIOUS
<1>0. PcOK /\ HandleOK /\ detached \subseteq Player
  BY DEF TypeOK
<1>1. CASE ReadChunk(t)
  <2>1. CASE Abort
    BY <1>0, <1>1, <2>1, AbortOne DEF ReadChunk
  <2>2. CASE rd' = [rd EXCEPT !.fifo = Drop(@, ChunkSize)] /\ Goto(t, "send")
    BY <1>0, <1>1, <2>2, PlayerMoves DEF ReadChunk, HandleOK, BusyLabels
  <2> QED BY <1>1, <2>1, <2>2 DEF ReadChunk
<1>2. CASE ResetConnection(t)
  BY <1>0, <1>2, PlayerMoves DEF ResetConnection, threads, HandleOK, BusyLabels
<1>3. CASE ResetActive(t)
  <2>1. t = rd.threadId /\ \A u \in Player : pc[u] \in BusyLabels => u = t
    BY <1>3 DEF ResetActive, OneInv, BusyLabels
  <2>2. \A u \in Player : pc'[u] \notin BusyLabels
    BY <1>0, <1>3, <2>1, ThreadFacts DEF ResetActive, PcOK, Goto, BusyLabels
  <2>3. UNCHANGED detached /\ \A u \in detached : pc'[u] = "exited"
    BY <1>0, <1>3, ThreadFacts DEF ResetActive, PcOK, Goto, threads, OneInv
  <2> QED BY <2>2, <2>3 DEF OneInv
<1>4. CASE DetachAndExit(t)
  BY <1>0, <1>4, ThreadFacts DEF DetachAndExit, PcOK, Goto, OneInv, BusyLabels
<1>5. CASE \/ LoopTestCancel(t) \/ CheckChunk(t) \/ ReadTestCancel(t) \/ SendChunk(t)
           \/ SentSignal(t) \/ FailTestCancel(t) \/ ResetClose(t) \/ ResetSignal(t)
           \/ LateSignal(t) \/ OuterTestActive(t) \/ SleepSignal(t) \/ SleepWait(t)
           \/ Wake(t) \/ Quit(t)
  <2>1. UNCHANGED <<rd, detached>> /\ pc[t] # "exited"
    BY <1>5 DEF LoopTestCancel, CheckChunk, ReadTestCancel, TestCancel, SendChunk, SentSignal,
                FailTestCancel, ResetClose, ResetSignal, LateSignal, OuterTestActive,
                SleepSignal, SleepWait, Wake, Quit, threads
  <2>2. \E l \in PlayerLabels : Goto(t, l) /\ (l \in BusyLabels => pc[t] \in BusyLabels)
    BY <1>5, ThreadFacts DEF LoopTestCancel, CheckChunk, ReadTestCancel, TestCancel, SendChunk,
                SentSignal, FailTestCancel, ResetClose, ResetSignal, LateSignal,
                OuterTestActive, SleepSignal, SleepWait, Wake, Quit, BusyLabels, PlayerLabels
  <2> QED BY <1>0, <2>1, <2>2, PlayerMoves
<1> QED BY <1>1, <1>2, <1>3, <1>4, <1>5 DEF rsnd_thread

\* The invariant, in every behaviour.
LEMMA OneHolds == Spec => []OneInv
<1>1. Init => OneInv
  BY ThreadFacts DEF Init, OneInv, BusyLabels
<1>2. TypeOK /\ OneInv /\ [Next]_vars => OneInv'
  <2> SUFFICES ASSUME TypeOK, OneInv, [Next]_vars PROVE OneInv'
    OBVIOUS
  <2>1. CASE LinkBreaks \/ SpuriousWakeup \/ UNCHANGED vars
    BY <2>1 DEF LinkBreaks, SpuriousWakeup, vars, threads, OneInv
  <2> QED BY <2>1, AppOne, PlayerOne DEF Next, Finished
<1> QED BY <1>1, <1>2, TypeCorrect, PTL DEF Spec

(***************************************************************************)
(* Never two playback threads on one stream, for any number of threads and  *)
(* of restarts, and whichever of them fails while the application starts    *)
(* the stream again.                                                        *)
(***************************************************************************)
THEOREM OnePlayerServes == Spec => []OnePlayer
<1>1. OneInv => OnePlayer
  BY DEF OneInv, OnePlayer, Playing, BusyLabels
<1> QED BY <1>1, OneHolds, PTL

-----------------------------------------------------------------------------
(* The room in the buffer                                                   *)

\* Where rsd_write is in rsnd_fill_buffer.
FillLabels == {"fill", "fill_check", "fill_sleep", "fill_asleep", "fill_write", "fill_signal"}

(* Only the writer makes the FIFO longer.  What it found room for still      *)
(* fits, and a write that fitted as a whole fits piece by piece: what is     *)
(* left of it is at most the room that is left.                              *)
FitInv ==
  /\ pc[App] = "fill_write" => write_size <= write_avail
  /\ app.fits =>
       /\ pc[App] \notin {"fill_sleep", "fill_asleep"}
       /\ pc[App] \in {"fill", "fill_check", "fill_write"} => app.todo <= write_avail
       /\ pc[App] = "fill_signal" => app.todo - write_size <= write_avail

\* Two sequences of bytes, one behind the other.
LEMMA JoinFacts ==
  ASSUME NEW a \in Seq(Nat), NEW b \in Seq(Nat)
  PROVE  /\ a \o b \in Seq(Nat) /\ Len(a \o b) = Len(a) + Len(b)
         /\ \A i \in 1..Len(a) : (a \o b)[i] = a[i]
         /\ \A i \in 1..Len(b) : (a \o b)[Len(a) + i] = b[i]
<1>1. a \o b \in Seq(Nat) /\ Len(a \o b) = Len(a) + Len(b)
  OBVIOUS
<1>2. \A i \in 1..Len(a) : (a \o b)[i] = a[i]
  OBVIOUS
<1>3. \A i \in 1..Len(b) : (a \o b)[Len(a) + i] = b[i]
  OBVIOUS
<1> QED BY <1>1, <1>2, <1>3

\* The application is elsewhere.
LEMMA FitElsewhere ==
  ASSUME PcOK, NEW l \in AppLabels \ FillLabels, Goto(App, l)
  PROVE  FitInv'
BY ThreadFacts DEF PcOK, Goto, FitInv, FillLabels

\* The application stays where it is and the FIFO does not grow.
LEMMA FitStays ==
  ASSUME HandleOK, HandleOK', AppOK, FitInv, UNCHANGED app, pc'[App] = pc[App],
         Len(rd'.fifo) <= Len(rd.fifo)
  PROVE  FitInv'
<1>1. Len(rd.fifo) \in Nat /\ Len(rd'.fifo) \in Nat
  BY DEF HandleOK
<1>2. write_avail \in Int /\ write_avail' \in Int /\ write_avail' >= write_avail
  BY <1>1 DEF write_avail
<1>3. write_size' = write_size /\ write_size \in Nat /\ app.todo \in Nat
  BY WriteSizeFacts DEF write_size, max_write, AppOK
<1>4. app.todo - write_size \in Int
  BY <1>3
<1> QED BY <1>2, <1>3, <1>4 DEF FitInv

\* The steps of rsd_write.
LEMMA FillFit ==
  ASSUME TypeOK, FitInv,
         \/ \E size \in WriteSizes : rsd_write(size)
         \/ FillTestActive \/ FillCheckRoom \/ FillSleep \/ FillWake \/ FillWrite \/ FillSignal
  PROVE  FitInv'
<1>0. PcOK /\ HandleOK /\ AppOK
  BY DEF TypeOK
<1>1. /\ write_size \in Nat /\ write_avail \in Int /\ app.todo \in Nat /\ write_size <= app.todo
      /\ Len(rd.fifo) \in Nat
  BY <1>0, WriteSizeFacts DEF AppOK, write_size, max_write, HandleOK
<1> USE ThreadFacts
<1>2. CASE \E size \in WriteSizes : rsd_write(size)
  <2> PICK size \in WriteSizes : rsd_write(size)
    BY <1>2
  <2>1. CASE rd.ready_for_data
    <3>1. /\ app'.todo = size /\ app'.fits = (size <= rsd_get_avail) /\ pc'[App] = "fill"
          /\ UNCHANGED rd
      BY <1>0, <2>1 DEF rsd_write, Goto, PcOK, AppOK
    <3> QED BY <3>1 DEF FitInv, rsd_get_avail, write_avail, read_avail
  <2>2. CASE ~rd.ready_for_data
    <3>1. Goto(App, "idle") /\ "idle" \in AppLabels \ FillLabels
      BY <2>2 DEF rsd_write, Return, AppLabels, FillLabels
    <3> QED BY <1>0, <3>1, FitElsewhere
  <2> QED BY <2>1, <2>2
<1>3. CASE FillTestActive
  <2>1. CASE EnterStop
    <3>1. Goto(App, "stop_thread") /\ "stop_thread" \in AppLabels \ FillLabels
      BY <2>1 DEF EnterStop, AppLabels, FillLabels
    <3> QED BY <1>0, <3>1, FitElsewhere
  <2>2. CASE Goto(App, "fill_check") /\ UNCHANGED app
    <3>1. pc[App] = "fill" /\ pc'[App] = "fill_check" /\ UNCHANGED <<app, rd>>
      BY <1>0, <1>3, <2>2 DEF FillTestActive, Goto, PcOK
    <3> QED BY <3>1 DEF FitInv, write_avail
  <2> QED BY <1>3, <2>1, <2>2 DEF FillTestActive
<1>4. CASE FillCheckRoom
  <2>1. /\ pc[App] = "fill_check" /\ UNCHANGED <<app, rd>>
        /\ pc'[App] = IF write_avail >= write_size THEN "fill_write" ELSE "fill_sleep"
    BY <1>0, <1>4 DEF FillCheckRoom, Goto, PcOK
  <2>2. write_size' = write_size /\ write_avail' = write_avail
    BY <2>1 DEF write_size, write_avail, max_write
  <2> QED BY <1>1, <2>1, <2>2 DEF FitInv
<1>5. CASE FillSleep \/ FillWake
  <2>1. /\ pc[App] \in {"fill_sleep", "fill_asleep"} /\ pc'[App] \in {"fill_asleep", "fill"}
        /\ UNCHANGED app
    BY <1>0, <1>5 DEF FillSleep, FillWake, Goto, PcOK
  <2> QED BY <2>1 DEF FitInv
<1>6. CASE FillWrite
  <2>1. CASE Abort
    BY <2>1 DEF Abort, FitInv, AppOK
  <2>2. CASE /\ rd' = [rd EXCEPT !.fifo = @ \o Bytes(written + 1, written + write_size)]
             /\ Goto(App, "fill_signal") /\ UNCHANGED app
    <3>1. pc[App] = "fill_write" /\ pc'[App] = "fill_signal" /\ write_size' = write_size
      BY <1>0, <1>6, <2>2 DEF FillWrite, Goto, PcOK, write_size, max_write
    <3>2. Len(Bytes(written + 1, written + write_size)) = write_size
      BY <1>1 DEF Bytes, TypeOK
    <3>3. rd'.fifo = rd.fifo \o Bytes(written + 1, written + write_size)
      BY <1>0, <2>2 DEF HandleOK
    <3>4. Bytes(written + 1, written + write_size) \in Seq(Nat)
      BY <1>1 DEF Bytes, TypeOK
    <3>5. Len(rd'.fifo) = Len(rd.fifo) + write_size
      <4>1. rd.fifo \in Seq(Nat)
        BY <1>0 DEF HandleOK
      <4> DEFINE more == Bytes(written + 1, written + write_size)
      <4>2. more \in Seq(Nat) /\ Len(more) = write_size /\ rd'.fifo = rd.fifo \o more
        BY <3>2, <3>3, <3>4
      <4> HIDE DEF more
      <4>3. Len(rd.fifo \o more) = Len(rd.fifo) + Len(more)
        BY <4>1, <4>2, JoinFacts
      <4> QED BY <4>2, <4>3
    <3>6. write_avail' = write_avail - write_size
      BY <1>1, <3>5 DEF write_avail
    <3> QED BY <1>1, <2>2, <3>1, <3>6 DEF FitInv
  <2> QED BY <1>6, <2>1, <2>2 DEF FillWrite
<1>7. CASE FillSignal
  <2>1. CASE app.todo > write_size /\ app' = [app EXCEPT !.todo = @ - write_size] /\ Goto(App, "fill")
    <3>1. /\ pc[App] = "fill_signal" /\ pc'[App] = "fill" /\ UNCHANGED rd
          /\ app'.todo = app.todo - write_size /\ app'.fits = app.fits
      BY <1>0, <1>7, <2>1 DEF FillSignal, Goto, PcOK, AppOK
    <3> QED BY <3>1 DEF FitInv, write_avail
  <2>2. CASE Return(FALSE)
    <3>1. Goto(App, "idle") /\ "idle" \in AppLabels \ FillLabels
      BY <2>2 DEF Return, AppLabels, FillLabels
    <3> QED BY <1>0, <3>1, FitElsewhere
  <2> QED BY <1>7, <2>1, <2>2 DEF FillSignal
<1> QED BY <1>2, <1>3, <1>4, <1>5, <1>6, <1>7

\* The other steps of the application are not in rsnd_fill_buffer.
LEMMA AppFit == TypeOK /\ FitInv /\ (AppCall \/ AppStep) => FitInv'
<1> SUFFICES ASSUME TypeOK, FitInv, AppCall \/ AppStep PROVE FitInv'
  OBVIOUS
<1>0. PcOK
  BY DEF TypeOK
<1>1. CASE \/ \E size \in WriteSizes : rsd_write(size)
           \/ FillTestActive \/ FillCheckRoom \/ FillSleep \/ FillWake \/ FillWrite \/ FillSignal
  BY <1>1, FillFit
<1>2. CASE rsnd_start_thread \/ ExecRestartThread
  <2>1. pc'[App] \notin FillLabels
    BY <1>0, <1>2, ThreadFacts DEF rsnd_start_thread, ExecRestartThread, StartThread, Goto, PcOK,
       FillLabels, Spare
  <2> QED BY <2>1 DEF FitInv, FillLabels
<1>3. CASE \/ rsd_start \/ rsd_stop \/ rsd_exec \/ rsd_free \/ rsnd_connect_server
           \/ AlreadyConnected \/ Handshake \/ Ready
  <2>1. \E l \in AppLabels \ FillLabels : Goto(App, l)
    BY <1>3 DEF rsd_start, rsd_stop, rsd_exec, rsd_free, rsnd_connect_server, AlreadyConnected,
                Handshake, Ready, EnterStop, Return, AppLabels, FillLabels
  <2> QED BY <1>0, <2>1, FitElsewhere
<1>4. CASE \/ StopTestActive \/ StopFlag \/ Join
           \/ ResetClose(App) \/ ResetConnection(App) \/ ResetActive(App) \/ ResetSignal(App)
           \/ ExecCloseRequest \/ ExecCloseCtl \/ ExecTakeFd \/ ExecFlags \/ ExecFlush
  <2>1. \E l \in AppLabels \ FillLabels : Goto(App, l)
    BY <1>4 DEF StopTestActive, StopFlag, Join, AfterStopThread, ResetClose, ResetConnection,
                ResetActive, ResetSignal, ExecCloseRequest, ExecCloseCtl, ExecTakeFd, ExecFlags,
                ExecFlush, ExecFails, Return, AppLabels, FillLabels
  <2> QED BY <1>0, <2>1, FitElsewhere
<1> QED BY <1>1, <1>2, <1>3, <1>4 DEF AppCall, AppStep

\* The playback threads only take from the FIFO.
LEMMA PlayerFit ==
  ASSUME NEW t \in Player
  PROVE  TypeOK /\ FitInv /\ rsnd_thread(t) => FitInv'
<1> SUFFICES ASSUME TypeOK, FitInv, rsnd_thread(t) PROVE FitInv'
  OBVIOUS
<1>0. PcOK /\ HandleOK /\ AppOK /\ HandleOK'
  BY PlayerTypes DEF TypeOK
<1>1. CASE Abort
  BY <1>1, ThreadFacts DEF Abort, FitInv
<1>2. CASE ~Abort
  <2>1. UNCHANGED app
    BY <1>2, ThreadFacts
       DEF rsnd_thread, LoopTestCancel, CheckChunk, ReadTestCancel, TestCancel, ReadChunk, SendChunk,
           SentSignal, FailTestCancel, ResetClose, ResetConnection, ResetActive, ResetSignal,
           LateSignal, DetachAndExit, OuterTestActive, SleepSignal, SleepWait, Wake, Quit
  <2>2. \E l \in PlayerLabels : Goto(t, l)
    BY <1>2, ThreadFacts
       DEF rsnd_thread, LoopTestCancel, CheckChunk, ReadTestCancel, TestCancel, ReadChunk, SendChunk,
           SentSignal, FailTestCancel, ResetClose, ResetConnection, ResetActive, ResetSignal,
           LateSignal, DetachAndExit, OuterTestActive, SleepSignal, SleepWait, Wake, Quit, PlayerLabels
  <2>3. pc'[App] = pc[App]
    BY <1>0, <2>2, ThreadFacts DEF Goto, PcOK
  <2>4. Len(rd'.fifo) <= Len(rd.fifo)
    <3>1. CASE ReadChunk(t)
      <4>1. read_avail >= ChunkSize /\ rd'.fifo = Drop(rd.fifo, ChunkSize)
        BY <1>0, <1>2, <3>1 DEF ReadChunk, HandleOK
      <4>2. rd.fifo \in Seq(Nat) /\ ChunkSize \in 0..Len(rd.fifo)
        BY <1>0, <4>1 DEF HandleOK, read_avail
      <4> QED BY <4>1, <4>2 DEF Drop
    <3>2. CASE ResetConnection(t) \/ ResetActive(t)
      <4>1. rd'.fifo = rd.fifo
        BY <1>0, <3>2 DEF ResetConnection, ResetActive, HandleOK
      <4>2. Len(rd.fifo) \in Nat
        BY <1>0 DEF HandleOK
      <4> QED BY <4>1, <4>2
    <3>3. CASE ~ReadChunk(t) /\ ~ResetConnection(t) /\ ~ResetActive(t)
      <4>1. UNCHANGED rd
        BY <3>3
           DEF rsnd_thread, LoopTestCancel, CheckChunk, ReadTestCancel, TestCancel, SendChunk,
               SentSignal, FailTestCancel, ResetClose, ResetSignal,
               LateSignal, DetachAndExit, OuterTestActive, SleepSignal, SleepWait, Wake, Quit
      <4> QED BY <1>0, <4>1 DEF HandleOK
    <3> QED BY <3>1, <3>2, <3>3
  <2> QED BY <1>0, <2>1, <2>3, <2>4, FitStays
<1> QED BY <1>1, <1>2

\* The invariant, in every behaviour.
LEMMA FitHolds == Spec => []FitInv
<1>1. Init => FitInv
  BY ThreadFacts DEF Init, FitInv
<1>2. TypeOK /\ FitInv /\ [Next]_vars => FitInv'
  <2> SUFFICES ASSUME TypeOK, FitInv, [Next]_vars PROVE FitInv'
    OBVIOUS
  <2>1. CASE LinkBreaks \/ SpuriousWakeup \/ UNCHANGED vars
    BY <2>1 DEF LinkBreaks, SpuriousWakeup, vars, FitInv, write_avail, write_size, max_write
  <2> QED BY <2>1, AppFit, PlayerFit DEF Next, Finished
<1> QED BY <1>1, <1>2, TypeCorrect, PTL DEF Spec

(***************************************************************************)
(* A write of at most what rsd_get_avail returned never sleeps, for every   *)
(* buffer, chunk and write size and however the stream fails meanwhile: the *)
(* room is computed without the mutex, and can only have grown since.       *)
(***************************************************************************)
THEOREM AvailNeverSleeps == Spec => []AvailIsHonest
<1>1. FitInv => AvailIsHonest
  BY DEF FitInv, AvailIsHonest
<1> QED BY <1>1, FitHolds, PTL

-----------------------------------------------------------------------------
(* The connection                                                           *)

(* What follows holds unless rsd_exec may meet a send that fails: its flush  *)
(* then closes descriptors that stay in the handle (the hazard listed for    *)
(* librsound.c:1529).                                                        *)
Calm == "exec" \in Calls => Faults \cap {"break", "stall"} = {}

\* Where a playback thread is before it has invalidated the handle's sockets.
LiveLabels == {"run", "check", "before_read", "read", "send", "sent", "failed", "reset_close",
  "reset_lock", "out", "sleep", "sleep_wait", "asleep"}

\* Where it is once a send has failed.
FailLabels == {"failed", "reset_close", "reset_lock", "reset_rest"}

SetupLabels == {"handshake", "start_thread", "ready"}

ExecLabels == {"exec_ctl", "exec_close", "exec_fd", "exec_flags", "exec_restart", "exec_flush"}

Connected == rd.socket # -1

\* rsd_stop, or a call that failed, up to the step that invalidates the sockets.
Stopping ==
  /\ pc[App] \in {"stop_thread", "stop_flag", "join", "reset_close", "reset_lock"}
  /\ app.call # "exec"

\* rsd_exec has given up the control socket, and has taken the other one.
CtlGiven ==
  \/ pc[App] \in {"exec_fd", "exec_flags", "exec_flush"}
  \/ pc[App] \in {"stop_thread", "stop_flag", "join", "done"} /\ app.call = "exec"
FdTaken == CtlGiven /\ pc[App] # "exec_fd"

\* A thread has closed the sockets and not yet invalidated them.
Resetting == \E x \in Thread : pc[x] = "reset_lock"

\* The handle has both sockets or none, except while it is being reset.
PairInv ==
  ~Stopping => \/ rd.socket = -1 /\ rd.ctl_socket = -1
               \/ rd.socket # -1 /\ rd.ctl_socket # -1 /\ rd.socket # rd.ctl_socket

\* A connection between two calls has had its handshake.
ReadyInv == Connected /\ ~Stopping => rd.ready_for_data \/ pc[App] \in SetupLabels

\* The handshake is made on a fresh connection that no thread serves yet.
SetupInv ==
  /\ pc[App] \in {"handshake", "start_thread"} =>
       Connected /\ sent = << >> /\ \A t \in Player : pc[t] \notin LiveLabels
  /\ pc[App] = "start_thread" => rd.fifo = << >> /\ written = 0

\* A playback thread keeps its connection until it resets the handle, and a
\* chunk that it has seen in the FIFO stays there.
LiveInv ==
  \A t \in Player :
    /\ pc[t] \in LiveLabels => Connected /\ rd.ctl_socket # -1
    /\ pc[t] \in {"before_read", "read"} => Len(rd.fifo) >= ChunkSize

\* The sockets in the handle are open.
OpenInv ==
  /\ rd.socket \in open \cup {-1} \/ Resetting
  /\ rd.ctl_socket \in open \cup {-1} \/ Resetting \/ CtlGiven

\* rsd_exec works on a connection that cannot fail under it.
ExecInv ==
  /\ pc[App] \in ExecLabels => app.call = "exec"
  /\ app.call = "exec" => "exec" \in Calls /\ pc[App] # "idle"
  /\ pc[App] \in {"exec_ctl", "exec_close"} \/ CtlGiven => Connected
  /\ pc[App] # "exec_restart"
  /\ FdTaken => app.fd = rd.socket
  /\ pc[App] = "done" /\ app.call = "exec" =>
       rd.fifo = << >> /\ \A t \in Player : pc[t] \notin BusyLabels
  /\ "exec" \in Calls =>
       /\ \A t \in Player : pc[t] \notin FailLabels
       /\ \A t \in Player : pc[t] \in LiveLabels => link = "up"
       /\ Connected /\ ~Stopping => link = "up"
       /\ pc[App] = "ready" => Connected

ConnInv == PairInv /\ ReadyInv /\ SetupInv /\ LiveInv /\ OpenInv /\ ExecInv

\* A step of the application moves nobody else.
LEMMA AppPc ==
  ASSUME PcOK, NEW l, Goto(App, l)
  PROVE  pc'[App] = l /\ \A t \in Player : pc'[t] = pc[t]
BY ThreadFacts DEF PcOK, Goto

\* Nor does a step of a playback thread.
LEMMA PlayerPc ==
  ASSUME PcOK, NEW t \in Player, NEW l, Goto(t, l)
  PROVE  pc'[t] = l /\ pc'[App] = pc[App] /\ \A u \in Player : u # t => pc'[u] = pc[u]
BY ThreadFacts DEF PcOK, Goto

\* Who may be between the closing of the sockets and their invalidation.
LEMMA ResettingFacts ==
  Resetting <=> pc[App] = "reset_lock" \/ \E t \in Player : pc[t] = "reset_lock"
BY ThreadFacts DEF Resetting

\* What the labels have to do with each other.
LEMMA LabelFacts ==
  /\ LiveLabels \subseteq BusyLabels /\ {"failed", "reset_close", "reset_lock"} \subseteq LiveLabels
  /\ BusyLabels = LiveLabels \cup {"reset_rest"}
BY DEF LiveLabels, BusyLabels

\* The application moves outside of the connection's set-up, does not touch
\* the sockets, and may add to the FIFO.
LEMMA ConnAppMoves ==
  ASSUME TypeOK, HandleOK', ConnInv, NEW l, Goto(App, l),
         rd'.socket = rd.socket, rd'.ctl_socket = rd.ctl_socket,
         rd'.ready_for_data = rd.ready_for_data, Len(rd.fifo) <= Len(rd'.fifo),
         UNCHANGED <<open, link, sent>>, app'.fd = app.fd,
         pc[App] \notin SetupLabels \cup {"reset_lock"},
         l \notin SetupLabels \cup {"reset_lock", "exec_restart"},
         Stopping => Stopping',
         l \in {"exec_ctl", "exec_close"} \/ CtlGiven' => Connected,
         FdTaken' => FdTaken, CtlGiven => CtlGiven',
         l \in ExecLabels => app'.call = "exec",
         app'.call = "exec" => "exec" \in Calls /\ l # "idle" /\ l # "done"
  PROVE  ConnInv'
<1>1. pc'[App] = l /\ \A t \in Player : pc'[t] = pc[t]
  BY AppPc DEF TypeOK
<1>2. Resetting' <=> Resetting
  <2>1. Resetting' <=> pc'[App] = "reset_lock" \/ \E t \in Player : pc'[t] = "reset_lock"
    BY ThreadFacts DEF Resetting
  <2> QED BY <1>1, <2>1, ResettingFacts
<1>3. Connected' <=> Connected
  BY DEF Connected
<1>4. PairInv'
  BY DEF ConnInv, PairInv
<1>5. ReadyInv'
  BY <1>3 DEF ConnInv, ReadyInv
<1>6. SetupInv'
  BY <1>1 DEF SetupInv, SetupLabels
<1>7. LiveInv'
  <2>1. Len(rd.fifo) \in Nat /\ Len(rd'.fifo) \in Nat
    BY DEF TypeOK, HandleOK
  <2> QED BY <1>1, <1>3, <2>1 DEF ConnInv, LiveInv
<1>8. OpenInv'
  BY <1>2 DEF ConnInv, OpenInv
<1>9. ExecInv'
  BY <1>1, <1>3 DEF ConnInv, ExecInv, SetupLabels
<1> QED BY <1>4, <1>5, <1>6, <1>7, <1>8, <1>9 DEF ConnInv

\* A playback thread moves, does not touch the sockets, and may be the only
\* one to take from the FIFO.
LEMMA ConnPlayerMoves ==
  ASSUME TypeOK, ConnInv, NEW t \in Player, NEW l, Goto(t, l),
         rd'.socket = rd.socket, rd'.ctl_socket = rd.ctl_socket,
         rd'.ready_for_data = rd.ready_for_data,
         \/ rd'.fifo = rd.fifo
         \/ (\A u \in Player : pc[u] \in BusyLabels => u = t) /\ l = "send" /\ pc[t] = "read",
         UNCHANGED <<open, written, app>>,
         sent' = sent \/ pc[t] \in LiveLabels,
         link' = link \/ "exec" \notin Calls,
         pc[t] # "reset_lock", l # "reset_lock",
         l \in LiveLabels => pc[t] \in LiveLabels,
         l \in BusyLabels => pc[t] \in BusyLabels,
         l \in {"before_read", "read"} => pc[t] = "before_read" \/ Len(rd.fifo) >= ChunkSize,
         l \in FailLabels => "exec" \notin Calls
  PROVE  ConnInv'
<1>1. pc'[t] = l /\ pc'[App] = pc[App] /\ \A u \in Player : u # t => pc'[u] = pc[u]
  BY PlayerPc DEF TypeOK
<1>2. Resetting' <=> Resetting
  <2>1. Resetting' <=> pc'[App] = "reset_lock" \/ \E u \in Player : pc'[u] = "reset_lock"
    BY ThreadFacts DEF Resetting
  <2> QED BY <1>1, <2>1, ResettingFacts
<1>3. (Connected' <=> Connected) /\ (Stopping' <=> Stopping) /\ (CtlGiven' <=> CtlGiven)
      /\ (FdTaken' <=> FdTaken)
  BY <1>1 DEF Connected, Stopping, CtlGiven, FdTaken
<1>4. PairInv'
  BY <1>3 DEF ConnInv, PairInv
<1>5. ReadyInv'
  BY <1>1, <1>3 DEF ConnInv, ReadyInv
<1>6. SetupInv'
  <2>1. pc[App] = "start_thread" => rd'.fifo = rd.fifo
    BY LabelFacts DEF ConnInv, SetupInv, LiveLabels
  <2> QED BY <1>1, <1>3, <2>1 DEF ConnInv, SetupInv
<1>7. LiveInv'
  <2>1. ASSUME NEW u \in Player, pc'[u] \in LiveLabels
        PROVE  Connected' /\ rd'.ctl_socket # -1
    BY <1>1, <1>3, <2>1 DEF ConnInv, LiveInv
  <2>2. ASSUME NEW u \in Player, pc'[u] \in {"before_read", "read"}
        PROVE  Len(rd'.fifo) >= ChunkSize
    BY <1>1, <2>2 DEF ConnInv, LiveInv, BusyLabels
  <2> QED BY <2>1, <2>2 DEF LiveInv
<1>8. OpenInv'
  BY <1>2, <1>3 DEF ConnInv, OpenInv
<1>9. ExecInv'
  <2>1. pc[App] = "done" /\ app.call = "exec" => rd'.fifo = rd.fifo
    BY DEF ConnInv, ExecInv, BusyLabels
  <2> QED BY <1>1, <1>3, <2>1 DEF ConnInv, ExecInv
<1> QED BY <1>4, <1>5, <1>6, <1>7, <1>8, <1>9 DEF ConnInv

\* The calls: they start between two calls, on a handle with both sockets or
\* none, and only rsd_exec goes straight to its requests.
LEMMA CallConn == TypeOK /\ ConnInv /\ AppCall => ConnInv'
<1> SUFFICES ASSUME TypeOK, ConnInv, AppCall PROVE ConnInv'
  OBVIOUS
<1>1. pc[App] = "idle" /\ app.call # "exec" /\ UNCHANGED <<rd, open, link, sent>>
  BY DEF AppCall, rsd_start, rsd_write, rsd_stop, rsd_exec, rsd_free, network, ConnInv, ExecInv
<1>2. HandleOK' /\ Len(rd'.fifo) = Len(rd.fifo) /\ Len(rd.fifo) \in Nat
  BY <1>1 DEF TypeOK, HandleOK
<1>3. ~Stopping /\ ~CtlGiven
  BY <1>1 DEF Stopping, CtlGiven
<1>4. CASE rsd_exec
  <2> DEFINE l == IF rd.socket < 0 THEN "connect" ELSE "exec_ctl"
  <2>1. Goto(App, l) /\ app'.call = "exec" /\ app'.fd = app.fd /\ "exec" \in Calls
    BY <1>4 DEF rsd_exec, TypeOK, AppOK
  <2>2. pc'[App] = l
    BY <2>1, AppPc DEF TypeOK
  <2>3. l = "exec_ctl" => Connected
    BY DEF Connected
  <2>4. ~CtlGiven'
    BY <2>2 DEF CtlGiven
  <2>5. l \notin SetupLabels \cup {"reset_lock", "exec_restart", "exec_close", "idle", "done"}
    BY DEF SetupLabels
  <2> HIDE DEF l
  <2> QED BY <1>1, <1>2, <1>3, <2>1, <2>3, <2>4, <2>5, ConnAppMoves DEF FdTaken, SetupLabels
<1>5. CASE rsd_start \/ (\E size \in WriteSizes : rsd_write(size)) \/ rsd_stop \/ rsd_free
  <2>1. /\ \E l \in {"connect", "fill", "idle", "stop_thread", "done"} : Goto(App, l)
        /\ app'.call # "exec" /\ app'.fd = app.fd
    BY <1>1, <1>5 DEF rsd_start, rsd_write, rsd_stop, rsd_free, EnterStop, Return, TypeOK, AppOK
  <2>2. PICK l \in {"connect", "fill", "idle", "stop_thread", "done"} : Goto(App, l)
    BY <2>1
  <2>3. pc'[App] = l
    BY <2>2, AppPc DEF TypeOK
  <2>4. ~CtlGiven'
    BY <2>1, <2>3 DEF CtlGiven
  <2>5. l \notin SetupLabels \cup ExecLabels \cup {"reset_lock"}
    BY DEF SetupLabels, ExecLabels
  <2> QED
    BY <1>1, <1>2, <1>3, <2>1, <2>2, <2>4, <2>5, ConnAppMoves DEF FdTaken, SetupLabels, ExecLabels
<1> QED BY <1>4, <1>5 DEF AppCall

\* rsnd_connect_server runs on a handle without sockets, which no playback
\* thread serves.
LEMMA ConnectConn == TypeOK /\ ConnInv /\ rsnd_connect_server => ConnInv'
<1> SUFFICES ASSUME TypeOK, ConnInv, rsnd_connect_server PROVE ConnInv'
  OBVIOUS
<1>1. rd.socket = -1 /\ rd.ctl_socket = -1
  <2>1. rd.socket \in Fd \cup {-1} /\ rd.ctl_socket \in Fd \cup {-1}
    BY DEF TypeOK, HandleOK
  <2>2. \A fd \in Fd : ~(fd <= 0)
    BY DEF Fd
  <2> QED BY <2>1, <2>2 DEF rsnd_connect_server
<1>2. \A t \in Player : pc[t] \notin LiveLabels
  BY <1>1 DEF ConnInv, LiveInv, Connected
<1>3. PICK made \in SUBSET {2 * conns + 1, 2 * conns + 2} :
        /\ open' = open \cup made
        /\ rd' = [rd EXCEPT
             !.socket = IF 2 * conns + 1 \in made THEN 2 * conns + 1 ELSE -1,
             !.ctl_socket = IF 2 * conns + 2 \in made THEN 2 * conns + 2 ELSE -1]
        /\ \/ /\ made = {2 * conns + 1, 2 * conns + 2}
              /\ link' = "up" /\ sent' = << >>
              /\ Goto(App, "handshake")
              /\ UNCHANGED app
           \/ /\ link' = "down"
              /\ EnterStop
              /\ UNCHANGED sent
  BY DEF rsnd_connect_server
<1>4. conns \in Nat
  BY DEF TypeOK
<1>5. /\ rd'.socket = (IF 2 * conns + 1 \in made THEN 2 * conns + 1 ELSE -1)
      /\ rd'.ctl_socket = (IF 2 * conns + 2 \in made THEN 2 * conns + 2 ELSE -1)
      /\ rd'.fifo = rd.fifo
  BY <1>3 DEF TypeOK, HandleOK
<1>6. rd'.socket \in open' \cup {-1} /\ rd'.ctl_socket \in open' \cup {-1}
  BY <1>3, <1>5
<1>7. \A t \in Player : pc'[t] = pc[t]
  BY <1>3, AppPc DEF EnterStop, TypeOK
<1>8. \A t \in Player : pc'[t] \notin LiveLabels
  BY <1>2, <1>7
<1>9. LiveInv' /\ OpenInv'
  BY <1>6, <1>8 DEF LiveInv, OpenInv, LiveLabels
<1>10. "exec" \in Calls => \A t \in Player : pc'[t] \notin FailLabels
  BY <1>7 DEF ConnInv, ExecInv
<1>11. pc[App] = "connect" /\ (app.call = "exec" => "exec" \in Calls)
  BY DEF rsnd_connect_server, ConnInv, ExecInv
<1>12. CASE /\ made = {2 * conns + 1, 2 * conns + 2}
            /\ link' = "up" /\ sent' = << >>
            /\ Goto(App, "handshake")
            /\ UNCHANGED app
  <2>1. pc'[App] = "handshake"
    BY <1>12, AppPc DEF TypeOK
  <2>2. Connected' /\ rd'.ctl_socket # -1 /\ rd'.socket # rd'.ctl_socket
    BY <1>4, <1>5, <1>12 DEF Connected
  <2>3. ~Stopping' /\ ~CtlGiven' /\ ~FdTaken'
    BY <2>1 DEF Stopping, CtlGiven, FdTaken
  <2>4. PairInv' /\ ReadyInv' /\ SetupInv'
    BY <1>8, <1>12, <2>1, <2>2 DEF PairInv, ReadyInv, SetupInv, SetupLabels, Connected
  <2>5. ExecInv'
    BY <1>10, <1>11, <1>12, <2>1, <2>2, <2>3 DEF ExecInv, ExecLabels
  <2> QED BY <1>9, <2>4, <2>5 DEF ConnInv
<1>13. CASE link' = "down" /\ EnterStop
  <2>1. pc'[App] = "stop_thread" /\ app'.call = "stop"
    BY <1>13, AppPc DEF EnterStop, TypeOK, AppOK
  <2>2. Stopping' /\ ~CtlGiven' /\ ~FdTaken'
    BY <2>1 DEF Stopping, CtlGiven, FdTaken
  <2>3. PairInv' /\ ReadyInv' /\ SetupInv'
    BY <2>1, <2>2 DEF PairInv, ReadyInv, SetupInv
  <2>4. ExecInv'
    BY <1>8, <1>10, <2>1, <2>2 DEF ExecInv, ExecLabels
  <2> QED BY <1>9, <2>3, <2>4 DEF ConnInv
<1> QED BY <1>3, <1>12, <1>13

\* The rest of rsnd_create_connection.  A connection found in the handle has
\* had its handshake; the new one is served by the thread that is started.
LEMMA SetupConn ==
  TypeOK /\ HandleOK' /\ ConnInv /\ (AlreadyConnected \/ Handshake \/ rsnd_start_thread \/ Ready)
    => ConnInv'
<1> SUFFICES ASSUME TypeOK, HandleOK', ConnInv,
                    AlreadyConnected \/ Handshake \/ rsnd_start_thread \/ Ready
             PROVE  ConnInv'
  OBVIOUS
<1>1. CASE AlreadyConnected
  <2>1. pc[App] = "connect" /\ ~Stopping /\ ~CtlGiven /\ UNCHANGED <<rd, open, link, sent>>
    BY <1>1 DEF AlreadyConnected, Stopping, CtlGiven, network
  <2>2. Connected /\ rd.ready_for_data
    BY <1>1, <2>1 DEF AlreadyConnected, ConnInv, PairInv, ReadyInv, SetupLabels, Connected
  <2>3. Len(rd.fifo) <= Len(rd'.fifo)
    BY <2>1 DEF TypeOK, HandleOK
  <2>4. CASE app.call = "exec"
    <3>1. Goto(App, "exec_ctl") /\ UNCHANGED app
      BY <1>1, <2>2, <2>4 DEF AlreadyConnected
    <3>2. pc'[App] = "exec_ctl"
      BY <3>1, AppPc DEF TypeOK
    <3>3. ~CtlGiven' /\ ~FdTaken'
      BY <3>2 DEF CtlGiven, FdTaken
    <3> QED BY <2>1, <2>2, <2>3, <2>4, <3>1, <3>3, ConnAppMoves DEF SetupLabels, ConnInv, ExecInv
  <2>5. CASE app.call # "exec"
    <3>1. Goto(App, "idle") /\ app'.call = "none" /\ app'.fd = app.fd
      BY <1>1, <2>2, <2>5 DEF AlreadyConnected, Return, TypeOK, AppOK
    <3>2. pc'[App] = "idle"
      BY <3>1, AppPc DEF TypeOK
    <3>3. ~CtlGiven' /\ ~FdTaken'
      BY <3>2 DEF CtlGiven, FdTaken
    <3> QED BY <2>1, <2>2, <2>3, <3>1, <3>3, ConnAppMoves DEF SetupLabels, ExecLabels
  <2> QED BY <2>4, <2>5
<1>2. CASE Handshake \/ rsnd_start_thread \/ Ready
  <2>1. pc[App] \in SetupLabels /\ UNCHANGED <<open, link, sent>> /\ ~Stopping /\ ~CtlGiven
    BY <1>2 DEF Handshake, rsnd_start_thread, Ready, SetupLabels, network, Stopping, CtlGiven
  <2>2. CASE EnterStop /\ Handshake /\ UNCHANGED <<rd, written>>
    <3>1. pc'[App] = "stop_thread" /\ app'.call = "stop" /\ \A t \in Player : pc'[t] = pc[t]
      BY <2>2, AppPc DEF EnterStop, TypeOK, AppOK
    <3>2. Stopping' /\ ~CtlGiven' /\ ~FdTaken'
      BY <3>1 DEF Stopping, CtlGiven, FdTaken
    <3>3. Connected' = Connected /\ \A t \in Player : pc'[t] \notin LiveLabels
      BY <2>2, <3>1 DEF Connected, Handshake, ConnInv, SetupInv
    <3>4. PairInv' /\ ReadyInv' /\ SetupInv' /\ LiveInv'
      BY <3>1, <3>2, <3>3 DEF PairInv, ReadyInv, SetupInv, LiveInv, LiveLabels
    <3>5. Resetting => Resetting'
      BY <2>1, <3>1, ResettingFacts, ThreadFacts DEF Resetting, SetupLabels
    <3>6. OpenInv'
      BY <2>1, <2>2, <3>5 DEF OpenInv, ConnInv
    <3>7. ExecInv'
      BY <3>1, <3>2, <3>3 DEF ExecInv, ConnInv, ExecLabels
    <3> QED BY <3>4, <3>6, <3>7 DEF ConnInv
  <2>3. CASE Handshake /\ rd' = [rd EXCEPT !.fifo = << >>] /\ written' = 0 /\ Goto(App, "start_thread")
             /\ UNCHANGED app
    <3>1. pc'[App] = "start_thread" /\ \A t \in Player : pc'[t] = pc[t]
      BY <2>3, AppPc DEF TypeOK
    <3>2. /\ rd'.socket = rd.socket /\ rd'.ctl_socket = rd.ctl_socket
          /\ rd'.ready_for_data = rd.ready_for_data /\ rd'.fifo = << >>
      BY <2>3 DEF TypeOK, HandleOK
    <3>3. ~Stopping' /\ ~CtlGiven' /\ ~FdTaken'
      BY <3>1 DEF Stopping, CtlGiven, FdTaken
    <3>4. pc[App] = "handshake"
      BY <2>3 DEF Handshake
    <3>5. Connected' /\ Connected /\ sent' = << >> /\ \A t \in Player : pc'[t] \notin LiveLabels
      BY <2>1, <3>1, <3>2, <3>4 DEF Connected, ConnInv, SetupInv
    <3>6. PairInv' /\ ReadyInv' /\ SetupInv' /\ LiveInv'
      BY <2>1, <2>3, <3>1, <3>2, <3>3, <3>5
         DEF ConnInv, PairInv, ReadyInv, SetupInv, LiveInv, LiveLabels, SetupLabels
    <3>7. Resetting => Resetting'
      BY <3>1, <3>4, ResettingFacts, ThreadFacts DEF Resetting
    <3>8. OpenInv'
      BY <2>1, <3>2, <3>7 DEF OpenInv, ConnInv
    <3>9. ExecInv'
      BY <2>1, <2>3, <3>1, <3>3, <3>5 DEF ExecInv, ConnInv, ExecLabels
    <3> QED BY <3>6, <3>8, <3>9 DEF ConnInv
  <2>4. CASE rsnd_start_thread
    <3>1. /\ pc[App] = "start_thread" /\ Connected /\ rd.ctl_socket # -1 /\ UNCHANGED <<app, written>>
          /\ \A t \in Player : pc[t] \notin LiveLabels
      BY <2>1, <2>4 DEF rsnd_start_thread, ConnInv, SetupInv, PairInv, Connected
    <3>2. /\ rd'.socket = rd.socket /\ rd'.ctl_socket = rd.ctl_socket
          /\ rd'.ready_for_data = rd.ready_for_data /\ rd'.fifo = rd.fifo
      BY <2>4 DEF rsnd_start_thread, StartThread, TypeOK, HandleOK
    <3>3. /\ pc'[App] = "ready"
          /\ \A t \in Player : pc'[t] = pc[t] \/ (pc[t] = "none" /\ pc'[t] = "run")
      <4>1. CASE Goto(App, "ready")
        BY <4>1, AppPc DEF TypeOK
      <4>2. CASE \E t \in Spare : pc' = [pc EXCEPT ![App] = "ready", ![t] = "run"]
        BY <4>2, ThreadFacts DEF TypeOK, PcOK, Spare
      <4> QED BY <2>4, <4>1, <4>2 DEF rsnd_start_thread, StartThread
    <3>4. ~Stopping' /\ ~CtlGiven' /\ ~FdTaken' /\ Connected'
      BY <3>1, <3>2, <3>3 DEF Stopping, CtlGiven, FdTaken, Connected
    <3>5. PairInv' /\ ReadyInv' /\ SetupInv'
      BY <2>1, <3>2, <3>3, <3>4 DEF ConnInv, PairInv, ReadyInv, SetupInv, SetupLabels
    <3>6. LiveInv'
      BY <3>1, <3>2, <3>3, <3>4 DEF LiveInv, LiveLabels
    <3>7. Resetting => Resetting'
      BY <3>1, <3>3, ResettingFacts, ThreadFacts DEF Resetting
    <3>8. OpenInv'
      BY <2>1, <3>2, <3>7 DEF OpenInv, ConnInv
    <3>9. ExecInv'
      BY <2>1, <3>1, <3>3, <3>4 DEF ExecInv, ConnInv, ExecLabels, FailLabels
    <3> QED BY <3>5, <3>6, <3>8, <3>9 DEF ConnInv
  <2>5. CASE Ready
    <3>1. /\ pc[App] = "ready" /\ rd'.socket = rd.socket /\ rd'.ctl_socket = rd.ctl_socket
          /\ rd'.ready_for_data /\ rd'.fifo = rd.fifo
      BY <2>5 DEF Ready, TypeOK, HandleOK
    <3>2. /\ pc'[App] = IF app.call = "exec" THEN "exec_ctl" ELSE "idle"
          /\ \A t \in Player : pc'[t] = pc[t]
      BY <2>5, AppPc DEF Ready, Return, TypeOK
    <3>3. app'.call = (IF app.call = "exec" THEN "exec" ELSE "none")
      BY <2>5 DEF Ready, Return, TypeOK, AppOK
    <3>4. ~Stopping' /\ ~CtlGiven' /\ ~FdTaken' /\ Connected' = Connected
      BY <3>1, <3>2 DEF Stopping, CtlGiven, FdTaken, Connected
    <3>5. PairInv' /\ ReadyInv' /\ SetupInv'
      BY <2>1, <3>1, <3>2, <3>4 DEF ConnInv, PairInv, ReadyInv, SetupInv
    <3>6. LiveInv'
      BY <3>1, <3>2, <3>4 DEF LiveInv, ConnInv
    <3>7. Resetting => Resetting'
      BY <3>1, <3>2, ResettingFacts, ThreadFacts DEF Resetting
    <3>8. OpenInv'
      BY <2>1, <3>1, <3>7 DEF OpenInv, ConnInv
    <3>9. ExecInv'
      BY <2>1, <3>1, <3>2, <3>3, <3>4 DEF ExecInv, ConnInv, ExecLabels
    <3> QED BY <3>5, <3>6, <3>8, <3>9 DEF ConnInv
  <2> QED BY <1>2, <2>2, <2>3, <2>4, <2>5 DEF Handshake
<1> QED BY <1>1, <1>2

\* rsd_write: the writer only adds to the FIFO.
LEMMA FillConn ==
  TypeOK /\ HandleOK' /\ FitInv /\ ConnInv
    /\ (FillTestActive \/ FillCheckRoom \/ FillSleep \/ FillWake \/ FillWrite \/ FillSignal)
      => ConnInv'
<1> SUFFICES ASSUME TypeOK, HandleOK', FitInv, ConnInv,
                    \/ FillTestActive \/ FillCheckRoom \/ FillSleep \/ FillWake \/ FillWrite
                    \/ FillSignal
             PROVE  ConnInv'
  OBVIOUS
<1> DEFINE here == FillLabels \ {"fill_sleep"}
<1>1. UNCHANGED <<open, link, sent>> /\ pc[App] \in FillLabels
  BY DEF FillTestActive, FillCheckRoom, FillSleep, FillWake, FillWrite, FillSignal, network, FillLabels
<1>2. ~Stopping /\ ~CtlGiven
  BY <1>1 DEF Stopping, CtlGiven, FillLabels
<1>3. /\ rd'.socket = rd.socket /\ rd'.ctl_socket = rd.ctl_socket
      /\ rd'.ready_for_data = rd.ready_for_data /\ Len(rd.fifo) <= Len(rd'.fifo)
  <2>1. CASE FillWrite
    <3>1. CASE UNCHANGED rd
      BY <3>1 DEF TypeOK, HandleOK
    <3>2. CASE rd' = [rd EXCEPT !.fifo = @ \o Bytes(written + 1, written + write_size)]
      <4> DEFINE more == Bytes(written + 1, written + write_size)
      <4>1. more \in Seq(Nat) /\ rd.fifo \in Seq(Nat)
        <5>1. write_size \in Nat /\ written \in Nat
          BY WriteSizeFacts DEF TypeOK
        <5>2. more \in Seq(Nat)
          BY <5>1 DEF Bytes
        <5> QED BY <5>2 DEF TypeOK, HandleOK
      <4>2. rd'.fifo = rd.fifo \o more
        BY <3>2 DEF TypeOK, HandleOK
      <4> HIDE DEF more
      <4>3. Len(rd.fifo \o more) = Len(rd.fifo) + Len(more) /\ Len(rd.fifo) \in Nat /\ Len(more) \in Nat
        BY <4>1, JoinFacts
      <4>4. Len(rd.fifo) <= Len(rd'.fifo)
        BY <4>2, <4>3
      <4> QED BY <3>2, <4>4 DEF TypeOK, HandleOK
    <3> QED BY <2>1, <3>1, <3>2 DEF FillWrite
  <2>2. CASE ~FillWrite
    <3>1. UNCHANGED rd
      BY <2>2 DEF FillTestActive, FillCheckRoom, FillSleep, FillWake, FillSignal
    <3> QED BY <3>1 DEF TypeOK, HandleOK
  <2> QED BY <2>1, <2>2
<1>4. ~Abort
  <2>1. CASE FillWrite
    <3>1. write_size <= write_avail /\ write_size \in Nat /\ write_avail \in Int
      BY <2>1, WriteSizeFacts DEF FillWrite, FitInv, TypeOK
    <3>2. pc'[App] = "fill_signal"
      BY <2>1, <3>1, AppPc DEF FillWrite, TypeOK
    <3> QED BY <3>2, ThreadFacts DEF Abort
  <2>2. CASE ~FillWrite
    <3>1. \E l \in AppLabels : l # "done" /\ Goto(App, l)
      BY <2>2 DEF FillTestActive, FillCheckRoom, FillSleep, FillWake, FillSignal, EnterStop, Return,
         AppLabels
    <3>2. pc'[App] # "done"
      BY <3>1, AppPc DEF TypeOK
    <3> QED BY <3>2, ThreadFacts DEF Abort
  <2> QED BY <2>1, <2>2
<1>5. /\ app'.fd = app.fd /\ app'.call \in {"none", "stop", app.call}
      /\ \E l \in FillLabels \cup {"idle", "stop_thread"} : Goto(App, l)
      /\ Goto(App, "idle") \/ Goto(App, "stop_thread") => app'.call # "exec"
  <2>1. CASE UNCHANGED app /\ ~EnterStop /\ ~Return(FALSE)
    <3>1. \E l \in FillLabels : Goto(App, l)
      BY <1>4, <2>1 DEF FillTestActive, FillCheckRoom, FillSleep, FillWake, FillWrite, FillSignal,
         FillLabels, TypeOK, AppOK
    <3>2. ~Goto(App, "idle") /\ ~Goto(App, "stop_thread")
      BY <3>1, AppPc DEF TypeOK, FillLabels
    <3> QED BY <2>1, <3>1, <3>2
  <2>2. CASE EnterStop \/ Return(FALSE)
    BY <2>2 DEF EnterStop, Return, TypeOK, AppOK
  <2>3. CASE app' = [app EXCEPT !.todo = @ - write_size] /\ Goto(App, "fill")
    <3>1. ~Goto(App, "idle") /\ ~Goto(App, "stop_thread")
      BY <2>3, AppPc DEF TypeOK
    <3> QED BY <2>3, <3>1 DEF TypeOK, AppOK, FillLabels
  <2> QED BY <1>4, <2>1, <2>2, <2>3
          DEF FillTestActive, FillCheckRoom, FillSleep, FillWake, FillWrite, FillSignal
<1>6. PICK l \in FillLabels \cup {"idle", "stop_thread"} : Goto(App, l)
  BY <1>5
<1>7. pc'[App] = l
  BY <1>6, AppPc DEF TypeOK
<1>8. ~CtlGiven' /\ ~FdTaken'
  BY <1>5, <1>6, <1>7 DEF CtlGiven, FdTaken, FillLabels
<1>9. app'.call = "exec" => "exec" \in Calls /\ l # "idle" /\ l # "done"
  BY <1>5, <1>6 DEF ConnInv, ExecInv, FillLabels
<1>10. l \notin SetupLabels \cup ExecLabels \cup {"reset_lock"} /\ pc[App] \notin SetupLabels \cup {"reset_lock"}
  BY <1>1 DEF SetupLabels, ExecLabels, FillLabels
<1> QED BY <1>1, <1>2, <1>3, <1>5, <1>6, <1>8, <1>9, <1>10, ConnAppMoves DEF ExecLabels

\* rsd_stop, or rsd_exec stopping the thread: the sockets are closed once no
\* thread is busy, and invalidated with nobody to see them in between.
LEMMA StopConn ==
  TypeOK /\ HandleOK' /\ OneInv /\ ConnInv
    /\ (\/ StopTestActive \/ StopFlag \/ Join
        \/ ResetClose(App) \/ ResetConnection(App) \/ ResetActive(App) \/ ResetSignal(App))
      => ConnInv'
<1> SUFFICES ASSUME TypeOK, HandleOK', OneInv, ConnInv,
                    \/ StopTestActive \/ StopFlag \/ Join
                    \/ ResetClose(App) \/ ResetConnection(App) \/ ResetActive(App) \/ ResetSignal(App)
             PROVE  ConnInv'
  OBVIOUS
<1>1. CASE ResetClose(App)
  <2>1. pc[App] = "reset_close" /\ UNCHANGED <<rd, app, link, sent, written>>
    BY <1>1 DEF ResetClose
  <2>2. pc'[App] = "reset_lock" /\ \A t \in Player : pc'[t] = pc[t]
    BY <1>1, AppPc DEF ResetClose, TypeOK
  <2>3. (Stopping' <=> Stopping) /\ ~CtlGiven' /\ ~FdTaken' /\ Connected' = Connected
    BY <2>1, <2>2 DEF Stopping, CtlGiven, FdTaken, Connected
  <2>4. Resetting'
    BY <2>2, ThreadFacts DEF Resetting
  <2>5. PairInv' /\ ReadyInv' /\ SetupInv' /\ LiveInv' /\ OpenInv'
    BY <2>1, <2>2, <2>3, <2>4 DEF ConnInv, PairInv, ReadyInv, SetupInv, LiveInv, OpenInv, SetupLabels
  <2>6. ExecInv'
    BY <2>1, <2>2, <2>3 DEF ConnInv, ExecInv, ExecLabels
  <2> QED BY <2>5, <2>6 DEF ConnInv
<1>2. CASE ResetConnection(App)
  <2>1. /\ pc[App] = "reset_lock" /\ UNCHANGED <<app, open, link, sent, written>>
        /\ rd'.socket = -1 /\ rd'.ctl_socket = -1 /\ rd'.fifo = rd.fifo
    BY <1>2 DEF ResetConnection, network, TypeOK, HandleOK
  <2>2. pc'[App] = "reset_rest" /\ \A t \in Player : pc'[t] = pc[t]
    BY <1>2, AppPc DEF ResetConnection, TypeOK
  <2>3. \A t \in Player : pc[t] \notin BusyLabels
    BY <2>1 DEF OneInv, QuietLabels
  <2>4. ~CtlGiven' /\ ~FdTaken' /\ ~Connected'
    BY <2>1, <2>2 DEF CtlGiven, FdTaken, Connected
  <2>5. PairInv' /\ ReadyInv' /\ SetupInv' /\ OpenInv'
    BY <2>1, <2>2, <2>4 DEF PairInv, ReadyInv, SetupInv, OpenInv
  <2>6. LiveInv'
    BY <2>2, <2>3 DEF LiveInv, BusyLabels, LiveLabels
  <2>7. ExecInv'
    BY <2>1, <2>2, <2>3, <2>4, LabelFacts DEF ConnInv, ExecInv, ExecLabels
  <2> QED BY <2>5, <2>6, <2>7 DEF ConnInv
<1>3. CASE StopTestActive \/ StopFlag \/ Join \/ ResetActive(App) \/ ResetSignal(App)
  <2>1. /\ pc[App] \in {"stop_thread", "stop_flag", "join", "reset_rest", "reset_signal"}
        /\ UNCHANGED <<open, link, sent>>
        /\ rd'.socket = rd.socket /\ rd'.ctl_socket = rd.ctl_socket
        /\ rd'.ready_for_data = rd.ready_for_data /\ rd'.fifo = rd.fifo
    BY <1>3 DEF StopTestActive, StopFlag, Join, ResetActive, ResetSignal, network, TypeOK, HandleOK
  <2>2. Len(rd.fifo) <= Len(rd'.fifo)
    BY <2>1 DEF TypeOK, HandleOK
  <2>3. CASE StopTestActive \/ StopFlag \/ Join
    <3>1. /\ \E l \in {"stop_flag", "join"} \cup {AfterStopThread} : Goto(App, l)
          /\ UNCHANGED app /\ pc[App] \in {"stop_thread", "stop_flag", "join"}
      BY <2>3 DEF StopTestActive, StopFlag, Join
    <3>2. PICK l \in {"stop_flag", "join"} \cup {AfterStopThread} : Goto(App, l)
      BY <3>1
    <3>3. pc'[App] = l
      BY <3>2, AppPc DEF TypeOK
    <3>4. (Stopping => Stopping') /\ (CtlGiven' <=> CtlGiven) /\ (FdTaken' <=> FdTaken)
      BY <3>1, <3>2, <3>3 DEF Stopping, CtlGiven, FdTaken, AfterStopThread
    <3>5. CtlGiven => Connected
      BY DEF ConnInv, ExecInv
    <3>6. l \notin SetupLabels \cup {"reset_lock", "exec_restart", "exec_ctl", "exec_close", "idle", "done"}
          /\ pc[App] \notin SetupLabels \cup {"reset_lock"}
          /\ (l \in ExecLabels => app.call = "exec") /\ (app.call = "exec" => "exec" \in Calls)
      BY <3>1, <3>2 DEF SetupLabels, AfterStopThread, ExecLabels, ConnInv, ExecInv
    <3> QED BY <2>1, <2>2, <3>1, <3>2, <3>4, <3>5, <3>6, ConnAppMoves
  <2>4. CASE ResetActive(App)
    <3>1. Goto(App, "reset_signal") /\ UNCHANGED app /\ pc[App] = "reset_rest"
      BY <2>4 DEF ResetActive
    <3>2. pc'[App] = "reset_signal"
      BY <3>1, AppPc DEF TypeOK
    <3>3. ~Stopping /\ ~CtlGiven' /\ ~CtlGiven /\ ~FdTaken'
      BY <3>1, <3>2 DEF Stopping, CtlGiven, FdTaken
    <3>4. app.call = "exec" => "exec" \in Calls
      BY DEF ConnInv, ExecInv
    <3> QED BY <2>1, <2>2, <3>1, <3>3, <3>4, ConnAppMoves DEF SetupLabels, ExecLabels
  <2>5. CASE ResetSignal(App)
    <3>1. Goto(App, "idle") /\ app'.call = "none" /\ app'.fd = app.fd /\ pc[App] = "reset_signal"
      BY <2>5 DEF ResetSignal, Return, TypeOK, AppOK
    <3>2. pc'[App] = "idle"
      BY <3>1, AppPc DEF TypeOK
    <3>3. ~Stopping /\ ~CtlGiven' /\ ~CtlGiven /\ ~FdTaken'
      BY <3>1, <3>2 DEF Stopping, CtlGiven, FdTaken
    <3> QED BY <2>1, <2>2, <3>1, <3>3, ConnAppMoves DEF SetupLabels, ExecLabels
  <2> QED BY <1>3, <2>3, <2>4, <2>5
<1> QED BY <1>1, <1>2, <1>3

\* In rsd_exec no thread has failed, and the connection stands.
LEMMA ExecFacts ==
  ASSUME TypeOK, ConnInv, app.call = "exec", Connected, pc[App] # "reset_lock"
  PROVE  /\ "exec" \in Calls /\ ~Stopping /\ ~Resetting /\ link = "up" /\ rd.socket \in open
         /\ CtlGiven \/ rd.ctl_socket \in open \cup {-1}
<1>1. "exec" \in Calls /\ ~Stopping /\ link = "up" /\ \A t \in Player : pc[t] \notin FailLabels
  BY DEF ConnInv, ExecInv, Stopping
<1>2. ~Resetting
  BY <1>1, ResettingFacts DEF FailLabels
<1> QED BY <1>1, <1>2 DEF ConnInv, OpenInv, Connected

\* A send on a connection that stands does not fail under rsd_exec.
LEMMA CalmSends ==
  ASSUME Calm, "exec" \in Calls, link = "up", NEW fd \in open, NEW data, SendFails(fd, data)
  PROVE  FALSE
BY DEF Calm, SendFails

\* rsd_exec: the descriptor it takes is the open socket of the handle, so the
\* flush succeeds, and nothing has become of the thread it stopped.
LEMMA ExecConn ==
  Calm /\ TypeOK /\ HandleOK' /\ OneInv /\ ConnInv
    /\ (\/ ExecCloseRequest \/ ExecCloseCtl \/ ExecTakeFd \/ ExecFlags \/ ExecRestartThread
        \/ ExecFlush)
      => ConnInv'
<1> SUFFICES ASSUME Calm, TypeOK, HandleOK', OneInv, ConnInv,
                    \/ ExecCloseRequest \/ ExecCloseCtl \/ ExecTakeFd \/ ExecFlags
                    \/ ExecRestartThread \/ ExecFlush
             PROVE  ConnInv'
  OBVIOUS
<1>1. /\ pc[App] \in {"exec_ctl", "exec_close", "exec_fd", "exec_flags", "exec_flush"}
      /\ app.call = "exec" /\ Connected
  BY DEF ExecCloseRequest, ExecCloseCtl, ExecTakeFd, ExecFlags, ExecRestartThread, ExecFlush,
         ConnInv, ExecInv, ExecLabels, CtlGiven
<1>2. /\ "exec" \in Calls /\ ~Stopping /\ ~Resetting /\ link = "up" /\ rd.socket \in open
      /\ CtlGiven \/ rd.ctl_socket \in open \cup {-1}
  BY <1>1, ExecFacts
<1>3. pc[App] \notin SetupLabels \cup {"reset_lock"}
  BY <1>1 DEF SetupLabels
<1>4. Len(rd.fifo) \in Nat
  BY DEF TypeOK, HandleOK
<1>5. CASE ExecCloseRequest
  <2>2. CASE ExecFails
    <3>1. Goto(App, "idle") /\ app'.call = "none" /\ app'.fd = -1
      BY <2>2 DEF ExecFails, ExecFailed, TypeOK, AppOK
    <3>2. pc'[App] = "idle" /\ \A t \in Player : pc'[t] = pc[t]
      BY <3>1, AppPc DEF TypeOK
    <3>3. ~CtlGiven' /\ ~CtlGiven /\ ~FdTaken' /\ ~Stopping' /\ (Connected' <=> Connected) /\ UNCHANGED <<rd, open, link, sent>>
      BY <1>5, <3>2 DEF ExecCloseRequest, CtlGiven, FdTaken, Stopping, Connected, network
    <3>4. PairInv' /\ ReadyInv' /\ SetupInv' /\ LiveInv'
      BY <1>2, <1>3, <3>2, <3>3 DEF ConnInv, PairInv, ReadyInv, SetupInv, LiveInv, SetupLabels
    <3>5. OpenInv'
      BY <1>2, <3>3 DEF OpenInv
    <3>6. ExecInv'
      BY <1>2, <3>1, <3>2, <3>3 DEF ConnInv, ExecInv, ExecLabels
    <3> QED BY <3>4, <3>5, <3>6 DEF ConnInv
  <2>3. CASE Goto(App, "exec_close") /\ UNCHANGED app
    <3>1. pc'[App] = "exec_close"
      BY <2>3, AppPc DEF TypeOK
    <3>2. ~CtlGiven' /\ ~CtlGiven /\ ~FdTaken' /\ UNCHANGED <<rd, open, link, sent>>
      BY <1>5, <3>1 DEF ExecCloseRequest, CtlGiven, FdTaken, network
    <3> QED BY <1>1, <1>2, <1>3, <1>4, <2>3, <3>2, ConnAppMoves DEF SetupLabels
  <2>4. CASE link = "down"
    BY <1>2, <2>4
  <2> QED BY <1>5, <2>2, <2>3, <2>4 DEF ExecCloseRequest
<1>6. CASE ExecCloseCtl
  <2>1. /\ UNCHANGED <<rd, app, link, sent, written>> /\ open' = open \ {rd.ctl_socket}
        /\ pc[App] = "exec_close"
    BY <1>6 DEF ExecCloseCtl
  <2>2. pc'[App] = "exec_fd" /\ \A t \in Player : pc'[t] = pc[t]
    BY <1>6, AppPc DEF ExecCloseCtl, TypeOK
  <2>3. CtlGiven' /\ ~FdTaken' /\ ~Stopping' /\ Connected'
    BY <1>1, <2>1, <2>2 DEF CtlGiven, FdTaken, Stopping, Connected
  <2>4. PairInv' /\ ReadyInv' /\ SetupInv' /\ LiveInv'
    BY <1>1, <1>2, <1>3, <2>1, <2>2, <2>3 DEF ConnInv, PairInv, ReadyInv, SetupInv, LiveInv
  <2>5. rd.socket # rd.ctl_socket
    BY <1>1, <1>2 DEF ConnInv, PairInv, Connected
  <2>6. OpenInv'
    BY <1>2, <2>1, <2>3, <2>5 DEF OpenInv
  <2>7. ExecInv'
    BY <1>1, <1>2, <2>1, <2>2, <2>3 DEF ConnInv, ExecInv
  <2> QED BY <2>4, <2>6, <2>7 DEF ConnInv
<1>7. CASE ExecTakeFd
  <2>1. /\ UNCHANGED <<rd, open, link, sent, written>> /\ pc[App] = "exec_fd"
        /\ app'.fd = rd.socket /\ app'.call = "exec"
    BY <1>1, <1>7 DEF ExecTakeFd, network, TypeOK, AppOK
  <2>2. pc'[App] = "stop_thread" /\ \A t \in Player : pc'[t] = pc[t]
    BY <1>7, AppPc DEF ExecTakeFd, TypeOK
  <2>3. CtlGiven' /\ ~Stopping' /\ Connected'
    BY <1>1, <2>1, <2>2 DEF CtlGiven, Stopping, Connected
  <2>4. PairInv' /\ ReadyInv' /\ SetupInv' /\ LiveInv'
    BY <1>1, <1>2, <1>3, <2>1, <2>2, <2>3 DEF ConnInv, PairInv, ReadyInv, SetupInv, LiveInv
  <2>5. OpenInv'
    BY <1>2, <2>1, <2>3 DEF OpenInv
  <2>6. ExecInv'
    BY <1>2, <2>1, <2>2, <2>3 DEF ConnInv, ExecInv, ExecLabels
  <2> QED BY <2>4, <2>5, <2>6 DEF ConnInv
<1>8. CASE ExecFlags
  <2>1. app.fd = rd.socket /\ pc[App] = "exec_flags" /\ UNCHANGED <<rd, app, open, link, sent>>
    BY <1>8 DEF ExecFlags, network, ConnInv, ExecInv, FdTaken, CtlGiven
  <2>2. Goto(App, "exec_flush")
    BY <1>2, <1>8, <2>1 DEF ExecFlags
  <2>3. pc'[App] = "exec_flush"
    BY <2>2, AppPc DEF TypeOK
  <2>4. CtlGiven /\ CtlGiven' /\ FdTaken
    BY <2>1, <2>3 DEF CtlGiven, FdTaken
  <2> QED BY <1>1, <1>2, <1>3, <1>4, <2>1, <2>2, <2>4, ConnAppMoves DEF SetupLabels
<1>9. CASE ExecRestartThread
  BY <1>9, <1>1 DEF ExecRestartThread
<1>10. CASE ExecFlush
  <2>1. app.fd = rd.socket /\ pc[App] = "exec_flush"
    BY <1>10 DEF ExecFlush, ConnInv, ExecInv, FdTaken, CtlGiven
  <2>2. ~SendFails(app.fd, rd.fifo)
    BY <1>2, <2>1, CalmSends
  <2>3. /\ rd' = [rd EXCEPT !.fifo = << >>] /\ Goto(App, "done") /\ UNCHANGED <<app, open, link>>
    BY <1>10, <2>2 DEF ExecFlush
  <2>4. pc'[App] = "done" /\ \A t \in Player : pc'[t] = pc[t]
    BY <2>3, AppPc DEF TypeOK
  <2>5. /\ rd'.socket = rd.socket /\ rd'.ctl_socket = rd.ctl_socket
        /\ rd'.ready_for_data = rd.ready_for_data /\ rd'.fifo = << >>
    BY <2>3 DEF TypeOK, HandleOK
  <2>6. CtlGiven' /\ ~Stopping' /\ Connected'
    BY <1>1, <2>3, <2>4, <2>5 DEF CtlGiven, Stopping, Connected
  <2>7. \A t \in Player : pc[t] \notin BusyLabels
    BY <2>1 DEF OneInv, QuietLabels
  <2>8. PairInv' /\ ReadyInv' /\ SetupInv'
    BY <1>1, <1>2, <1>3, <2>4, <2>5, <2>6 DEF ConnInv, PairInv, ReadyInv, SetupInv
  <2>9. LiveInv'
    BY <2>4, <2>7 DEF LiveInv, LiveLabels, BusyLabels
  <2>10. OpenInv'
    BY <1>2, <2>3, <2>5, <2>6 DEF OpenInv
  <2>11. ExecInv'
    BY <1>1, <1>2, <2>1, <2>3, <2>4, <2>5, <2>6, <2>7 DEF ConnInv, ExecInv, ExecLabels, FdTaken, CtlGiven
  <2> QED BY <2>8, <2>9, <2>10, <2>11 DEF ConnInv
<1> QED BY <1>5, <1>6, <1>7, <1>8, <1>9, <1>10

\* A playback thread: after a failed send it closes the sockets and then
\* invalidates them, and no other thread serves the stream meanwhile.
LEMMA PlayerConn ==
  ASSUME NEW t \in Player
  PROVE  Calm /\ TypeOK /\ OneInv /\ ConnInv /\ rsnd_thread(t) => ConnInv'
<1> SUFFICES ASSUME Calm, TypeOK, OneInv, ConnInv, rsnd_thread(t) PROVE ConnInv'
  OBVIOUS
<1>1. /\ pc[t] \in BusyLabels => \A u \in Player : pc[u] \in BusyLabels => u = t
      /\ t # App
  BY ThreadFacts DEF OneInv
<1>2. CASE ReadChunk(t)
  <2>1. pc[t] = "read" /\ Len(rd.fifo) >= ChunkSize
    BY <1>2 DEF ReadChunk, ConnInv, LiveInv
  <2>2. /\ Goto(t, "send") /\ rd' = [rd EXCEPT !.fifo = Drop(@, ChunkSize)]
        /\ UNCHANGED <<app, open, link, sent, written>>
    BY <1>2, <2>1 DEF ReadChunk, read_avail, network
  <2>3. /\ rd'.socket = rd.socket /\ rd'.ctl_socket = rd.ctl_socket
        /\ rd'.ready_for_data = rd.ready_for_data
    BY <2>2 DEF TypeOK, HandleOK
  <2>4. "read" \in LiveLabels /\ "send" \in LiveLabels /\ "read" \in BusyLabels /\ "send" \notin FailLabels
    BY DEF LiveLabels, BusyLabels, FailLabels
  <2> QED BY <1>1, <2>1, <2>2, <2>3, <2>4, ConnPlayerMoves
<1>3. CASE SendChunk(t)
  <2>1. pc[t] = "send" /\ UNCHANGED <<rd, app, open, written>>
    BY <1>3 DEF SendChunk
  <2>2. "send" \in LiveLabels \cap BusyLabels /\ "sent" \notin FailLabels
    BY DEF LiveLabels, BusyLabels, FailLabels
  <2>3. CASE link' = link /\ Goto(t, "sent")
    BY <2>1, <2>2, <2>3, ConnPlayerMoves
  <2>4. CASE SendFails(rd.socket, chunk[t]) /\ Goto(t, "failed")
    <3>1. "exec" \notin Calls
      <4>1. SUFFICES ASSUME "exec" \in Calls PROVE FALSE
        OBVIOUS
      <4>2. Connected /\ link = "up" /\ \A u \in Player : pc[u] \notin FailLabels
        BY <2>1, <2>2, <4>1 DEF ConnInv, LiveInv, ExecInv
      <4>3. pc[App] # "reset_lock"
        BY <2>1, <2>2 DEF OneInv, QuietLabels
      <4>4. ~Resetting
        BY <4>2, <4>3, ResettingFacts DEF FailLabels
      <4>5. rd.socket \in open
        BY <4>2, <4>4 DEF ConnInv, OpenInv, Connected
      <4> QED BY <2>4, <4>1, <4>2, <4>5, CalmSends
    <3> QED BY <2>1, <2>2, <2>4, <3>1, ConnPlayerMoves
  <2> QED BY <1>3, <2>3, <2>4 DEF SendChunk
<1>4. CASE ResetClose(t)
  <2>1. pc[t] = "reset_close" /\ UNCHANGED <<rd, app, link, sent, written>>
    BY <1>4 DEF ResetClose
  <2>2. pc'[t] = "reset_lock" /\ pc'[App] = pc[App] /\ \A u \in Player : u # t => pc'[u] = pc[u]
    BY <1>4, PlayerPc DEF ResetClose, TypeOK
  <2>3. Resetting'
    BY <2>2, ThreadFacts DEF Resetting
  <2>4. /\ (Stopping' <=> Stopping) /\ (CtlGiven' <=> CtlGiven) /\ (FdTaken' <=> FdTaken)
        /\ (Connected' <=> Connected)
    BY <2>1, <2>2 DEF Stopping, CtlGiven, FdTaken, Connected
  <2>5. pc[t] \in LiveLabels /\ pc[t] \in BusyLabels /\ pc[t] \in FailLabels
    BY <2>1 DEF LiveLabels, BusyLabels, FailLabels
  <2>6. PairInv' /\ ReadyInv' /\ SetupInv' /\ OpenInv'
    BY <2>1, <2>2, <2>3, <2>4, <2>5 DEF ConnInv, PairInv, ReadyInv, SetupInv, OpenInv, SetupLabels
  <2>7. LiveInv'
    BY <2>1, <2>2, <2>4, <2>5 DEF ConnInv, LiveInv
  <2>8. ExecInv'
    BY <2>1, <2>2, <2>4, <2>5 DEF ConnInv, ExecInv
  <2> QED BY <2>6, <2>7, <2>8 DEF ConnInv
<1>5. CASE ResetConnection(t)
  <2>1. /\ pc[t] = "reset_lock" /\ UNCHANGED <<app, open, link, sent, written>>
        /\ rd'.socket = -1 /\ rd'.ctl_socket = -1 /\ rd'.fifo = rd.fifo
    BY <1>5 DEF ResetConnection, network, TypeOK, HandleOK
  <2>2. pc'[t] = "reset_rest" /\ pc'[App] = pc[App] /\ \A u \in Player : u # t => pc'[u] = pc[u]
    BY <1>5, PlayerPc DEF ResetConnection, TypeOK
  <2>3. pc[t] \in LiveLabels /\ pc[t] \in BusyLabels /\ pc[t] \in FailLabels
    BY <2>1 DEF LiveLabels, BusyLabels, FailLabels
  <2>4. "exec" \notin Calls /\ app.call # "exec" /\ pc[App] \notin ExecLabels
    BY <2>3 DEF ConnInv, ExecInv
  <2>5. pc[App] \notin {"handshake", "start_thread"}
    BY <2>3 DEF ConnInv, SetupInv
  <2>6. ~Connected' /\ ~CtlGiven' /\ ~FdTaken'
    BY <2>1, <2>2, <2>4 DEF Connected, CtlGiven, FdTaken, ExecLabels
  <2>7. PairInv' /\ ReadyInv' /\ SetupInv' /\ OpenInv'
    BY <2>1, <2>2, <2>5, <2>6 DEF PairInv, ReadyInv, SetupInv, OpenInv
  <2>8. LiveInv'
    BY <1>1, <2>2, <2>3, LabelFacts DEF LiveInv, LiveLabels, BusyLabels
  <2>9. ExecInv'
    BY <2>1, <2>2, <2>4, <2>6 DEF ConnInv, ExecInv, ExecLabels
  <2> QED BY <2>7, <2>8, <2>9 DEF ConnInv
<1>6. CASE ResetActive(t)
  <2>1. /\ UNCHANGED <<app, open, link, sent, written>> /\ Goto(t, "reset_signal") /\ pc[t] = "reset_rest"
        /\ rd'.socket = rd.socket /\ rd'.ctl_socket = rd.ctl_socket
        /\ rd'.ready_for_data = rd.ready_for_data /\ rd'.fifo = rd.fifo
    BY <1>6 DEF ResetActive, network, TypeOK, HandleOK
  <2> QED BY <2>1, ConnPlayerMoves DEF LiveLabels, BusyLabels, FailLabels
<1>7. CASE FailTestCancel(t)
  <2>1. pc[t] = "failed" /\ UNCHANGED <<rd, app, open, link, sent, written>>
    BY <1>7 DEF FailTestCancel, TestCancel, network
  <2>2. pc[t] \in LiveLabels /\ pc[t] \in BusyLabels /\ pc[t] \in FailLabels
    BY <2>1 DEF LiveLabels, BusyLabels, FailLabels
  <2>3. "exec" \notin Calls
    BY <2>2 DEF ConnInv, ExecInv
  <2>4. PICK l \in {"reset_close", "out"} : Goto(t, l)
    BY <1>7 DEF FailTestCancel, TestCancel
  <2> QED BY <2>1, <2>2, <2>3, <2>4, ConnPlayerMoves
<1>8. CASE \/ LoopTestCancel(t) \/ CheckChunk(t) \/ ReadTestCancel(t)
           \/ SentSignal(t) \/ ResetSignal(t) \/ LateSignal(t) \/ DetachAndExit(t)
           \/ OuterTestActive(t) \/ SleepSignal(t) \/ SleepWait(t) \/ Wake(t) \/ Quit(t)
  <2>1. UNCHANGED <<rd, app, open, link, sent, written>>
    BY <1>1, <1>8 DEF LoopTestCancel, CheckChunk, ReadTestCancel, TestCancel, SentSignal, ResetSignal,
       LateSignal, DetachAndExit, OuterTestActive, SleepSignal, SleepWait, Wake, Quit, network
  <2>2. Len(rd.fifo) \in Nat
    BY DEF TypeOK, HandleOK
  <2>3. \E l \in PlayerLabels :
          /\ Goto(t, l) /\ pc[t] # "reset_lock" /\ l # "reset_lock" /\ l \notin FailLabels
          /\ (l \in LiveLabels => pc[t] \in LiveLabels)
          /\ (l \in BusyLabels => pc[t] \in BusyLabels)
          /\ (l \in {"before_read", "read"} => pc[t] = "before_read" \/ Len(rd.fifo) >= ChunkSize)
    <3>1. CASE CheckChunk(t)
      <4>1. CASE read_avail < ChunkSize \/ ~rd.thread_active
        BY <3>1, <4>1 DEF CheckChunk, PlayerLabels, LiveLabels, BusyLabels, FailLabels
      <4>2. CASE ~(read_avail < ChunkSize \/ ~rd.thread_active)
        <5>1. Len(rd.fifo) >= ChunkSize
          BY <2>2, <4>2 DEF read_avail
        <5> QED BY <3>1, <4>2, <5>1 DEF CheckChunk, PlayerLabels, LiveLabels, BusyLabels, FailLabels
      <4> QED BY <4>1, <4>2
    <3>2. CASE LoopTestCancel(t) \/ ReadTestCancel(t)
      BY <3>2 DEF LoopTestCancel, ReadTestCancel, TestCancel, PlayerLabels, LiveLabels, BusyLabels,
         FailLabels
    <3>3. CASE SentSignal(t) \/ ResetSignal(t) \/ LateSignal(t) \/ DetachAndExit(t)
      BY <1>1, <3>3 DEF SentSignal, ResetSignal, LateSignal, DetachAndExit, PlayerLabels, LiveLabels,
         BusyLabels, FailLabels
    <3>4. CASE OuterTestActive(t) \/ SleepSignal(t) \/ SleepWait(t) \/ Wake(t) \/ Quit(t)
      BY <3>4 DEF OuterTestActive, SleepSignal, SleepWait, Wake, Quit, PlayerLabels, LiveLabels,
         BusyLabels, FailLabels
    <3> QED BY <1>8, <3>1, <3>2, <3>3, <3>4
  <2> QED BY <2>1, <2>3, ConnPlayerMoves
<1> QED BY <1>2, <1>3, <1>4, <1>5, <1>6, <1>7, <1>8 DEF rsnd_thread

\* The invariant, in every behaviour.
LEMMA ConnHolds ==
  ASSUME Calm
  PROVE  Spec => []ConnInv
<1>1. Init => ConnInv
  <2> SUFFICES ASSUME Init PROVE ConnInv
    OBVIOUS
  <2>1. pc[App] = "idle" /\ \A t \in Player : pc[t] = "none"
    BY ThreadFacts DEF Init
  <2>2. rd.socket = -1 /\ rd.ctl_socket = -1 /\ app.call = "none"
    BY DEF Init
  <2>3. ~Connected /\ ~CtlGiven /\ ~FdTaken
    BY <2>1, <2>2 DEF Connected, CtlGiven, FdTaken
  <2>4. PairInv /\ ReadyInv /\ SetupInv /\ OpenInv
    BY <2>1, <2>2, <2>3 DEF PairInv, ReadyInv, SetupInv, OpenInv
  <2>5. LiveInv /\ ExecInv
    BY <2>1, <2>2, <2>3 DEF LiveInv, ExecInv, LiveLabels, ExecLabels, FailLabels
  <2> QED BY <2>4, <2>5 DEF ConnInv
<1>2. TypeOK /\ TypeOK' /\ OneInv /\ FitInv /\ ConnInv /\ [Next]_vars => ConnInv'
  <2> SUFFICES ASSUME TypeOK, TypeOK', OneInv, FitInv, ConnInv, [Next]_vars PROVE ConnInv'
    OBVIOUS
  <2>0. HandleOK'
    BY DEF TypeOK
  <2>1. CASE LinkBreaks
    <3>1. UNCHANGED <<rd, pc, app, open, sent, written>> /\ link' = "down" /\ "break" \in Faults
      BY <2>1 DEF LinkBreaks
    <3>2. "exec" \notin Calls
      BY <3>1 DEF Calm
    <3>3. /\ (Stopping' <=> Stopping) /\ (CtlGiven' <=> CtlGiven) /\ (FdTaken' <=> FdTaken)
          /\ (Connected' <=> Connected) /\ (Resetting' <=> Resetting)
      BY <3>1 DEF Stopping, CtlGiven, FdTaken, Connected, Resetting
    <3> QED BY <3>1, <3>2, <3>3 DEF ConnInv, PairInv, ReadyInv, SetupInv, LiveInv, OpenInv, ExecInv
  <2>2. CASE SpuriousWakeup \/ UNCHANGED vars
    <3>1. UNCHANGED <<rd, pc, app, open, link, sent, written>>
      BY <2>2 DEF SpuriousWakeup, network, vars
    <3>2. /\ (Stopping' <=> Stopping) /\ (CtlGiven' <=> CtlGiven) /\ (FdTaken' <=> FdTaken)
          /\ (Connected' <=> Connected) /\ (Resetting' <=> Resetting)
      BY <3>1 DEF Stopping, CtlGiven, FdTaken, Connected, Resetting
    <3> QED BY <3>1, <3>2 DEF ConnInv, PairInv, ReadyInv, SetupInv, LiveInv, OpenInv, ExecInv
  <2>3. CASE AppStep
    BY <2>0, <2>3, ConnectConn, SetupConn, FillConn, StopConn, ExecConn DEF AppStep
  <2> QED BY <2>1, <2>2, <2>3, CallConn, PlayerConn DEF Next, Finished
<1> QED BY <1>1, <1>2, TypeCorrect, OneHolds, FitHolds, PTL DEF Spec

(***************************************************************************)
(* No audio before the handshake: a connection that rsd_start takes up      *)
(* again has had its handshake, a new one has carried nothing.              *)
(***************************************************************************)
THEOREM HeaderComesFirst == Calm => (Spec => []HeaderFirst)
<1> SUFFICES ASSUME Calm PROVE Spec => []HeaderFirst
  OBVIOUS
<1>1. ConnInv => HeaderFirst
  BY DEF ConnInv, SetupInv, HeaderFirst
<1> QED BY <1>1, ConnHolds, PTL

(***************************************************************************)
(* The assertions of buffer.c hold although the room is checked in one      *)
(* critical section and used in the next: the writer only adds, the one     *)
(* playback thread only takes, and nobody replaces the FIFO meanwhile.      *)
(***************************************************************************)
THEOREM AssertionsHold == Calm => (Spec => []FifoAssertionsHold)
<1> SUFFICES ASSUME Calm PROVE Spec => []FifoAssertionsHold
  OBVIOUS
<1>1. TypeOK /\ FitInv /\ ConnInv => FifoAssertionsHold
  <2> SUFFICES ASSUME TypeOK, FitInv, ConnInv PROVE FifoAssertionsHold
    OBVIOUS
  <2>1. write_size \in Nat /\ write_avail \in Int /\ Len(rd.fifo) \in Nat
    BY WriteSizeFacts DEF TypeOK, HandleOK
  <2> QED BY <2>1 DEF FifoAssertionsHold, FitInv, ConnInv, LiveInv, read_avail
<1> QED BY <1>1, TypeCorrect, FitHolds, ConnHolds, PTL

(***************************************************************************)
(* rsnd_reset and rsnd_close_ctl close no descriptor twice, whichever       *)
(* threads stop and fail: who closes is alone, and what it closes was open. *)
(***************************************************************************)
THEOREM ClosesOnce == Calm => (Spec => []ClosesOnlyOpenSockets)
<1> SUFFICES ASSUME Calm PROVE Spec => []ClosesOnlyOpenSockets
  OBVIOUS
<1>1. TypeOK /\ OneInv /\ ConnInv => ClosesOnlyOpenSockets
  <2> SUFFICES ASSUME TypeOK, OneInv, ConnInv PROVE ClosesOnlyOpenSockets
    OBVIOUS
  <2>1. ASSUME NEW x \in Thread, pc[x] = "reset_close"
        PROVE  {rd.socket, rd.ctl_socket} \subseteq open \cup {-1}
    <3>1. CASE x = App
      <4>1. \A t \in Player : pc[t] \notin BusyLabels
        BY <2>1, <3>1 DEF OneInv, QuietLabels
      <4>2. ~Resetting /\ ~CtlGiven
        BY <2>1, <3>1, <4>1, ResettingFacts DEF BusyLabels, CtlGiven
      <4> QED BY <4>2 DEF ConnInv, OpenInv
    <3>2. CASE x \in Player
      <4>1. pc[x] \in BusyLabels /\ pc[x] \in FailLabels
        BY <2>1 DEF BusyLabels, FailLabels
      <4>2. pc[App] # "reset_lock" /\ \A t \in Player : pc[t] \in BusyLabels => t = x
        BY <3>2, <4>1 DEF OneInv, QuietLabels
      <4>3. ~Resetting
        BY <2>1, <4>2, ResettingFacts DEF BusyLabels
      <4>4. ~CtlGiven
        BY <3>2, <4>1 DEF ConnInv, ExecInv, CtlGiven, ExecLabels
      <4> QED BY <4>3, <4>4 DEF ConnInv, OpenInv
    <3> QED BY <3>1, <3>2, ThreadFacts
  <2>2. ASSUME pc[App] = "exec_close" PROVE rd.ctl_socket \in open \cup {-1}
    <3>1. app.call = "exec" /\ Connected /\ ~CtlGiven
      BY <2>2 DEF ConnInv, ExecInv, ExecLabels, CtlGiven
    <3> QED BY <2>2, <3>1, ExecFacts
  <2> QED BY <2>1, <2>2 DEF ClosesOnlyOpenSockets
<1> QED BY <1>1, TypeCorrect, OneHolds, ConnHolds, PTL

-----------------------------------------------------------------------------
(* The order of the bytes                                                   *)

\* What the playback thread has taken from the FIFO and not yet sent.
Held == IF rd.threadId \in Player /\ pc[rd.threadId] = "send" THEN chunk[rd.threadId] ELSE << >>

\* What was sent, what the playback thread holds and what the FIFO holds are
\* the bytes written, in their order and without a gap.
Sync ==
  /\ \A i \in 1..Len(Held) : Held[i] = Len(sent) + i
  /\ \A i \in 1..Len(rd.fifo) : rd.fifo[i] = Len(sent) + Len(Held) + i
  /\ written = Len(sent) + Len(Held) + Len(rd.fifo)

\* A playback thread that will send what it reads: no send of its has failed.
Serves(t) ==
  /\ pc[t] \in BusyLabels \ FailLabels
  /\ rd.thread_active \/ pc[t] \in {"read", "send"}

(* A thread may leave "failed" for its outer loop when it has been told to   *)
(* stop: it then serves nothing any more.  rsd_exec needs the bytes in order *)
(* after the thread has gone, too.                                           *)
OrderInv ==
  /\ \A i \in 1..Len(sent) : sent[i] = i
  /\ \A t \in Player : Serves(t) => Sync
  /\ "exec" \in Calls /\ Connected /\ ~Stopping /\ pc[App] # "handshake" => Sync

\* The first n bytes of a sequence, and the others.
LEMMA CutFacts ==
  ASSUME NEW s \in Seq(Nat), NEW n \in 0..Len(s)
  PROVE  /\ Prefix(s, n) \in Seq(Nat) /\ Len(Prefix(s, n)) = n
         /\ \A i \in 1..n : Prefix(s, n)[i] = s[i]
         /\ Drop(s, n) \in Seq(Nat) /\ Len(Drop(s, n)) = Len(s) - n
         /\ \A i \in 1..(Len(s) - n) : Drop(s, n)[i] = s[n + i]
<1>1. Prefix(s, n) \in Seq(Nat) /\ Len(Prefix(s, n)) = n /\ \A i \in 1..n : Prefix(s, n)[i] = s[i]
  BY DEF Prefix
<1>2. Drop(s, n) \in Seq(Nat) /\ Len(Drop(s, n)) = Len(s) - n
  BY DEF Drop
<1>3. \A i \in 1..(Len(s) - n) : Drop(s, n)[i] = s[n + i]
  BY DEF Drop
<1> QED BY <1>1, <1>2, <1>3

\* The numbers of consecutive bytes.
LEMMA BytesFacts ==
  ASSUME NEW w \in Nat, NEW n \in Nat
  PROVE  /\ Bytes(w + 1, w + n) \in Seq(Nat) /\ Len(Bytes(w + 1, w + n)) = n
         /\ \A i \in 1..n : Bytes(w + 1, w + n)[i] = w + i
<1>1. Bytes(w + 1, w + n) = [i \in 1..n |-> w + i]
  <2>1. (w + n) - (w + 1) + 1 = n /\ \A i \in 1..n : (w + 1) + i - 1 = w + i
    OBVIOUS
  <2> QED BY <2>1 DEF Bytes
<1>2. \A i \in 1..n : w + i \in Nat
  OBVIOUS
<1> QED BY <1>1, <1>2

\* A stream whose bytes carry their own number is a prefix of what was written.
LEMMA InOrderFacts ==
  ASSUME NEW s \in Seq(Nat), \A i \in 1..Len(s) : s[i] = i
  PROVE  s = Bytes(1, Len(s))
<1>1. Len(s) - 1 + 1 = Len(s) /\ \A i \in 1..Len(s) : 1 + i - 1 = i
  OBVIOUS
<1>2. s = [i \in 1..Len(s) |-> s[i]]
  OBVIOUS
<1> QED BY <1>1, <1>2 DEF Bytes

\* What follows the stream in order continues it.
LEMMA ContinuesStream ==
  ASSUME NEW s \in Seq(Nat), NEW d \in Seq(Nat),
         \A i \in 1..Len(s) : s[i] = i, \A i \in 1..Len(d) : d[i] = Len(s) + i
  PROVE  /\ s \o d \in Seq(Nat) /\ Len(s \o d) = Len(s) + Len(d)
         /\ \A i \in 1..Len(s \o d) : (s \o d)[i] = i
<1> DEFINE u == s \o d
<1>1. /\ u \in Seq(Nat) /\ Len(u) = Len(s) + Len(d)
      /\ \A i \in 1..Len(s) : u[i] = s[i]
      /\ \A i \in 1..Len(d) : u[Len(s) + i] = d[i]
  BY JoinFacts
<1>2. Len(s) \in Nat /\ Len(d) \in Nat
  OBVIOUS
<1> HIDE DEF u
<1>3. ASSUME NEW i \in 1..Len(u) PROVE u[i] = i
  <2>1. CASE i \in 1..Len(s)
    BY <1>1, <2>1
  <2>2. CASE i \notin 1..Len(s)
    <3> DEFINE k == i - Len(s)
    <3>1. k \in 1..Len(d) /\ Len(s) + k = i
      BY <1>1, <1>2, <2>2
    <3> HIDE DEF k
    <3> QED BY <1>1, <3>1
  <2> QED BY <2>1, <2>2
<1> QED BY <1>1, <1>3 DEF u

\* What the playback thread holds is a sequence of bytes.
LEMMA HeldFacts ==
  ASSUME TypeOK
  PROVE  /\ Held \in Seq(Nat) /\ Len(Held) \in Nat /\ Len(sent) \in Nat /\ Len(rd.fifo) \in Nat
         /\ rd.fifo \in Seq(Nat)
         /\ (\A t \in Player : pc[t] # "send") => Held = << >>
         /\ Len(<< >>) = 0
<1>1. Held \in Seq(Nat)
  BY EmptyOK DEF TypeOK, Held
<1>2. rd.fifo \in Seq(Nat) /\ sent \in Seq(Nat)
  BY DEF TypeOK, HandleOK
<1> QED BY <1>1, <1>2 DEF Held

\* A step that does not touch the bytes, nor who is sending.
LEMMA SyncStays ==
  ASSUME UNCHANGED <<sent, chunk, written>>, rd'.fifo = rd.fifo, rd'.threadId = rd.threadId,
         \A t \in Player : pc'[t] = "send" <=> pc[t] = "send", Sync
  PROVE  Sync'
<1>1. Held' = Held
  BY DEF Held
<1> QED BY <1>1 DEF Sync

\* A step of the application that leaves the bytes alone.
LEMMA OrderAppMoves ==
  ASSUME TypeOK, OrderInv, NEW l, Goto(App, l),
         UNCHANGED <<sent, chunk, written>>, rd'.fifo = rd.fifo, rd'.threadId = rd.threadId,
         rd'.thread_active => rd.thread_active,
         "exec" \in Calls /\ Connected' /\ ~Stopping' /\ l # "handshake" =>
            Connected /\ ~Stopping /\ pc[App] # "handshake"
  PROVE  OrderInv'
<1>1. pc'[App] = l /\ \A t \in Player : pc'[t] = pc[t]
  BY AppPc DEF TypeOK
<1>2. Sync => Sync'
  BY <1>1, SyncStays
<1>3. \A t \in Player : Serves(t)' => Serves(t)
  BY <1>1 DEF Serves
<1> QED BY <1>1, <1>2, <1>3 DEF OrderInv

\* A step of a playback thread that leaves them alone.
LEMMA OrderPlayerMoves ==
  ASSUME TypeOK, OrderInv, NEW t \in Player, NEW l, Goto(t, l),
         UNCHANGED <<sent, chunk, written, app>>, rd'.fifo = rd.fifo, rd'.threadId = rd.threadId,
         rd'.thread_active => rd.thread_active, Connected' => Connected,
         pc[t] # "send" /\ l # "send",
         l \in BusyLabels \ FailLabels /\ (rd.thread_active \/ l = "read") => Serves(t)
  PROVE  OrderInv'
<1>1. pc'[t] = l /\ pc'[App] = pc[App] /\ \A u \in Player : u # t => pc'[u] = pc[u]
  BY PlayerPc DEF TypeOK
<1>2. Sync => Sync'
  BY <1>1, SyncStays
<1>3. \A u \in Player : Serves(u)' => Serves(u)
  BY <1>1 DEF Serves
<1>4. Stopping' <=> Stopping
  BY <1>1 DEF Stopping
<1> QED BY <1>1, <1>2, <1>3, <1>4 DEF OrderInv

\* Without a thread on the connection nobody serves it and nothing is held.
LEMMA IdleFacts ==
  ASSUME TypeOK, \A t \in Player : pc[t] \notin LiveLabels
  PROVE  Held = << >> /\ \A t \in Player : ~Serves(t)
<1>1. \A t \in Player : pc[t] # "send"
  BY DEF LiveLabels
<1> QED BY <1>1, HeldFacts DEF Serves, LiveLabels, BusyLabels, FailLabels

\* rsnd_create_connection: a new connection starts with an empty stream.
LEMMA SetupOrder ==
  TypeOK /\ TypeOK' /\ ConnInv /\ OrderInv
    /\ (rsnd_connect_server \/ AlreadyConnected \/ Handshake \/ rsnd_start_thread \/ Ready)
      => OrderInv'
<1> SUFFICES ASSUME TypeOK, TypeOK', ConnInv, OrderInv,
                    \/ rsnd_connect_server \/ AlreadyConnected \/ Handshake
                    \/ rsnd_start_thread \/ Ready
             PROVE  OrderInv'
  OBVIOUS
<1>1. CASE rsnd_connect_server
  <2>1. rd.socket = -1 /\ pc[App] = "connect" /\ UNCHANGED <<chunk, written>>
    <3>1. rd.socket \in Fd \cup {-1} /\ \A fd \in Fd : ~(fd <= 0)
      BY DEF TypeOK, HandleOK, Fd
    <3> QED BY <1>1, <3>1 DEF rsnd_connect_server, threads
  <2>2. \A t \in Player : pc[t] \notin LiveLabels
    BY <2>1 DEF ConnInv, LiveInv, Connected
  <2>3. \/ sent' = << >> /\ Goto(App, "handshake")
        \/ UNCHANGED sent /\ EnterStop
    BY <1>1 DEF rsnd_connect_server
  <2>4. \A t \in Player : pc'[t] = pc[t]
    BY <2>3, AppPc DEF EnterStop, TypeOK
  <2>5. \A t \in Player : ~Serves(t)'
    BY <2>2, <2>4 DEF Serves, LiveLabels, BusyLabels, FailLabels
  <2>6. CASE sent' = << >> /\ Goto(App, "handshake")
    <3>1. pc'[App] = "handshake" /\ Len(sent') = 0
      BY <2>6, AppPc DEF TypeOK
    <3> QED BY <2>5, <3>1 DEF OrderInv
  <2>7. CASE UNCHANGED sent /\ EnterStop
    <3>1. pc'[App] = "stop_thread" /\ app'.call = "stop"
      BY <2>7, AppPc DEF EnterStop, TypeOK, AppOK
    <3>2. Stopping'
      BY <3>1 DEF Stopping
    <3> QED BY <2>5, <2>7, <3>2 DEF OrderInv
  <2> QED BY <2>3, <2>6, <2>7
<1>2. CASE AlreadyConnected
  <2>1. /\ pc[App] = "connect" /\ UNCHANGED <<rd, sent, chunk, written>>
        /\ \E l \in AppLabels : Goto(App, l)
    BY <1>2 DEF AlreadyConnected, Return, AppLabels, network, threads
  <2>2. ~Stopping /\ Connected' = Connected
    BY <2>1 DEF Stopping, Connected
  <2> QED BY <2>1, <2>2, OrderAppMoves
<1>3. CASE Handshake
  <2>1. pc[App] = "handshake" /\ UNCHANGED <<sent, chunk>>
    BY <1>3 DEF Handshake, network, threads
  <2>2. sent = << >> /\ \A t \in Player : pc[t] \notin LiveLabels
    BY <2>1 DEF ConnInv, SetupInv
  <2>3. CASE EnterStop /\ UNCHANGED <<rd, written>>
    <3>1. pc'[App] = "stop_thread" /\ app'.call = "stop"
      BY <2>3, AppPc DEF EnterStop, TypeOK, AppOK
    <3>2. Stopping'
      BY <3>1 DEF Stopping
    <3> QED BY <2>1, <2>3, <3>2, OrderAppMoves DEF EnterStop
  <2>4. CASE rd' = [rd EXCEPT !.fifo = << >>] /\ written' = 0 /\ Goto(App, "start_thread")
    <3>1. \A t \in Player : pc'[t] = pc[t]
      BY <2>4, AppPc DEF TypeOK
    <3>2. rd'.fifo = << >> /\ sent' = << >>
      BY <2>1, <2>2, <2>4 DEF TypeOK, HandleOK
    <3>3. Held' = << >>
      BY <2>2, <3>1, HeldFacts DEF Held, LiveLabels
    <3>4. Len(sent') = 0 /\ Len(rd'.fifo) = 0 /\ Len(Held') = 0
      BY <3>2, <3>3
    <3> QED BY <2>4, <3>4 DEF OrderInv, Sync
  <2> QED BY <1>3, <2>3, <2>4 DEF Handshake
<1>4. CASE rsnd_start_thread
  <2>1. pc[App] = "start_thread" /\ UNCHANGED <<sent, chunk, written>>
    BY <1>4 DEF rsnd_start_thread, network, threads
  <2>2. sent = << >> /\ rd.fifo = << >> /\ written = 0 /\ \A t \in Player : pc[t] \notin LiveLabels
    BY <2>1 DEF ConnInv, SetupInv
  <2>3. rd'.fifo = rd.fifo
    BY <1>4 DEF rsnd_start_thread, StartThread, TypeOK, HandleOK
  <2>4. \A t \in Player : pc'[t] # "send"
    <3>1. CASE Goto(App, "ready")
      BY <2>2, <3>1, AppPc DEF TypeOK, LiveLabels
    <3>2. CASE \E t \in Spare : pc' = [pc EXCEPT ![App] = "ready", ![t] = "run"]
      BY <2>2, <3>2, ThreadFacts DEF TypeOK, PcOK, Spare, LiveLabels
    <3> QED BY <1>4, <3>1, <3>2 DEF rsnd_start_thread, StartThread
  <2>5. Held' = << >>
    BY <2>4 DEF Held
  <2>6. Len(sent') = 0 /\ Len(rd'.fifo) = 0 /\ Len(Held') = 0
    BY <2>1, <2>2, <2>3, <2>5
  <2> QED BY <2>1, <2>2, <2>6 DEF OrderInv, Sync
<1>5. CASE Ready
  <2>1. /\ pc[App] = "ready" /\ UNCHANGED <<sent, chunk, written>>
        /\ rd'.fifo = rd.fifo /\ rd'.threadId = rd.threadId /\ rd'.thread_active = rd.thread_active
        /\ rd'.socket = rd.socket /\ \E l \in AppLabels : Goto(App, l)
    BY <1>5 DEF Ready, Return, AppLabels, network, threads, TypeOK, HandleOK
  <2>2. ~Stopping /\ Connected' = Connected
    BY <2>1 DEF Stopping, Connected
  <2> QED BY <2>1, <2>2, OrderAppMoves
<1> QED BY <1>1, <1>2, <1>3, <1>4, <1>5

\* rsnd_fill_buffer puts the next bytes of the stream behind the others.
LEMMA FillOrder == TypeOK /\ FitInv /\ OrderInv /\ FillWrite => OrderInv'
<1> SUFFICES ASSUME TypeOK, FitInv, OrderInv, FillWrite PROVE OrderInv'
  OBVIOUS
<1>1. write_size \in Nat /\ write_avail \in Int /\ written \in Nat
  BY WriteSizeFacts DEF TypeOK
<1> DEFINE more == Bytes(written + 1, written + write_size)
<1>2. /\ pc[App] = "fill_write" /\ rd' = [rd EXCEPT !.fifo = @ \o more]
      /\ written' = written + write_size /\ Goto(App, "fill_signal")
      /\ UNCHANGED <<app, chunk, sent>>
  BY <1>1 DEF FillWrite, FitInv, network, threads
<1>3. more \in Seq(Nat) /\ Len(more) = write_size /\ \A i \in 1..write_size : more[i] = written + i
  BY <1>1, BytesFacts
<1>4. /\ rd'.fifo = rd.fifo \o more /\ rd'.threadId = rd.threadId
      /\ rd'.thread_active = rd.thread_active /\ rd'.socket = rd.socket
  BY <1>2 DEF TypeOK, HandleOK
<1> HIDE DEF more
<1>5. pc'[App] = "fill_signal" /\ \A t \in Player : pc'[t] = pc[t]
  BY <1>2, AppPc DEF TypeOK
<1>6. Held' = Held /\ (Connected' <=> Connected) /\ ~Stopping
  BY <1>2, <1>4, <1>5 DEF Held, Connected, Stopping
<1>7. Len(Held) \in Nat /\ Len(sent) \in Nat /\ Len(rd.fifo) \in Nat
  BY HeldFacts
<1>8. /\ Len(rd'.fifo) = Len(rd.fifo) + write_size
      /\ \A i \in 1..Len(rd.fifo) : rd'.fifo[i] = rd.fifo[i]
      /\ \A i \in 1..write_size : rd'.fifo[Len(rd.fifo) + i] = more[i]
  <2>1. rd.fifo \in Seq(Nat)
    BY HeldFacts
  <2>2. /\ Len(rd.fifo \o more) = Len(rd.fifo) + Len(more)
        /\ \A i \in 1..Len(rd.fifo) : (rd.fifo \o more)[i] = rd.fifo[i]
        /\ \A i \in 1..Len(more) : (rd.fifo \o more)[Len(rd.fifo) + i] = more[i]
    BY <1>3, <2>1, JoinFacts
  <2> QED BY <1>3, <1>4, <2>2
<1>9. ASSUME Sync PROVE Sync'
  <2>1. written' = Len(sent) + Len(Held) + Len(rd'.fifo)
    <3>1. written = Len(sent) + Len(Held) + Len(rd.fifo)
      BY <1>9 DEF Sync
    <3>2. written' = written + write_size /\ Len(rd'.fifo) = Len(rd.fifo) + write_size
      BY <1>2, <1>8
    <3> DEFINE a == Len(sent)
               b == Len(Held)
               c == Len(rd.fifo)
               d == Len(rd'.fifo)
               n == write_size
    <3>3. /\ a \in Nat /\ b \in Nat /\ c \in Nat /\ n \in Nat
          /\ written = a + b + c /\ written' = written + n /\ d = c + n
      BY <1>1, <1>7, <3>1, <3>2
    <3> HIDE DEF a, b, c, d, n
    <3>4. written' = a + b + d
      BY <3>3
    <3> QED BY <3>4 DEF a, b, d
  <2>2. ASSUME NEW i \in 1..Len(rd'.fifo) PROVE rd'.fifo[i] = Len(sent) + Len(Held) + i
    <3>1. CASE i \in 1..Len(rd.fifo)
      BY <1>8, <1>9, <3>1 DEF Sync
    <3>2. CASE i \notin 1..Len(rd.fifo)
      <4> DEFINE k == i - Len(rd.fifo)
      <4>1. k \in 1..write_size /\ Len(rd.fifo) + k = i
        BY <1>1, <1>7, <1>8, <3>2
      <4> HIDE DEF k
      <4>2. rd'.fifo[i] = written + k
        BY <1>3, <1>8, <4>1
      <4>3. written = Len(sent) + Len(Held) + Len(rd.fifo)
        BY <1>9 DEF Sync
      <4> DEFINE a == Len(sent)
                 b == Len(Held)
                 c == Len(rd.fifo)
                 byte == rd'.fifo[i]
      <4>4. /\ a \in Nat /\ b \in Nat /\ c \in Nat /\ k \in Nat
            /\ written = a + b + c /\ byte = written + k /\ c + k = i
        BY <1>1, <1>7, <4>1, <4>2, <4>3
      <4> HIDE DEF a, b, c, byte
      <4>5. byte = a + b + i
        BY <4>4
      <4> QED BY <4>5 DEF a, b, byte
    <3> QED BY <3>1, <3>2
  <2> QED BY <1>2, <1>6, <1>9, <2>1, <2>2 DEF Sync
<1>10. \A t \in Player : Serves(t)' => Serves(t)
  BY <1>4, <1>5 DEF Serves
<1> QED BY <1>2, <1>5, <1>6, <1>9, <1>10 DEF OrderInv

\* The flush of rsd_exec sends all that the stopped thread has left.
LEMMA FlushOrder ==
  Calm /\ TypeOK /\ OneInv /\ ConnInv /\ OrderInv /\ ExecFlush => OrderInv'
<1> SUFFICES ASSUME Calm, TypeOK, OneInv, ConnInv, OrderInv, ExecFlush PROVE OrderInv'
  OBVIOUS
<1>1. pc[App] = "exec_flush" /\ app.call = "exec" /\ Connected /\ app.fd = rd.socket
  BY DEF ExecFlush, ConnInv, ExecInv, ExecLabels, CtlGiven, FdTaken
<1>2. "exec" \in Calls /\ ~Stopping /\ link = "up" /\ rd.socket \in open
  BY <1>1, ExecFacts
<1>3. ~SendFails(app.fd, rd.fifo)
  BY <1>1, <1>2, CalmSends
<1>4. /\ rd' = [rd EXCEPT !.fifo = << >>] /\ sent' = sent \o rd.fifo /\ Goto(App, "done")
      /\ UNCHANGED <<app, chunk, written>>
  BY <1>3 DEF ExecFlush, threads
<1>5. pc'[App] = "done" /\ \A t \in Player : pc'[t] = pc[t]
  BY <1>4, AppPc DEF TypeOK
<1>6. \A t \in Player : pc[t] \notin BusyLabels
  BY <1>1 DEF OneInv, QuietLabels
<1>7. Held = << >> /\ Held' = << >> /\ \A t \in Player : ~Serves(t)'
  BY <1>5, <1>6, HeldFacts DEF Held, Serves, BusyLabels
<1>8. Sync
  BY <1>1, <1>2 DEF OrderInv
<1>9. Len(Held) = 0 /\ Len(sent) \in Nat /\ Len(rd.fifo) \in Nat /\ rd.fifo \in Seq(Nat) /\ sent \in Seq(Nat)
  BY <1>7, HeldFacts DEF TypeOK
<1>10. \A i \in 1..Len(rd.fifo) : rd.fifo[i] = Len(sent) + i
  BY <1>8, <1>9 DEF Sync
<1>11. \A i \in 1..Len(sent) : sent[i] = i
  BY DEF OrderInv
<1>12. Len(sent') = Len(sent) + Len(rd.fifo) /\ \A i \in 1..Len(sent') : sent'[i] = i
  BY <1>4, <1>9, <1>10, <1>11, ContinuesStream
<1>13. rd'.fifo = << >>
  BY <1>4 DEF TypeOK, HandleOK
<1>14. Len(rd'.fifo) = 0 /\ Len(Held') = 0
  BY <1>7, <1>13
<1>15. written = Len(sent) + Len(rd.fifo)
  BY <1>8, <1>9 DEF Sync
<1>16. Sync'
  BY <1>4, <1>9, <1>12, <1>14, <1>15 DEF Sync
<1> QED BY <1>7, <1>12, <1>16 DEF OrderInv

\* The other steps of the application.
LEMMA AppOrder ==
  Calm /\ TypeOK /\ TypeOK' /\ OneInv /\ FitInv /\ ConnInv /\ OrderInv /\ (AppCall \/ AppStep) => OrderInv'
<1> SUFFICES ASSUME Calm, TypeOK, TypeOK', OneInv, FitInv, ConnInv, OrderInv, AppCall \/ AppStep
             PROVE  OrderInv'
  OBVIOUS
<1>1. CASE AppCall
  <2>1. /\ pc[App] = "idle" /\ UNCHANGED <<rd, sent, chunk, written>>
        /\ \E l \in AppLabels : Goto(App, l)
    BY <1>1 DEF AppCall, rsd_start, rsd_write, rsd_stop, rsd_exec, rsd_free, EnterStop, Return,
       AppLabels, network, threads
  <2>2. ~Stopping /\ Connected' = Connected
    BY <2>1 DEF Stopping, Connected
  <2> QED BY <2>1, <2>2, OrderAppMoves
<1>2. CASE FillTestActive \/ FillCheckRoom \/ FillSleep \/ FillWake \/ FillSignal
  <2>1. /\ pc[App] \in FillLabels /\ UNCHANGED <<rd, sent, chunk, written>>
        /\ \E l \in AppLabels : Goto(App, l)
    BY <1>2 DEF FillTestActive, FillCheckRoom, FillSleep, FillWake, FillSignal, EnterStop, Return,
       AppLabels, FillLabels, network, threads
  <2>2. ~Stopping /\ Connected' = Connected /\ pc[App] # "handshake"
    BY <2>1 DEF Stopping, Connected, FillLabels
  <2> QED BY <2>1, <2>2, OrderAppMoves
<1>3. CASE StopTestActive \/ StopFlag \/ Join
  <2>1. /\ pc[App] \in {"stop_thread", "stop_flag", "join"} /\ UNCHANGED <<app, sent, chunk, written>>
        /\ rd'.fifo = rd.fifo /\ rd'.threadId = rd.threadId /\ rd'.socket = rd.socket
        /\ (rd'.thread_active => rd.thread_active)
    BY <1>3 DEF StopTestActive, StopFlag, Join, network, threads, TypeOK, HandleOK
  <2>2. PICK l \in {"stop_flag", "join"} \cup {AfterStopThread} : Goto(App, l)
    BY <1>3 DEF StopTestActive, StopFlag, Join
  <2>3. pc'[App] = l
    BY <2>2, AppPc DEF TypeOK
  <2>4. (Stopping => Stopping') /\ Connected' = Connected
    BY <2>1, <2>2, <2>3 DEF Stopping, AfterStopThread, Connected
  <2> QED BY <2>1, <2>2, <2>4, OrderAppMoves
<1>4. CASE ResetClose(App) \/ ResetConnection(App) \/ ResetActive(App) \/ ResetSignal(App)
  <2>1. /\ pc[App] \in {"reset_close", "reset_lock", "reset_rest", "reset_signal"}
        /\ UNCHANGED <<sent, chunk, written>>
        /\ rd'.fifo = rd.fifo /\ rd'.threadId = rd.threadId
        /\ (rd'.thread_active => rd.thread_active) /\ (Connected' => Connected)
    BY <1>4 DEF ResetClose, ResetConnection, ResetActive, ResetSignal, network, threads, TypeOK,
       HandleOK, Connected
  <2>2. PICK l \in {"reset_lock", "reset_rest", "reset_signal", "idle"} :
          Goto(App, l) /\ (ResetClose(App) => l = "reset_lock")
    BY <1>4 DEF ResetClose, ResetConnection, ResetActive, ResetSignal, Return
  <2>3. pc'[App] = l
    BY <2>2, AppPc DEF TypeOK
  <2>4. CASE ResetClose(App)
    <3>1. Stopping => Stopping'
      BY <2>2, <2>3, <2>4 DEF ResetClose, Stopping
    <3> QED BY <2>1, <2>2, <3>1, OrderAppMoves
  <2>5. CASE ResetConnection(App)
    <3>1. ~Connected'
      BY <2>5 DEF ResetConnection, Connected, TypeOK, HandleOK
    <3> QED BY <2>1, <2>2, <3>1, OrderAppMoves
  <2>6. CASE ResetActive(App) \/ ResetSignal(App)
    <3>1. ~Stopping
      BY <2>6 DEF ResetActive, ResetSignal, Stopping
    <3> QED BY <2>1, <2>2, <3>1, OrderAppMoves
  <2> QED BY <1>4, <2>4, <2>5, <2>6
<1>5. CASE ExecCloseRequest \/ ExecCloseCtl \/ ExecTakeFd \/ ExecFlags
  <2>1. /\ pc[App] \in ExecLabels /\ UNCHANGED <<rd, sent, chunk, written>>
        /\ \E l \in AppLabels : Goto(App, l)
    BY <1>5 DEF ExecCloseRequest, ExecCloseCtl, ExecTakeFd, ExecFlags, ExecFails,
       AppLabels, ExecLabels, network, threads
  <2>2. ~Stopping /\ Connected' = Connected /\ pc[App] # "handshake"
    BY <2>1 DEF Stopping, Connected, ExecLabels
  <2> QED BY <2>1, <2>2, OrderAppMoves
<1>6. CASE ExecRestartThread
  BY <1>6 DEF ExecRestartThread, ConnInv, ExecInv
<1> QED BY <1>1, <1>2, <1>3, <1>4, <1>5, <1>6, SetupOrder, FillOrder, FlushOrder DEF AppStep

\* A playback thread takes the next bytes from the FIFO and sends them; a send
\* that fails has sent a part of them and is the thread's last.
LEMMA PlayerOrder ==
  ASSUME NEW t \in Player
  PROVE  TypeOK /\ OneInv /\ ConnInv /\ ConnInv' /\ OrderInv /\ rsnd_thread(t) => OrderInv'
<1> SUFFICES ASSUME TypeOK, OneInv, ConnInv, ConnInv', OrderInv, rsnd_thread(t) PROVE OrderInv'
  OBVIOUS
<1>1. /\ t # App
      /\ pc[t] \in BusyLabels => t = rd.threadId /\ \A u \in Player : pc[u] \in BusyLabels => u = t
  BY ThreadFacts DEF OneInv
<1>2. Len(Held) \in Nat /\ Len(sent) \in Nat /\ Len(rd.fifo) \in Nat
  BY HeldFacts
<1>0. Held \in Seq(Nat) /\ rd.fifo \in Seq(Nat) /\ sent \in Seq(Nat)
  BY HeldFacts DEF TypeOK
<1>3. CASE ReadChunk(t)
  <2>1. pc[t] = "read" /\ Len(rd.fifo) >= ChunkSize
    BY <1>3 DEF ReadChunk, ConnInv, LiveInv
  <2>2. /\ Goto(t, "send") /\ rd' = [rd EXCEPT !.fifo = Drop(@, ChunkSize)]
        /\ chunk' = [chunk EXCEPT ![t] = Prefix(rd.fifo, ChunkSize)]
        /\ UNCHANGED <<app, sent, written>>
    BY <1>3, <2>1 DEF ReadChunk, read_avail, network
  <2>3. /\ rd'.socket = rd.socket /\ rd'.threadId = rd.threadId
        /\ rd'.thread_active = rd.thread_active /\ rd'.fifo = Drop(rd.fifo, ChunkSize)
    BY <2>2 DEF TypeOK, HandleOK
  <2>4. pc'[t] = "send" /\ pc'[App] = pc[App] /\ \A u \in Player : u # t => pc'[u] = pc[u]
    BY <2>2, PlayerPc DEF TypeOK
  <2>5. t = rd.threadId /\ Serves(t)
    BY <1>1, <2>1 DEF Serves, BusyLabels, FailLabels
  <2>6. Held = << >> /\ Held' = Prefix(rd.fifo, ChunkSize)
    BY <2>1, <2>2, <2>3, <2>4, <2>5 DEF Held, TypeOK
  <2>7. Len(Held) = 0 /\ ChunkSize \in 0..Len(rd.fifo)
    BY <1>2, <2>1, <2>6
  <2>8. Sync
    BY <2>5 DEF OrderInv
  <2>9. /\ Len(Held') = ChunkSize /\ Len(rd'.fifo) = Len(rd.fifo) - ChunkSize
        /\ \A i \in 1..ChunkSize : Held'[i] = rd.fifo[i]
        /\ \A i \in 1..(Len(rd.fifo) - ChunkSize) : rd'.fifo[i] = rd.fifo[ChunkSize + i]
    <3> DEFINE f == rd.fifo
    <3>1. f \in Seq(Nat) /\ ChunkSize \in 0..Len(f)
      BY <1>0, <2>7
    <3> HIDE DEF f
    <3>2. /\ Len(Prefix(f, ChunkSize)) = ChunkSize
          /\ \A i \in 1..ChunkSize : Prefix(f, ChunkSize)[i] = f[i]
          /\ Len(Drop(f, ChunkSize)) = Len(f) - ChunkSize
          /\ \A i \in 1..(Len(f) - ChunkSize) : Drop(f, ChunkSize)[i] = f[ChunkSize + i]
      BY <3>1, CutFacts
    <3> QED BY <2>3, <2>6, <3>2 DEF f
  <2>10. \A i \in 1..Len(rd.fifo) : rd.fifo[i] = Len(sent) + i
    <3>1. \A i \in 1..Len(rd.fifo) : rd.fifo[i] = Len(sent) + Len(Held) + i
      BY <2>8 DEF Sync
    <3> QED BY <1>2, <2>7, <3>1
  <2>11. \A i \in 1..Len(Held') : Held'[i] = Len(sent) + i
    <3>1. \A i \in 1..ChunkSize : Held'[i] = rd.fifo[i] /\ i \in 1..Len(rd.fifo)
      BY <1>2, <2>1, <2>9
    <3>2. Len(Held') = ChunkSize
      BY <2>9
    <3> QED BY <2>10, <3>1, <3>2
  <2>12. ASSUME NEW i \in 1..Len(rd'.fifo) PROVE rd'.fifo[i] = Len(sent) + Len(Held') + i
    <3>1. ChunkSize + i \in 1..Len(rd.fifo) /\ i \in 1..(Len(rd.fifo) - ChunkSize)
      BY <1>2, <2>1, <2>9
    <3>2. rd'.fifo[i] = Len(sent) + (ChunkSize + i)
      BY <2>9, <2>10, <3>1
    <3> QED BY <1>2, <2>9, <3>1, <3>2
  <2>13. written = Len(sent) + Len(Held') + Len(rd'.fifo)
    <3>1. written = Len(sent) + Len(Held) + Len(rd.fifo)
      BY <2>8 DEF Sync
    <3>2. Len(Held') = ChunkSize /\ Len(rd'.fifo) = Len(rd.fifo) - ChunkSize
      BY <2>9
    <3> DEFINE a == Len(sent)
               b == Len(Held')
               c == Len(rd.fifo)
               d == Len(rd'.fifo)
    <3>3. /\ a \in Nat /\ c \in Nat /\ ChunkSize \in Nat
          /\ b = ChunkSize /\ d = c - ChunkSize
      BY <1>2, <2>7, <3>2
    <3>4. written = a + c
      BY <1>2, <2>7, <3>1
    <3> HIDE DEF a, b, c, d
    <3>5. written = a + b + d
      BY <3>3, <3>4
    <3> QED BY <3>5 DEF a, b, d
  <2>14. Sync'
    BY <2>2, <2>11, <2>12, <2>13 DEF Sync
  <2> QED BY <2>2, <2>14 DEF OrderInv
<1>4. CASE SendChunk(t)
  <2>1. /\ pc[t] = "send" /\ chunk' = [chunk EXCEPT ![t] = << >>] /\ UNCHANGED <<rd, app, written>>
    BY <1>4 DEF SendChunk
  <2>2. t = rd.threadId /\ Serves(t)
    BY <1>1, <2>1 DEF Serves, BusyLabels, FailLabels
  <2>3. Held = chunk[t] /\ Sync
    BY <2>1, <2>2 DEF Held, OrderInv
  <2>4. \A i \in 1..Len(sent) : sent[i] = i
    BY DEF OrderInv
  <2>5. \A i \in 1..Len(Held) : Held[i] = Len(sent) + i
    BY <2>3 DEF Sync
  <2>6. CASE sent' = sent \o chunk[t] /\ Goto(t, "sent")
    <3>1. pc'[t] = "sent" /\ pc'[App] = pc[App] /\ \A u \in Player : u # t => pc'[u] = pc[u]
      BY <2>6, PlayerPc DEF TypeOK
    <3>2. Held' = << >>
      BY <2>1, <2>2, <3>1 DEF Held
    <3>3. Len(Held') = 0
      BY <3>2
    <3>4. Len(sent') = Len(sent) + Len(Held) /\ \A i \in 1..Len(sent') : sent'[i] = i
      BY <1>0, <2>3, <2>4, <2>5, <2>6, ContinuesStream
    <3>5. written = Len(sent) + Len(Held) + Len(rd.fifo)
      BY <2>3 DEF Sync
    <3>6. written = Len(sent') + Len(Held') + Len(rd.fifo)
      BY <1>2, <3>3, <3>4, <3>5
    <3>7. \A i \in 1..Len(rd.fifo) : rd.fifo[i] = Len(sent') + Len(Held') + i
      <4>1. \A i \in 1..Len(rd.fifo) : rd.fifo[i] = Len(sent) + Len(Held) + i
        BY <2>3 DEF Sync
      <4> QED BY <1>2, <3>3, <3>4, <4>1
    <3>8. Sync'
      BY <2>1, <3>3, <3>6, <3>7 DEF Sync
    <3> QED BY <3>4, <3>8 DEF OrderInv
  <2>7. CASE SendFails(rd.socket, chunk[t]) /\ Goto(t, "failed")
    <3>1. pc'[t] = "failed" /\ pc'[App] = pc[App] /\ \A u \in Player : u # t => pc'[u] = pc[u]
      BY <2>7, PlayerPc DEF TypeOK
    <3>2. PICK n \in 0..(Len(Held) - 1) : sent' = sent \o Prefix(Held, n)
      BY <2>3, <2>7 DEF SendFails
    <3> DEFINE part == Prefix(Held, n)
    <3>3. n \in 0..Len(Held)
      BY <1>2
    <3>4. part \in Seq(Nat) /\ Len(part) = n /\ \A i \in 1..n : part[i] = Held[i]
      BY <1>0, <3>3, CutFacts
    <3> HIDE DEF part
    <3>5. \A i \in 1..Len(part) : part[i] = Len(sent) + i
      <4>1. \A i \in 1..n : i \in 1..Len(Held)
        BY <1>2, <3>3
      <4> QED BY <2>5, <3>4, <4>1
    <3>6. sent' = sent \o part
      BY <3>2 DEF part
    <3>7. \A i \in 1..Len(sent') : sent'[i] = i
      BY <1>0, <2>4, <3>4, <3>5, <3>6, ContinuesStream
    <3>8. \A u \in Player : ~Serves(u)'
      BY <1>1, <2>1, <3>1 DEF Serves, BusyLabels, FailLabels
    <3>9. "exec" \notin Calls
      BY <3>1 DEF ConnInv, ExecInv, FailLabels
    <3> QED BY <3>7, <3>8, <3>9 DEF OrderInv
  <2> QED BY <1>4, <2>6, <2>7 DEF SendChunk
<1>5. CASE ResetConnection(t) \/ ResetActive(t)
  <2>1. /\ UNCHANGED <<app, sent, chunk, written>> /\ rd'.fifo = rd.fifo /\ rd'.threadId = rd.threadId
        /\ (rd'.thread_active => rd.thread_active) /\ (Connected' => Connected)
        /\ pc[t] # "send"
    BY <1>5 DEF ResetConnection, ResetActive, network, threads, TypeOK, HandleOK, Connected
  <2>2. \E l \in {"reset_rest", "reset_signal"} : Goto(t, l)
    BY <1>5 DEF ResetConnection, ResetActive
  <2> QED BY <2>1, <2>2, OrderPlayerMoves DEF BusyLabels, FailLabels
<1>6. CASE \/ LoopTestCancel(t) \/ CheckChunk(t) \/ ReadTestCancel(t) \/ FailTestCancel(t)
           \/ SentSignal(t) \/ ResetClose(t) \/ ResetSignal(t) \/ LateSignal(t) \/ DetachAndExit(t)
           \/ OuterTestActive(t) \/ SleepSignal(t) \/ SleepWait(t) \/ Wake(t) \/ Quit(t)
  <2>1. UNCHANGED <<rd, app, sent, chunk, written>>
    BY <1>1, <1>6 DEF LoopTestCancel, CheckChunk, ReadTestCancel, FailTestCancel, TestCancel,
       SentSignal, ResetClose, ResetSignal, LateSignal, DetachAndExit, OuterTestActive, SleepSignal,
       SleepWait, Wake, Quit, network, threads
  <2>2. Connected' = Connected
    BY <2>1 DEF Connected
  <2>3. \E l \in PlayerLabels :
          /\ Goto(t, l) /\ pc[t] # "send" /\ l # "send"
          /\ (l \in BusyLabels \ FailLabels /\ (rd.thread_active \/ l = "read") => Serves(t))
    <3>1. CASE LoopTestCancel(t) \/ CheckChunk(t) \/ ReadTestCancel(t) \/ FailTestCancel(t)
      BY <3>1 DEF LoopTestCancel, CheckChunk, ReadTestCancel, FailTestCancel, TestCancel,
         PlayerLabels, Serves, BusyLabels, FailLabels
    <3>2. CASE \/ SentSignal(t) \/ ResetClose(t) \/ ResetSignal(t) \/ LateSignal(t) \/ DetachAndExit(t)
      BY <1>1, <3>2 DEF SentSignal, ResetClose, ResetSignal, LateSignal, DetachAndExit,
         PlayerLabels, Serves, BusyLabels, FailLabels
    <3>3. CASE OuterTestActive(t) \/ SleepSignal(t) \/ SleepWait(t) \/ Wake(t) \/ Quit(t)
      BY <3>3 DEF OuterTestActive, SleepSignal, SleepWait, Wake, Quit,
         PlayerLabels, Serves, BusyLabels, FailLabels
    <3> QED BY <1>6, <3>1, <3>2, <3>3
  <2> QED BY <2>1, <2>2, <2>3, OrderPlayerMoves
<1> QED BY <1>3, <1>4, <1>5, <1>6 DEF rsnd_thread

\* The invariant, in every behaviour.
LEMMA OrderHolds ==
  ASSUME Calm
  PROVE  Spec => []OrderInv
<1>1. Init => OrderInv
  <2> SUFFICES ASSUME Init PROVE OrderInv
    OBVIOUS
  <2>1. Len(sent) = 0 /\ rd.socket = -1 /\ \A t \in Player : pc[t] = "none"
    BY ThreadFacts DEF Init
  <2> QED BY <2>1 DEF OrderInv, Serves, BusyLabels, Connected
<1>2. TypeOK /\ TypeOK' /\ OneInv /\ FitInv /\ ConnInv /\ ConnInv' /\ OrderInv /\ [Next]_vars
        => OrderInv'
  <2> SUFFICES ASSUME TypeOK, TypeOK', OneInv, FitInv, ConnInv, ConnInv', OrderInv, [Next]_vars
               PROVE  OrderInv'
    OBVIOUS
  <2>1. CASE LinkBreaks \/ SpuriousWakeup \/ UNCHANGED vars
    <3>1. UNCHANGED <<rd, pc, app, sent, chunk, written>>
      BY <2>1 DEF LinkBreaks, SpuriousWakeup, vars, network, threads
    <3>2. /\ Held' = Held /\ (Connected' <=> Connected) /\ (Stopping' <=> Stopping)
          /\ \A t \in Player : Serves(t)' <=> Serves(t)
      BY <3>1 DEF Held, Connected, Stopping, Serves
    <3>3. Sync' <=> Sync
      BY <3>1, <3>2 DEF Sync
    <3> QED BY <3>1, <3>2, <3>3 DEF OrderInv
  <2> QED BY <2>1, AppOrder, PlayerOrder DEF Next, Finished
<1> QED BY <1>1, <1>2, TypeCorrect, OneHolds, FitHolds, ConnHolds, PTL DEF Spec

(***************************************************************************)
(* The network is given the bytes the application wrote, in their order and *)
(* without a gap, for every chunk, buffer and write size and through every  *)
(* failed send, stop and restart.                                           *)
(***************************************************************************)
THEOREM SentInOrderAlways == Calm => (Spec => []SentInOrder)
<1> SUFFICES ASSUME Calm PROVE Spec => []SentInOrder
  OBVIOUS
<1>1. TypeOK /\ OrderInv => SentInOrder
  BY InOrderFacts DEF TypeOK, OrderInv, SentInOrder
<1> QED BY <1>1, TypeCorrect, OrderHolds, PTL

(***************************************************************************)
(* When rsd_exec hands over the descriptor every byte written has been      *)
(* sent, the chunk the playback thread held when it was stopped included.   *)
(***************************************************************************)
THEOREM ExecHandsOverAll == Calm => (Spec => []ExecFlushesEverything)
<1> SUFFICES ASSUME Calm PROVE Spec => []ExecFlushesEverything
  OBVIOUS
<1>1. TypeOK /\ ConnInv /\ OrderInv => ExecFlushesEverything
  <2> SUFFICES ASSUME TypeOK, ConnInv, OrderInv, pc[App] = "done", app.call = "exec"
               PROVE  sent = Bytes(1, written)
    BY DEF ExecFlushesEverything
  <2>1. /\ "exec" \in Calls /\ Connected /\ ~Stopping /\ rd.fifo = << >>
        /\ \A t \in Player : pc[t] \notin BusyLabels
    BY DEF ConnInv, ExecInv, CtlGiven, Stopping
  <2>2. Sync
    BY <2>1 DEF OrderInv
  <2>3. Held = << >>
    BY <2>1, HeldFacts DEF BusyLabels
  <2>4. Len(Held) = 0 /\ Len(rd.fifo) = 0 /\ Len(sent) \in Nat
    BY <2>1, <2>3, HeldFacts
  <2>5. written = Len(sent)
    BY <2>2, <2>4 DEF Sync
  <2>6. sent = Bytes(1, Len(sent))
    BY InOrderFacts DEF TypeOK, OrderInv
  <2> QED BY <2>5, <2>6
<1> QED BY <1>1, TypeCorrect, ConnHolds, OrderHolds, PTL
=============================================================================
