------------------------------ MODULE OssEmul ------------------------------
(***************************************************************************)
(* The preload library of src/src/oss-emul/librsoundoss.c: it stands before *)
(* open, write, ioctl and close of a program, and turns the descriptors of  *)
(* /dev/dsp into streams of librsound.  One thread of the program uses the  *)
(* devices; another opens and closes ordinary files, and the playback       *)
(* threads of librsound close their sockets when the server goes away: all  *)
(* of them take their numbers from one descriptor table.                    *)
(*                                                                         *)
(* librsound appears as what LibRsound shows of it: rsd_start makes two     *)
(* sockets, rsd_write puts bytes into the FIFO and sleeps while it is full, *)
(* a playback thread takes them out or fails.  Audio parameters, the  *)
(* byte count of GETOPTR and descriptors that bypass the library (dup) are  *)
(* left out.  Standard output and error stay open and have no number here.  *)
(***************************************************************************)
EXTENDS Integers, FiniteSets

CONSTANTS
  FD_MAX,      \* slots of the table _rd
  MaxFd,       \* the highest descriptor number of the process
  BufferSize,  \* room in the FIFO of a stream
  WriteSizes,  \* sizes of the program's writes
  Refuse,      \* may the server be out of reach
  MaxFiles,    \* bound: ordinary files open at once
  MaxBreaks    \* bound: times the server goes away

ASSUME OssEmulAssumption ==
  /\ FD_MAX \in Nat \ {0} /\ MaxFd \in Nat /\ BufferSize \in Nat \ {0}
  /\ WriteSizes \subseteq Nat \ {0}
  /\ Refuse \in BOOLEAN
  /\ MaxFiles \in Nat /\ MaxBreaks \in Nat

Slot == 1..FD_MAX
Fd   == 0..MaxFd
NoFd == -1

VARIABLES
  desc,     \* the descriptor table of the process
  rd_fd,    \* _rd[i].fd and _rd[i].nonblock
  nonblock,
  handle,   \* _rd[i].rd: is it allocated, conn.socket, conn.ctl_socket, is there
            \* a FIFO, how full it is, the playback thread ("new" while there
            \* are sockets and no thread yet), which connection
  app,      \* the audio thread's call in progress
  devices,  \* slots of the devices the program has open
  asked,    \* those it asked to be non-blocking
  files,    \* numbers of the ordinary files it has open
  breaks,   \* times the server has gone away
  aborted   \* an assertion has failed, or a handle was freed twice

vars    == <<desc, rd_fd, nonblock, handle, app, devices, asked, files, breaks, aborted>>
table   == <<rd_fd, nonblock>>
program == <<devices, asked, files>>

-----------------------------------------------------------------------------
(* Helpers *)

Free == <<"free", 0, 0>>
File == <<"file", 0, 0>>
Pipe(i) == <<"pipe", i, 0>>
Sock(kind, i) == <<kind, i, handle[i].conn>>

Object == {Free, File} \cup ({"pipe", "data", "ctl"} \X Slot \X {0, 1})

FreeFds == {f \in Fd : desc[f] = Free}

LowestOf(S) == CHOOSE f \in S : \A g \in S : f <= g
Lowest      == LowestOf(FreeFds)
Second      == LowestOf(FreeFds \ {Lowest})

\* close() of a set of numbers, some of which may be -1 or not open.
Closing(S) == [f \in Fd |-> IF f \in S THEN Free ELSE desc[f]]

NoHandle == [alive |-> FALSE, socket |-> NoFd, ctl |-> NoFd, fifo |-> FALSE, level |-> 0,
             thread |-> "none", conn |-> 0]

Idle == [pc |-> "idle", i |-> 1, count |-> 0, todo |-> 0]

Goto(label)    == app' = [app EXCEPT !.pc = label]
Set(i, h)      == handle' = [handle EXCEPT ![i] = h]
Return         == app' = Idle
rsd_get_avail  == BufferSize - handle[app.i].level

\* fd2index: the slots whose fd is f (the code takes the first).
fd2index(f)    == {i \in Slot : rd_fd[i] = f}
get_vacant_fd  == {i \in Slot : rd_fd[i] = NoFd}

\* init_lib
Init ==
  /\ desc = [f \in Fd |-> IF f = 0 THEN File ELSE Free]
  /\ rd_fd = [i \in Slot |-> NoFd]
  /\ nonblock = [i \in Slot |-> FALSE]
  /\ handle = [i \in Slot |-> NoHandle]
  /\ app = Idle
  /\ devices = {} /\ asked = {} /\ files = {0} /\ breaks = 0 /\ aborted = FALSE

-----------------------------------------------------------------------------
(* open                                                                     *)

\* get_vacant_fd and rsd_init: the slot has a handle and no number yet.
open_generic ==
  /\ app.pc = "idle" /\ get_vacant_fd # {}
  /\ LET i == LowestOf(get_vacant_fd)
     IN  /\ Set(i, [NoHandle EXCEPT !.alive = TRUE])
         /\ app' = [Idle EXCEPT !.pc = "pipe", !.i = i]
  /\ UNCHANGED <<desc, table, program, breaks, aborted>>

\* pipe, whose read end is closed at once, and O_NONBLOCK.
MakePipe(nb) ==
  LET i == app.i
  IN
  /\ app.pc = "pipe" /\ Cardinality(FreeFds) >= 2
  /\ desc' = [desc EXCEPT ![Second] = Pipe(i)]
  /\ rd_fd' = [rd_fd EXCEPT ![i] = Second]
  /\ nonblock' = IF nb THEN [nonblock EXCEPT ![i] = TRUE] ELSE nonblock
  /\ asked' = IF nb THEN asked \cup {i} ELSE asked \ {i}
  /\ devices' = devices \cup {i}
  /\ Return
  /\ UNCHANGED <<handle, files, breaks, aborted>>

\* Without two free numbers pipe fails, and open goes to its label "error".
PipeFails ==
  /\ app.pc = "pipe" /\ Cardinality(FreeFds) < 2
  /\ Set(app.i, NoHandle)
  /\ rd_fd' = [rd_fd EXCEPT ![app.i] = NoFd]
  /\ nonblock' = [nonblock EXCEPT ![app.i] = FALSE]
  /\ Return
  /\ UNCHANGED <<desc, program, breaks, aborted>>

OpenSteps == PipeFails \/ \E nb \in BOOLEAN : MakePipe(nb)

-----------------------------------------------------------------------------
(* write                                                                    *)

write(i, count) ==
  /\ app.pc = "idle" /\ i \in devices
  /\ app' = [pc |-> "start", i |-> i, count |-> count, todo |-> count]
  /\ UNCHANGED <<desc, table, handle, program, breaks, aborted>>

\* start_rsd: a stream without a socket is started.
StreamIsOpen ==
  /\ app.pc = "start" /\ handle[app.i].socket # NoFd
  /\ Goto("dup2")
  /\ UNCHANGED <<desc, table, handle, program, breaks, aborted>>

\* rsnd_connect_server: two sockets, if there are two free numbers; rsd_stop
\* follows when there are not, or when the server has no address.
MakeSockets ==
  LET i == app.i
      c == IF desc[rd_fd[i]] = <<"data", i, 1>> THEN 0 ELSE 1
  IN
  /\ app.pc = "start" /\ handle[i].socket = NoFd
  /\ \/ /\ Cardinality(FreeFds) >= 2
        /\ desc' = [desc EXCEPT ![Lowest] = <<"data", i, c>>, ![Second] = <<"ctl", i, c>>]
        /\ Set(i, [handle[i] EXCEPT !.socket = Lowest, !.ctl = Second, !.thread = "new", !.conn = c])
        /\ Goto("connect")
     \/ /\ Cardinality(FreeFds) = 1
        /\ desc' = [desc EXCEPT ![Lowest] = <<"data", i, c>>]
        /\ Set(i, [handle[i] EXCEPT !.socket = Lowest, !.thread = "new", !.conn = c])
        /\ Goto("stop_start")
     \/ /\ FreeFds = {} \/ Refuse
        /\ Goto("stop_start")
        /\ UNCHANGED <<desc, handle>>
  /\ UNCHANGED <<table, program, breaks, aborted>>

\* The server answers, and there is a playback thread ...
rsd_start ==
  LET i == app.i
  IN
  /\ app.pc = "connect"
  /\ Set(i, [handle[i] EXCEPT !.fifo = TRUE, !.level = 0, !.thread = "on"])
  /\ Goto("dup2")
  /\ UNCHANGED <<desc, table, program, breaks, aborted>>

\* ... or rsnd_create_connection fails in one of its steps, and stops.
rsd_start_fails ==
  /\ app.pc = "connect" /\ Refuse
  /\ Goto("stop_start")
  /\ UNCHANGED <<desc, table, handle, program, breaks, aborted>>

\* Faulty variant: reroutes the first connection only.
Reroute_once ==
  LET i == app.i
      s == handle[i].socket
  IN
  /\ app.pc = "dup2"
  /\ IF s = NoFd \/ desc[s] = Free THEN UNCHANGED desc /\ Return
     ELSE /\ desc' = IF desc[rd_fd[i]] = Pipe(i) THEN [desc EXCEPT ![rd_fd[i]] = desc[s]] ELSE desc
          /\ Goto("avail")
  /\ UNCHANGED <<table, handle, program, breaks, aborted>>

\* dup2(rd->conn.socket, fd), whatever that number names by now.
Reroute ==
  LET i == app.i
      s == handle[i].socket
  IN
  /\ app.pc = "dup2"
  /\ IF s = NoFd \/ desc[s] = Free THEN UNCHANGED desc /\ Return
     ELSE desc' = [desc EXCEPT ![rd_fd[i]] = desc[s]] /\ Goto("avail")
  /\ UNCHANGED <<table, handle, program, breaks, aborted>>

\* Faulty variant: a non-blocking write is not cut to the room there is.
CutToAvail_whole ==
  /\ app.pc = "avail"
  /\ IF nonblock[app.i] /\ rsd_get_avail = 0 THEN Return ELSE Goto("rsd_write")
  /\ UNCHANGED <<desc, table, handle, program, breaks, aborted>>

\* A non-blocking write is cut to the room there is; none is EWOULDBLOCK.
CutToAvail ==
  LET n == IF nonblock[app.i] /\ rsd_get_avail < app.count THEN rsd_get_avail ELSE app.count
  IN
  /\ app.pc = "avail"
  /\ IF n = 0 THEN Return
     ELSE app' = [app EXCEPT !.pc = "rsd_write", !.count = n, !.todo = n]
  /\ UNCHANGED <<desc, table, handle, program, breaks, aborted>>

\* rsd_write goes on when there is room ...
rsd_write ==
  LET i == app.i
  IN
  /\ app.pc = "rsd_write" /\ app.todo > 0
  /\ handle[i].thread # "none" /\ handle[i].level < BufferSize
  /\ Set(i, [handle[i] EXCEPT !.level = @ + 1])
  /\ app' = [app EXCEPT !.todo = @ - 1]
  /\ UNCHANGED <<desc, table, program, breaks, aborted>>

\* ... fails when the playback thread has reset the stream ...
rsd_write_fails ==
  /\ app.pc = "rsd_write" /\ app.todo > 0
  /\ handle[app.i].thread = "none"
  /\ Goto("stop_write")
  /\ UNCHANGED <<desc, table, handle, program, breaks, aborted>>

\* ... and returns when all is in the FIFO.
WriteDone ==
  /\ app.pc = "rsd_write" /\ app.todo = 0
  /\ Return
  /\ UNCHANGED <<desc, table, handle, program, breaks, aborted>>

WriteSteps == StreamIsOpen \/ MakeSockets \/ rsd_start \/ rsd_start_fails \/ Reroute \/ CutToAvail
              \/ rsd_write \/ rsd_write_fails \/ WriteDone

-----------------------------------------------------------------------------
(* ioctl                                                                    *)

\* SNDCTL_DSP_NONBLOCK
SetNonblock(i) ==
  /\ app.pc = "idle" /\ i \in devices
  /\ nonblock' = [nonblock EXCEPT ![i] = TRUE]
  /\ asked' = asked \cup {i}
  /\ UNCHANGED <<desc, rd_fd, handle, app, devices, files, breaks, aborted>>

\* SNDCTL_DSP_RESET and SNDCTL_DSP_SYNC
Reset(i) ==
  /\ app.pc = "idle" /\ i \in devices
  /\ app' = [Idle EXCEPT !.pc = "stop_reset", !.i = i]
  /\ UNCHANGED <<desc, table, handle, program, breaks, aborted>>

\* SNDCTL_DSP_GETOSPACE and SNDCTL_DSP_GETOPTR look at the FIFO first, also of
\* a stream that has never had one: rsnd_fifo_read_avail asserts that it has.
GetSpace(i) ==
  /\ app.pc = "idle" /\ i \in devices /\ ~handle[i].fifo
  /\ aborted' = TRUE
  /\ UNCHANGED <<desc, table, handle, app, program, breaks>>

-----------------------------------------------------------------------------
(* close, and rsd_stop                                                      *)

close(i) ==
  /\ app.pc = "idle" /\ i \in devices
  /\ app' = [Idle EXCEPT !.pc = "stop_close", !.i = i]
  /\ devices' = devices \ {i} /\ asked' = asked \ {i}
  /\ UNCHANGED <<desc, table, handle, files, breaks, aborted>>

\* What follows rsd_stop.
AfterStop == IF app.pc = "stop_close" THEN Goto("os_close") ELSE Return

\* Faulty variant: forgets the sockets without closing them.
rsd_stop_keepsOpen ==
  LET i == app.i
  IN
  /\ app.pc \in {"stop_start", "stop_write", "stop_reset", "stop_close"} /\ handle[i].thread # "closing"
  /\ Set(i, [handle[i] EXCEPT !.socket = NoFd, !.ctl = NoFd, !.thread = "none", !.conn = 0])
  /\ AfterStop
  /\ UNCHANGED <<desc, table, program, breaks, aborted>>

\* Waits for a playback thread that is ending; then closes what is left.
rsd_stop ==
  LET i == app.i
  IN
  /\ app.pc \in {"stop_start", "stop_write", "stop_reset", "stop_close"} /\ handle[i].thread # "closing"
  /\ desc' = Closing({handle[i].socket, handle[i].ctl})
  /\ Set(i, [handle[i] EXCEPT !.socket = NoFd, !.ctl = NoFd, !.thread = "none", !.conn = 0])
  /\ AfterStop
  /\ UNCHANGED <<table, program, breaks, aborted>>

CloseFd ==
  /\ app.pc = "os_close"
  /\ desc' = Closing({rd_fd[app.i]})
  /\ Goto("free")
  /\ UNCHANGED <<table, handle, program, breaks, aborted>>

rsd_free ==
  /\ app.pc = "free"
  /\ Set(app.i, NoHandle)
  /\ Goto("memset")
  /\ UNCHANGED <<desc, table, program, breaks, aborted>>

\* Faulty variant: only the handle is cleared.
ClearSlot_handleOnly ==
  /\ app.pc = "memset"
  /\ rd_fd' = [rd_fd EXCEPT ![app.i] = 0]
  /\ Goto("vacate")
  /\ UNCHANGED <<desc, nonblock, handle, program, breaks, aborted>>

\* memset: for a moment the slot's fd is 0.
ClearSlot ==
  /\ app.pc = "memset"
  /\ rd_fd' = [rd_fd EXCEPT ![app.i] = 0]
  /\ nonblock' = [nonblock EXCEPT ![app.i] = FALSE]
  /\ Goto("vacate")
  /\ UNCHANGED <<desc, handle, program, breaks, aborted>>

\* Faulty variant: the slot is not given back.
VacateSlot_missing ==
  /\ app.pc = "vacate"
  /\ Return
  /\ UNCHANGED <<desc, table, handle, program, breaks, aborted>>

VacateSlot ==
  /\ app.pc = "vacate"
  /\ rd_fd' = [rd_fd EXCEPT ![app.i] = NoFd]
  /\ Return
  /\ UNCHANGED <<desc, nonblock, handle, program, breaks, aborted>>

CloseSteps == rsd_stop \/ CloseFd \/ rsd_free \/ ClearSlot \/ VacateSlot

-----------------------------------------------------------------------------
(* The playback threads and the rest of the program                         *)

Play(i) ==
  /\ handle[i].thread = "on" /\ handle[i].level > 0
  /\ Set(i, [handle[i] EXCEPT !.level = @ - 1])
  /\ UNCHANGED <<desc, table, app, program, breaks, aborted>>

\* rsnd_reset in a playback thread whose send failed: it closes the sockets ...
PlayFails(i) ==
  /\ breaks < MaxBreaks /\ breaks' = breaks + 1
  /\ handle[i].thread = "on"
  /\ desc' = Closing({handle[i].socket, handle[i].ctl})
  /\ Set(i, [handle[i] EXCEPT !.thread = "closing"])
  /\ UNCHANGED <<table, app, program, aborted>>

\* ... and then forgets their numbers.
PlayResets(i) ==
  /\ handle[i].thread = "closing"
  /\ Set(i, [handle[i] EXCEPT !.socket = NoFd, !.ctl = NoFd, !.thread = "none", !.conn = 0])
  /\ UNCHANGED <<desc, table, app, program, breaks, aborted>>

\* Another thread opens an ordinary file ...
OpenFile ==
  /\ FreeFds # {} /\ Cardinality(files) < MaxFiles
  /\ desc' = [desc EXCEPT ![Lowest] = File]
  /\ files' = files \cup {Lowest}
  /\ UNCHANGED <<table, handle, app, devices, asked, breaks, aborted>>

\* fd2handle(f): the slots of that number whose handle is set, be it freed.
fd2handle(f) == {i \in fd2index(f) : handle[i].alive \/ (app.i = i /\ app.pc = "memset")}

\* ... and closes it: fd2handle finds nothing.
CloseFile(f) ==
  /\ fd2handle(f) = {}
  /\ desc' = Closing({f})
  /\ files' = files \ {f}
  /\ UNCHANGED <<table, handle, app, devices, asked, breaks, aborted>>

\* Or it finds a device whose close has given the number back and has not
\* cleared the slot yet, and frees the handle as that one does: no outcome is
\* defined.
CloseDying(f) ==
  /\ fd2handle(f) # {}
  /\ aborted' = TRUE
  /\ UNCHANGED <<desc, table, handle, app, program, breaks>>

-----------------------------------------------------------------------------
Call ==
  \/ open_generic
  \/ \E i \in Slot :
       \/ \E count \in WriteSizes : write(i, count)
       \/ SetNonblock(i) \/ Reset(i) \/ GetSpace(i) \/ close(i)

Step ==
  \/ OpenSteps \/ WriteSteps \/ CloseSteps
  \/ \E i \in Slot : Play(i) \/ PlayFails(i) \/ PlayResets(i)
  \/ OpenFile \/ \E f \in files : CloseFile(f) \/ CloseDying(f)

Next == ~aborted /\ (Call \/ Step)

Spec == Init /\ [][Next]_vars

-----------------------------------------------------------------------------
(* Properties                                                               *)

Labels == {"idle", "pipe", "start", "connect", "dup2", "avail", "rsd_write",
           "stop_start", "stop_write", "stop_reset", "stop_close", "os_close", "free", "memset", "vacate"}

\* Every variable has its type; a FIFO never holds more than its size.
TypeOK ==
  /\ desc \in [Fd -> Object]
  /\ rd_fd \in [Slot -> Fd \cup {NoFd}]
  /\ nonblock \in [Slot -> BOOLEAN]
  /\ handle \in [Slot -> [alive : BOOLEAN, socket : Fd \cup {NoFd}, ctl : Fd \cup {NoFd},
                          fifo : BOOLEAN, level : 0..BufferSize,
                          thread : {"none", "new", "on", "closing"}, conn : {0, 1}]]
  /\ app \in [pc : Labels, i : Slot, count : Nat, todo : Nat]
  /\ devices \subseteq Slot /\ asked \subseteq devices
  /\ files \subseteq Fd /\ breaks \in 0..MaxBreaks /\ aborted \in BOOLEAN

(***************************************************************************)
(* fd2index: a call on an ordinary file is not taken for a device, whoever  *)
(* opened and closed what in between.  The exception is close of a device,  *)
(* which gives the number back before it clears the slot.                   *)
(***************************************************************************)
FilesAreFiles ==
  \A f \in files : \A i \in fd2index(f) :
    app.i = i /\ app.pc \in {"free", "memset", "vacate"}

(***************************************************************************)
(* start_rsd, "Now we should reroute our socket to fd": while its stream is *)
(* connected, the descriptor the program polls is a duplicate of the socket *)
(* of this connection, after any number of resets, failures and restarts.   *)
(* The exception is the write that makes the connection, until dup2.        *)
(***************************************************************************)
Starting(i) == app.i = i /\ app.pc \in {"connect", "stop_start", "dup2"}

Connected(i) == handle[i].socket # NoFd /\ desc[handle[i].socket] = Sock("data", i)

ReroutedToServer ==
  \A i \in devices :
    Connected(i) /\ ~Starting(i) => desc[rd_fd[i]] = desc[handle[i].socket]

(***************************************************************************)
(* Between calls, a slot without a device is as init_lib left it, and every *)
(* open descriptor is an ordinary file or belongs to a device that is open: *)
(* no failed open, failed start, reset or close leaves anything behind.     *)
(***************************************************************************)
GivenBack ==
  app.pc = "idle" =>
    /\ \A i \in Slot \ devices :
         rd_fd[i] = NoFd /\ ~nonblock[i] /\ handle[i] = NoHandle
    /\ \A f \in Fd : desc[f] = Free \/ f \in files
         \/ \E i \in devices : f \in {rd_fd[i], handle[i].socket, handle[i].ctl}

(***************************************************************************)
(* write on a device that was opened with O_NONBLOCK or set with            *)
(* SNDCTL_DSP_NONBLOCK never sleeps in rsd_write, and the setting does not  *)
(* outlive the device in its slot.                                          *)
(***************************************************************************)
HonoursNonblock ==
  /\ \A i \in devices : nonblock[i] = (i \in asked)
  /\ app.pc = "rsd_write" /\ app.todo > 0 /\ app.i \in asked =>
       handle[app.i].level < BufferSize \/ handle[app.i].thread = "none"
=============================================================================
