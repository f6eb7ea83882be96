----------------------------- MODULE RsdServer -----------------------------
(***************************************************************************)
(* The server rsd: the accept loop of src/src/daemon.c, which pairs a data  *)
(* socket with a control socket and starts a thread for them, and the       *)
(* connection threads (rsd_thread) of src/src/rsound-common.c with the      *)
(* control protocol of src/src/proto.c.  The clients that drive it follow   *)
(* librsound: data connection, control connection, header, audio; they end  *)
(* with STOP, hang up, or give the control connection back (rsd_exec).      *)
(*                                                                         *)
(* Descriptors are numbers handed out lowest first, as accept() does, with  *)
(* the process's standard input at 0.  (1, 2 and the listening socket never *)
(* change hands and have no number here.)  Audio is counted in units of     *)
(* half a chunk; the resampling path, which calls receive_data in the same  *)
(* way, and the sample formats are left out.                                *)
(***************************************************************************)
EXTENDS Integers, Sequences, FiniteSets, FiniteSetsExt

CONSTANTS
  Clients,     \* the clients, each with an address of its own
  Faults,      \* "crash": a client hangs up without STOP; "scan": one that hangs up
               \* before its control connection; "late": a control connection that
               \* takes more than 200 ms; "mix": clients connect at the same time;
               \* "backend": the audio driver fails
  Requests,    \* the requests a client sends while it plays: "INFO", "IDENTITY"
  MaxUnits,    \* bound: half chunks of audio a client sends
  MaxThreads,  \* bound: connection threads started
  MaxFd        \* the highest descriptor number

ASSUME RsdServerAssumption ==
  /\ IsFiniteSet(Clients)
  /\ Faults \subseteq {"crash", "scan", "late", "mix", "backend"}
  /\ Requests \subseteq {"INFO", "IDENTITY"}
  /\ MaxUnits \in Nat /\ MaxThreads \in Nat /\ MaxFd \in Nat

Thread   == 1..MaxThreads
Endpoint == Clients \X {"data", "ctl"}
Stdin    == <<"stdin", "">>
Free     == <<"free", "">>
NoFd     == -1
ChunkUnits == 2

VARIABLES
  no_threading, \* the option --single
  client,       \* what each client has done so far
  units,        \* half chunks each client has sent
  backlog,      \* connections waiting to be accepted, in order of arrival
  inbox,        \* what a client sent on an endpoint and the server has not read
  hung,         \* endpoints the client has closed
  informed,     \* endpoints on which the server sent its backend info
  acked,        \* endpoints on which the server answered CLOSECTL OK
  fd,           \* the descriptor table
  main,         \* the accept loop: pc, s_new, s_ctl, their_addr, last_thread
  thr           \* the connection threads; "own" remembers which endpoints a
                \* thread was started for, "played" what its backend was given

vars == <<no_threading, client, units, backlog, inbox, hung, informed, acked, fd, main, thr>>

wires  == <<backlog, inbox, hung>>
server == <<no_threading, informed, acked, fd, main, thr>>

-----------------------------------------------------------------------------
(* Helpers *)

\* What a client sends: the wave header, audio, and requests on the control socket.
Item == {"header", "audio", "INFO", "IDENTITY", "STOP", "CLOSECTL"} \X Clients \X (0..MaxUnits)

Send(e, kind, n) == inbox' = [inbox EXCEPT ![e] = Append(@, <<kind, e[1], n>>)]

FreeFds == {f \in 0..MaxFd : fd[f] = Free}

\* accept() returns the lowest free descriptor.
LowestFree == Min(FreeFds)

\* close(f), whatever f names by now; close(-1) and a closed f do nothing.
Closed(table, f) == [g \in 0..MaxFd |-> IF g = f THEN Free ELSE table[g]]

\* What poll() reports of a descriptor: POLLIN for data and for the end of
\* the stream; nothing for a number that is no longer open.
Readable(f) == fd[f] \in Endpoint /\ inbox[fd[f]] # << >>
AtEof(f)    == fd[f] \in Endpoint /\ inbox[fd[f]] = << >> /\ fd[f] \in hung
PollIn(f)   == Readable(f) \/ AtEof(f)

NewThread == [pc |-> "none", socket |-> 0, ctl |-> 0, own |-> << >>, ready |-> {},
              buffer |-> << >>, played |-> << >>, broke |-> FALSE]

InitialFds == [f \in 0..MaxFd |-> IF f = 0 THEN Stdin ELSE Free]

Init ==
  /\ no_threading \in BOOLEAN
  /\ client = [c \in Clients |-> "new"]
  /\ units = [c \in Clients |-> 0]
  /\ backlog = << >>
  /\ inbox = [e \in Endpoint |-> << >>]
  /\ hung = {} /\ informed = {} /\ acked = {}
  /\ fd = InitialFds
  /\ main = [pc |-> "accept", s_new |-> NoFd, s_ctl |-> NoFd, last_thread |-> 0,
             their_addr |-> << >>]
  /\ thr = [t \in Thread |-> NewThread]

-----------------------------------------------------------------------------
(* The clients                                                              *)

\* rsnd_connect_server: the data connection, then the control connection.
ConnectData(c) ==
  /\ client[c] = "new"
  /\ "mix" \in Faults \/ \A d \in Clients : client[d] # "data"
  /\ client' = [client EXCEPT ![c] = "data"]
  /\ backlog' = Append(backlog, <<c, "data">>)
  /\ UNCHANGED <<units, inbox, hung, server>>

ConnectCtl(c) ==
  /\ client[c] = "data"
  /\ client' = [client EXCEPT ![c] = "both"]
  /\ backlog' = Append(backlog, <<c, "ctl">>)
  /\ UNCHANGED <<units, inbox, hung, server>>

SendHeader(c) ==
  /\ client[c] = "both"
  /\ client' = [client EXCEPT ![c] = "started"]
  /\ Send(<<c, "data">>, "header", 0)
  /\ UNCHANGED <<units, backlog, hung, server>>

\* The playback thread, once the backend info has arrived.
SendAudio(c) ==
  /\ client[c] \in {"started", "closectl", "exec"}
  /\ <<c, "data">> \in informed
  /\ units[c] < MaxUnits
  /\ units' = [units EXCEPT ![c] = @ + 1]
  /\ Send(<<c, "data">>, "audio", units[c] + 1)
  /\ UNCHANGED <<client, backlog, hung, server>>

\* rsnd_send_info_query, rsnd_send_identity_info
SendRequest(c, kind) ==
  /\ client[c] = "started" /\ <<c, "data">> \in informed
  /\ inbox[<<c, "ctl">>] = << >>
  /\ Send(<<c, "ctl">>, kind, 0)
  /\ UNCHANGED <<client, units, backlog, hung, server>>

\* rsd_exec: rsnd_close_ctl asks, waits for the answer and closes.
SendCloseCtl(c) ==
  /\ client[c] = "started" /\ <<c, "data">> \in informed
  /\ client' = [client EXCEPT ![c] = "closectl"]
  /\ Send(<<c, "ctl">>, "CLOSECTL", 0)
  /\ UNCHANGED <<units, backlog, hung, server>>

CloseCtl(c) ==
  /\ client[c] = "closectl" /\ <<c, "ctl">> \in acked
  /\ client' = [client EXCEPT ![c] = "exec"]
  /\ hung' = hung \cup {<<c, "ctl">>}
  /\ UNCHANGED <<units, backlog, inbox, server>>

\* rsd_stop: the STOP message, then both sockets are closed.
Stop(c) ==
  /\ client[c] \in {"both", "started"}
  /\ client' = [client EXCEPT ![c] = "stopped"]
  /\ Send(<<c, "ctl">>, "STOP", 0)
  /\ hung' = hung \cup {<<c, "data">>, <<c, "ctl">>}
  /\ UNCHANGED <<units, backlog, server>>

\* The owner of an rsd_exec descriptor closes it; a client that waits for
\* CLOSECTL OK in vain gives up; any client may crash.
HangUp(c) ==
  /\ \/ client[c] \in {"closectl", "exec"}
     \/ client[c] \in {"both", "started"} /\ "crash" \in Faults
     \/ client[c] = "data" /\ "scan" \in Faults
  /\ client' = [client EXCEPT ![c] = IF @ = "exec" THEN "left" ELSE "gone"]
  /\ hung' = hung \cup {<<c, "data">>, <<c, "ctl">>}
  /\ UNCHANGED <<units, backlog, inbox, server>>

ClientStep ==
  \E c \in Clients :
    \/ ConnectData(c) \/ ConnectCtl(c) \/ SendHeader(c) \/ SendAudio(c)
    \/ \E kind \in Requests : SendRequest(c, kind)
    \/ SendCloseCtl(c) \/ CloseCtl(c) \/ Stop(c) \/ HangUp(c)

-----------------------------------------------------------------------------
(* The accept loop: main and new_sound_thread                               *)

clients == <<client, units>>

\* Back to accept(), with s_new and s_ctl reset.
NextClient == [main EXCEPT !.pc = "accept", !.s_new = NoFd, !.s_ctl = NoFd, !.their_addr = << >>]

\* close(s_new), close(s_ctl)
CloseBoth == Closed(Closed(fd, main.s_new), main.s_ctl)

AcceptData ==
  /\ main.pc = "accept"
  /\ backlog # << >> /\ FreeFds # {}
  /\ fd' = [fd EXCEPT ![LowestFree] = Head(backlog)]
  /\ main' = [main EXCEPT !.pc = "poll", !.s_new = LowestFree, !.their_addr = <<Head(backlog)>>]
  /\ backlog' = Tail(backlog)
  /\ UNCHANGED <<no_threading, clients, inbox, hung, informed, acked, thr>>

\* A connection is pending within 200 ms: whoever it is from, it is taken as
\* the control socket.
AcceptCtl ==
  /\ main.pc = "poll" /\ backlog # << >> /\ FreeFds # {}
  /\ fd' = [fd EXCEPT ![LowestFree] = Head(backlog)]
  /\ main' = [main EXCEPT !.pc = "check", !.s_ctl = LowestFree,
                          !.their_addr = Append(@, Head(backlog))]
  /\ backlog' = Tail(backlog)
  /\ UNCHANGED <<no_threading, clients, inbox, hung, informed, acked, thr>>

\* No descriptor is left for it: s_ctl is -1.
AcceptCtlFails ==
  /\ main.pc = "poll" /\ backlog # << >> /\ FreeFds = {}
  /\ fd' = Closed(fd, main.s_new)
  /\ main' = NextClient
  /\ UNCHANGED <<no_threading, clients, wires, informed, acked, thr>>

\* None is pending after 200 ms.  Clients that are not late connect in time.
CtlTimeout ==
  /\ main.pc = "poll" /\ backlog = << >>
  /\ "late" \in Faults \/ client[main.their_addr[1][1]] # "data"
  /\ main' = [main EXCEPT !.pc = "check", !.s_ctl = 0]
  /\ UNCHANGED <<no_threading, clients, wires, informed, acked, fd, thr>>

\* Both strings are made from the first address.
valid_ips ==
  LET remoteIP == <<main.their_addr[1][1], main.their_addr[1][1]>>
  IN  remoteIP[1] = remoteIP[2]

CheckSource ==
  /\ main.pc = "check"
  /\ IF main.s_ctl > 0 /\ ~valid_ips
     THEN fd' = CloseBoth /\ main' = NextClient
     ELSE main' = [main EXCEPT !.pc = "nonblock"] /\ UNCHANGED fd
  /\ UNCHANGED <<no_threading, clients, wires, informed, acked, thr>>

\* fcntl fails on a descriptor that someone has closed; the error path closes
\* both numbers, 0 included.
SetNonBlocking ==
  /\ main.pc = "nonblock"
  /\ IF fd[main.s_new] = Free \/ (main.s_ctl > 0 /\ fd[main.s_ctl] = Free)
     THEN fd' = CloseBoth /\ main' = NextClient
     ELSE main' = [main EXCEPT !.pc = "join"] /\ UNCHANGED fd
  /\ UNCHANGED <<no_threading, clients, wires, informed, acked, thr>>

\* Faulty variant: --single does not wait for the last thread.
JoinLastThread_skipped == TRUE

\* With --single, pthread_join(last_thread).
JoinLastThread ==
  no_threading /\ main.last_thread # 0 => thr[main.last_thread].pc = "exited"

new_sound_thread ==
  /\ main.pc = "join"
  /\ JoinLastThread
  /\ \E t \in Thread :
       /\ thr[t].pc = "none" /\ \A u \in Thread : thr[u].pc = "none" => t <= u
       /\ thr' = [thr EXCEPT ![t] =
            [@ EXCEPT !.pc = "header", !.socket = main.s_new, !.ctl = main.s_ctl,
                      !.own = main.their_addr]]
       /\ main' = [NextClient EXCEPT !.last_thread = t]
  /\ UNCHANGED <<no_threading, clients, wires, informed, acked, fd>>

MainStep ==
  AcceptData \/ AcceptCtl \/ AcceptCtlFails \/ CtlTimeout \/ CheckSource \/ SetNonBlocking \/ new_sound_thread

-----------------------------------------------------------------------------
(* The connection thread: rsd_thread, receive_data, handle_ctl_request      *)

At(t, label)   == thr[t].pc = label
Step(t, label) == thr' = [thr EXCEPT ![t].pc = label]

\* Faulty variant: what recv() returned is still there for the next call.
Consumed_peeked(f) == inbox

\* The first item on a descriptor has been read with recv().
Consumed(f) == [inbox EXCEPT ![fd[f]] = Tail(@)]

\* receive_data with data = NULL does not look at the control socket.  Text
\* from another connection's control socket is no header, once 44 bytes of
\* it have arrived.
get_wav_header(t) ==
  /\ At(t, "header")
  /\ \/ /\ Readable(thr[t].socket)
        /\ inbox' = Consumed(thr[t].socket)
        /\ IF Head(inbox[fd[thr[t].socket]])[1] = "header" THEN Step(t, "init")
           ELSE Step(t, "header") \/ Step(t, "drop")
     \/ AtEof(thr[t].socket) /\ Step(t, "drop") /\ UNCHANGED inbox
  /\ UNCHANGED <<no_threading, clients, backlog, hung, informed, acked, fd, main>>

\* The header could not be read: close(conn.socket), close(conn.ctl_socket).
DropData(t) ==
  /\ At(t, "drop")
  /\ fd' = Closed(fd, thr[t].socket)
  /\ Step(t, "drop_ctl")
  /\ UNCHANGED <<no_threading, clients, wires, informed, acked, main>>

DropCtl(t) ==
  /\ At(t, "drop_ctl")
  /\ fd' = Closed(fd, thr[t].ctl)
  /\ Step(t, "exited")
  /\ UNCHANGED <<no_threading, clients, wires, informed, acked, main>>

\* backend->init, backend->open, backend->get_backend_info
OpenBackend(t) ==
  /\ At(t, "init")
  /\ \/ Step(t, "info")
     \/ "backend" \in Faults /\ thr' = [thr EXCEPT ![t].pc = "exit", ![t].broke = TRUE]
  /\ UNCHANGED <<no_threading, clients, wires, informed, acked, fd, main>>

\* Sending to a client that hung up may fail, or not be noticed yet.
send_backend_info(t) ==
  /\ At(t, "info")
  /\ \/ /\ fd[thr[t].socket] \in Endpoint
        /\ informed' = informed \cup {fd[thr[t].socket]}
        /\ Step(t, "stream")
     \/ /\ fd[thr[t].socket] \in hung \cup {Free}
        /\ Step(t, "exit")
        /\ UNCHANGED informed
  /\ UNCHANGED <<no_threading, clients, wires, acked, fd, main>>

\* One turn of receive_data: poll() on the data socket and, if there is one,
\* the control socket ...
Poll(t) ==
  /\ At(t, "stream")
  /\ LET ready == {f \in {thr[t].socket} \cup ({thr[t].ctl} \ {0}) : PollIn(f)}
     IN  /\ ready # {}
         /\ thr' = [thr EXCEPT ![t].pc = "serve_ctl", ![t].ready = ready]
  /\ UNCHANGED <<no_threading, clients, wires, informed, acked, fd, main>>

\* Faulty variant: the closed number stays in conn->ctl_socket.
CloseCtlRequest_keepsNumber(t) ==
  /\ acked' = acked \cup {fd[thr[t].ctl]}
  /\ fd' = Closed(fd, thr[t].ctl)
  /\ Step(t, "serve_data")

\* Faulty variant: a stream without a control socket is stopped (the old protocol).
CloseCtlRequest_endsStream(t) ==
  /\ acked' = acked \cup {fd[thr[t].ctl]}
  /\ fd' = Closed(fd, thr[t].ctl)
  /\ thr' = [thr EXCEPT ![t].pc = "exit", ![t].ctl = 0]

\* CLOSECTL: answer, close the control socket, go on without it.
CloseCtlRequest(t) ==
  /\ acked' = acked \cup {fd[thr[t].ctl]}
  /\ fd' = Closed(fd, thr[t].ctl)
  /\ thr' = [thr EXCEPT ![t].pc = "serve_data", ![t].ctl = 0]

\* ... then handle_ctl_request: every request there is, up to a STOP or a
\* CLOSECTL.  An INFO whose client hung up may fail to be answered.
handle_ctl_request(t) ==
  LET ctl   == thr[t].ctl
      msgs  == inbox[fd[ctl]]
      ends  == {i \in 1..Len(msgs) : msgs[i][1] \in {"STOP", "CLOSECTL"}}
      last  == IF ends = {} THEN 0 ELSE Min(ends)
      taken == SubSeq(msgs, 1, IF last = 0 THEN Len(msgs) ELSE last)
      answerFails == fd[ctl] \in hung /\ \E i \in 1..Len(taken) : taken[i][1] = "INFO"
  IN  /\ inbox' = [inbox EXCEPT ![fd[ctl]] = SubSeq(@, Len(taken) + 1, Len(@))]
      /\ \/ answerFails /\ Step(t, "exit") /\ UNCHANGED <<acked, fd>>
         \/ /\ last # 0 /\ msgs[last][1] = "STOP"
            /\ Step(t, "exit") /\ UNCHANGED <<acked, fd>>
         \/ last # 0 /\ msgs[last][1] = "CLOSECTL" /\ CloseCtlRequest(t)
         \/ last = 0 /\ Step(t, "serve_data") /\ UNCHANGED <<acked, fd>>

ServeCtl(t) ==
  /\ At(t, "serve_ctl")
  /\ IF thr[t].ctl \in thr[t].ready /\ Readable(thr[t].ctl)
     THEN handle_ctl_request(t)
     ELSE Step(t, "serve_data") /\ UNCHANGED <<inbox, acked, fd>>
  /\ UNCHANGED <<no_threading, clients, backlog, hung, informed, main>>

\* ... and recv() on the data socket.  A full buffer is written to the backend.
ServeData(t) ==
  LET full == Len(thr[t].buffer) + 1 = ChunkUnits
      turn == [thr[t] EXCEPT !.ready = {}, !.pc = "stream"]
  IN
  /\ At(t, "serve_data")
  /\ \/ /\ thr[t].socket \in thr[t].ready /\ Readable(thr[t].socket)
        /\ inbox' = Consumed(thr[t].socket)
        /\ thr' = [thr EXCEPT ![t] =
             [turn EXCEPT !.buffer = Append(@, Head(inbox[fd[thr[t].socket]])),
                          !.pc = IF full THEN "write" ELSE "stream"]]
     \/ /\ thr[t].socket \in thr[t].ready /\ ~Readable(thr[t].socket)
        /\ thr' = [thr EXCEPT ![t] = [turn EXCEPT !.pc = "exit"]]
        /\ UNCHANGED inbox
     \/ /\ thr[t].socket \notin thr[t].ready
        /\ thr' = [thr EXCEPT ![t] = turn]
        /\ UNCHANGED inbox
  /\ UNCHANGED <<no_threading, clients, backlog, hung, informed, acked, fd, main>>

\* backend->write until the chunk is written; 0 means failure.
BackendWrite(t) ==
  /\ At(t, "write")
  /\ \/ thr' = [thr EXCEPT ![t] = [thr[t] EXCEPT !.played = @ \o thr[t].buffer,
                                                 !.buffer = << >>, !.pc = "stream"]]
     \/ "backend" \in Faults /\ thr' = [thr EXCEPT ![t].pc = "exit", ![t].broke = TRUE]
  /\ UNCHANGED <<no_threading, clients, wires, informed, acked, fd, main>>

\* rsd_exit: the backend and the data socket, then the control socket if any.
CloseData(t) ==
  /\ At(t, "exit")
  /\ fd' = Closed(fd, thr[t].socket)
  /\ Step(t, "exit_ctl")
  /\ UNCHANGED <<no_threading, clients, wires, informed, acked, main>>

\* Faulty variant: leaves the control socket open.
CloseCtlSocket_leak(t) ==
  /\ At(t, "exit_ctl")
  /\ Step(t, "exited")
  /\ UNCHANGED <<no_threading, clients, wires, informed, acked, fd, main>>

CloseCtlSocket(t) ==
  /\ At(t, "exit_ctl")
  /\ fd' = IF thr[t].ctl # 0 THEN Closed(fd, thr[t].ctl) ELSE fd
  /\ Step(t, "exited")
  /\ UNCHANGED <<no_threading, clients, wires, informed, acked, main>>

rsd_thread(t) ==
  \/ get_wav_header(t) \/ DropData(t) \/ DropCtl(t) \/ OpenBackend(t) \/ send_backend_info(t)
  \/ Poll(t) \/ ServeCtl(t) \/ ServeData(t) \/ BackendWrite(t)
  \/ CloseData(t) \/ CloseCtlSocket(t)

-----------------------------------------------------------------------------
\* No client is connected or on its way; the server waits for the next one.
Quiet == \A c \in Clients : client[c] \in {"new", "stopped", "gone", "left"}

Idle ==
  /\ main.pc = "accept" /\ backlog = << >>
  /\ \A t \in Thread : At(t, "none") \/ At(t, "exited")

\* receive_data on a descriptor that somebody closed: poll() says at once that
\* there is nothing to read and no end, and the loop goes round.
Spins(t) == (At(t, "header") \/ At(t, "stream")) /\ fd[thr[t].socket] = Free

Waiting == ((Quiet /\ Idle) \/ (\E t \in Thread : Spins(t))) /\ UNCHANGED vars

Next ==
  \/ ClientStep
  \/ MainStep
  \/ \E t \in Thread : rsd_thread(t)
  \/ Waiting

Spec == Init /\ [][Next]_vars

(* The operating system runs the accept loop and every connection thread.    *)
(* Clients owe nothing: they may keep a connection open and silent forever.  *)
Fairness == WF_vars(MainStep) /\ \A t \in Thread : WF_vars(rsd_thread(t))

FairSpec == Spec /\ Fairness

-----------------------------------------------------------------------------
(* Properties                                                               *)

ThreadLabels == {"none", "header", "drop", "drop_ctl", "init", "info", "stream", "serve_ctl",
                 "serve_data", "write", "exit", "exit_ctl", "exited"}

\* Every variable has its type; a thread is only ever given descriptors that
\* accept() returned, or 0.
TypeOK ==
  /\ no_threading \in BOOLEAN
  /\ client \in [Clients -> {"new", "data", "both", "started", "closectl", "exec",
                             "stopped", "gone", "left"}]
  /\ units \in [Clients -> 0..MaxUnits]
  /\ backlog \in Seq(Endpoint)
  /\ inbox \in [Endpoint -> Seq(Item)]
  /\ hung \subseteq Endpoint /\ informed \subseteq Endpoint /\ acked \subseteq Endpoint
  /\ fd \in [0..MaxFd -> Endpoint \cup {Stdin, Free}]
  /\ main \in [pc : {"accept", "poll", "check", "nonblock", "join"}, s_new : -1..MaxFd,
               s_ctl : -1..MaxFd, last_thread : 0..MaxThreads, their_addr : Seq(Endpoint)]
  /\ thr \in [Thread -> [pc : ThreadLabels, socket : 0..MaxFd, ctl : 0..MaxFd,
                         own : Seq(Endpoint), ready : SUBSET (0..MaxFd),
                         buffer : Seq(Item), played : Seq(Item), broke : BOOLEAN]]

Live(t) == thr[t].pc \notin {"none", "exited"}

(***************************************************************************)
(* rsd_thread: what the backend is given are the audio bytes the client     *)
(* sent on the data socket, in order, each once, never the header and never *)
(* a byte of another connection.                                            *)
(***************************************************************************)
PlaysWhatWasSent ==
  \A t \in Thread : \A i \in 1..Len(thr[t].played) :
    thr[t].played[i] = <<"audio", thr[t].own[1][1], i>>

(***************************************************************************)
(* No thread's descriptor is closed or reused under it: until it closes     *)
(* them, its numbers name the connections that main accepted for it.        *)
(***************************************************************************)
KeepsItsSockets ==
  \A t \in Thread :
    /\ Live(t) /\ thr[t].pc \notin {"drop_ctl", "exit_ctl"} => fd[thr[t].socket] = thr[t].own[1]
    /\ Live(t) /\ thr[t].ctl > 0 => fd[thr[t].ctl] = thr[t].own[2]

(***************************************************************************)
(* --single: "we must wait for the last thread to join" (new_sound_thread): *)
(* two connections never use the audio device at once.                      *)
(***************************************************************************)
OneAtATime ==
  no_threading => \A t, u \in Thread : Live(t) /\ Live(u) => t = u

\* Its descriptor was closed under it and may be another connection's by now.
\* This happens to number 0 alone: a thread without a control socket whose
\* header fails closes "it", which is 0.
LostItsSocket(t) ==
  /\ Live(t) /\ thr[t].pc \notin {"drop_ctl", "exit_ctl"}
  /\ thr[t].socket = 0 /\ fd[0] # thr[t].own[1]

(***************************************************************************)
(* When no client is left, every thread ends and every descriptor that was  *)
(* accepted is closed again, however the clients left and however their     *)
(* connections were paired, at the same time, late or not at all.  The code *)
(* breaks this where 0 is no longer standard input, and there it is not     *)
(* claimed: a control socket accepted as 0 counts as none and stays open,   *)
(* and a thread that is left without its descriptor 0 may never end.        *)
(***************************************************************************)
EverythingReleased ==
  Quiet ~> \/ ~Quiet
           \/ Idle /\ \A f \in 1..MaxFd : fd[f] \notin Endpoint
           \/ \E t \in Thread : LostItsSocket(t)

(***************************************************************************)
(* rsd_exec: a client that gave its control socket back with CLOSECTL and   *)
(* later closes the data socket has every whole chunk played (unless the    *)
(* backend fails): losing the control connection does not end the stream.   *)
(***************************************************************************)
ExecStreamPlaysOut ==
  \A c \in Clients : (client[c] = "left") ~>
    \E t \in Thread :
      /\ thr[t].own # << >> /\ thr[t].own[1] = <<c, "data">>
      /\ Len(thr[t].played) = ChunkUnits * (units[c] \div ChunkUnits) \/ thr[t].broke
=============================================================================
