------------------------------ MODULE Control ------------------------------
(***************************************************************************)
(* The control connection: the client's latency estimate and rsd_exec's     *)
(* request to close it (src/src/librsound/librsound.c) against the server's *)
(* request handler (src/src/proto.c).                                       *)
(*                                                                         *)
(* A message is "RSD", a length and a body.  TCP carries bytes, so a read   *)
(* may find any part of it; here a byte stream is a sequence of units, two  *)
(* for the header (the one with "RSD", the one with the length), one to     *)
(* three for a body, and a read may end between any two of them.  Three     *)
(* threads share the connection: the client's playback thread, which asks   *)
(* and reads the answers, the application in rsd_exec, which reads the same *)
(* socket, and the server's connection thread.  The clock behind            *)
(* rsnd_drain is left out: of delay_offset only the answer that last moved  *)
(* it is kept.                                                              *)
(***************************************************************************)
EXTENDS Integers, Sequences, FiniteSets, FiniteSetsExt

CONSTANTS
  Chunk,       \* backend_info.chunk_size
  FifoSize,    \* room of the client's FIFO
  OneSecond,   \* channels * rate * samplesize
  Latency,     \* the most backend->latency may report
  Names,       \* kinds of identity: "" (none), "plain", or the keyword it contains
  Faults,      \* "split": a message arrives in parts; "full": send() finds no room;
               \* "cut": it takes a part; "late": an answer takes more than 2 s
  MaxChunks,   \* bound: chunks sent
  MaxQueries   \* bound: INFO queries sent

ASSUME ControlAssumption ==
  /\ Chunk \in Nat \ {0} /\ FifoSize \in Nat /\ OneSecond \in Nat /\ Latency \in Nat
  /\ Names \subseteq {"", "plain", "NULL", "INFO", "STOP"}
  /\ Faults \subseteq {"split", "full", "cut", "late"}
  /\ MaxChunks \in Nat /\ MaxQueries \in Nat

VARIABLES
  rd,        \* the handle: total_written, the fill of the FIFO, use_latency;
             \* applied: the answer that last moved delay_offset
  player,    \* the playback thread: pc, and the locals of rsnd_update_server_info
  app,       \* the application: pc, and the locals of rsnd_close_ctl
  conn,      \* the server's connection_t: serv_ptr, ctl (FALSE: 0), and its thread's pc
  wire,      \* both directions of the control connection: sent and not yet read
  history    \* the requests made, what the server acted on, the numbers it answered,
             \* and whether it sent a part of an answer only

vars == <<rd, player, app, conn, wire, history>>

-----------------------------------------------------------------------------
(* Messages *)

Types == {"INFO", "IDENTITY", "STOP", "CLOSECTL", "OK"}

\* Bodies: " STOP", " INFO <c>", " IDENTITY <name>", " CLOSECTL"; the answers
\* " CLOSECTL OK" and " INFO <c> <s>" are longer, the last number in two parts.
BodyLen(m) ==
  CASE m.type \in {"STOP", "CLOSECTL"} -> 1
    [] m.type = "INFO" /\ m.answer -> 4
    [] OTHER -> 2

Request(type, c, name) == [type |-> type, c |-> c, s |-> 0, name |-> name, answer |-> FALSE]
Answer(type, c, s)     == [type |-> type, c |-> c, s |-> s, name |-> "", answer |-> TRUE]

Body == <<"b1", "b2", "b3", "b4">>
Units(m) == <<<<"RSD", m>>, <<"len", m>>>> \o [i \in 1..BodyLen(m) |-> <<Body[i], m>>]

\* What send() may take of a message: nothing when the socket has no room.
Taken(m) == {Units(m)} \cup (IF "full" \in Faults THEN {<< >>} ELSE {}) \cup
            (IF "cut" \in Faults THEN {SubSeq(Units(m), 1, k) : k \in 1..Len(Units(m))} ELSE {})

Put(dir, units) == [wire EXCEPT ![dir] = @ \o units]

\* recv() of at most n units finds what has arrived of what was sent: any
\* number of them, or all there are.
Least(n, dir)  == IF n < Len(wire[dir]) THEN n ELSE Len(wire[dir])
Arrived(n, dir) == {SubSeq(wire[dir], 1, k) :
                     k \in IF "split" \in Faults THEN 0..Least(n, dir) ELSE {0, Least(n, dir)}}
Rest(dir, u) == [wire EXCEPT ![dir] = SubSeq(@, Len(u) + 1, Len(@))]

Header == 2   \* RSD_PROTO_CHUNKSIZE

\* Where strstr finds something, and strrchr: one of the places, or 0.
First(places) == IF places = {} THEN 0 ELSE Min(places)
Last(places)  == IF places = {} THEN 0 ELSE Max(places)

\* strstr(header, "RSD"), and the length behind it when it is there.
HasRSD(u)    == \E i \in 1..Len(u) : u[i][1] = "RSD"
HeaderLen(u) == IF Len(u) = Header /\ u[1][1] = "RSD" THEN BodyLen(u[1][2]) ELSE 0

\* The server has closed its end and nothing it sent is left behind u.
Ended(u) == ~conn.ctl /\ wire.answers = u

Init ==
  /\ rd = [total_written |-> 0, fifo |-> 0, use_latency |-> FALSE, applied |-> << >>]
  /\ player = [pc |-> "top", len |-> 0, client_ptr |-> -1, serv_ptr |-> -1]
  /\ app = [pc |-> "connected", buf |-> << >>, index |-> 0]
  /\ conn = [pc |-> "idle", len |-> 0, serv_ptr |-> 0, ctl |-> TRUE]
  /\ wire = [requests |-> << >>, answers |-> << >>]
  /\ history = [asked |-> << >>, acted |-> << >>, answered |-> {}, queries |-> 0, cut |-> FALSE]

\* A request leaves: what send() took of it, and the record that it was made.
Send(m) ==
  \E units \in Taken(m) :
    /\ wire' = Put("requests", units)
    /\ history' = [history EXCEPT !.asked = IF units = << >> THEN @ ELSE Append(@, m),
                                  !.queries = IF m.type = "INFO" THEN @ + 1 ELSE @]

-----------------------------------------------------------------------------
(* The playback thread                                                      *)

Player(pc) == player' = [player EXCEPT !.pc = pc]

\* The server is asked once the application has called rsd_delay; past the
\* bound on queries the socket is full.
Asks == rd.use_latency /\ rd.total_written > OneSecond

rsnd_send_info_query ==
  /\ player.pc = "top" /\ Asks
  /\ player' = [player EXCEPT !.pc = "header", !.client_ptr = -1, !.serv_ptr = -1]
  /\ IF history.queries < MaxQueries THEN Send(Request("INFO", rd.total_written, ""))
     ELSE UNCHANGED <<wire, history>>
  /\ UNCHANGED <<rd, app, conn>>

\* Too early, or nobody has asked for the latency.
NoQuery ==
  /\ player.pc = "top" /\ ~Asks
  /\ Player("chunk")
  /\ UNCHANGED <<rd, app, conn, wire, history>>

\* The loop is left with what the last answer said.
Break == Player(IF player.client_ptr > 0 /\ player.serv_ptr > 0 THEN "apply" ELSE "chunk")

\* Nothing to read, or the end of the connection, leaves the loop.
UpdateHeader ==
  \E u \in Arrived(Header, "answers") :
    /\ player.pc = "header"
    /\ wire' = Rest("answers", u)
    /\ \/ (u = << >> \/ (Len(u) < Header /\ Ended(u))) /\ Break
       \/ u # << >> /\ ~(Len(u) < Header /\ Ended(u)) /\ ~(Len(u) = Header /\ HasRSD(u)) /\ Player("chunk")
       \/ /\ Len(u) = Header /\ HasRSD(u)
          /\ player' = [player EXCEPT !.pc = "body", !.len = HeaderLen(u)]
    /\ UNCHANGED <<rd, app, conn, history>>

\* The body: "INFO" and the two numbers behind it, as far as they are there.
\* A number is written in binary, its last digit in the last unit.
InfoAt(u) == First({i \in 1..Len(u) : u[i][1] = "b1" /\ u[i][2].type = "INFO"})
Number(u, i) ==
  IF i > Len(u) THEN 0
  ELSE CASE u[i][1] = "b2" -> u[i][2].c
         [] u[i][1] = "b3" -> IF i < Len(u) /\ u[i + 1][1] = "b4" THEN u[i][2].s ELSE u[i][2].s \div 2
         [] OTHER -> 0

\* What is made of the body u; every "chunk" is an early return.
Reads(u, whole) ==
  LET i == InfoAt(u)
      c == Number(u, i + 1)
      s == Number(u, i + 2)
  IN
  IF whole /\ Len(u) < player.len THEN Player("chunk")
  ELSE IF i = 0 THEN Player("header")
  ELSE IF c = 0 \/ Len(u) < i + 2 \/ s <= 0 THEN Player("chunk")
  ELSE player' = [player EXCEPT !.pc = "header", !.client_ptr = c, !.serv_ptr = s]

\* Faulty variant: uses a body that is not all there yet.
UpdateBody_short ==
  \E u \in Arrived(player.len, "answers") :
    /\ player.pc = "body"
    /\ wire' = Rest("answers", u)
    /\ Reads(u, FALSE)
    /\ UNCHANGED <<rd, app, conn, history>>

UpdateBody ==
  \E u \in Arrived(player.len, "answers") :
    /\ player.pc = "body"
    /\ wire' = Rest("answers", u)
    /\ Reads(u, TRUE)
    /\ UNCHANGED <<rd, app, conn, history>>

\* "We only update the pointer if the data we got is quite recent."
Recent ==
  /\ rd.total_written - player.client_ptr < 4 * Chunk
  /\ rd.total_written > player.client_ptr

UpdateOffset ==
  /\ player.pc = "apply"
  /\ Player("chunk")
  /\ rd' = [rd EXCEPT !.use_latency = TRUE,
                      !.applied = IF Recent THEN <<player.client_ptr, player.serv_ptr>> ELSE @]
  /\ UNCHANGED <<app, conn, wire, history>>

\* A chunk is taken from the FIFO, sent and counted.
SendChunk ==
  /\ player.pc = "chunk" /\ rd.fifo >= Chunk
  /\ rd' = [rd EXCEPT !.fifo = @ - Chunk, !.total_written = @ + Chunk]
  /\ Player("top")
  /\ UNCHANGED <<app, conn, wire, history>>

\* No chunk in the FIFO: asleep until there is one.
Sleep ==
  /\ player.pc = "chunk" /\ rd.fifo < Chunk
  /\ Player("asleep")
  /\ UNCHANGED <<rd, app, conn, wire, history>>

Wake ==
  /\ player.pc = "asleep" /\ rd.fifo >= Chunk
  /\ Player("top")
  /\ UNCHANGED <<rd, app, conn, wire, history>>

\* The thread starts with the connection; what it does once the call that
\* ends it is back is left out.
rsnd_thread ==
  /\ app.pc \in {"ready", "wait"}
  /\ \/ rsnd_send_info_query \/ NoQuery \/ UpdateHeader \/ UpdateBody \/ UpdateOffset
     \/ SendChunk \/ Sleep \/ Wake

-----------------------------------------------------------------------------
(* The application                                                          *)

\* The end of rsnd_create_connection: the name of the stream, if it has one.
rsnd_send_identity_info ==
  /\ app.pc = "connected"
  /\ \E name \in Names :
       IF name = "" THEN UNCHANGED <<wire, history>> ELSE Send(Request("IDENTITY", 0, name))
  /\ app' = [app EXCEPT !.pc = "ready"]
  /\ UNCHANGED <<rd, player, conn>>

rsd_write ==
  /\ app.pc = "ready" /\ rd.fifo + Chunk <= FifoSize /\ rd.total_written + rd.fifo < Chunk * MaxChunks
  /\ rd' = [rd EXCEPT !.fifo = @ + Chunk]
  /\ UNCHANGED <<player, app, conn, wire, history>>

\* rsd_stop has joined the playback thread, sends STOP and closes both sockets.
rsd_stop ==
  /\ app.pc = "ready" /\ player.pc \in {"top", "asleep"}
  /\ Player("ended")
  /\ Send(Request("STOP", 0, ""))
  /\ app' = [app EXCEPT !.pc = "stopped"]
  /\ UNCHANGED <<rd, conn>>

\* rsd_exec closes the control connection while the playback thread still runs.
rsnd_close_ctl ==
  /\ app.pc = "ready"
  /\ Send(Request("CLOSECTL", 0, ""))
  /\ app' = [app EXCEPT !.pc = "wait"]
  /\ UNCHANGED <<rd, player, conn>>

\* The text in buf that is looked at: what was kept, what was received, and
\* whatever earlier reads left behind it.
Text(units) ==
  SubSeq(app.buf, 1, app.index) \o units
    \o SubSeq(app.buf, app.index + Len(units) + 1, Len(app.buf))

\* "RSD   12 CLOSECTL OK", in one piece.
FoundOK(t) ==
  \E i \in 1..Len(t) : t[i][1] = "RSD" /\ t[i][2].type = "OK" /\ i + 3 <= Len(t)
                       /\ SubSeq(t, i, i + 3) = Units(t[i][2])

\* strrchr(buf, 'R'): the last header in the text.
LastR(t) == Last({i \in 1..Len(t) : t[i][1] = "RSD"})

\* strstr and strrchr stop at the end of the string.
Nul    == <<"nul">>
Str(t) == LET e == First({i \in 1..Len(t) : t[i] = Nul})
          IN  IF e = 0 THEN t ELSE SubSeq(t, 1, e - 1)

\* memmove of the string from the last 'R' on to the front of the buffer;
\* what was behind its new end stays there.
Moved(t) ==
  LET kept == SubSeq(Str(t), LastR(Str(t)), Len(Str(t)))
  IN  kept \o (IF Len(kept) < Len(t) THEN <<Nul>> ELSE << >>) \o SubSeq(t, Len(kept) + 2, Len(t))

AppGives(pc) == app' = [app EXCEPT !.pc = pc, !.buf = << >>, !.index = 0]

\* Faulty variant: any answer will do.
CloseCtlRead_anyAnswer ==
  \E units \in Arrived(Len(wire.answers), "answers") \ {<< >>} :
    /\ app.pc = "wait"
    /\ wire' = Rest("answers", units)
    /\ IF HasRSD(units) THEN AppGives("closed") ELSE UNCHANGED app
    /\ UNCHANGED <<rd, player, conn, history>>

\* "We just read everything in large chunks until we find what we're looking for"
CloseCtlRead ==
  \E units \in Arrived(Len(wire.answers), "answers") \ {<< >>} :
    LET text == Text(units)
        str  == Str(text)
    IN
    /\ app.pc = "wait"
    /\ wire' = Rest("answers", units)
    /\ \/ FoundOK(str) /\ AppGives("closed")
       \/ ~FoundOK(str) /\ LastR(str) = 0 /\ app' = [app EXCEPT !.buf = text, !.index = 0]
       \/ /\ ~FoundOK(str) /\ LastR(str) # 0
          /\ app' = [app EXCEPT !.buf = Moved(text), !.index = Len(str) - LastR(str) + 1]
    /\ UNCHANGED <<rd, player, conn, history>>

\* POLLHUP is what a local socket reports as soon as the server closes it:
\* rsnd_close_ctl sees it before it asks, or while it waits.
CloseCtlHup ==
  /\ app.pc \in {"ready", "wait"} /\ ~conn.ctl
  /\ AppGives("closed")
  /\ UNCHANGED <<rd, player, conn, wire, history>>

\* recv() says that the server has closed, or nothing came for 2 s.
CloseCtlFails ==
  /\ app.pc = "wait"
  /\ \/ Ended(<< >>)
     \/ "late" \in Faults
     \/ wire.answers = << >> /\ wire.requests = << >> /\ conn.pc = "idle"
  /\ AppGives("refused")
  /\ UNCHANGED <<rd, player, conn, wire, history>>

\* From the first call on the server is queried.
rsd_delay ==
  /\ app.pc = "ready" /\ ~rd.use_latency
  /\ rd' = [rd EXCEPT !.use_latency = TRUE]
  /\ UNCHANGED <<player, app, conn, wire, history>>

Application ==
  \/ rsnd_send_identity_info \/ rsd_write \/ rsd_delay \/ rsd_stop
  \/ rsnd_close_ctl \/ CloseCtlRead \/ CloseCtlHup \/ CloseCtlFails

-----------------------------------------------------------------------------
(* The server's connection thread: receive_data and handle_ctl_request      *)

receive_data ==
  /\ conn.pc = "idle" /\ conn.serv_ptr < rd.total_written
  /\ conn' = [conn EXCEPT !.serv_ptr = @ + Chunk]
  /\ UNCHANGED <<rd, player, app, wire, history>>

\* Eight bytes, or what there is.  Without "RSD" they are skipped; "RSD"
\* without its length makes it read nothing and return.
HandleHeader ==
  \E u \in Arrived(Header, "requests") \ {<< >>} :
    /\ conn.pc = "idle" /\ conn.ctl
    /\ wire' = Rest("requests", u)
    /\ conn' = IF HeaderLen(u) > 0 THEN [conn EXCEPT !.pc = "body", !.len = HeaderLen(u)] ELSE conn
    /\ UNCHANGED <<rd, player, app, history>>

\* Keywords are looked for anywhere in the body, in this order; the name of
\* a stream is text like any other.
Keywords == <<"NULL", "STOP", "INFO", "IDENTITY", "CLOSECTL">>
Says(u, word) ==
  \E i \in 1..Len(u) : \/ u[i][1] = "b1" /\ u[i][2].type = word
                       \/ u[i][1] = "b2" /\ u[i][2].type = "IDENTITY" /\ u[i][2].name = word

get_proto(u) ==
  LET i == First({j \in 1..Len(Keywords) : Says(u, Keywords[j])})
  IN  IF i = 0 THEN "none" ELSE Keywords[i]

\* The number is read five characters into the body, wherever "INFO" was.
client_ptr(u) == IF u[1][1] = "b1" /\ u[1][2].type = "INFO" THEN Number(u, 2) ELSE 0

\* An answer leaves, if the socket has room for it.
send_proto(m, u) ==
  \E units \in Taken(m) :
    /\ wire' = [Rest("requests", u) EXCEPT !.answers = @ \o units]
    /\ history' = [history EXCEPT !.acted = Append(@, m.type), !.answered = @ \cup {<<m.c, m.s>>},
                                  !.cut = @ \/ units \notin {<< >>, Units(m)}]

\* Faulty variant: acts on the part of the body that has come, and once more
\* when the rest has.
HandleBody_twice ==
  \E u \in Arrived(conn.len, "requests") :
    LET proto == get_proto(u) IN
    /\ conn.pc = "body" /\ proto # "none"
    /\ wire' = IF Len(u) = conn.len THEN Rest("requests", u) ELSE wire
    /\ conn' = IF Len(u) = conn.len THEN [conn EXCEPT !.pc = "idle"] ELSE conn
    /\ history' = [history EXCEPT !.acted = Append(@, proto)]
    /\ UNCHANGED <<rd, player, app>>

\* The body must be there, all of it.  backend->latency is what the device
\* has not played of it yet.
HandleBody ==
  \E u \in Arrived(conn.len, "requests") :
    LET proto == IF Len(u) < conn.len THEN "none" ELSE get_proto(u)
        Back  == conn' = [conn EXCEPT !.pc = "idle"]
        Note  == history' = [history EXCEPT !.acted = Append(@, proto)]
    IN
    /\ conn.pc = "body"
    /\ \/ /\ proto \in {"none", "NULL", "IDENTITY"} /\ Back
          /\ wire' = Rest("requests", u)
          /\ IF proto = "none" THEN UNCHANGED history ELSE Note
       \/ /\ proto = "STOP" /\ conn' = [conn EXCEPT !.pc = "ended", !.ctl = FALSE]
          /\ wire' = Rest("requests", u) /\ Note
       \/ /\ proto = "INFO" /\ Back
          /\ \E latency \in 0..Latency :
               send_proto(Answer("INFO", client_ptr(u), conn.serv_ptr - latency), u)
       \/ /\ proto = "CLOSECTL" /\ conn' = [conn EXCEPT !.pc = "idle", !.ctl = FALSE]
          /\ send_proto(Answer("OK", 0, 0), u)
    /\ UNCHANGED <<rd, player, app>>

rsd_thread ==
  /\ app.pc \in {"ready", "wait", "stopped"}
  /\ receive_data \/ HandleHeader \/ HandleBody

-----------------------------------------------------------------------------
\* Nobody has anything left to do.
Done ==
  /\ app.pc \in {"closed", "refused", "stopped"}
  /\ UNCHANGED vars

Next ==
  \/ rsnd_thread
  \/ Application
  \/ rsd_thread
  \/ Done

Spec == Init /\ [][Next]_vars

-----------------------------------------------------------------------------
(* Properties                                                               *)

\* Every variable has its type.
TypeOK ==
  /\ rd.total_written \in 0..(Chunk * MaxChunks) /\ rd.fifo \in 0..FifoSize
  /\ player.pc \in {"top", "header", "body", "apply", "chunk", "asleep", "ended"}
  /\ app.pc \in {"connected", "ready", "wait", "closed", "refused", "stopped"}
  /\ app.index \in 0..Len(app.buf)
  /\ conn.pc \in {"idle", "body", "ended"} /\ conn.serv_ptr \in 0..rd.total_written
  /\ \A dir \in {"requests", "answers"} : \A i \in 1..Len(wire[dir]) : wire[dir][i][2].type \in Types

(***************************************************************************)
(* handle_ctl_request: however the requests are cut into pieces and however *)
(* many of them are lost, the server acts only on requests the client made, *)
(* in the order it made them and on each at most once.                      *)
(***************************************************************************)
ActsOnRequests ==
  \E f \in [1..Len(history.acted) -> 1..Len(history.asked)] :
    \A i \in 1..Len(history.acted) :
      /\ \/ history.asked[f[i]].type = history.acted[i]
         \/ history.acted[i] = "OK" /\ history.asked[f[i]].type = "CLOSECTL"
         \/ history.asked[f[i]].name = history.acted[i]
      /\ \A j \in 1..Len(history.acted) : j < i => f[j] < f[i]

(***************************************************************************)
(* rsnd_update_server_info: whatever is split or lost, the estimate follows *)
(* only an answer that the server really gave: both numbers are whole and   *)
(* from the same answer, to a question asked at that point of the stream.   *)
(* It no longer holds once the server has sent a part of an answer, without *)
(* its last digit and with another answer behind it, nor once rsd_exec      *)
(* reads from the same socket: two readers take parts of each other's       *)
(* messages.                                                                *)
(***************************************************************************)
FollowsTheServer ==
  rd.applied # << >> /\ ~history.cut /\ app.pc \in {"ready", "stopped"} =>
    /\ rd.applied \in history.answered
    /\ \E i \in 1..Len(history.asked) : history.asked[i].c = rd.applied[1]

(***************************************************************************)
(* rsnd_close_ctl succeeds only when the server has let go of the control   *)
(* connection, whatever answers are mixed into the one it waits for and     *)
(* whatever the playback thread has taken from the socket.                  *)
(***************************************************************************)
CloseCtlHonest == app.pc = "closed" => ~conn.ctl
=============================================================================
