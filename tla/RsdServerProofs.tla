--------------------------- MODULE RsdServerProofs ---------------------------
(***************************************************************************)
(* The safety properties of RsdServer for every number of clients,          *)
(* connection threads and descriptors.                                      *)
(***************************************************************************)
EXTENDS RsdServer, FiniteSetTheorems, WellFoundedInduction, TLAPS

-----------------------------------------------------------------------------
(* Descriptor numbers *)

\* A set of numbers has a lowest one: the sets 0..f of its members below a
\* given one are finitely many, so strict inclusion has a minimal one.
LEMMA LowestExists ==
  ASSUME NEW S, S \subseteq Nat, S # {}
  PROVE  \E f \in S : \A g \in S : f <= g
<1>1. PICK n \in S : TRUE
  OBVIOUS
<1> DEFINE Up == {T \in SUBSET (0..n) : \E f \in S : f <= n /\ T = 0..f}
<1>2. IsFiniteSet(0..n) /\ n \in Nat /\ n <= n
  BY <1>1, FS_Interval
<1>3. IsWellFoundedOn(StrictSubsetOrdering(0..n), SUBSET (0..n))
  BY <1>2, FS_FiniteSubsetsOfFinite, FS_StrictSubsetOrderingWellFounded
<1>4. Up \subseteq SUBSET (0..n) /\ Up # {}
  <2>1. 0..n \in Up
    BY <1>1, <1>2
  <2> QED BY <2>1
<1>5. PICK T \in Up : \A U \in Up : <<U, T>> \notin StrictSubsetOrdering(0..n)
  <2> HIDE DEF Up
  <2> QED BY <1>3, <1>4, WFMin
<1>6. PICK f \in S : f <= n /\ T = 0..f
  BY <1>5
<1>7. ASSUME NEW g \in S PROVE f <= g
  <2> SUFFICES ASSUME g < f PROVE FALSE
    BY <1>6
  <2>1. 0..g \in Up /\ g <= n /\ f \in T /\ f \notin 0..g /\ (0..g) \subseteq T
    BY <1>2, <1>6
  <2>2. <<0..g, T>> \in StrictSubsetOrdering(0..n)
    BY <1>4, <1>5, <2>1 DEF StrictSubsetOrdering
  <2> QED BY <1>5, <2>1, <2>2
<1> QED BY <1>7

\* What accept() returns.
LEMMA LowestFreeFacts ==
  ASSUME FreeFds # {}
  PROVE  LowestFree \in 0..MaxFd /\ fd[LowestFree] = Free
<1>1. FreeFds \subseteq Nat
  BY RsdServerAssumption DEF FreeFds
<1>2. \E f \in FreeFds : \A g \in FreeFds : f <= g
  BY <1>1, LowestExists
<1>3. LowestFree \in FreeFds
  BY <1>2 DEF LowestFree, Min
<1> QED BY <1>3 DEF FreeFds

-----------------------------------------------------------------------------
(* Sequences *)

\* An element that is added at the end.
LEMMA AppendFacts ==
  ASSUME NEW S, NEW s \in Seq(S), NEW e \in S
  PROVE  /\ Append(s, e) \in Seq(S) /\ Len(Append(s, e)) = Len(s) + 1 /\ Len(s) \in Nat
         /\ \A i \in 1..Len(s) : Append(s, e)[i] = s[i]
         /\ Append(s, e)[Len(s) + 1] = e
  OBVIOUS

\* The first element and the others.
LEMMA TailFacts ==
  ASSUME NEW S, NEW s \in Seq(S), s # << >>
  PROVE  /\ Head(s) \in S /\ Head(s) = s[1] /\ 1 \in 1..Len(s) /\ Len(s) \in Nat
         /\ Tail(s) \in Seq(S) /\ Len(Tail(s)) = Len(s) - 1
         /\ \A i \in 1..(Len(s) - 1) : Tail(s)[i] = s[i + 1]
  OBVIOUS

\* What is left from the n-th element on.
LEMMA RestFacts ==
  ASSUME NEW S, NEW s \in Seq(S), NEW n \in 1..(Len(s) + 1)
  PROVE  /\ SubSeq(s, n, Len(s)) \in Seq(S) /\ Len(SubSeq(s, n, Len(s))) = Len(s) - n + 1
         /\ \A i \in 1..(Len(s) - n + 1) : SubSeq(s, n, Len(s))[i] = s[n + i - 1]
  OBVIOUS

-----------------------------------------------------------------------------
(* Types *)

ClientLabels == {"new", "data", "both", "started", "closectl", "exec", "stopped", "gone", "left"}
Loop == [pc : {"accept", "poll", "check", "nonblock", "join"}, s_new : -1..MaxFd,
         s_ctl : -1..MaxFd, last_thread : 0..MaxThreads, their_addr : Seq(Endpoint)]
Connection == [pc : ThreadLabels, socket : 0..MaxFd, ctl : 0..MaxFd, own : Seq(Endpoint),
               ready : SUBSET (0..MaxFd), buffer : Seq(Item), played : Seq(Item), broke : BOOLEAN]

\* What the accept loop has at hand.
MainInv ==
  /\ main.pc = "accept" => main.their_addr = << >>
  /\ main.pc # "accept" => main.s_new \in 0..MaxFd
  /\ main.pc = "poll" => Len(main.their_addr) = 1
  /\ main.pc \in {"check", "nonblock", "join"} =>
       /\ main.s_ctl \in 0..MaxFd
       /\ Len(main.their_addr) \in {1, 2}
       /\ Len(main.their_addr) = 1 => main.s_ctl = 0

TypeInv == TypeOK /\ MainInv

\* What poll() says is readable is an endpoint of a client.
LEMMA ReadableFacts ==
  ASSUME TypeOK, NEW f \in 0..MaxFd, Readable(f)
  PROVE  /\ fd[f] \in Endpoint /\ inbox[fd[f]] \in Seq(Item) /\ inbox[fd[f]] # << >>
         /\ Consumed(f) \in [Endpoint -> Seq(Item)]
<1>1. fd[f] \in Endpoint /\ inbox[fd[f]] \in Seq(Item) /\ inbox[fd[f]] # << >>
  BY DEF Readable, TypeOK
<1>2. Tail(inbox[fd[f]]) \in Seq(Item)
  BY <1>1, TailFacts
<1> QED BY <1>1, <1>2 DEF Consumed, TypeOK

LEMMA SendTypes ==
  ASSUME TypeOK, NEW e \in Endpoint, NEW n \in 0..MaxUnits,
         NEW kind \in {"header", "audio", "INFO", "IDENTITY", "STOP", "CLOSECTL"}, Send(e, kind, n)
  PROVE  inbox' \in [Endpoint -> Seq(Item)]
<1>1. <<kind, e[1], n>> \in Item
  BY DEF Endpoint, Item
<1>2. inbox[e] \in Seq(Item)
  BY DEF TypeOK
<1>3. Append(inbox[e], <<kind, e[1], n>>) \in Seq(Item)
  BY <1>1, <1>2, AppendFacts
<1> QED BY <1>3 DEF Send, TypeOK

LEMMA ClientTypes == TypeInv /\ ClientStep => TypeInv'
<1> SUFFICES ASSUME TypeOK, MainInv, NEW c \in Clients,
                    \/ ConnectData(c) \/ ConnectCtl(c) \/ SendHeader(c) \/ SendAudio(c)
                    \/ \E kind \in Requests : SendRequest(c, kind)
                    \/ SendCloseCtl(c) \/ CloseCtl(c) \/ Stop(c) \/ HangUp(c)
             PROVE  TypeInv'
  BY DEF ClientStep, TypeInv
<1>1. <<c, "data">> \in Endpoint /\ <<c, "ctl">> \in Endpoint /\ 0 \in 0..MaxUnits
  BY RsdServerAssumption DEF Endpoint
<1>2. UNCHANGED server
  BY DEF ConnectData, ConnectCtl, SendHeader, SendAudio, SendRequest, SendCloseCtl, CloseCtl, Stop, HangUp
<1>3. client' \in [Clients -> ClientLabels]
  BY DEF ConnectData, ConnectCtl, SendHeader, SendAudio, SendRequest, SendCloseCtl, CloseCtl, Stop,
     HangUp, TypeOK, ClientLabels
<1>4. units' \in [Clients -> 0..MaxUnits]
  BY RsdServerAssumption DEF ConnectData, ConnectCtl, SendHeader, SendAudio, SendRequest, SendCloseCtl,
     CloseCtl, Stop, HangUp, TypeOK
<1>5. backlog' \in Seq(Endpoint)
  <2>1. backlog' \in {backlog, Append(backlog, <<c, "data">>), Append(backlog, <<c, "ctl">>)}
    BY DEF ConnectData, ConnectCtl, SendHeader, SendAudio, SendRequest, SendCloseCtl, CloseCtl, Stop,
       HangUp
  <2>2. backlog \in Seq(Endpoint)
    BY DEF TypeOK
  <2> QED BY <1>1, <2>1, <2>2, AppendFacts
<1>6. inbox' \in [Endpoint -> Seq(Item)]
  <2>1. units[c] < MaxUnits => units[c] + 1 \in 0..MaxUnits
    BY RsdServerAssumption DEF TypeOK
  <2>2. CASE ConnectData(c) \/ ConnectCtl(c) \/ CloseCtl(c) \/ HangUp(c)
    BY <2>2 DEF ConnectData, ConnectCtl, CloseCtl, HangUp, TypeOK
  <2>3. CASE SendHeader(c) \/ SendCloseCtl(c) \/ Stop(c)
    BY <1>1, <2>3, SendTypes DEF SendHeader, SendCloseCtl, Stop
  <2>4. CASE SendAudio(c)
    BY <1>1, <2>1, <2>4, SendTypes DEF SendAudio
  <2>5. ASSUME NEW kind \in Requests, SendRequest(c, kind) PROVE inbox' \in [Endpoint -> Seq(Item)]
    BY <1>1, <2>5, RsdServerAssumption, SendTypes DEF SendRequest
  <2> QED BY <2>2, <2>3, <2>4, <2>5
<1>7. hung' \subseteq Endpoint
  BY <1>1 DEF ConnectData, ConnectCtl, SendHeader, SendAudio, SendRequest, SendCloseCtl, CloseCtl, Stop,
     HangUp, TypeOK
<1> QED BY <1>2, <1>3, <1>4, <1>5, <1>6, <1>7 DEF server, TypeInv, TypeOK, MainInv, ClientLabels

\* close() of any number.
LEMMA ClosedType ==
  ASSUME NEW table \in [0..MaxFd -> Endpoint \cup {Stdin, Free}], NEW f
  PROVE  Closed(table, f) \in [0..MaxFd -> Endpoint \cup {Stdin, Free}]
BY DEF Closed

LEMMA MainTypes == TypeInv /\ MainStep => TypeInv'
<1> SUFFICES ASSUME TypeOK, MainInv, MainStep PROVE TypeInv'
  BY DEF TypeInv
<1>1. main \in Loop /\ main.their_addr \in Seq(Endpoint) /\ backlog \in Seq(Endpoint)
      /\ fd \in [0..MaxFd -> Endpoint \cup {Stdin, Free}]
  BY DEF TypeOK, Loop
<1>2. backlog # << >> => /\ Head(backlog) \in Endpoint /\ Tail(backlog) \in Seq(Endpoint)
                         /\ <<Head(backlog)>> \in Seq(Endpoint) /\ Len(<<Head(backlog)>>) = 1
                         /\ Append(main.their_addr, Head(backlog)) \in Seq(Endpoint)
                         /\ Len(Append(main.their_addr, Head(backlog))) = Len(main.their_addr) + 1
  <2> SUFFICES ASSUME backlog # << >>
               PROVE  /\ Head(backlog) \in Endpoint /\ Tail(backlog) \in Seq(Endpoint)
                      /\ <<Head(backlog)>> \in Seq(Endpoint) /\ Len(<<Head(backlog)>>) = 1
                      /\ Append(main.their_addr, Head(backlog)) \in Seq(Endpoint)
                      /\ Len(Append(main.their_addr, Head(backlog))) = Len(main.their_addr) + 1
    OBVIOUS
  <2>1. Head(backlog) \in Endpoint /\ Tail(backlog) \in Seq(Endpoint)
    BY <1>1, TailFacts
  <2> QED BY <1>1, <2>1, AppendFacts
<1>3. NextClient \in Loop /\ NextClient.pc = "accept" /\ NextClient.their_addr = << >>
      /\ CloseBoth \in [0..MaxFd -> Endpoint \cup {Stdin, Free}]
      /\ NextClient.last_thread = main.last_thread
  <2>1. NoFd \in -1..MaxFd /\ << >> \in Seq(Endpoint)
    BY RsdServerAssumption DEF NoFd
  <2>2. NextClient \in Loop /\ NextClient.pc = "accept" /\ NextClient.their_addr = << >>
        /\ NextClient.last_thread = main.last_thread
    BY <1>1, <2>1 DEF NextClient, Loop
  <2>3. CloseBoth \in [0..MaxFd -> Endpoint \cup {Stdin, Free}]
    BY <1>1, ClosedType DEF CloseBoth
  <2> QED BY <2>2, <2>3
<1>4. FreeFds # {} => LowestFree \in 0..MaxFd
  BY LowestFreeFacts
<1> USE DEF Loop
<1>5. CASE AcceptData
  <2>1. /\ fd' = [fd EXCEPT ![LowestFree] = Head(backlog)] /\ backlog' = Tail(backlog)
        /\ main' = [main EXCEPT !.pc = "poll", !.s_new = LowestFree, !.their_addr = <<Head(backlog)>>]
        /\ backlog # << >> /\ FreeFds # {}
        /\ UNCHANGED <<no_threading, clients, inbox, hung, informed, acked, thr>>
    BY <1>5 DEF AcceptData
  <2> DEFINE from == <<Head(backlog)>>
  <2>3. main' = [main EXCEPT !.pc = "poll", !.s_new = LowestFree, !.their_addr = from]
        /\ from \in Seq(Endpoint) /\ Len(from) = 1 /\ LowestFree \in 0..MaxFd /\ LowestFree \in -1..MaxFd
    BY <1>2, <1>4, <2>1
  <2> HIDE DEF from
  <2>4. main'.pc = "poll" /\ main'.s_new = LowestFree /\ main'.their_addr = from /\ main' \in Loop
    BY <1>1, <2>3
  <2>2. main' \in Loop /\ MainInv'
    BY <2>3, <2>4 DEF MainInv
  <2> QED BY <1>1, <1>2, <1>4, <2>1, <2>2 DEF TypeInv, TypeOK, clients
<1>6. CASE AcceptCtl
  <2>1. /\ fd' = [fd EXCEPT ![LowestFree] = Head(backlog)] /\ backlog' = Tail(backlog)
        /\ main' = [main EXCEPT !.pc = "check", !.s_ctl = LowestFree,
                                !.their_addr = Append(@, Head(backlog))]
        /\ backlog # << >> /\ FreeFds # {} /\ main.pc = "poll"
        /\ UNCHANGED <<no_threading, clients, inbox, hung, informed, acked, thr>>
    BY <1>6 DEF AcceptCtl
  <2>2. Len(Append(main.their_addr, Head(backlog))) = 2
    <3>1. Len(main.their_addr) = 1
      BY <2>1 DEF MainInv
    <3> QED BY <1>2, <2>1, <3>1
  <2> DEFINE from == Append(main.their_addr, Head(backlog))
  <2>4. main' = [main EXCEPT !.pc = "check", !.s_ctl = LowestFree, !.their_addr = from]
        /\ from \in Seq(Endpoint) /\ Len(from) = 2 /\ LowestFree \in 0..MaxFd /\ LowestFree \in -1..MaxFd
    BY <1>2, <1>4, <2>1, <2>2
  <2> HIDE DEF from
  <2>5. main'.pc = "check" /\ main'.s_ctl = LowestFree /\ main'.their_addr = from /\ main' \in Loop
        /\ main'.s_new = main.s_new
    BY <1>1, <2>4
  <2>6. main.s_new \in 0..MaxFd
    BY <2>1 DEF MainInv
  <2>3. main' \in Loop /\ MainInv'
    <3>1. Len(main'.their_addr) = 2 /\ main'.pc = "check" /\ main'.s_ctl \in 0..MaxFd
          /\ main'.s_new \in 0..MaxFd
      BY <2>4, <2>5, <2>6
    <3> QED BY <2>5, <3>1 DEF MainInv
  <2> QED BY <1>1, <1>2, <1>4, <2>1, <2>3 DEF TypeInv, TypeOK, clients
<1>7. CASE AcceptCtlFails
  <2>1. main' \in Loop /\ MainInv'
    BY <1>3, <1>7 DEF AcceptCtlFails, MainInv
  <2> QED BY <1>1, <1>7, <2>1, ClosedType DEF AcceptCtlFails, TypeInv, TypeOK, clients, wires
<1>8. CASE CtlTimeout
  <2>1. main' \in Loop /\ MainInv'
    <3>1. main' = [main EXCEPT !.pc = "check", !.s_ctl = 0] /\ main.pc = "poll"
          /\ 0 \in 0..MaxFd /\ 0 \in -1..MaxFd
      BY <1>8, RsdServerAssumption DEF CtlTimeout
    <3>2. main'.pc = "check" /\ main'.s_ctl = 0 /\ main'.s_new = main.s_new
          /\ main'.their_addr = main.their_addr /\ main' \in Loop
      BY <1>1, <3>1
    <3> QED BY <3>1, <3>2 DEF MainInv
  <2> QED BY <1>8, <2>1 DEF CtlTimeout, TypeInv, TypeOK, clients, wires
<1>9. CASE CheckSource \/ SetNonBlocking
  <2>1. /\ main' = NextClient \/ (main' = [main EXCEPT !.pc = "nonblock"] /\ main.pc = "check")
                              \/ (main' = [main EXCEPT !.pc = "join"] /\ main.pc = "nonblock")
        /\ fd' = CloseBoth \/ fd' = fd
        /\ UNCHANGED <<no_threading, clients, wires, informed, acked, thr>>
    BY <1>9 DEF CheckSource, SetNonBlocking
  <2>2. main' \in Loop /\ MainInv'
    BY <1>1, <1>3, <2>1 DEF MainInv
  <2> QED BY <1>1, <1>3, <2>1, <2>2 DEF TypeInv, TypeOK, clients, wires
<1>10. CASE new_sound_thread
  <2>1. PICK t \in Thread :
          /\ thr' = [thr EXCEPT ![t] = [@ EXCEPT !.pc = "header", !.socket = main.s_new,
                                                 !.ctl = main.s_ctl, !.own = main.their_addr]]
          /\ main' = [NextClient EXCEPT !.last_thread = t]
    BY <1>10 DEF new_sound_thread
  <2>2. main' \in Loop /\ MainInv'
    BY <1>3, <2>1, RsdServerAssumption DEF MainInv, Thread
  <2>3. main.s_new \in 0..MaxFd /\ main.s_ctl \in 0..MaxFd
    BY <1>10 DEF new_sound_thread, MainInv
  <2>4. thr' \in [Thread -> Connection]
    <3>1. thr \in [Thread -> Connection] /\ "header" \in ThreadLabels
      BY DEF TypeOK, Connection, ThreadLabels
    <3>2. [thr[t] EXCEPT !.pc = "header", !.socket = main.s_new, !.ctl = main.s_ctl,
                         !.own = main.their_addr] \in Connection
      <4> DEFINE a == main.s_new
                 b == main.s_ctl
                 o == main.their_addr
                 h == thr[t]
      <4>1. h \in Connection /\ a \in 0..MaxFd /\ b \in 0..MaxFd /\ o \in Seq(Endpoint)
        BY <1>1, <2>3, <3>1
      <4> HIDE DEF a, b, o, h
      <4>2. [h EXCEPT !.pc = "header", !.socket = a, !.ctl = b, !.own = o] \in Connection
        BY <3>1, <4>1 DEF Connection
      <4> QED BY <4>2 DEF a, b, o, h
    <3> QED BY <2>1, <3>1, <3>2
  <2> QED BY <1>10, <2>2, <2>4 DEF new_sound_thread, TypeInv, TypeOK, clients, wires, Connection
<1> QED BY <1>5, <1>6, <1>7, <1>8, <1>9, <1>10 DEF MainStep

\* A thread that moves on.
LEMMA StepType ==
  ASSUME thr \in [Thread -> Connection], NEW t \in Thread, NEW label \in ThreadLabels, Step(t, label)
  PROVE  thr' \in [Thread -> Connection]
BY DEF Step, Connection

\* Two pieces of audio put together.
LEMMA JoinType ==
  ASSUME NEW S, NEW a \in Seq(S), NEW b \in Seq(S)
  PROVE  a \o b \in Seq(S)
  OBVIOUS

LEMMA JoinFacts ==
  ASSUME NEW S, NEW a \in Seq(S), NEW b \in Seq(S)
  PROVE  /\ Len(a) \in Nat /\ Len(b) \in Nat /\ Len(a \o b) = Len(a) + Len(b)
         /\ \A i \in 1..Len(a) : (a \o b)[i] = a[i]
         /\ \A i \in 1..Len(b) : (a \o b)[Len(a) + i] = b[i]
  OBVIOUS

\* What handle_ctl_request may do, whatever the requests are: it takes the first
\* of them and the thread ends, goes on, or closes its control socket.
LEMMA RequestCases ==
  ASSUME TypeOK, NEW t \in Thread, fd[thr[t].ctl] \in Endpoint, handle_ctl_request(t)
  PROVE  /\ \E n \in 1..(Len(inbox[fd[thr[t].ctl]]) + 1) :
              inbox' = [inbox EXCEPT ![fd[thr[t].ctl]] = SubSeq(@, n, Len(@))]
         /\ \/ Step(t, "exit") /\ UNCHANGED <<acked, fd>>
            \/ Step(t, "serve_data") /\ UNCHANGED <<acked, fd>>
            \/ CloseCtlRequest(t)
<1> DEFINE ctl   == thr[t].ctl
           msgs  == inbox[fd[ctl]]
           ends  == {i \in 1..Len(msgs) : msgs[i][1] \in {"STOP", "CLOSECTL"}}
           last  == IF ends = {} THEN 0 ELSE Min(ends)
           n     == IF last = 0 THEN Len(msgs) ELSE last
           taken == SubSeq(msgs, 1, n)
<1>1. msgs \in Seq(Item)
  BY DEF TypeOK
<1>2. Len(msgs) \in Nat
  BY <1>1
<1>3. n \in 0..Len(msgs)
  <2>1. ends \subseteq 1..Len(msgs) /\ ends \subseteq Nat
    OBVIOUS
  <2>2. ends # {} => Min(ends) \in ends
    <3> HIDE DEF ends
    <3> QED BY <2>1, LowestExists DEF Min
  <2>3. last \in 0..Len(msgs)
    <3>1. CASE ends = {}
      <4>1. last = 0
        BY <3>1
      <4> QED BY <1>2, <4>1
    <3>2. CASE ends # {}
      <4>1. last = Min(ends)
        BY <3>2
      <4> HIDE DEF ends, last
      <4>2. last \in 1..Len(msgs)
        BY <2>1, <2>2, <3>2, <4>1
      <4> HIDE DEF msgs
      <4> QED BY <1>2, <4>2
    <3> QED BY <3>1, <3>2
  <2> HIDE DEF last
  <2> QED BY <1>2, <2>3
<1>4. Len(taken) = n
  <2> HIDE DEF msgs, n
  <2> QED BY <1>1, <1>3
<1>5. /\ inbox' = [inbox EXCEPT ![fd[ctl]] = SubSeq(@, Len(taken) + 1, Len(@))]
      /\ \/ Step(t, "exit") /\ UNCHANGED <<acked, fd>>
         \/ Step(t, "serve_data") /\ UNCHANGED <<acked, fd>>
         \/ CloseCtlRequest(t)
  BY DEF handle_ctl_request
<1>6. Len(taken) + 1 \in 1..(Len(msgs) + 1)
  <2> HIDE DEF msgs, n, taken
  <2> QED BY <1>2, <1>3, <1>4
<1> HIDE DEF taken
<1> QED BY <1>5, <1>6

LEMMA ThreadTypes ==
  ASSUME NEW t \in Thread
  PROVE  TypeInv /\ rsd_thread(t) => TypeInv'
<1> SUFFICES ASSUME TypeOK, MainInv, rsd_thread(t) PROVE TypeInv'
  BY DEF TypeInv
<1>1. /\ thr \in [Thread -> Connection] /\ thr[t] \in Connection
      /\ fd \in [0..MaxFd -> Endpoint \cup {Stdin, Free}] /\ inbox \in [Endpoint -> Seq(Item)]
      /\ thr[t].socket \in 0..MaxFd /\ thr[t].ctl \in 0..MaxFd
      /\ thr[t].buffer \in Seq(Item) /\ thr[t].played \in Seq(Item)
  BY DEF TypeOK, Connection
<1>2. ASSUME thr' \in [Thread -> Connection], inbox' \in [Endpoint -> Seq(Item)],
             informed' \subseteq Endpoint, acked' \subseteq Endpoint,
             fd' \in [0..MaxFd -> Endpoint \cup {Stdin, Free}],
             UNCHANGED <<no_threading, clients, backlog, hung, main>>
      PROVE  TypeInv'
  BY <1>2 DEF TypeInv, TypeOK, MainInv, clients, Connection
<1>3. ASSUME NEW l \in ThreadLabels, thr' = [thr EXCEPT ![t].pc = l, ![t].broke = TRUE]
      PROVE  thr' \in [Thread -> Connection]
  BY <1>1, <1>3 DEF Connection
<1>4. {"header", "drop", "drop_ctl", "init", "info", "stream", "serve_ctl", "serve_data", "write",
       "exit", "exit_ctl", "exited"} \subseteq ThreadLabels
  BY DEF ThreadLabels
<1>5. CASE get_wav_header(t)
  <2>1. /\ UNCHANGED <<no_threading, clients, backlog, hung, informed, acked, fd, main>>
        /\ \E l \in {"init", "header", "drop"} : Step(t, l)
        /\ inbox' = inbox \/ (Readable(thr[t].socket) /\ inbox' = Consumed(thr[t].socket))
    BY <1>5 DEF get_wav_header
  <2>2. thr' \in [Thread -> Connection]
    BY <1>1, <1>4, <2>1, StepType
  <2>3. inbox' \in [Endpoint -> Seq(Item)]
    BY <1>1, <2>1, ReadableFacts
  <2>4. fd' = fd /\ informed' \subseteq Endpoint /\ acked' \subseteq Endpoint
    BY <2>1 DEF TypeOK
  <2> QED BY <1>1, <1>2, <2>1, <2>2, <2>3, <2>4
<1>6. CASE DropData(t) \/ DropCtl(t) \/ CloseData(t) \/ CloseCtlSocket(t)
  <2>1. /\ UNCHANGED <<no_threading, clients, wires, informed, acked, main>>
        /\ \E l \in {"drop_ctl", "exited", "exit_ctl"} : Step(t, l)
        /\ fd' = fd \/ \E f : fd' = Closed(fd, f)
    BY <1>6 DEF DropData, DropCtl, CloseData, CloseCtlSocket
  <2>2. fd' \in [0..MaxFd -> Endpoint \cup {Stdin, Free}]
    BY <1>1, <2>1, ClosedType
  <2> QED BY <1>1, <1>2, <1>4, <2>1, <2>2, StepType DEF TypeOK, wires
<1>7. CASE OpenBackend(t)
  <2>1. /\ UNCHANGED <<no_threading, clients, wires, informed, acked, fd, main>>
        /\ Step(t, "info") \/ thr' = [thr EXCEPT ![t].pc = "exit", ![t].broke = TRUE]
    BY <1>7 DEF OpenBackend
  <2>2. thr' \in [Thread -> Connection]
    BY <1>1, <1>3, <1>4, <2>1, StepType
  <2> QED BY <1>2, <2>1, <2>2 DEF TypeOK, wires
<1>8. CASE send_backend_info(t)
  <2>1. /\ UNCHANGED <<no_threading, clients, wires, acked, fd, main>>
        /\ \E l \in {"stream", "exit"} : Step(t, l)
        /\ informed' = informed \/ (informed' = informed \cup {fd[thr[t].socket]}
                                    /\ fd[thr[t].socket] \in Endpoint)
    BY <1>8 DEF send_backend_info
  <2>2. informed' \subseteq Endpoint
    BY <2>1 DEF TypeOK
  <2> QED BY <1>1, <1>2, <1>4, <2>1, <2>2, StepType DEF TypeOK, wires
<1>9. CASE Poll(t)
  <2>1. PICK ready \in SUBSET (0..MaxFd) :
          /\ thr' = [thr EXCEPT ![t].pc = "serve_ctl", ![t].ready = ready]
          /\ UNCHANGED <<no_threading, clients, wires, informed, acked, fd, main>>
    <3> DEFINE ready == {f \in {thr[t].socket} \cup ({thr[t].ctl} \ {0}) : PollIn(f)}
    <3>1. ready \in SUBSET (0..MaxFd)
      BY <1>1
    <3>2. /\ thr' = [thr EXCEPT ![t].pc = "serve_ctl", ![t].ready = ready]
          /\ UNCHANGED <<no_threading, clients, wires, informed, acked, fd, main>>
      BY <1>9 DEF Poll
    <3> HIDE DEF ready
    <3> QED BY <3>1, <3>2
  <2>2. thr' \in [Thread -> Connection]
    BY <1>1, <1>4, <2>1 DEF Connection
  <2> QED BY <1>2, <2>1, <2>2 DEF TypeOK, wires
<1>10. CASE ServeCtl(t)
  <2>1. /\ UNCHANGED <<no_threading, clients, backlog, hung, informed, main>>
        /\ \/ handle_ctl_request(t) /\ Readable(thr[t].ctl)
           \/ Step(t, "serve_data") /\ UNCHANGED <<inbox, acked, fd>>
    BY <1>10 DEF ServeCtl
  <2>2. CASE Step(t, "serve_data") /\ UNCHANGED <<inbox, acked, fd>>
    BY <1>1, <1>2, <1>4, <2>1, <2>2, StepType DEF TypeOK
  <2>3. CASE handle_ctl_request(t) /\ Readable(thr[t].ctl)
    <3>1. fd[thr[t].ctl] \in Endpoint
      BY <1>1, <2>3, ReadableFacts
    <3>2. inbox' \in [Endpoint -> Seq(Item)]
      <4> DEFINE e == fd[thr[t].ctl]
      <4>1. PICK n \in 1..(Len(inbox[e]) + 1) :
              inbox' = [inbox EXCEPT ![e] = SubSeq(@, n, Len(@))]
        BY <2>3, <3>1, RequestCases
      <4>2. e \in Endpoint /\ inbox[e] \in Seq(Item)
        BY <1>1, <3>1
      <4>3. SubSeq(inbox[e], n, Len(inbox[e])) \in Seq(Item)
        BY <4>2, RestFacts
      <4> HIDE DEF e
      <4> QED BY <1>1, <4>1, <4>2, <4>3
    <3>3. /\ thr' \in [Thread -> Connection] /\ acked' \subseteq Endpoint
          /\ fd' \in [0..MaxFd -> Endpoint \cup {Stdin, Free}]
      <4>1. CASE CloseCtlRequest(t)
        <5>1. thr' \in [Thread -> Connection]
          <6>1. thr' = [thr EXCEPT ![t].pc = "serve_data", ![t].ctl = 0] /\ 0 \in 0..MaxFd
            BY <4>1, RsdServerAssumption DEF CloseCtlRequest
          <6>2. [thr[t] EXCEPT !.pc = "serve_data", !.ctl = 0] \in Connection
            BY <1>1, <1>4, <6>1 DEF Connection
          <6> QED BY <1>1, <6>1, <6>2 DEF Connection
        <5> QED BY <1>1, <3>1, <4>1, <5>1, ClosedType DEF CloseCtlRequest, TypeOK
      <4>2. CASE \E l \in {"exit", "serve_data"} : Step(t, l) /\ UNCHANGED <<acked, fd>>
        BY <1>1, <1>4, <4>2, StepType DEF TypeOK
      <4> QED BY <2>3, <3>1, <4>1, <4>2, RequestCases
    <3> QED BY <1>2, <2>1, <3>2, <3>3 DEF TypeOK
  <2> QED BY <2>1, <2>2, <2>3
<1>11. CASE ServeData(t)
  <2>1. UNCHANGED <<no_threading, clients, backlog, hung, informed, acked, fd, main>>
    BY <1>11 DEF ServeData
  <2>2. CASE thr[t].socket \in thr[t].ready /\ Readable(thr[t].socket)
    <3> DEFINE item == Head(inbox[fd[thr[t].socket]])
    <3>1. PICK l \in {"write", "stream"} :
            /\ inbox' = Consumed(thr[t].socket)
            /\ thr' = [thr EXCEPT ![t] = [thr[t] EXCEPT !.ready = {}, !.pc = l,
                                                        !.buffer = Append(@, item)]]
      BY <1>1, <1>11, <2>2 DEF ServeData, Connection
    <3>2. item \in Item /\ Append(thr[t].buffer, item) \in Seq(Item)
      BY <1>1, <2>2, ReadableFacts, TailFacts, AppendFacts
    <3>3. inbox' \in [Endpoint -> Seq(Item)]
      BY <1>1, <2>2, <3>1, ReadableFacts
    <3> HIDE DEF item
    <3>4. thr' \in [Thread -> Connection]
      BY <1>1, <1>4, <3>1, <3>2 DEF Connection
    <3> QED BY <1>2, <2>1, <3>3, <3>4 DEF TypeOK
  <2>3. CASE ~(thr[t].socket \in thr[t].ready /\ Readable(thr[t].socket))
    <3>1. /\ inbox' = inbox
          /\ \E l \in {"exit", "stream"} : thr' = [thr EXCEPT ![t] = [thr[t] EXCEPT !.ready = {}, !.pc = l]]
      BY <1>1, <1>11, <2>3 DEF ServeData, Connection
    <3>2. PICK l \in {"exit", "stream"} : thr' = [thr EXCEPT ![t] = [thr[t] EXCEPT !.ready = {}, !.pc = l]]
      BY <3>1
    <3>3. [thr[t] EXCEPT !.ready = {}, !.pc = l] \in Connection
      BY <1>1, <1>4 DEF Connection
    <3>4. thr' \in [Thread -> Connection]
      BY <1>1, <3>2, <3>3
    <3> QED BY <1>2, <2>1, <3>1, <3>4 DEF TypeOK
  <2> QED BY <2>2, <2>3
<1>12. CASE BackendWrite(t)
  <2>1. /\ UNCHANGED <<no_threading, clients, wires, informed, acked, fd, main>>
        /\ \/ thr' = [thr EXCEPT ![t] = [thr[t] EXCEPT !.played = @ \o thr[t].buffer, !.buffer = << >>,
                                                       !.pc = "stream"]]
           \/ thr' = [thr EXCEPT ![t].pc = "exit", ![t].broke = TRUE]
    BY <1>12 DEF BackendWrite
  <2>2. thr[t].played \o thr[t].buffer \in Seq(Item) /\ << >> \in Seq(Item)
    BY <1>1, JoinType
  <2>3. [thr[t] EXCEPT !.played = @ \o thr[t].buffer, !.buffer = << >>, !.pc = "stream"] \in Connection
    BY <1>1, <1>4, <2>2 DEF Connection
  <2>4. thr' \in [Thread -> Connection]
    <3>1. CASE thr' = [thr EXCEPT ![t].pc = "exit", ![t].broke = TRUE]
      BY <1>3, <1>4, <3>1
    <3>2. CASE thr' = [thr EXCEPT ![t] = [thr[t] EXCEPT !.played = @ \o thr[t].buffer, !.buffer = << >>,
                                                        !.pc = "stream"]]
      <4> DEFINE h == [thr[t] EXCEPT !.played = @ \o thr[t].buffer, !.buffer = << >>, !.pc = "stream"]
      <4>1. h \in Connection
        BY <2>3
      <4>2. thr' = [thr EXCEPT ![t] = h]
        BY <3>2
      <4> HIDE DEF h
      <4> QED BY <1>1, <4>1, <4>2
    <3> QED BY <2>1, <3>1, <3>2
  <2> QED BY <1>2, <2>1, <2>4 DEF TypeOK, wires
<1> QED BY <1>5, <1>6, <1>7, <1>8, <1>9, <1>10, <1>11, <1>12 DEF rsd_thread

LEMMA TypeInit == Init => TypeInv
<1> SUFFICES ASSUME Init PROVE TypeInv
  OBVIOUS
<1>1. NewThread \in Connection
  BY RsdServerAssumption DEF NewThread, Connection, ThreadLabels
<1>2. main \in Loop /\ MainInv
  <2>1. main = [pc |-> "accept", s_new |-> NoFd, s_ctl |-> NoFd, last_thread |-> 0, their_addr |-> << >>]
    BY DEF Init
  <2> QED BY <2>1, RsdServerAssumption DEF Loop, NoFd, MainInv
<1>3. InitialFds \in [0..MaxFd -> Endpoint \cup {Stdin, Free}]
  BY DEF InitialFds
<1>4. client \in [Clients -> ClientLabels] /\ units \in [Clients -> 0..MaxUnits]
      /\ backlog \in Seq(Endpoint) /\ inbox \in [Endpoint -> Seq(Item)]
  BY RsdServerAssumption DEF Init, ClientLabels
<1>5. thr \in [Thread -> Connection] /\ fd = InitialFds /\ no_threading \in BOOLEAN
      /\ hung = {} /\ informed = {} /\ acked = {}
  BY <1>1 DEF Init
<1> QED BY <1>2, <1>3, <1>4, <1>5 DEF TypeInv, TypeOK, Loop, Connection, ClientLabels

LEMMA TypeStep == TypeInv /\ [Next]_vars => TypeInv'
<1> SUFFICES ASSUME TypeInv, [Next]_vars PROVE TypeInv'
  OBVIOUS
<1>1. CASE UNCHANGED vars
  BY <1>1 DEF vars, TypeInv, TypeOK, MainInv
<1>2. CASE ClientStep \/ MainStep \/ \E t \in Thread : rsd_thread(t)
  BY <1>2, ClientTypes, MainTypes, ThreadTypes
<1>3. CASE Waiting
  BY <1>1, <1>3 DEF Waiting
<1> QED BY <1>1, <1>2, <1>3 DEF Next

\* The accept loop only ever holds numbers that accept() returned or 0, and so do
\* the threads: the types of RsdServer's state, with MainInv to carry the loop's
\* own numbers and addresses from one step of new_sound_thread to the next.
THEOREM TypeCorrect == Spec => []TypeOK
<1>1. Init => TypeInv
  BY TypeInit
<1>2. TypeInv /\ [Next]_vars => TypeInv'
  BY TypeStep
<1>3. TypeInv => TypeOK
  BY DEF TypeInv
<1> QED BY <1>1, <1>2, <1>3, PTL DEF Spec

-----------------------------------------------------------------------------
(* One connection at a time *)

\* Without threading, only the thread that was started last can be alive: the
\* next one is started after it has exited.
LastOne == no_threading => \A t \in Thread : Live(t) => t = main.last_thread

\* A step of a thread leaves the others alone and starts none.
LEMMA ThreadFrame ==
  ASSUME TypeInv, NEW t \in Thread, rsd_thread(t)
  PROVE  /\ UNCHANGED <<no_threading, client, units, backlog, hung, main>>
         /\ \A u \in Thread \ {t} : thr'[u] = thr[u]
         /\ thr'[t].own = thr[t].own /\ thr'[t].socket = thr[t].socket
         /\ thr[t].pc \notin {"none", "exited"} /\ thr'[t].pc # "none"
<1>1. thr \in [Thread -> Connection]
  BY DEF TypeInv, TypeOK, Connection
<1>2. /\ UNCHANGED <<no_threading, client, units, backlog, hung, main>>
      /\ thr[t].pc \notin {"none", "exited"}
  BY DEF rsd_thread, get_wav_header, DropData, DropCtl, OpenBackend, send_backend_info, Poll, ServeCtl,
     ServeData, BackendWrite, CloseData, CloseCtlSocket, At, clients, wires
<1>3. PICK h : thr' = [thr EXCEPT ![t] = h] /\ h.own = thr[t].own /\ h.socket = thr[t].socket /\ h.pc # "none"
  <2> DEFINE Fits(h) == thr' = [thr EXCEPT ![t] = h] /\ h.own = thr[t].own /\ h.socket = thr[t].socket
                        /\ h.pc # "none"
  <2>1. ASSUME NEW l \in ThreadLabels \ {"none"}, Step(t, l) PROVE \E h : Fits(h)
    <3>1. Fits([thr[t] EXCEPT !.pc = l])
      BY <1>1, <2>1 DEF Step, Connection
    <3> QED BY <3>1
  <2>2. CASE \E l \in ThreadLabels \ {"none"} : Step(t, l)
    BY <2>1, <2>2
  <2>3. CASE thr' = [thr EXCEPT ![t].pc = "exit", ![t].broke = TRUE]
    <3>1. Fits([thr[t] EXCEPT !.pc = "exit", !.broke = TRUE])
      BY <1>1, <2>3 DEF Connection
    <3> QED BY <3>1
  <2>4. CASE CloseCtlRequest(t)
    <3>1. Fits([thr[t] EXCEPT !.pc = "serve_data", !.ctl = 0])
      BY <1>1, <2>4 DEF Connection, CloseCtlRequest
    <3> QED BY <3>1
  <2>5. CASE Poll(t)
    <3>1. PICK ready : thr' = [thr EXCEPT ![t].pc = "serve_ctl", ![t].ready = ready]
      BY <2>5 DEF Poll
    <3>2. Fits([thr[t] EXCEPT !.pc = "serve_ctl", !.ready = ready])
      BY <1>1, <3>1 DEF Connection
    <3> QED BY <3>2
  <2>6. CASE ServeData(t)
    <3> DEFINE turn == [thr[t] EXCEPT !.ready = {}, !.pc = "stream"]
               b == Append(turn.buffer, Head(inbox[fd[thr[t].socket]]))
    <3>1. CASE \E l \in {"write", "stream"} : thr' = [thr EXCEPT ![t] = [turn EXCEPT !.buffer = b, !.pc = l]]
      <4>1. PICK l \in {"write", "stream"} : thr' = [thr EXCEPT ![t] = [turn EXCEPT !.buffer = b, !.pc = l]]
        BY <3>1
      <4> HIDE DEF b
      <4>2. Fits([turn EXCEPT !.buffer = b, !.pc = l])
        BY <1>1, <4>1 DEF Connection
      <4> QED BY <4>2
    <3>2. CASE \E l \in {"exit", "stream"} : thr' = [thr EXCEPT ![t] = [turn EXCEPT !.pc = l]]
      <4>1. PICK l \in {"exit", "stream"} : thr' = [thr EXCEPT ![t] = [turn EXCEPT !.pc = l]]
        BY <3>2
      <4>2. Fits([turn EXCEPT !.pc = l])
        BY <1>1, <4>1 DEF Connection
      <4> QED BY <4>2
    <3>3. \/ \E l \in {"write", "stream"} : thr' = [thr EXCEPT ![t] = [turn EXCEPT !.buffer = b, !.pc = l]]
          \/ thr' = [thr EXCEPT ![t] = [turn EXCEPT !.pc = "exit"]]
          \/ thr' = [thr EXCEPT ![t] = turn]
      BY <2>6 DEF ServeData
    <3>4. turn = [turn EXCEPT !.pc = "stream"]
      BY <1>1 DEF Connection
    <3> HIDE DEF turn, b, Fits
    <3> QED BY <3>1, <3>2, <3>3, <3>4
  <2>7. CASE BackendWrite(t)
    <3>1. CASE thr' = [thr EXCEPT ![t] = [thr[t] EXCEPT !.played = @ \o thr[t].buffer, !.buffer = << >>,
                                                        !.pc = "stream"]]
      <4> DEFINE p == thr[t].played \o thr[t].buffer
      <4>1. thr' = [thr EXCEPT ![t] = [thr[t] EXCEPT !.played = p, !.buffer = << >>, !.pc = "stream"]]
        BY <3>1
      <4> HIDE DEF p
      <4>2. Fits([thr[t] EXCEPT !.played = p, !.buffer = << >>, !.pc = "stream"])
        BY <1>1, <4>1 DEF Connection
      <4> QED BY <4>2
    <3> QED BY <2>3, <2>7, <3>1 DEF BackendWrite
  <2>8. CASE \/ get_wav_header(t) \/ DropData(t) \/ DropCtl(t) \/ send_backend_info(t) \/ CloseData(t)
             \/ CloseCtlSocket(t) \/ (ServeCtl(t) /\ Step(t, "serve_data"))
    BY <2>2, <2>8 DEF ThreadLabels, get_wav_header, DropData, DropCtl, send_backend_info, CloseData,
       CloseCtlSocket
  <2>9. CASE OpenBackend(t)
    BY <2>2, <2>3, <2>9 DEF OpenBackend, ThreadLabels
  <2>10. CASE ServeCtl(t)
    <3>1. \/ Readable(thr[t].ctl) /\ handle_ctl_request(t)
          \/ Step(t, "serve_data")
      BY <2>10 DEF ServeCtl
    <3>2. thr[t].ctl \in 0..MaxFd
      BY <1>1 DEF Connection
    <3>3. CASE Readable(thr[t].ctl) /\ handle_ctl_request(t)
      <4>1. fd[thr[t].ctl] \in Endpoint
        BY <3>3 DEF Readable
      <4> QED BY <2>2, <2>4, <3>3, <4>1, RequestCases DEF ThreadLabels, TypeInv
    <3> QED BY <2>2, <3>1, <3>3 DEF ThreadLabels
  <2> QED BY <2>5, <2>6, <2>7, <2>8, <2>9, <2>10 DEF rsd_thread
<1> QED BY <1>1, <1>2, <1>3

\* new_sound_thread in full: the lowest thread number that was not used.
LEMMA NewThreadFrame ==
  ASSUME TypeInv, new_sound_thread
  PROVE  \E t \in Thread :
           /\ thr[t].pc = "none" /\ main'.last_thread = t /\ main'.pc = "accept"
           /\ main'.their_addr = << >> /\ main'.s_new = NoFd /\ main'.s_ctl = NoFd
           /\ \A u \in Thread \ {t} : thr'[u] = thr[u]
           /\ thr'[t].pc = "header" /\ thr'[t].socket = main.s_new /\ thr'[t].ctl = main.s_ctl
           /\ thr'[t].own = main.their_addr /\ thr'[t].ready = thr[t].ready
           /\ thr'[t].played = thr[t].played /\ thr'[t].buffer = thr[t].buffer
<1>1. PICK t \in Thread :
        /\ thr[t].pc = "none"
        /\ thr' = [thr EXCEPT ![t] = [@ EXCEPT !.pc = "header", !.socket = main.s_new,
                                               !.ctl = main.s_ctl, !.own = main.their_addr]]
        /\ main' = [NextClient EXCEPT !.last_thread = t]
  BY DEF new_sound_thread
<1>2. thr \in [Thread -> Connection] /\ main \in Loop
  BY DEF TypeInv, TypeOK, Connection, Loop
<1>3. /\ main'.last_thread = t /\ main'.pc = "accept" /\ main'.their_addr = << >>
      /\ main'.s_new = NoFd /\ main'.s_ctl = NoFd
  BY <1>1, <1>2 DEF NextClient, Loop
<1>4. /\ \A u \in Thread \ {t} : thr'[u] = thr[u]
      /\ thr'[t].pc = "header" /\ thr'[t].socket = main.s_new /\ thr'[t].ctl = main.s_ctl
      /\ thr'[t].own = main.their_addr /\ thr'[t].ready = thr[t].ready
      /\ thr'[t].played = thr[t].played /\ thr'[t].buffer = thr[t].buffer
  BY <1>1, <1>2 DEF Connection
<1> QED BY <1>1, <1>3, <1>4

LEMMA LastOneStep == TypeInv /\ LastOne /\ [Next]_vars => LastOne'
<1> SUFFICES ASSUME TypeInv, LastOne, [Next]_vars PROVE LastOne'
  OBVIOUS
<1>1. CASE UNCHANGED vars \/ Waiting
  BY <1>1 DEF Waiting, vars, LastOne, Live
<1>2. CASE ClientStep
  <2>1. UNCHANGED <<no_threading, main, thr>>
    BY <1>2 DEF ClientStep, server, ConnectData, ConnectCtl, SendHeader, SendAudio, SendRequest,
       SendCloseCtl, CloseCtl, Stop, HangUp
  <2> QED BY <2>1 DEF LastOne, Live
<1>3. CASE MainStep /\ ~new_sound_thread
  <2>1. UNCHANGED <<no_threading, thr>> /\ main'.last_thread = main.last_thread
    <3>1. main \in Loop
      BY DEF TypeInv, TypeOK, Loop
    <3> QED BY <1>3, <3>1 DEF MainStep, AcceptData, AcceptCtl, AcceptCtlFails, CtlTimeout, CheckSource,
            SetNonBlocking, NextClient, Loop
  <2> QED BY <2>1 DEF LastOne, Live
<1>4. CASE new_sound_thread
  <2>1. PICK t \in Thread : /\ main'.last_thread = t /\ \A u \in Thread \ {t} : thr'[u] = thr[u]
    BY <1>4, NewThreadFrame
  <2>2. UNCHANGED no_threading /\ JoinLastThread
    BY <1>4 DEF new_sound_thread
  <2>3. SUFFICES ASSUME no_threading, NEW u \in Thread, u # t, thr[u].pc \notin {"none", "exited"} PROVE FALSE
    BY <2>1, <2>2 DEF LastOne, Live
  <2>4. u = main.last_thread /\ u # 0
    BY <2>3 DEF LastOne, Live, Thread
  <2> QED BY <2>2, <2>3, <2>4 DEF JoinLastThread
<1>5. ASSUME NEW t \in Thread, rsd_thread(t) PROVE LastOne'
  <2>1. /\ UNCHANGED <<no_threading, main>> /\ thr[t].pc \notin {"none", "exited"}
        /\ \A u \in Thread \ {t} : thr'[u] = thr[u]
    BY <1>5, ThreadFrame
  <2> QED BY <2>1 DEF LastOne, Live
<1> QED BY <1>1, <1>2, <1>3, <1>4, <1>5 DEF Next

\* new_sound_thread joins the last thread before it starts another one when the
\* server runs with --single: the audio device has one user at most.
THEOREM NeverTwoAtOnce == Spec => []OneAtATime
<1>1. Init => LastOne
  BY DEF Init, LastOne, Live, NewThread
<1>2. LastOne => OneAtATime
  BY DEF LastOne, OneAtATime
<1> QED BY <1>1, <1>2, TypeInit, TypeStep, LastOneStep, PTL DEF Spec

-----------------------------------------------------------------------------
(* Every connection is in one place *)

Elems(s)     == {s[i] : i \in 1..Len(s)}
Different(s) == \A i, j \in 1..Len(s) : s[i] = s[j] => i = j

\* A client connects its data socket, then its control socket.
Connected(e) == client[e[1]] # "new" /\ (client[e[1]] = "data" => e[2] = "data")

\* A connection waits in the backlog, is in the hands of the accept loop, or was
\* handed to one thread, and never comes back.
OnceInv ==
  /\ Different(backlog) /\ Different(main.their_addr)
  /\ Elems(backlog) \cap Elems(main.their_addr) = {}
  /\ \A t \in Thread : /\ Different(thr[t].own)
                       /\ Elems(thr[t].own) \cap Elems(backlog) = {}
                       /\ Elems(thr[t].own) \cap Elems(main.their_addr) = {}
  /\ \A t, u \in Thread : t # u => Elems(thr[t].own) \cap Elems(thr[u].own) = {}
  /\ \A e \in Elems(backlog) : Connected(e)
  /\ \A e \in Elems(main.their_addr) : Connected(e)
  /\ \A t \in Thread : \A e \in Elems(thr[t].own) : Connected(e)

LEMMA ElemsAppend ==
  ASSUME NEW S, NEW s \in Seq(S), NEW e \in S
  PROVE  /\ Elems(Append(s, e)) = Elems(s) \cup {e}
         /\ Different(s) /\ e \notin Elems(s) => Different(Append(s, e))
<1> DEFINE n == Len(s)
           a == Append(s, e)
<1>1. n \in Nat /\ Len(a) = n + 1 /\ (\A i \in 1..n : a[i] = s[i]) /\ a[n + 1] = e
  BY AppendFacts
<1>2. Elems(s) = {s[i] : i \in 1..n} /\ Elems(a) = {a[i] : i \in 1..(n + 1)}
  BY <1>1 DEF Elems
<1>3. Different(s) <=> \A i, j \in 1..n : s[i] = s[j] => i = j
  BY DEF Different
<1>4. Different(a) <=> \A i, j \in 1..(n + 1) : a[i] = a[j] => i = j
  BY <1>1 DEF Different
<1> HIDE DEF n, a
<1>5. \A i : i \in 1..(n + 1) <=> i \in 1..n \/ i = n + 1
  BY <1>1
<1>6. Elems(a) = Elems(s) \cup {e}
  BY <1>1, <1>2, <1>5
<1>7. ASSUME Different(s), e \notin Elems(s) PROVE Different(a)
  <2> SUFFICES ASSUME NEW i \in 1..(n + 1), NEW j \in 1..(n + 1), a[i] = a[j] PROVE i = j
    BY <1>4
  <2>1. CASE i \in 1..n /\ j \in 1..n
    BY <1>1, <1>3, <1>7, <2>1
  <2>2. CASE i = n + 1 /\ j \in 1..n
    BY <1>1, <1>2, <1>7, <2>2
  <2>3. CASE i \in 1..n /\ j = n + 1
    BY <1>1, <1>2, <1>7, <2>3
  <2> QED BY <1>5, <2>1, <2>2, <2>3
<1> QED BY <1>6, <1>7 DEF a

LEMMA ElemsTail ==
  ASSUME NEW S, NEW s \in Seq(S), s # << >>, Different(s)
  PROVE  /\ Head(s) \in Elems(s) /\ Different(Tail(s))
         /\ Elems(Tail(s)) = Elems(s) \ {Head(s)}
<1> DEFINE n == Len(s)
           a == Tail(s)
<1>1. /\ n \in Nat /\ Len(a) = n - 1 /\ Head(s) = s[1] /\ 1 \in 1..n
      /\ \A i \in 1..(n - 1) : a[i] = s[i + 1]
  BY TailFacts
<1>2. Elems(s) = {s[i] : i \in 1..n} /\ Elems(a) = {a[i] : i \in 1..(n - 1)}
  BY <1>1 DEF Elems
<1>3. \A i, j \in 1..n : s[i] = s[j] => i = j
  BY DEF Different
<1>4. Different(a) <=> \A i, j \in 1..(n - 1) : a[i] = a[j] => i = j
  BY <1>1 DEF Different
<1> HIDE DEF n, a
<1>5. \A i \in 1..(n - 1) : i + 1 \in 1..n /\ i + 1 # 1
  BY <1>1
<1>6. \A i \in 1..n : i # 1 => i - 1 \in 1..(n - 1) /\ (i - 1) + 1 = i
  BY <1>1
<1>7. Different(a)
  BY <1>1, <1>3, <1>4, <1>5
<1>8. Elems(a) \subseteq Elems(s) \ {s[1]}
  BY <1>1, <1>2, <1>3, <1>5
<1>9. Elems(s) \ {s[1]} \subseteq Elems(a)
  <2> SUFFICES ASSUME NEW i \in 1..n, s[i] # s[1] PROVE s[i] \in Elems(a)
    BY <1>2
  <2>1. i # 1
    OBVIOUS
  <2>2. a[i - 1] = s[i] /\ i - 1 \in 1..(n - 1)
    BY <1>1, <1>6, <2>1
  <2> QED BY <1>2, <2>2
<1> QED BY <1>1, <1>2, <1>7, <1>8, <1>9 DEF a

LEMMA ElemsShort ==
  /\ Elems(<< >>) = {} /\ Different(<< >>)
  /\ \A e : Elems(<<e>>) = {e} /\ Different(<<e>>)
BY DEF Elems, Different

\* One or two connections.
LEMMA ElemsPair ==
  ASSUME NEW s, Len(s) \in {1, 2}
  PROVE  /\ s[1] \in Elems(s)
         /\ Len(s) = 2 => s[2] \in Elems(s) /\ (Different(s) => s[1] # s[2])
<1>1. 1 \in 1..Len(s) /\ (Len(s) = 2 => 2 \in 1..Len(s))
  OBVIOUS
<1> QED BY <1>1 DEF Elems, Different

\* Elements have the type of the sequence.
LEMMA ElemsType ==
  ASSUME NEW S, NEW s \in Seq(S)
  PROVE  Elems(s) \subseteq S
BY DEF Elems

LEMMA OnceInit == Init => OnceInv
<1> SUFFICES ASSUME Init PROVE OnceInv
  OBVIOUS
<1>1. backlog = << >> /\ main.their_addr = << >> /\ \A t \in Thread : thr[t].own = << >>
  BY DEF Init, NewThread
<1> QED BY <1>1, ElemsShort DEF OnceInv

LEMMA OnceStep == TypeInv /\ OnceInv /\ [Next]_vars => OnceInv'
<1> SUFFICES ASSUME TypeInv, OnceInv, [Next]_vars PROVE OnceInv'
  OBVIOUS
<1>0. backlog \in Seq(Endpoint) /\ main.their_addr \in Seq(Endpoint) /\ main \in Loop
      /\ \A t \in Thread : thr[t].own \in Seq(Endpoint)
  BY DEF TypeInv, TypeOK, Loop
<1>1. CASE UNCHANGED vars \/ Waiting
  BY <1>1 DEF Waiting, vars, OnceInv, Connected
<1>2. CASE ClientStep
  <2>1. UNCHANGED <<main, thr>>
    BY <1>2 DEF ClientStep, server, ConnectData, ConnectCtl, SendHeader, SendAudio, SendRequest,
       SendCloseCtl, CloseCtl, Stop, HangUp
  <2>2. PICK c \in Clients :
          \/ client[c] = "new" /\ client' = [client EXCEPT ![c] = "data"]
             /\ backlog' = Append(backlog, <<c, "data">>)
          \/ client[c] = "data" /\ client' = [client EXCEPT ![c] = "both"]
             /\ backlog' = Append(backlog, <<c, "ctl">>)
          \/ client[c] # "new" /\ backlog' = backlog
             /\ \E l \in ClientLabels \ {"new", "data"} : client' = [client EXCEPT ![c] = l]
          \/ UNCHANGED <<client, backlog>>
    BY <1>2 DEF ClientStep, server, ConnectData, ConnectCtl, SendHeader, SendAudio, SendRequest,
       SendCloseCtl, CloseCtl, Stop, HangUp, ClientLabels
  <2>3. client \in [Clients -> ClientLabels]
    BY DEF TypeInv, TypeOK, ClientLabels
  <2>4. ASSUME NEW e \in Endpoint, Connected(e) PROVE Connected(e)'
    <3>1. e[1] \in Clients /\ e[2] \in {"data", "ctl"}
      BY DEF Endpoint
    <3> QED BY <2>2, <2>3, <2>4, <3>1 DEF Connected, ClientLabels
  <2>5. CASE backlog' = backlog
    BY <1>0, <2>1, <2>4, <2>5, ElemsType DEF OnceInv
  <2>6. ASSUME NEW e \in Endpoint, ~Connected(e), Connected(e)', backlog' = Append(backlog, e)
        PROVE  OnceInv'
    <3>1. Elems(backlog') = Elems(backlog) \cup {e} /\ Different(backlog')
      BY <1>0, <2>6, ElemsAppend DEF OnceInv
    <3> QED BY <1>0, <2>1, <2>4, <2>6, <3>1, ElemsType DEF OnceInv
  <2>7. CASE client[c] = "new" /\ client' = [client EXCEPT ![c] = "data"]
             /\ backlog' = Append(backlog, <<c, "data">>)
    BY <2>3, <2>6, <2>7 DEF Connected, Endpoint
  <2>8. CASE client[c] = "data" /\ client' = [client EXCEPT ![c] = "both"]
             /\ backlog' = Append(backlog, <<c, "ctl">>)
    BY <2>3, <2>6, <2>8 DEF Connected, Endpoint
  <2> QED BY <2>2, <2>5, <2>7, <2>8
<1>3. CASE MainStep /\ ~new_sound_thread
  <2>1. UNCHANGED <<client, thr>>
    BY <1>3 DEF MainStep, AcceptData, AcceptCtl, AcceptCtlFails, CtlTimeout, CheckSource,
       SetNonBlocking, clients
  <2>2. \/ UNCHANGED backlog /\ main'.their_addr \in {<< >>, main.their_addr}
        \/ /\ backlog # << >> /\ backlog' = Tail(backlog)
           /\ \/ main'.their_addr = <<Head(backlog)>>
              \/ main'.their_addr = Append(main.their_addr, Head(backlog))
    BY <1>0, <1>3 DEF MainStep, AcceptData, AcceptCtl, AcceptCtlFails, CtlTimeout, CheckSource,
       SetNonBlocking, NextClient, Loop, wires
  <2>3. CASE UNCHANGED backlog /\ main'.their_addr \in {<< >>, main.their_addr}
    <3>1. Different(main'.their_addr) /\ Elems(main'.their_addr) \subseteq Elems(main.their_addr)
      BY <2>3, ElemsShort DEF OnceInv
    <3> QED BY <2>1, <2>3, <3>1 DEF OnceInv, Connected
  <2>4. CASE /\ backlog # << >> /\ backlog' = Tail(backlog)
             /\ \/ main'.their_addr = <<Head(backlog)>>
                \/ main'.their_addr = Append(main.their_addr, Head(backlog))
    <3>1. Head(backlog) \in Elems(backlog) /\ Different(backlog')
          /\ Elems(backlog') = Elems(backlog) \ {Head(backlog)}
      BY <1>0, <2>4, ElemsTail DEF OnceInv
    <3>2. Head(backlog) \in Endpoint /\ Head(backlog) \notin Elems(main.their_addr)
      BY <1>0, <3>1, ElemsType DEF OnceInv
    <3>3. Different(main'.their_addr) /\ Elems(main'.their_addr) \subseteq Elems(main.their_addr) \cup {Head(backlog)}
      <4>1. CASE main'.their_addr = <<Head(backlog)>>
        BY <4>1, ElemsShort
      <4>2. CASE main'.their_addr = Append(main.their_addr, Head(backlog))
        BY <1>0, <3>2, <4>2, ElemsAppend DEF OnceInv
      <4> QED BY <2>4, <4>1, <4>2
    <3> HIDE DEF Elems, Different
    <3> QED BY <2>1, <3>1, <3>3 DEF OnceInv, Connected
  <2> QED BY <2>2, <2>3, <2>4
<1>4. CASE new_sound_thread
  <2>1. PICK t \in Thread : /\ main'.their_addr = << >> /\ thr'[t].own = main.their_addr
                            /\ \A u \in Thread \ {t} : thr'[u] = thr[u]
    BY <1>4, NewThreadFrame
  <2>2. UNCHANGED <<client, backlog>>
    BY <1>4 DEF new_sound_thread, clients, wires
  <2>3. Elems(main'.their_addr) = {} /\ Different(main'.their_addr)
    BY <2>1, ElemsShort
  <2>4. \A u \in Thread : thr'[u].own = IF u = t THEN main.their_addr ELSE thr[u].own
    BY <2>1
  <2> QED BY <2>2, <2>3, <2>4 DEF OnceInv, Connected
<1>5. ASSUME NEW t \in Thread, rsd_thread(t) PROVE OnceInv'
  <2>1. /\ UNCHANGED <<client, backlog, main>> /\ \A u \in Thread : thr'[u].own = thr[u].own
    BY <1>5, ThreadFrame
  <2> QED BY <2>1 DEF OnceInv, Connected
<1> QED BY <1>1, <1>2, <1>3, <1>4, <1>5 DEF Next

-----------------------------------------------------------------------------
(* Every thread keeps its sockets *)

\* A thread was started for a data connection and perhaps a control connection.
OwnInv ==
  \A t \in Thread : Live(t) => /\ Len(thr[t].own) \in {1, 2}
                               /\ thr[t].ctl # 0 => Len(thr[t].own) = 2

HoldsData(t) == Live(t) /\ thr[t].pc \notin {"drop_ctl", "exit_ctl"}
HoldsCtl(t)  == Live(t) /\ thr[t].ctl # 0
LoopHoldsCtl == main.pc \in {"check", "nonblock", "join"} /\ main.s_ctl # 0

\* The numbers the threads and the accept loop hold name their connections, as long
\* as nobody has closed descriptor 0 (which the code does when it gives a thread 0
\* for "no control socket" and the thread closes it).
KeepInv ==
  fd[0] = Stdin =>
    /\ main.pc # "accept" => fd[main.s_new] = main.their_addr[1]
    /\ LoopHoldsCtl => fd[main.s_ctl] = main.their_addr[2]
    /\ \A t \in Thread : HoldsData(t) => fd[thr[t].socket] = thr[t].own[1]
    /\ \A t \in Thread : HoldsCtl(t) => fd[thr[t].ctl] = thr[t].own[2]

\* What a step of a thread does to the descriptors: nothing, or it closes a number
\* it lets go of.
LEMMA ThreadFds ==
  ASSUME TypeInv, NEW t \in Thread, rsd_thread(t)
  PROVE  /\ thr'[t].ctl = thr[t].ctl \/ (thr'[t].ctl = 0 /\ CloseCtlRequest(t) /\ fd[thr[t].ctl] \in Endpoint)
         /\ \/ fd' = fd
            \/ fd' = Closed(fd, thr[t].socket) /\ HoldsData(t) /\ thr'[t].pc \in {"drop_ctl", "exit_ctl"}
               /\ thr'[t].ctl = thr[t].ctl
            \/ fd' = Closed(fd, thr[t].ctl) /\ thr'[t].pc = "exited"
            \/ fd' = Closed(fd, thr[t].ctl) /\ CloseCtlRequest(t) /\ thr'[t].ctl = 0
               /\ HoldsData(t) /\ fd[thr[t].ctl] \in Endpoint
         /\ thr[t].pc \in {"drop_ctl", "exit_ctl"} => thr'[t].pc = "exited"
<1>1. thr \in [Thread -> Connection]
  BY DEF TypeInv, TypeOK, Connection
<1>2. ASSUME NEW l, Step(t, l)
      PROVE  thr'[t].ctl = thr[t].ctl /\ thr'[t].pc = l
  BY <1>1, <1>2 DEF Step, Connection
<1>3. CASE DropData(t) \/ CloseData(t)
  <2>1. \E l \in {"drop_ctl", "exit_ctl"} : Step(t, l)
    BY <1>3 DEF DropData, CloseData
  <2>2. thr'[t].ctl = thr[t].ctl /\ thr'[t].pc \in {"drop_ctl", "exit_ctl"}
    BY <1>2, <2>1
  <2>3. fd' = Closed(fd, thr[t].socket) /\ HoldsData(t)
    BY <1>3 DEF DropData, CloseData, At, HoldsData, Live
  <2> QED BY <2>2, <2>3 DEF HoldsData
<1>4. CASE DropCtl(t) \/ CloseCtlSocket(t)
  <2>1. Step(t, "exited") /\ (fd' = fd \/ fd' = Closed(fd, thr[t].ctl))
    BY <1>4 DEF DropCtl, CloseCtlSocket
  <2> QED BY <1>2, <2>1
<1>5. CASE get_wav_header(t) \/ send_backend_info(t)
  <2>1. fd' = fd /\ thr[t].pc \in {"header", "info"} /\ \E l : Step(t, l)
    BY <1>5 DEF get_wav_header, send_backend_info, At
  <2> QED BY <1>2, <2>1
<1>6. CASE OpenBackend(t)
  <2>1. fd' = fd /\ thr[t].pc = "init"
        /\ (Step(t, "info") \/ thr' = [thr EXCEPT ![t].pc = "exit", ![t].broke = TRUE])
    BY <1>6 DEF OpenBackend, At
  <2>2. thr'[t].ctl = thr[t].ctl
    BY <1>1, <1>2, <2>1 DEF Connection
  <2> QED BY <2>1, <2>2
<1>7. CASE Poll(t)
  <2>1. fd' = fd /\ thr[t].pc = "stream"
        /\ \E ready : thr' = [thr EXCEPT ![t].pc = "serve_ctl", ![t].ready = ready]
    BY <1>7 DEF Poll, At
  <2>2. thr'[t].ctl = thr[t].ctl
    BY <1>1, <2>1 DEF Connection
  <2> QED BY <2>1, <2>2
<1>8. CASE ServeCtl(t)
  <2>1. /\ thr[t].pc = "serve_ctl" /\ HoldsData(t)
        /\ \/ Readable(thr[t].ctl) /\ handle_ctl_request(t)
           \/ Step(t, "serve_data") /\ UNCHANGED fd
    BY <1>8 DEF ServeCtl, At, HoldsData, Live
  <2>2. CASE CloseCtlRequest(t) /\ fd[thr[t].ctl] \in Endpoint
    <3>1. fd' = Closed(fd, thr[t].ctl) /\ thr' = [thr EXCEPT ![t].pc = "serve_data", ![t].ctl = 0]
      BY <2>2 DEF CloseCtlRequest
    <3>2. thr'[t].ctl = 0
      BY <1>1, <3>1 DEF Connection
    <3> QED BY <2>1, <2>2, <3>1, <3>2
  <2>3. CASE \E l : Step(t, l) /\ UNCHANGED fd
    BY <1>2, <2>1, <2>3
  <2>4. CASE Readable(thr[t].ctl) /\ handle_ctl_request(t)
    <3>1. fd[thr[t].ctl] \in Endpoint
      BY <2>4 DEF Readable
    <3> QED BY <2>2, <2>3, <2>4, <3>1, RequestCases DEF TypeInv
  <2> QED BY <2>1, <2>3, <2>4
<1>9. CASE ServeData(t)
  <2> DEFINE turn == [thr[t] EXCEPT !.ready = {}, !.pc = "stream"]
             b == Append(turn.buffer, Head(inbox[fd[thr[t].socket]]))
  <2>1. /\ fd' = fd /\ thr[t].pc = "serve_data"
        /\ \/ \E l \in {"write", "stream"} : thr' = [thr EXCEPT ![t] = [turn EXCEPT !.buffer = b, !.pc = l]]
           \/ thr' = [thr EXCEPT ![t] = [turn EXCEPT !.pc = "exit"]]
           \/ thr' = [thr EXCEPT ![t] = turn]
    BY <1>9 DEF ServeData, At
  <2>2. thr'[t].ctl = thr[t].ctl
    <3> HIDE DEF b
    <3> QED BY <1>1, <2>1 DEF Connection
  <2> QED BY <2>1, <2>2
<1>10. CASE BackendWrite(t)
  <2>1. /\ fd' = fd /\ thr[t].pc = "write"
        /\ \/ thr' = [thr EXCEPT ![t] = [thr[t] EXCEPT !.played = @ \o thr[t].buffer, !.buffer = << >>,
                                                       !.pc = "stream"]]
           \/ thr' = [thr EXCEPT ![t].pc = "exit", ![t].broke = TRUE]
    BY <1>10 DEF BackendWrite, At
  <2>2. thr'[t].ctl = thr[t].ctl
    BY <1>1, <2>1 DEF Connection
  <2> QED BY <2>1, <2>2
<1> QED BY <1>3, <1>4, <1>5, <1>6, <1>7, <1>8, <1>9, <1>10 DEF rsd_thread

LEMMA OwnStep == TypeInv /\ OwnInv /\ [Next]_vars => OwnInv'
<1> SUFFICES ASSUME TypeInv, OwnInv, [Next]_vars PROVE OwnInv'
  OBVIOUS
<1>1. CASE UNCHANGED thr
  BY <1>1 DEF OwnInv, Live
<1>2. CASE UNCHANGED vars \/ Waiting \/ ClientStep \/ (MainStep /\ ~new_sound_thread)
  <2>1. UNCHANGED thr
    BY <1>2 DEF Waiting, vars, ClientStep, server, ConnectData, ConnectCtl, SendHeader, SendAudio,
       SendRequest, SendCloseCtl, CloseCtl, Stop, HangUp, MainStep, AcceptData, AcceptCtl,
       AcceptCtlFails, CtlTimeout, CheckSource, SetNonBlocking
  <2> QED BY <1>1, <2>1
<1>3. CASE new_sound_thread
  <2>1. PICK t \in Thread : /\ thr'[t].own = main.their_addr /\ thr'[t].ctl = main.s_ctl
                            /\ \A u \in Thread \ {t} : thr'[u] = thr[u]
    BY <1>3, NewThreadFrame
  <2>2. main.pc = "join"
    BY <1>3 DEF new_sound_thread
  <2> QED BY <2>1, <2>2 DEF OwnInv, Live, TypeInv, MainInv
<1>4. ASSUME NEW t \in Thread, rsd_thread(t) PROVE OwnInv'
  <2>1. /\ \A u \in Thread \ {t} : thr'[u] = thr[u]
        /\ thr'[t].own = thr[t].own /\ thr[t].pc \notin {"none", "exited"}
        /\ thr'[t].ctl \in {thr[t].ctl, 0}
    BY <1>4, ThreadFrame, ThreadFds
  <2> QED BY <2>1 DEF OwnInv, Live
<1> QED BY <1>2, <1>3, <1>4 DEF Next

\* close() of a number takes nothing from the others, and never opens standard input.
LEMMA ClosedFacts ==
  ASSUME NEW f
  PROVE  /\ \A g \in 0..MaxFd : g # f => Closed(fd, f)[g] = fd[g]
         /\ \A g \in 0..MaxFd : Closed(fd, f)[g] \in {fd[g], Free}
BY DEF Closed

\* The connections of different owners are different.
LEMMA OwnFacts ==
  ASSUME TypeInv, OnceInv, OwnInv
  PROVE  /\ \A t \in Thread : Live(t) =>
              /\ thr[t].own[1] \in Endpoint
              /\ thr[t].ctl # 0 => thr[t].own[2] \in Endpoint /\ thr[t].own[1] # thr[t].own[2]
         /\ \A t, u \in Thread : t # u /\ Live(t) /\ Live(u) =>
              /\ thr[t].own[1] # thr[u].own[1]
              /\ thr[t].ctl # 0 => thr[t].own[2] # thr[u].own[1]
              /\ thr[u].ctl # 0 => thr[t].own[1] # thr[u].own[2]
              /\ thr[t].ctl # 0 /\ thr[u].ctl # 0 => thr[t].own[2] # thr[u].own[2]
         /\ main.pc # "accept" =>
              /\ main.their_addr[1] \in Endpoint
              /\ LoopHoldsCtl => main.their_addr[2] \in Endpoint /\ main.their_addr[1] # main.their_addr[2]
              /\ \A t \in Thread : Live(t) =>
                   /\ main.their_addr[1] # thr[t].own[1]
                   /\ LoopHoldsCtl => main.their_addr[2] # thr[t].own[1]
                   /\ thr[t].ctl # 0 => main.their_addr[1] # thr[t].own[2]
                   /\ LoopHoldsCtl /\ thr[t].ctl # 0 => main.their_addr[2] # thr[t].own[2]
         /\ Stdin \notin Endpoint /\ Free \notin Endpoint /\ Stdin # Free
<1>1. \A t \in Thread : Live(t) =>
        /\ thr[t].own[1] \in Elems(thr[t].own) /\ Elems(thr[t].own) \subseteq Endpoint
        /\ thr[t].ctl # 0 => thr[t].own[2] \in Elems(thr[t].own) /\ thr[t].own[1] # thr[t].own[2]
  <2> SUFFICES ASSUME NEW t \in Thread, Live(t)
               PROVE  /\ thr[t].own[1] \in Elems(thr[t].own) /\ Elems(thr[t].own) \subseteq Endpoint
                      /\ thr[t].ctl # 0 => /\ thr[t].own[2] \in Elems(thr[t].own)
                                           /\ thr[t].own[1] # thr[t].own[2]
    OBVIOUS
  <2>1. thr[t].own \in Seq(Endpoint) /\ Different(thr[t].own) /\ Len(thr[t].own) \in {1, 2}
        /\ (thr[t].ctl # 0 => Len(thr[t].own) = 2)
    BY DEF TypeInv, TypeOK, OnceInv, OwnInv
  <2> QED BY <2>1, ElemsPair, ElemsType
<1>2. main.pc # "accept" =>
        /\ main.their_addr[1] \in Elems(main.their_addr) /\ Elems(main.their_addr) \subseteq Endpoint
        /\ LoopHoldsCtl => /\ main.their_addr[2] \in Elems(main.their_addr)
                           /\ main.their_addr[1] # main.their_addr[2]
  <2> SUFFICES ASSUME main.pc # "accept"
               PROVE  /\ main.their_addr[1] \in Elems(main.their_addr)
                      /\ Elems(main.their_addr) \subseteq Endpoint
                      /\ LoopHoldsCtl => /\ main.their_addr[2] \in Elems(main.their_addr)
                                         /\ main.their_addr[1] # main.their_addr[2]
    OBVIOUS
  <2>1. main \in Loop /\ main.their_addr \in Seq(Endpoint) /\ Different(main.their_addr)
    BY DEF TypeInv, TypeOK, OnceInv, Loop
  <2>2. Len(main.their_addr) \in {1, 2} /\ (LoopHoldsCtl => Len(main.their_addr) = 2)
    BY <2>1 DEF TypeInv, MainInv, LoopHoldsCtl, Loop
  <2> QED BY <2>1, <2>2, ElemsPair, ElemsType
<1>3. Stdin \notin Endpoint /\ Free \notin Endpoint /\ Stdin # Free
  BY DEF Stdin, Free, Endpoint
<1> HIDE DEF Elems
<1>4. \A t \in Thread : Elems(thr[t].own) \cap Elems(main.their_addr) = {}
  BY DEF OnceInv
<1>5. \A t, u \in Thread : t # u => Elems(thr[t].own) \cap Elems(thr[u].own) = {}
  BY DEF OnceInv
<1>6. \A t, u \in Thread : t # u /\ Live(t) /\ Live(u) =>
        /\ thr[t].own[1] # thr[u].own[1]
        /\ thr[t].ctl # 0 => thr[t].own[2] # thr[u].own[1]
        /\ thr[u].ctl # 0 => thr[t].own[1] # thr[u].own[2]
        /\ thr[t].ctl # 0 /\ thr[u].ctl # 0 => thr[t].own[2] # thr[u].own[2]
  <2> SUFFICES ASSUME NEW t \in Thread, NEW u \in Thread, t # u, Live(t), Live(u)
               PROVE  /\ thr[t].own[1] # thr[u].own[1]
                      /\ thr[t].ctl # 0 => thr[t].own[2] # thr[u].own[1]
                      /\ thr[u].ctl # 0 => thr[t].own[1] # thr[u].own[2]
                      /\ thr[t].ctl # 0 /\ thr[u].ctl # 0 => thr[t].own[2] # thr[u].own[2]
    OBVIOUS
  <2>1. Elems(thr[t].own) \cap Elems(thr[u].own) = {}
    BY <1>5
  <2>2. /\ thr[t].own[1] \in Elems(thr[t].own) /\ thr[u].own[1] \in Elems(thr[u].own)
        /\ thr[t].ctl # 0 => thr[t].own[2] \in Elems(thr[t].own)
        /\ thr[u].ctl # 0 => thr[u].own[2] \in Elems(thr[u].own)
    BY <1>1
  <2> QED BY <2>1, <2>2
<1>7. main.pc # "accept" =>
        \A t \in Thread : Live(t) =>
          /\ main.their_addr[1] # thr[t].own[1]
          /\ LoopHoldsCtl => main.their_addr[2] # thr[t].own[1]
          /\ thr[t].ctl # 0 => main.their_addr[1] # thr[t].own[2]
          /\ LoopHoldsCtl /\ thr[t].ctl # 0 => main.their_addr[2] # thr[t].own[2]
  BY <1>1, <1>2, <1>4
<1> QED BY <1>1, <1>2, <1>3, <1>6, <1>7

LEMMA KeepInit == Init => OwnInv /\ KeepInv
BY DEF Init, OwnInv, KeepInv, NewThread, Live, HoldsData, HoldsCtl, LoopHoldsCtl

LEMMA KeepMain == TypeInv /\ OnceInv /\ OwnInv /\ KeepInv /\ MainStep => KeepInv'
<1> SUFFICES ASSUME TypeInv, OnceInv, OwnInv, KeepInv, MainStep, fd'[0] = Stdin
             PROVE  /\ main'.pc # "accept" => fd'[main'.s_new] = main'.their_addr[1]
                    /\ LoopHoldsCtl' => fd'[main'.s_ctl] = main'.their_addr[2]
                    /\ \A t \in Thread : HoldsData(t)' => fd'[thr'[t].socket] = thr'[t].own[1]
                    /\ \A t \in Thread : HoldsCtl(t)' => fd'[thr'[t].ctl] = thr'[t].own[2]
  BY DEF KeepInv
<1>1. /\ fd \in [0..MaxFd -> Endpoint \cup {Stdin, Free}] /\ main \in Loop /\ 0 \in 0..MaxFd
      /\ backlog \in Seq(Endpoint) /\ main.their_addr \in Seq(Endpoint)
      /\ \A t \in Thread : thr[t].socket \in 0..MaxFd /\ thr[t].ctl \in 0..MaxFd
  BY RsdServerAssumption DEF TypeInv, TypeOK, Loop
<1>2. Stdin \notin Endpoint /\ Free \notin Endpoint /\ Stdin # Free
  BY OwnFacts
\* What the threads hold is not touched by an accept(), which takes a free number,
\* nor by closing a number of the loop.
<1>3. ASSUME fd[0] = Stdin, UNCHANGED thr,
             \A g \in 0..MaxFd : fd[g] \in Endpoint =>
               \/ fd'[g] = fd[g]
               \/ main.pc # "accept" /\ fd[g] = main.their_addr[1]
               \/ LoopHoldsCtl /\ fd[g] = main.their_addr[2]
      PROVE  /\ \A t \in Thread : HoldsData(t)' => fd'[thr'[t].socket] = thr'[t].own[1]
             /\ \A t \in Thread : HoldsCtl(t)' => fd'[thr'[t].ctl] = thr'[t].own[2]
  <2> SUFFICES ASSUME NEW t \in Thread
               PROVE  /\ HoldsData(t) => fd'[thr[t].socket] = thr[t].own[1]
                      /\ HoldsCtl(t) => fd'[thr[t].ctl] = thr[t].own[2]
    BY <1>3 DEF HoldsData, HoldsCtl, Live
  <2>1. /\ HoldsData(t) => Live(t) /\ fd[thr[t].socket] = thr[t].own[1]
        /\ HoldsCtl(t) => Live(t) /\ thr[t].ctl # 0 /\ fd[thr[t].ctl] = thr[t].own[2]
        /\ LoopHoldsCtl => main.pc # "accept"
    BY <1>3 DEF KeepInv, HoldsData, HoldsCtl, LoopHoldsCtl
  <2>2. HoldsData(t) => fd'[thr[t].socket] = thr[t].own[1]
    BY <1>1, <1>3, <2>1, OwnFacts
  <2>3. HoldsCtl(t) => fd'[thr[t].ctl] = thr[t].own[2]
    BY <1>1, <1>3, <2>1, OwnFacts
  <2> QED BY <2>2, <2>3
<1>4. CASE AcceptData
  <2>1. /\ fd' = [fd EXCEPT ![LowestFree] = Head(backlog)]
        /\ main' = [main EXCEPT !.pc = "poll", !.s_new = LowestFree, !.their_addr = <<Head(backlog)>>]
        /\ backlog # << >> /\ LowestFree \in 0..MaxFd /\ fd[LowestFree] = Free /\ UNCHANGED thr
    BY <1>4, LowestFreeFacts DEF AcceptData
  <2>2. Head(backlog) \in Endpoint
    BY <1>1, <2>1, TailFacts
  <2>3. /\ fd[0] = Stdin /\ fd'[LowestFree] = Head(backlog)
        /\ \A g \in 0..MaxFd : fd[g] \in Endpoint => fd'[g] = fd[g]
    BY <1>1, <1>2, <2>1, <2>2
  <2>4. main'.pc = "poll" /\ main'.s_new = LowestFree /\ main'.their_addr[1] = Head(backlog)
    <3> DEFINE a == <<Head(backlog)>>
    <3>1. main' = [main EXCEPT !.pc = "poll", !.s_new = LowestFree, !.their_addr = a] /\ a[1] = Head(backlog)
      BY <2>1
    <3> HIDE DEF a
    <3> QED BY <1>1, <3>1 DEF Loop
  <2> QED BY <1>3, <2>1, <2>3, <2>4 DEF LoopHoldsCtl
<1>5. CASE AcceptCtl
  <2>1. /\ fd' = [fd EXCEPT ![LowestFree] = Head(backlog)] /\ main.pc = "poll"
        /\ main' = [main EXCEPT !.pc = "check", !.s_ctl = LowestFree,
                                !.their_addr = Append(main.their_addr, Head(backlog))]
        /\ backlog # << >> /\ LowestFree \in 0..MaxFd /\ fd[LowestFree] = Free /\ UNCHANGED thr
    BY <1>5, LowestFreeFacts DEF AcceptCtl
  <2>2. Head(backlog) \in Endpoint
    BY <1>1, <2>1, TailFacts
  <2>3. /\ fd[0] = Stdin /\ fd'[LowestFree] = Head(backlog)
        /\ \A g \in 0..MaxFd : fd[g] \in Endpoint => fd'[g] = fd[g]
    BY <1>1, <1>2, <2>1, <2>2
  <2>4. /\ main'.pc = "check" /\ main'.s_new = main.s_new /\ main'.s_ctl = LowestFree
        /\ main'.their_addr[1] = main.their_addr[1] /\ main'.their_addr[2] = Head(backlog)
    <3> DEFINE a == Append(main.their_addr, Head(backlog))
    <3>1. Len(main.their_addr) = 1
      BY <2>1 DEF TypeInv, MainInv
    <3>2. a[1] = main.their_addr[1] /\ a[2] = Head(backlog)
      BY <1>1, <2>2, <3>1
    <3>3. main' = [main EXCEPT !.pc = "check", !.s_ctl = LowestFree, !.their_addr = a]
      BY <2>1
    <3> HIDE DEF a
    <3> QED BY <1>1, <3>2, <3>3 DEF Loop
  <2>5. fd[main.s_new] = main.their_addr[1] /\ main.s_new \in 0..MaxFd /\ main.their_addr[1] \in Endpoint
    BY <2>1, <2>3, OwnFacts DEF KeepInv, TypeInv, MainInv
  <2> QED BY <1>3, <2>1, <2>3, <2>4, <2>5 DEF LoopHoldsCtl
<1>6. ASSUME main' = NextClient, main.pc # "accept", UNCHANGED thr,
             \/ fd' = Closed(fd, main.s_new)
             \/ fd' = CloseBoth /\ main.pc \in {"check", "nonblock", "join"}
      PROVE  /\ main'.pc # "accept" => fd'[main'.s_new] = main'.their_addr[1]
             /\ LoopHoldsCtl' => fd'[main'.s_ctl] = main'.their_addr[2]
             /\ \A t \in Thread : HoldsData(t)' => fd'[thr'[t].socket] = thr'[t].own[1]
             /\ \A t \in Thread : HoldsCtl(t)' => fd'[thr'[t].ctl] = thr'[t].own[2]
  <2>1. main'.pc = "accept"
    BY <1>1, <1>6 DEF NextClient, Loop
  <2>2. \A g \in 0..MaxFd : fd'[g] = fd[g] \/ (fd'[g] = Free /\ (g = main.s_new \/ (g = main.s_ctl /\ main.pc \in {"check", "nonblock", "join"})))
    BY <1>6 DEF CloseBoth, Closed
  <2>3. fd[0] = Stdin
    BY <1>1, <1>2, <2>2
  <2>4. fd[main.s_new] = main.their_addr[1]
    BY <1>6, <2>3 DEF KeepInv
  <2>5. ASSUME NEW g \in 0..MaxFd, fd[g] \in Endpoint, fd'[g] # fd[g]
        PROVE  \/ main.pc # "accept" /\ fd[g] = main.their_addr[1]
               \/ LoopHoldsCtl /\ fd[g] = main.their_addr[2]
    <3>1. g # 0
      BY <1>2, <2>3, <2>5
    <3>2. CASE g = main.s_new
      BY <1>6, <2>4, <3>2
    <3>3. CASE g = main.s_ctl /\ main.pc \in {"check", "nonblock", "join"}
      <4>1. LoopHoldsCtl
        BY <3>1, <3>3 DEF LoopHoldsCtl
      <4> QED BY <2>3, <3>3, <4>1 DEF KeepInv
    <3> QED BY <2>2, <2>5, <3>2, <3>3
  <2> QED BY <1>3, <1>6, <2>1, <2>3, <2>5 DEF LoopHoldsCtl
<1>7. ASSUME UNCHANGED <<fd, thr>>, main.pc # "accept", main'.s_new = main.s_new,
             main'.their_addr = main.their_addr, LoopHoldsCtl' => LoopHoldsCtl /\ main'.s_ctl = main.s_ctl
      PROVE  /\ main'.pc # "accept" => fd'[main'.s_new] = main'.their_addr[1]
             /\ LoopHoldsCtl' => fd'[main'.s_ctl] = main'.their_addr[2]
             /\ \A t \in Thread : HoldsData(t)' => fd'[thr'[t].socket] = thr'[t].own[1]
             /\ \A t \in Thread : HoldsCtl(t)' => fd'[thr'[t].ctl] = thr'[t].own[2]
  BY <1>3, <1>7 DEF KeepInv
<1>8. CASE AcceptCtlFails
  BY <1>6, <1>8 DEF AcceptCtlFails
<1>9. CASE CtlTimeout
  <2>1. /\ main' = [main EXCEPT !.pc = "check", !.s_ctl = 0] /\ main.pc = "poll" /\ UNCHANGED <<fd, thr>>
    BY <1>9 DEF CtlTimeout
  <2>2. main'.s_ctl = 0 /\ main'.s_new = main.s_new /\ main'.their_addr = main.their_addr
    BY <1>1, <2>1 DEF Loop
  <2> QED BY <1>7, <2>1, <2>2 DEF LoopHoldsCtl
<1>10. CASE CheckSource \/ SetNonBlocking
  <2>1. /\ UNCHANGED thr /\ main.pc \in {"check", "nonblock"}
        /\ \/ fd' = CloseBoth /\ main' = NextClient
           \/ (\E l \in {"nonblock", "join"} : main' = [main EXCEPT !.pc = l]) /\ UNCHANGED fd
    BY <1>10 DEF CheckSource, SetNonBlocking
  <2>2. CASE fd' = CloseBoth /\ main' = NextClient
    BY <1>6, <2>1, <2>2
  <2>3. CASE (\E l \in {"nonblock", "join"} : main' = [main EXCEPT !.pc = l]) /\ UNCHANGED fd
    <3>1. main'.s_ctl = main.s_ctl /\ main'.s_new = main.s_new /\ main'.their_addr = main.their_addr
      BY <1>1, <2>3 DEF Loop
    <3> QED BY <1>7, <2>1, <2>3, <3>1 DEF LoopHoldsCtl
  <2> QED BY <2>1, <2>2, <2>3
<1>11. CASE new_sound_thread
  <2>1. PICK t \in Thread :
           /\ thr[t].pc = "none" /\ main'.pc = "accept"
           /\ \A u \in Thread \ {t} : thr'[u] = thr[u]
           /\ thr'[t].socket = main.s_new /\ thr'[t].ctl = main.s_ctl
           /\ thr'[t].own = main.their_addr
    BY <1>11, NewThreadFrame
  <2>2. UNCHANGED fd /\ main.pc = "join"
    BY <1>11 DEF new_sound_thread
  <2>3. /\ fd'[thr'[t].socket] = thr'[t].own[1]
        /\ HoldsCtl(t)' => fd'[thr'[t].ctl] = thr'[t].own[2]
    BY <2>1, <2>2 DEF KeepInv, LoopHoldsCtl, HoldsCtl
  <2>4. \A u \in Thread \ {t} : /\ HoldsData(u)' => fd'[thr'[u].socket] = thr'[u].own[1]
                                /\ HoldsCtl(u)' => fd'[thr'[u].ctl] = thr'[u].own[2]
    BY <2>1, <2>2 DEF KeepInv, HoldsData, HoldsCtl, Live
  <2> QED BY <2>1, <2>3, <2>4 DEF LoopHoldsCtl
<1> QED BY <1>4, <1>5, <1>8, <1>9, <1>10, <1>11 DEF MainStep

LEMMA KeepThread ==
  ASSUME TypeInv, OnceInv, OwnInv, KeepInv, NEW t \in Thread, rsd_thread(t)
  PROVE  KeepInv'
<1> SUFFICES ASSUME fd'[0] = Stdin
             PROVE  /\ main'.pc # "accept" => fd'[main'.s_new] = main'.their_addr[1]
                    /\ LoopHoldsCtl' => fd'[main'.s_ctl] = main'.their_addr[2]
                    /\ \A u \in Thread : HoldsData(u)' => fd'[thr'[u].socket] = thr'[u].own[1]
                    /\ \A u \in Thread : HoldsCtl(u)' => fd'[thr'[u].ctl] = thr'[u].own[2]
  BY DEF KeepInv
<1>1. /\ fd \in [0..MaxFd -> Endpoint \cup {Stdin, Free}] /\ main \in Loop /\ 0 \in 0..MaxFd
      /\ \A u \in Thread : thr[u].socket \in 0..MaxFd /\ thr[u].ctl \in 0..MaxFd
  BY RsdServerAssumption DEF TypeInv, TypeOK, Loop
<1>2. Stdin \notin Endpoint /\ Free \notin Endpoint /\ Stdin # Free
  BY OwnFacts
<1>3. /\ UNCHANGED main /\ \A u \in Thread \ {t} : thr'[u] = thr[u]
      /\ thr'[t].own = thr[t].own /\ thr'[t].socket = thr[t].socket /\ Live(t)
  BY ThreadFrame DEF Live
<1>4. /\ thr'[t].ctl = thr[t].ctl \/ (thr'[t].ctl = 0 /\ fd[thr[t].ctl] \in Endpoint)
      /\ thr[t].pc \in {"drop_ctl", "exit_ctl"} => thr'[t].pc = "exited"
  BY ThreadFds
\* The step lets go of the number it closes, which is the thread's own.
<1>5. PICK e : /\ \A g \in 0..MaxFd : fd'[g] = fd[g] \/ fd[g] = e
               /\ \/ e = Free
                  \/ e = thr[t].own[1] /\ thr'[t].pc \in {"drop_ctl", "exit_ctl"}
                  \/ e = thr[t].own[2] /\ thr[t].ctl # 0 /\ (thr'[t].pc = "exited" \/ thr'[t].ctl = 0)
               /\ fd[0] = Stdin
  <2>1. CASE fd' = fd
    BY <2>1
  <2>2. CASE fd' = Closed(fd, thr[t].socket) /\ HoldsData(t) /\ thr'[t].pc \in {"drop_ctl", "exit_ctl"}
    <3>1. fd[0] = Stdin
      BY <1>1, <1>2, <2>2, ClosedFacts
    <3>2. fd[thr[t].socket] = thr[t].own[1]
      BY <2>2, <3>1 DEF KeepInv
    <3>3. \A g \in 0..MaxFd : fd'[g] = fd[g] \/ fd[g] = thr[t].own[1]
      BY <2>2, <3>2, ClosedFacts
    <3> QED BY <2>2, <3>1, <3>3
  <2>3. CASE /\ fd' = Closed(fd, thr[t].ctl)
             /\ thr'[t].pc = "exited" \/ (thr'[t].ctl = 0 /\ fd[thr[t].ctl] \in Endpoint)
    <3>1. fd[0] = Stdin
      BY <1>1, <1>2, <2>3, ClosedFacts
    <3>2. thr[t].ctl # 0
      BY <1>1, <1>2, <2>3 DEF Closed
    <3>3. fd[thr[t].ctl] = thr[t].own[2]
      BY <1>3, <3>1, <3>2 DEF KeepInv, HoldsCtl
    <3>4. \A g \in 0..MaxFd : fd'[g] = fd[g] \/ fd[g] = thr[t].own[2]
      BY <2>3, <3>3, ClosedFacts
    <3> QED BY <2>3, <3>1, <3>2, <3>4
  <2> QED BY <2>1, <2>2, <2>3, ThreadFds
<1>6. ASSUME main.pc # "accept" PROVE fd'[main.s_new] = main.their_addr[1]
  <2>1. fd[main.s_new] = main.their_addr[1] /\ main.s_new \in 0..MaxFd
    BY <1>5, <1>6 DEF KeepInv, TypeInv, MainInv
  <2> QED BY <1>2, <1>3, <1>5, <1>6, <2>1, OwnFacts
<1>7. ASSUME LoopHoldsCtl PROVE fd'[main.s_ctl] = main.their_addr[2]
  <2>1. fd[main.s_ctl] = main.their_addr[2] /\ main.s_ctl \in 0..MaxFd /\ main.pc # "accept"
    BY <1>5, <1>7 DEF KeepInv, TypeInv, MainInv, LoopHoldsCtl
  <2> QED BY <1>2, <1>3, <1>5, <1>7, <2>1, OwnFacts
<1>8. ASSUME NEW u \in Thread, HoldsData(u)' PROVE fd'[thr'[u].socket] = thr'[u].own[1]
  <2>1. /\ Live(u) /\ thr'[u].socket = thr[u].socket /\ thr'[u].own = thr[u].own
        /\ fd[thr[u].socket] = thr[u].own[1] /\ thr[u].socket \in 0..MaxFd
    BY <1>1, <1>3, <1>4, <1>5, <1>8 DEF KeepInv, HoldsData, Live
  <2>2. CASE u = t
    BY <1>2, <1>3, <1>4, <1>5, <1>8, <2>1, <2>2, OwnFacts DEF HoldsData, Live
  <2>3. CASE u # t
    BY <1>2, <1>3, <1>5, <1>8, <2>1, <2>3, OwnFacts
  <2> QED BY <2>2, <2>3
<1>9. ASSUME NEW u \in Thread, HoldsCtl(u)' PROVE fd'[thr'[u].ctl] = thr'[u].own[2]
  <2>1. /\ Live(u) /\ thr'[u].ctl = thr[u].ctl /\ thr'[u].own = thr[u].own /\ thr[u].ctl # 0
        /\ fd[thr[u].ctl] = thr[u].own[2] /\ thr[u].ctl \in 0..MaxFd
    BY <1>1, <1>3, <1>4, <1>5, <1>9 DEF KeepInv, HoldsCtl, Live
  <2>2. CASE u = t
    BY <1>2, <1>3, <1>4, <1>5, <1>9, <2>1, <2>2, OwnFacts DEF HoldsCtl, Live
  <2>3. CASE u # t
    BY <1>2, <1>3, <1>5, <1>9, <2>1, <2>3, OwnFacts
  <2> QED BY <2>2, <2>3
<1> QED BY <1>3, <1>6, <1>7, <1>8, <1>9 DEF LoopHoldsCtl

LEMMA KeepStep == TypeInv /\ OnceInv /\ OwnInv /\ KeepInv /\ [Next]_vars => KeepInv'
<1> SUFFICES ASSUME TypeInv, OnceInv, OwnInv, KeepInv, [Next]_vars PROVE KeepInv'
  OBVIOUS
<1>1. CASE UNCHANGED vars \/ Waiting \/ ClientStep
  <2>1. UNCHANGED <<fd, main, thr>>
    BY <1>1 DEF Waiting, vars, ClientStep, server, ConnectData, ConnectCtl, SendHeader, SendAudio,
       SendRequest, SendCloseCtl, CloseCtl, Stop, HangUp
  <2> QED BY <2>1 DEF KeepInv, HoldsData, HoldsCtl, LoopHoldsCtl, Live
<1> QED BY <1>1, KeepMain, KeepThread DEF Next

\* As long as descriptor 0 is the server's standard input, the numbers a thread holds
\* name the connections it was started for until it closes them itself: nothing the
\* accept loop or another thread closes is one of them.
THEOREM SocketsStayTheirs == Spec => [](fd[0] = Stdin => KeepsItsSockets)
<1> DEFINE IInv == TypeInv /\ OnceInv /\ OwnInv /\ KeepInv
<1>1. Init => IInv
  BY TypeInit, OnceInit, KeepInit
<1>2. IInv /\ [Next]_vars => IInv'
  BY TypeStep, OnceStep, OwnStep, KeepStep
<1>3. IInv => (fd[0] = Stdin => KeepsItsSockets)
  <2> SUFFICES ASSUME IInv, fd[0] = Stdin PROVE KeepsItsSockets
    OBVIOUS
  <2>1. \A t \in Thread : thr[t].ctl > 0 => thr[t].ctl # 0
    OBVIOUS
  <2> QED BY <2>1 DEF KeepInv, KeepsItsSockets, HoldsData, HoldsCtl
<1> QED BY <1>1, <1>2, <1>3, PTL DEF Spec

-----------------------------------------------------------------------------
(* Every thread plays what its client sent *)

Early(c) == client[c] \in {"new", "data", "both"}
Past(t)  == thr[t].pc \in {"init", "info", "stream", "serve_ctl", "serve_data", "write"}

\* Nobody has read anything from the client's data socket.
Fresh(c) == \A t \in Thread : <<c, "data">> \in Elems(thr[t].own) =>
              thr[t].own[1] = <<c, "data">> /\ thr[t].pc = "header"

\* No header comes on a control socket.
CtlInv == \A c \in Clients : \A i \in 1..Len(inbox[<<c, "ctl">>]) : inbox[<<c, "ctl">>][i][1] # "header"

\* The header is the first thing on the data socket, and audio follows only when the
\* server has answered, that is when some thread has read the header.
FreshInv ==
  \A c \in Clients :
    /\ Early(c) => inbox[<<c, "data">>] = << >>
    /\ <<c, "data">> \notin informed => units[c] = 0
    /\ Fresh(c) => /\ <<c, "data">> \notin informed
                   /\ inbox[<<c, "data">>] \in {<< >>, << <<"header", c, 0>> >>}

Taken(t) == Len(thr[t].played) + Len(thr[t].buffer)

\* What the backend was given, what is in the buffer and what is still on the socket
\* are together the audio the client has sent.
StreamOK(t) ==
  /\ thr[t].own[1][2] = "data" /\ ~Early(thr[t].own[1][1])
  /\ \A i \in 1..Len(inbox[thr[t].own[1]]) :
       inbox[thr[t].own[1]][i] = <<"audio", thr[t].own[1][1], Taken(t) + i>>
  /\ Taken(t) + Len(inbox[thr[t].own[1]]) = units[thr[t].own[1][1]]
  /\ \A i \in 1..Len(thr[t].buffer) :
       thr[t].buffer[i] = <<"audio", thr[t].own[1][1], Len(thr[t].played) + i>>

PastInv == \A t \in Thread : Past(t) => StreamOK(t)

StartInv ==
  \A t \in Thread : /\ thr[t].pc = "none" => thr[t].own = << >>
                    /\ thr[t].pc \in {"none", "header"} => thr[t].played = << >> /\ thr[t].buffer = << >>

StreamBody == CtlInv /\ FreshInv /\ PastInv /\ StartInv /\ PlaysWhatWasSent
StreamInv  == fd[0] = Stdin => StreamBody

\* Descriptor 0 is standard input until somebody closes it.
LEMMA StdinStays == TypeInv /\ [Next]_vars /\ fd'[0] = Stdin => fd[0] = Stdin
<1> SUFFICES ASSUME TypeInv, [Next]_vars, fd'[0] = Stdin PROVE fd[0] = Stdin
  OBVIOUS
<1>1. fd \in [0..MaxFd -> Endpoint \cup {Stdin, Free}] /\ 0 \in 0..MaxFd /\ backlog \in Seq(Endpoint)
  BY RsdServerAssumption DEF TypeInv, TypeOK
<1>2. Stdin \notin Endpoint /\ Stdin # Free
  BY DEF Stdin, Free, Endpoint
<1>3. CASE fd' = fd
  BY <1>3
<1>4. CASE fd' = CloseBoth \/ \E f : fd' = Closed(fd, f)
  BY <1>1, <1>2, <1>4 DEF CloseBoth, Closed
<1>5. CASE fd' = [fd EXCEPT ![LowestFree] = Head(backlog)] /\ backlog # << >>
  <2>1. Head(backlog) \in Endpoint
    BY <1>1, <1>5, TailFacts
  <2> QED BY <1>1, <1>2, <1>5, <2>1
<1>6. CASE UNCHANGED vars \/ Waiting \/ ClientStep
  BY <1>6 DEF Waiting, vars, ClientStep, server, ConnectData, ConnectCtl, SendHeader, SendAudio,
     SendRequest, SendCloseCtl, CloseCtl, Stop, HangUp
<1>7. CASE MainStep
  BY <1>3, <1>4, <1>5, <1>7 DEF MainStep, AcceptData, AcceptCtl, AcceptCtlFails, CtlTimeout, CheckSource,
     SetNonBlocking, new_sound_thread
<1>8. ASSUME NEW t \in Thread, rsd_thread(t) PROVE fd[0] = Stdin
  BY <1>3, <1>4, <1>8, ThreadFds
<1> QED BY <1>6, <1>7, <1>8 DEF Next

LEMMA StreamInit == Init => StreamInv
<1> SUFFICES ASSUME Init PROVE StreamBody
  BY DEF StreamInv
<1>1. /\ \A t \in Thread : thr[t] = NewThread
      /\ \A e \in Endpoint : inbox[e] = << >>
      /\ informed = {} /\ \A c \in Clients : units[c] = 0
  BY DEF Init
<1>2. \A c \in Clients : inbox[<<c, "ctl">>] = << >> /\ inbox[<<c, "data">>] = << >>
  BY <1>1 DEF Endpoint
<1>3. \A t \in Thread : thr[t].pc = "none" /\ thr[t].own = << >> /\ thr[t].played = << >> /\ thr[t].buffer = << >>
  BY <1>1 DEF NewThread
<1>4. CtlInv /\ FreshInv
  <2>1. CtlInv
    <3> SUFFICES ASSUME NEW c \in Clients, NEW i \in 1..Len(inbox[<<c, "ctl">>]) PROVE FALSE
      BY DEF CtlInv
    <3>1. Len(<< >>) = 0 /\ inbox[<<c, "ctl">>] = << >>
      BY <1>2
    <3>2. Len(inbox[<<c, "ctl">>]) = 0
      BY <3>1, Zenon
    <3> QED BY <3>2
  <2>2. FreshInv
    <3> SUFFICES ASSUME NEW c \in Clients
                 PROVE  /\ Early(c) => inbox[<<c, "data">>] = << >>
                        /\ <<c, "data">> \notin informed => units[c] = 0
                        /\ Fresh(c) => /\ <<c, "data">> \notin informed
                                       /\ inbox[<<c, "data">>] \in {<< >>, << <<"header", c, 0>> >>}
      BY DEF FreshInv
    <3> QED BY <1>1, <1>2
  <2> QED BY <2>1, <2>2
<1>5. PastInv /\ StartInv /\ PlaysWhatWasSent
  BY <1>3 DEF PastInv, StartInv, PlaysWhatWasSent, Past
<1> QED BY <1>4, <1>5 DEF StreamBody

\* A thread whose stream is the same as before.
LEMMA SameStream ==
  ASSUME NEW t, StreamOK(t), thr'[t].own = thr[t].own, thr'[t].played = thr[t].played,
         thr'[t].buffer = thr[t].buffer, inbox'[thr[t].own[1]] = inbox[thr[t].own[1]],
         units'[thr[t].own[1][1]] = units[thr[t].own[1][1]], ~Early(thr[t].own[1][1])'
  PROVE  StreamOK(t)'
BY DEF StreamOK, Taken, Early

LEMMA TakenType ==
  ASSUME TypeInv, NEW t \in Thread
  PROVE  Len(thr[t].played) \in Nat /\ Len(thr[t].buffer) \in Nat /\ Taken(t) \in Nat
<1>1. thr[t].played \in Seq(Item) /\ thr[t].buffer \in Seq(Item)
  BY DEF TypeInv, TypeOK
<1>2. Len(thr[t].played) \in Nat /\ Len(thr[t].buffer) \in Nat
  BY <1>1
<1>3. ASSUME NEW a \in Nat, NEW b \in Nat PROVE a + b \in Nat
  BY <1>3
<1> QED BY <1>2, <1>3 DEF Taken

LEMMA StreamClient ==
  ASSUME TypeInv, OnceInv, OwnInv, StreamBody, ClientStep
  PROVE  StreamBody'
<1>1. PICK c \in Clients :
        \/ ConnectData(c) \/ ConnectCtl(c) \/ SendHeader(c) \/ SendAudio(c)
        \/ \E kind \in Requests : SendRequest(c, kind)
        \/ SendCloseCtl(c) \/ CloseCtl(c) \/ Stop(c) \/ HangUp(c)
  BY DEF ClientStep
<1>2. UNCHANGED <<thr, informed>>
  BY <1>1 DEF server, ConnectData, ConnectCtl, SendHeader, SendAudio, SendRequest, SendCloseCtl, CloseCtl,
     Stop, HangUp
<1>3. client \in [Clients -> ClientLabels] /\ units \in [Clients -> 0..MaxUnits]
      /\ inbox \in [Endpoint -> Seq(Item)]
  BY DEF TypeInv, TypeOK, ClientLabels
<1>4. \A d \in Clients : Early(d)' => Early(d)
  <2>1. \/ UNCHANGED client
        \/ client[c] \in {"new", "data"} /\ \E l : client' = [client EXCEPT ![c] = l]
        \/ \E l \in {"started", "closectl", "exec", "stopped", "gone", "left"} : client' = [client EXCEPT ![c] = l]
    BY <1>1 DEF ConnectData, ConnectCtl, SendHeader, SendAudio, SendRequest, SendCloseCtl, CloseCtl, Stop,
       HangUp
  <2> QED BY <1>3, <2>1 DEF Early
<1>5. \A d \in Clients : <<d, "data">> \in Endpoint /\ <<d, "ctl">> \in Endpoint
  BY DEF Endpoint
<1>6. /\ \A d \in Clients : Fresh(d)' = Fresh(d)
      /\ \A t \in Thread : Past(t)' = Past(t)
      /\ StartInv' /\ PlaysWhatWasSent'
  <2>1. StartInv' /\ PlaysWhatWasSent'
    BY <1>2 DEF StreamBody, StartInv, PlaysWhatWasSent
  <2>2. \A d \in Clients : Fresh(d)' = Fresh(d)
    BY <1>2 DEF Fresh
  <2> QED BY <1>2, <2>1, <2>2 DEF Past
<1>7. ASSUME NEW t \in Thread, Past(t)
      PROVE  /\ StreamOK(t)
             /\ \E d \in Clients : /\ thr[t].own[1] = <<d, "data">> /\ thr[t].own[1][1] = d
                                   /\ ~Early(d) /\ ~Early(d)'
  <2>1. StreamOK(t) /\ Live(t)
    BY <1>7 DEF StreamBody, PastInv, Past, Live
  <2>2. thr[t].own[1] \in Endpoint /\ thr[t].own[1][2] = "data"
    BY <2>1, OwnFacts DEF StreamOK
  <2>3. PICK d \in Clients : thr[t].own[1] = <<d, "data">>
    BY <2>2 DEF Endpoint
  <2>4. thr[t].own[1][1] = d
    BY <2>3
  <2>5. ~Early(d) /\ ~Early(d)'
    BY <1>4, <2>1, <2>4 DEF StreamOK
  <2> QED BY <2>1, <2>3, <2>4, <2>5
<1>8. ASSUME units' = units, \A d \in Clients : inbox'[<<d, "data">>] = inbox[<<d, "data">>], CtlInv'
      PROVE  StreamBody'
  <2>1. FreshInv'
    BY <1>2, <1>4, <1>6, <1>8 DEF StreamBody, FreshInv
  <2>2. PastInv'
    <3> SUFFICES ASSUME NEW t \in Thread, Past(t) PROVE StreamOK(t)'
      BY <1>6 DEF PastInv
    <3>1. PICK d \in Clients : thr[t].own[1] = <<d, "data">> /\ thr[t].own[1][1] = d /\ ~Early(d)'
      BY <1>7
    <3>2. StreamOK(t) /\ inbox'[thr[t].own[1]] = inbox[thr[t].own[1]]
      BY <1>7, <1>8, <3>1
    <3> QED BY <1>2, <1>8, <3>1, <3>2, SameStream
  <2> QED BY <1>6, <1>8, <2>1, <2>2 DEF StreamBody
<1>9. CASE ConnectData(c) \/ ConnectCtl(c) \/ CloseCtl(c) \/ HangUp(c)
  <2>1. UNCHANGED <<inbox, units>>
    BY <1>9 DEF ConnectData, ConnectCtl, CloseCtl, HangUp
  <2> QED BY <1>8, <2>1 DEF StreamBody, CtlInv
<1>10. ASSUME NEW kind \in {"INFO", "IDENTITY", "STOP", "CLOSECTL"}, Send(<<c, "ctl">>, kind, 0), units' = units
       PROVE  StreamBody'
  <2> DEFINE e == <<c, "ctl">>
             item == <<kind, c, 0>>
  <2>1. inbox' = [inbox EXCEPT ![e] = Append(inbox[e], item)]
    BY <1>10 DEF Send
  <2>2. item \in Item /\ inbox[e] \in Seq(Item)
    <3>1. item \in Item
      BY RsdServerAssumption DEF Item
    <3> QED BY <1>3, <1>5, <3>1
  <2>3. \A d \in Clients : inbox'[<<d, "data">>] = inbox[<<d, "data">>]
    BY <1>3, <1>5, <2>1
  <2>4. CtlInv'
    <3> SUFFICES ASSUME NEW d \in Clients, NEW i \in 1..Len(inbox'[<<d, "ctl">>])
                 PROVE  inbox'[<<d, "ctl">>][i][1] # "header"
      BY DEF CtlInv
    <3>1. CASE d # c
      <4>1. inbox'[<<d, "ctl">>] = inbox[<<d, "ctl">>]
        BY <1>3, <1>5, <2>1, <3>1
      <4> QED BY <4>1 DEF StreamBody, CtlInv
    <3>2. CASE d = c
      <4>1. inbox'[e] = Append(inbox[e], item)
        BY <1>3, <1>5, <2>1
      <4>2. item[1] # "header"
        OBVIOUS
      <4>3. \A j \in 1..Len(inbox[e]) : inbox[e][j][1] # "header"
        BY DEF StreamBody, CtlInv
      <4> HIDE DEF item
      <4>4. i \in 1..Len(inbox[e]) \/ i = Len(inbox[e]) + 1
        BY <2>2, <3>2, <4>1, AppendFacts
      <4> QED BY <2>2, <3>2, <4>1, <4>2, <4>3, <4>4, AppendFacts
    <3> QED BY <3>1, <3>2
  <2> QED BY <1>8, <1>10, <2>3, <2>4
<1>11. CASE SendCloseCtl(c) \/ Stop(c) \/ \E kind \in Requests : SendRequest(c, kind)
  <2>1. units' = units /\ \E kind \in {"INFO", "IDENTITY", "STOP", "CLOSECTL"} : Send(<<c, "ctl">>, kind, 0)
    BY <1>11, RsdServerAssumption DEF SendCloseCtl, Stop, SendRequest
  <2> QED BY <1>10, <2>1
<1>12. ASSUME NEW n \in 0..MaxUnits, NEW kind \in {"header", "audio"}, Send(<<c, "data">>, kind, n)
       PROVE  /\ CtlInv'
              /\ inbox'[<<c, "data">>] = Append(inbox[<<c, "data">>], <<kind, c, n>>)
              /\ \A d \in Clients \ {c} : inbox'[<<d, "data">>] = inbox[<<d, "data">>]
  <2> DEFINE e == <<c, "data">>
             item == <<kind, c, n>>
  <2>1. inbox' = [inbox EXCEPT ![e] = Append(inbox[e], item)]
    BY <1>12 DEF Send
  <2> HIDE DEF item
  <2>2. \A d \in Clients : inbox'[<<d, "ctl">>] = inbox[<<d, "ctl">>]
    BY <1>3, <1>5, <2>1
  <2>3. inbox'[e] = Append(inbox[e], item) /\ \A d \in Clients \ {c} : inbox'[<<d, "data">>] = inbox[<<d, "data">>]
    BY <1>3, <1>5, <2>1
  <2> QED BY <2>2, <2>3 DEF StreamBody, CtlInv, item
<1>13. CASE SendHeader(c)
  <2>1. /\ client[c] = "both" /\ client' = [client EXCEPT ![c] = "started"] /\ units' = units
        /\ Send(<<c, "data">>, "header", 0) /\ 0 \in 0..MaxUnits
    BY <1>13, RsdServerAssumption DEF SendHeader
  <2>2. /\ CtlInv' /\ inbox'[<<c, "data">>] = Append(inbox[<<c, "data">>], <<"header", c, 0>>)
        /\ \A d \in Clients \ {c} : inbox'[<<d, "data">>] = inbox[<<d, "data">>]
    BY <1>12, <2>1
  <2>3. inbox[<<c, "data">>] = << >> /\ Early(c) /\ ~Early(c)'
    BY <1>3, <2>1 DEF StreamBody, FreshInv, Early
  <2>4. inbox'[<<c, "data">>] = << <<"header", c, 0>> >>
    BY <2>2, <2>3
  <2>5. FreshInv'
    BY <1>2, <1>4, <1>6, <2>1, <2>2, <2>3, <2>4 DEF StreamBody, FreshInv
  <2>6. PastInv'
    <3> SUFFICES ASSUME NEW t \in Thread, Past(t) PROVE StreamOK(t)'
      BY <1>6 DEF PastInv
    <3>1. PICK d \in Clients : /\ thr[t].own[1] = <<d, "data">> /\ thr[t].own[1][1] = d
                               /\ ~Early(d) /\ ~Early(d)'
      BY <1>7
    <3>2. d # c /\ StreamOK(t)
      BY <1>7, <2>3, <3>1
    <3>3. inbox'[thr[t].own[1]] = inbox[thr[t].own[1]]
      BY <2>2, <3>1, <3>2
    <3> QED BY <1>2, <2>1, <3>1, <3>2, <3>3, SameStream
  <2> QED BY <1>6, <2>2, <2>5, <2>6 DEF StreamBody
<1>14. CASE SendAudio(c)
  <2> DEFINE e == <<c, "data">>
             m == units[c] + 1
             item == <<"audio", c, m>>
  <2>1. /\ client' = client /\ e \in informed /\ units' = [units EXCEPT ![c] = m] /\ client[c] \notin {"new", "data", "both"}
        /\ Send(e, "audio", m) /\ m \in 0..MaxUnits /\ units[c] \in Nat
    BY <1>3, <1>14, RsdServerAssumption DEF SendAudio
  <2>2. /\ CtlInv' /\ inbox'[e] = Append(inbox[e], item)
        /\ \A d \in Clients \ {c} : inbox'[<<d, "data">>] = inbox[<<d, "data">>]
    BY <1>12, <2>1
  <2>3. item \in Item /\ inbox[e] \in Seq(Item)
    BY <1>3, <1>5, <2>1 DEF Item
  <2>4. ~Fresh(c) /\ \A d \in Clients \ {c} : units'[d] = units[d]
    BY <1>3, <2>1 DEF StreamBody, FreshInv
  <2>5. FreshInv'
    <3> SUFFICES ASSUME NEW d \in Clients
                 PROVE  /\ Early(d)' => inbox'[<<d, "data">>] = << >>
                        /\ <<d, "data">> \notin informed' => units'[d] = 0
                        /\ Fresh(d)' => /\ <<d, "data">> \notin informed'
                                        /\ inbox'[<<d, "data">>] \in {<< >>, << <<"header", d, 0>> >>}
      BY DEF FreshInv
    <3>1. CASE d = c
      BY <1>2, <1>6, <2>1, <2>4, <3>1 DEF Early
    <3>2. CASE d # c
      <4> HIDE DEF item, m
      <4> QED BY <1>2, <1>4, <1>6, <2>2, <2>4, <3>2 DEF StreamBody, FreshInv
    <3> QED BY <3>1, <3>2
  <2>6. PastInv'
    <3> SUFFICES ASSUME NEW t \in Thread, Past(t) PROVE StreamOK(t)'
      BY <1>6 DEF PastInv
    <3>1. PICK d \in Clients : /\ thr[t].own[1] = <<d, "data">> /\ thr[t].own[1][1] = d
                               /\ ~Early(d) /\ ~Early(d)'
      BY <1>7
    <3>4. StreamOK(t)
      BY <1>7
    <3>2. CASE d # c
      <4>1. inbox'[thr[t].own[1]] = inbox[thr[t].own[1]] /\ units'[thr[t].own[1][1]] = units[thr[t].own[1][1]]
        BY <2>2, <2>4, <3>1, <3>2
      <4> QED BY <1>2, <3>1, <3>4, <4>1, SameStream
    <3>3. CASE d = c
      <4> DEFINE q == inbox[e]
                 q1 == Append(q, item)
                 n == Taken(t)
                 k == Len(q)
      <4>1. thr[t].own[1] = e /\ inbox'[e] = q1 /\ units'[c] = m /\ m = units[c] + 1
        BY <1>3, <2>1, <2>2, <3>1, <3>3
      <4>2. /\ \A i \in 1..k : q[i] = <<"audio", c, n + i>>
            /\ n + k = units[c]
        BY <3>1, <3>3, <3>4, <4>1 DEF StreamOK
      <4>3. n \in Nat /\ k \in Nat
        <5>1. n \in Nat
          BY TakenType
        <5>2. k \in Nat
          BY <2>3
        <5> QED BY <5>1, <5>2
      <4>4. Len(q1) = k + 1 /\ (\A i \in 1..k : q1[i] = q[i]) /\ q1[k + 1] = item
        BY <2>3, AppendFacts
      <4>5. Taken(t)' = n
        BY <1>2 DEF Taken
      <4> HIDE DEF q1, q, n, k, m
      <4>6. m = n + (k + 1)
        BY <2>1, <4>1, <4>2, <4>3
      <4>7. \A i \in 1..(k + 1) : i \in 1..k \/ i = k + 1
        BY <4>3
      <4>8. \A i \in 1..Len(q1) : q1[i] = <<"audio", c, n + i>>
        BY <4>2, <4>4, <4>6, <4>7
      <4>9. n + Len(q1) = m
        BY <4>4, <4>6
      <4> QED BY <1>2, <3>1, <3>3, <3>4, <4>1, <4>5, <4>8, <4>9 DEF StreamOK
    <3> QED BY <3>2, <3>3
  <2> QED BY <1>6, <2>2, <2>5, <2>6 DEF StreamBody
<1> QED BY <1>1, <1>9, <1>11, <1>13, <1>14

LEMMA StreamMain == TypeInv /\ OwnInv /\ StreamBody /\ MainStep => StreamBody'
<1> SUFFICES ASSUME TypeInv, OwnInv, StreamBody, MainStep PROVE StreamBody'
  OBVIOUS
<1>1. UNCHANGED <<inbox, informed, client, units>>
  BY DEF MainStep, AcceptData, AcceptCtl, AcceptCtlFails, CtlTimeout, CheckSource, SetNonBlocking,
     new_sound_thread, clients, wires
<1>2. CASE ~new_sound_thread
  <2>1. UNCHANGED thr
    BY <1>2 DEF MainStep, AcceptData, AcceptCtl, AcceptCtlFails, CtlTimeout, CheckSource, SetNonBlocking
  <2>2. CtlInv' /\ StartInv' /\ PlaysWhatWasSent'
    BY <1>1, <2>1 DEF StreamBody, CtlInv, StartInv, PlaysWhatWasSent
  <2>3. FreshInv'
    BY <1>1, <2>1 DEF StreamBody, FreshInv, Fresh, Early
  <2>4. PastInv'
    <3> SUFFICES ASSUME NEW t \in Thread, Past(t)' PROVE StreamOK(t)'
      BY DEF PastInv
    <3>1. StreamOK(t)
      BY <2>1 DEF StreamBody, PastInv, Past
    <3>2. ~Early(thr[t].own[1][1])'
      <4>1. ~Early(thr[t].own[1][1])
        BY <3>1 DEF StreamOK
      <4> QED BY <1>1, <2>1, <4>1 DEF Early
    <3> QED BY <1>1, <2>1, <3>1, <3>2, SameStream
  <2> QED BY <2>2, <2>3, <2>4 DEF StreamBody
<1>3. CASE new_sound_thread
  <2>1. PICK t \in Thread :
          /\ thr[t].pc = "none" /\ thr'[t].pc = "header"
          /\ \A u \in Thread \ {t} : thr'[u] = thr[u]
          /\ thr'[t].played = thr[t].played /\ thr'[t].buffer = thr[t].buffer
    BY <1>3, NewThreadFrame
  <2>2. thr[t].own = << >> /\ thr'[t].played = << >> /\ thr'[t].buffer = << >>
    BY <2>1 DEF StreamBody, StartInv
  <2>3. CtlInv'
    BY <1>1 DEF StreamBody, CtlInv
  <2>4. StartInv'
    BY <2>1, <2>2 DEF StreamBody, StartInv
  <2>5. PlaysWhatWasSent'
    <3> SUFFICES ASSUME NEW u \in Thread, NEW i \in 1..Len(thr'[u].played)
                 PROVE  thr'[u].played[i] = <<"audio", thr'[u].own[1][1], i>>
      BY DEF PlaysWhatWasSent
    <3>1. CASE u = t
      <4>1. Len(<< >>) = 0 /\ thr'[u].played = << >>
        BY <2>2, <3>1
      <4>2. Len(thr'[u].played) = 0
        BY <4>1, Zenon
      <4> QED BY <4>2
    <3>2. CASE u # t
      BY <2>1, <3>2 DEF StreamBody, PlaysWhatWasSent
    <3> QED BY <3>1, <3>2
  <2>6. PastInv'
    <3> SUFFICES ASSUME NEW u \in Thread, Past(u)' PROVE StreamOK(u)'
      BY DEF PastInv
    <3>1. u # t /\ thr'[u] = thr[u] /\ StreamOK(u)
      BY <2>1 DEF StreamBody, PastInv, Past
    <3>2. ~Early(thr[u].own[1][1])'
      <4>1. ~Early(thr[u].own[1][1])
        BY <3>1 DEF StreamOK
      <4> QED BY <1>1, <3>1, <4>1 DEF Early
    <3> QED BY <1>1, <3>1, <3>2, SameStream
  <2>7. FreshInv'
    <3> SUFFICES ASSUME NEW c \in Clients, Fresh(c)' PROVE Fresh(c)
      BY <1>1 DEF StreamBody, FreshInv, Early
    <3> SUFFICES ASSUME NEW u \in Thread, <<c, "data">> \in Elems(thr[u].own)
                 PROVE  thr[u].own[1] = <<c, "data">> /\ thr[u].pc = "header"
      BY DEF Fresh
    <3>1. u # t
      BY <2>2, ElemsShort
    <3> QED BY <2>1, <3>1 DEF Fresh
  <2> QED BY <2>3, <2>4, <2>5, <2>6, <2>7 DEF StreamBody
<1> QED BY <1>2, <1>3

\* What a step of a thread has to respect.
LEMMA StreamRule ==
  ASSUME TypeInv, OnceInv, OwnInv, StreamBody, NEW t \in Thread, rsd_thread(t),
         CtlInv',
         \A c \in Clients : Early(c) => inbox'[<<c, "data">>] = << >>,
         \A c \in Clients : Fresh(c)' => Fresh(c) /\ inbox'[<<c, "data">>] = inbox[<<c, "data">>],
         informed' = informed \/ (informed' = informed \cup {thr[t].own[1]} /\ thr'[t].pc # "header"),
         \A u \in Thread \ {t} : Past(u) => inbox'[thr[u].own[1]] = inbox[thr[u].own[1]],
         Past(t)' => StreamOK(t)',
         \A i \in 1..Len(thr'[t].played) : thr'[t].played[i] = <<"audio", thr[t].own[1][1], i>>,
         thr'[t].pc = "header" => thr'[t].played = << >> /\ thr'[t].buffer = << >>
  PROVE  StreamBody'
<1>1. /\ UNCHANGED <<client, units>> /\ Live(t) /\ thr'[t].own = thr[t].own /\ thr'[t].pc # "none"
      /\ \A u \in Thread \ {t} : thr'[u] = thr[u]
  BY ThreadFrame DEF Live
<1>2. thr[t].own[1] \in Elems(thr[t].own)
  BY <1>1, ElemsPair DEF OwnInv
<1>3. FreshInv'
  <2> SUFFICES ASSUME NEW c \in Clients
               PROVE  /\ Early(c)' => inbox'[<<c, "data">>] = << >>
                      /\ <<c, "data">> \notin informed' => units'[c] = 0
                      /\ Fresh(c)' => /\ <<c, "data">> \notin informed'
                                      /\ inbox'[<<c, "data">>] \in {<< >>, << <<"header", c, 0>> >>}
    BY DEF FreshInv
  <2>1. Early(c)' => inbox'[<<c, "data">>] = << >>
    BY <1>1 DEF Early
  <2>2. <<c, "data">> \notin informed' => units'[c] = 0
    BY <1>1 DEF StreamBody, FreshInv
  <2>3. ASSUME Fresh(c)'
        PROVE  <<c, "data">> \notin informed' /\ inbox'[<<c, "data">>] \in {<< >>, << <<"header", c, 0>> >>}
    <3>1. <<c, "data">> \notin informed /\ inbox'[<<c, "data">>] \in {<< >>, << <<"header", c, 0>> >>}
      BY <2>3 DEF StreamBody, FreshInv
    <3>2. ASSUME <<c, "data">> = thr[t].own[1] PROVE thr'[t].pc = "header"
      BY <1>1, <1>2, <2>3, <3>2 DEF Fresh
    <3> QED BY <3>1, <3>2
  <2> QED BY <2>1, <2>2, <2>3
<1>4. PastInv'
  <2> SUFFICES ASSUME NEW u \in Thread, u # t, Past(u)' PROVE StreamOK(u)'
    BY DEF PastInv
  <2>1. thr'[u] = thr[u] /\ Past(u) /\ StreamOK(u)
    BY <1>1 DEF StreamBody, PastInv, Past
  <2>2. ~Early(thr[u].own[1][1])' /\ inbox'[thr[u].own[1]] = inbox[thr[u].own[1]]
    BY <1>1, <2>1 DEF StreamOK, Early
  <2> QED BY <1>1, <2>1, <2>2, SameStream
<1>5. StartInv'
  BY <1>1 DEF StreamBody, StartInv
<1>6. PlaysWhatWasSent'
  <2> SUFFICES ASSUME NEW u \in Thread, NEW i \in 1..Len(thr'[u].played)
               PROVE  thr'[u].played[i] = <<"audio", thr'[u].own[1][1], i>>
    BY DEF PlaysWhatWasSent
  <2>1. CASE u = t
    BY <1>1, <2>1
  <2>2. CASE u # t
    BY <1>1, <2>2 DEF StreamBody, PlaysWhatWasSent
  <2> QED BY <2>1, <2>2
<1> QED BY <1>3, <1>4, <1>5, <1>6 DEF StreamBody

\* A step that reads nothing.
LEMMA StreamQuiet ==
  ASSUME TypeInv, OnceInv, OwnInv, StreamBody, NEW t \in Thread, rsd_thread(t),
         inbox' = inbox, informed' \in {informed, informed \cup {thr[t].own[1]}},
         thr'[t].played = thr[t].played, thr'[t].buffer = thr[t].buffer,
         thr'[t].pc # "header", Past(t)' => Past(t)
  PROVE  StreamBody'
<1>1. /\ UNCHANGED <<client, units>> /\ thr'[t].own = thr[t].own
      /\ \A u \in Thread \ {t} : thr'[u] = thr[u]
  BY ThreadFrame
<1>2. CtlInv' /\ \A c \in Clients : Early(c) => inbox'[<<c, "data">>] = << >>
  BY DEF StreamBody, CtlInv, FreshInv
<1>3. ASSUME NEW c \in Clients, Fresh(c)' PROVE Fresh(c)
  BY <1>1, <1>3 DEF Fresh
<1>4. ASSUME Past(t)' PROVE StreamOK(t)'
  <2>1. StreamOK(t)
    BY <1>4 DEF StreamBody, PastInv
  <2>2. ~Early(thr[t].own[1][1])'
    BY <1>1, <2>1 DEF StreamOK, Early
  <2> QED BY <1>1, <2>1, <2>2, SameStream
<1>5. \A i \in 1..Len(thr'[t].played) : thr'[t].played[i] = <<"audio", thr[t].own[1][1], i>>
  BY DEF StreamBody, PlaysWhatWasSent
<1> QED BY <1>2, <1>3, <1>4, <1>5, StreamRule

\* The header is read, or something that is no header on a control socket.
LEMMA StreamHeader ==
  ASSUME TypeInv, OnceInv, OwnInv, KeepInv, fd[0] = Stdin, StreamBody, NEW t \in Thread,
         get_wav_header(t), Readable(thr[t].socket), inbox' = Consumed(thr[t].socket)
  PROVE  StreamBody'
<1> DEFINE e == thr[t].own[1]
<1>0. rsd_thread(t)
  BY DEF rsd_thread
<1>1. /\ UNCHANGED <<client, units>> /\ thr'[t].own = thr[t].own /\ Live(t)
      /\ \A u \in Thread \ {t} : thr'[u] = thr[u]
  BY <1>0, ThreadFrame DEF Live
<1>2. /\ e \in Endpoint /\ e \in Elems(thr[t].own) /\ fd[thr[t].socket] = e /\ thr[t].pc = "header"
      /\ thr[t].played = << >> /\ thr[t].buffer = << >>
  BY <1>1, OwnFacts, ElemsPair DEF OwnInv, KeepInv, HoldsData, get_wav_header, At, StreamBody, StartInv
<1>3. /\ inbox \in [Endpoint -> Seq(Item)] /\ inbox[e] # << >> /\ inbox[e] \in Seq(Item)
      /\ inbox' = [inbox EXCEPT ![e] = Tail(inbox[e])]
  BY <1>2 DEF Readable, Consumed, TypeInv, TypeOK
<1>4. /\ informed' = informed
      /\ IF Head(inbox[e])[1] = "header" THEN Step(t, "init") ELSE Step(t, "header") \/ Step(t, "drop")
  BY <1>2 DEF get_wav_header, Readable, AtEof
<1>5. ASSUME NEW l, Step(t, l)
      PROVE  thr'[t].pc = l /\ thr'[t].played = << >> /\ thr'[t].buffer = << >>
  <2>1. thr \in [Thread -> Connection]
    BY DEF TypeInv, TypeOK, Connection
  <2> QED BY <1>2, <1>5, <2>1 DEF Step, Connection
<1>6. /\ thr'[t].played = << >> /\ thr'[t].buffer = << >>
      /\ thr'[t].pc = IF Head(inbox[e])[1] = "header" THEN "init" ELSE thr'[t].pc
      /\ thr'[t].pc \in {"init", "header", "drop"}
      /\ Head(inbox[e])[1] # "header" => thr'[t].pc # "init"
  BY <1>4, <1>5
<1>7. \A i \in 1..Len(thr'[t].played) : thr'[t].played[i] = <<"audio", thr[t].own[1][1], i>>
  <2>1. Len(<< >>) = 0
    OBVIOUS
  <2>2. Len(thr'[t].played) = 0
    BY <1>6, <2>1, Zenon
  <2> QED BY <2>2
<1>8. \A u \in Thread \ {t} : Past(u) => inbox'[thr[u].own[1]] = inbox[thr[u].own[1]]
  <2> SUFFICES ASSUME NEW u \in Thread, u # t, Past(u) PROVE inbox'[thr[u].own[1]] = inbox[thr[u].own[1]]
    OBVIOUS
  <2>1. thr[u].own[1] # e /\ thr[u].own[1] \in Endpoint
    BY <1>1, OwnFacts DEF Past, Live
  <2> QED BY <1>3, <2>1
<1>9. \A c \in Clients : <<c, "ctl">> \in Endpoint /\ <<c, "data">> \in Endpoint
  BY DEF Endpoint
<1>10. PICK c \in Clients : e = <<c, "ctl">> \/ e = <<c, "data">>
  BY <1>2 DEF Endpoint
<1> HIDE DEF e
<1>11. CASE e = <<c, "ctl">>
  <2>1. \A i \in 1..Len(inbox[e]) : inbox[e][i][1] # "header"
    BY <1>11 DEF StreamBody, CtlInv
  <2>2. /\ Head(inbox[e])[1] # "header"
        /\ \A i \in 1..Len(Tail(inbox[e])) : Tail(inbox[e])[i][1] # "header"
    <3> DEFINE q == inbox[e]
               k == Len(q)
               r == Tail(q)
    <3>1. /\ Head(q) = q[1] /\ 1 \in 1..k /\ k \in Nat /\ Len(r) = k - 1
          /\ \A i \in 1..(k - 1) : r[i] = q[i + 1]
      BY <1>3, TailFacts
    <3> HIDE DEF r, k, q
    <3>2. \A i \in 1..Len(r) : i + 1 \in 1..k /\ r[i] = q[i + 1]
      BY <3>1
    <3>3. \A i \in 1..k : q[i][1] # "header"
      BY <2>1 DEF q, k
    <3>4. Head(q)[1] # "header" /\ \A i \in 1..Len(r) : r[i][1] # "header"
      BY <3>1, <3>2, <3>3
    <3> QED BY <3>4 DEF q, r
  <2>3. CtlInv'
    <3> SUFFICES ASSUME NEW d \in Clients PROVE \A i \in 1..Len(inbox'[<<d, "ctl">>]) : inbox'[<<d, "ctl">>][i][1] # "header"
      BY DEF CtlInv
    <3>1. CASE d = c
      <4>1. inbox'[<<d, "ctl">>] = Tail(inbox[e])
        BY <1>2, <1>3, <1>11, <3>1
      <4> QED BY <2>2, <4>1
    <3>2. CASE d # c
      <4>1. inbox'[<<d, "ctl">>] = inbox[<<d, "ctl">>]
        BY <1>3, <1>9, <1>11, <3>2
      <4> QED BY <4>1 DEF StreamBody, CtlInv
    <3> QED BY <3>1, <3>2
  <2>4. \A d \in Clients : inbox'[<<d, "data">>] = inbox[<<d, "data">>]
    BY <1>3, <1>9, <1>11
  <2>5. \A d \in Clients : Early(d) => inbox'[<<d, "data">>] = << >>
    BY <2>4 DEF StreamBody, FreshInv
  <2>6. \A d \in Clients : Fresh(d)' => Fresh(d) /\ inbox'[<<d, "data">>] = inbox[<<d, "data">>]
    <3> SUFFICES ASSUME NEW d \in Clients, Fresh(d)' PROVE Fresh(d)
      BY <2>4
    <3> QED BY <1>1, <1>2 DEF Fresh
  <2>7. ~Past(t)'
    BY <1>6, <2>2 DEF Past
  <2> QED BY <1>0, <1>4, <1>6, <1>7, <1>8, <2>3, <2>5, <2>6, <2>7, StreamRule
<1>12. CASE e = <<c, "data">>
  <2>1. Fresh(c)
    <3> SUFFICES ASSUME NEW u \in Thread, <<c, "data">> \in Elems(thr[u].own)
                 PROVE  thr[u].own[1] = <<c, "data">> /\ thr[u].pc = "header"
      BY DEF Fresh
    <3>1. u = t
      BY <1>2, <1>12 DEF OnceInv
    <3> QED BY <1>2, <1>12, <3>1 DEF e
  <2>2. inbox[e] = << <<"header", c, 0>> >> /\ e \notin informed /\ units[c] = 0 /\ ~Early(c)
    BY <1>3, <1>12, <2>1 DEF StreamBody, FreshInv
  <2>3. Head(inbox[e])[1] = "header" /\ Tail(inbox[e]) = << >>
    BY <2>2
  <2>4. thr'[t].pc = "init"
    BY <1>6, <2>3
  <2>5. inbox'[e] = << >> /\ \A d \in Clients \ {c} : inbox'[<<d, "data">>] = inbox[<<d, "data">>]
    <3>1. inbox'[e] = << >>
      BY <1>2, <1>3, <2>3
    <3>2. ASSUME NEW d \in Clients, d # c PROVE inbox'[<<d, "data">>] = inbox[<<d, "data">>]
      <4>1. <<d, "data">> # e /\ <<d, "data">> \in Endpoint
        BY <1>9, <1>12, <3>2
      <4> QED BY <1>3, <4>1
    <3> QED BY <3>1, <3>2
  <2>6. \A d \in Clients : inbox'[<<d, "ctl">>] = inbox[<<d, "ctl">>]
    BY <1>3, <1>9, <1>12
  <2>7. CtlInv'
    BY <2>6 DEF StreamBody, CtlInv
  <2>8. \A d \in Clients : Early(d) => inbox'[<<d, "data">>] = << >>
    BY <1>12, <2>5 DEF StreamBody, FreshInv
  <2>9. \A d \in Clients : Fresh(d)' => Fresh(d) /\ inbox'[<<d, "data">>] = inbox[<<d, "data">>]
    <3> SUFFICES ASSUME NEW d \in Clients, Fresh(d)' PROVE Fresh(d) /\ d # c
      BY <2>5
    <3>1. d # c
      <4> SUFFICES ASSUME d = c PROVE FALSE
        OBVIOUS
      <4>1. <<d, "data">> \in Elems(thr'[t].own)
        BY <1>1, <1>2, <1>12
      <4>2. thr'[t].pc = "header"
        BY <4>1 DEF Fresh
      <4> QED BY <2>4, <4>2
    <3>2. Fresh(d)
      BY <1>1, <1>2 DEF Fresh
    <3> QED BY <3>1, <3>2
  <2>10. StreamOK(t)'
    <3>1. Len(<< >>) = 0
      OBVIOUS
    <3>2. Len(thr'[t].played) = 0 /\ Len(thr'[t].buffer) = 0 /\ Len(inbox'[e]) = 0
      BY <1>6, <2>5, <3>1, Zenon
    <3>3. thr'[t].own[1] = e /\ e[1] = c /\ e[2] = "data" /\ ~Early(c)' /\ units'[c] = 0
      BY <1>1, <1>12, <2>2 DEF e, Early
    <3>4. Taken(t)' = 0
      BY <3>2 DEF Taken
    <3>5. /\ \A i \in 1..Len(inbox'[e]) : FALSE
          /\ \A i \in 1..Len(thr'[t].buffer) : FALSE
      BY <3>2
    <3> QED BY <3>2, <3>3, <3>4, <3>5 DEF StreamOK
  <2> QED BY <1>0, <1>4, <1>6, <1>7, <1>8, <2>7, <2>8, <2>9, <2>10, StreamRule
<1> QED BY <1>10, <1>11, <1>12

\* Requests are taken from the control socket, which may be another client's data
\* socket, but never one that a thread plays.
LEMMA StreamRequest ==
  ASSUME TypeInv, OnceInv, OwnInv, KeepInv, fd[0] = Stdin, StreamBody, NEW t \in Thread,
         ServeCtl(t), Readable(thr[t].ctl), handle_ctl_request(t)
  PROVE  StreamBody'
<1> DEFINE e == thr[t].own[2]
<1>0. rsd_thread(t)
  BY DEF rsd_thread
<1>1. /\ UNCHANGED <<client, units>> /\ thr'[t].own = thr[t].own /\ Live(t) /\ thr[t].pc = "serve_ctl"
      /\ \A u \in Thread \ {t} : thr'[u] = thr[u]
  BY <1>0, ThreadFrame DEF Live, ServeCtl, At
<1>2. fd[thr[t].ctl] \in Endpoint /\ thr[t].ctl # 0
  BY OwnFacts DEF Readable
<1>3. /\ e \in Endpoint /\ e \in Elems(thr[t].own) /\ fd[thr[t].ctl] = e
      /\ thr[t].own[1] \in Endpoint /\ thr[t].own[1] # e
  BY <1>1, <1>2, OwnFacts, ElemsPair DEF OwnInv, KeepInv, HoldsCtl
<1>4. /\ inbox \in [Endpoint -> Seq(Item)] /\ inbox[e] # << >> /\ inbox[e] \in Seq(Item)
  BY <1>3 DEF Readable, TypeInv, TypeOK
<1>5. PICK n \in 1..(Len(inbox[e]) + 1) : inbox' = [inbox EXCEPT ![e] = SubSeq(@, n, Len(@))]
  BY <1>2, <1>3, RequestCases DEF TypeInv
<1>6. informed' = informed
  BY DEF ServeCtl
<1>7. /\ thr'[t].played = thr[t].played /\ thr'[t].buffer = thr[t].buffer
      /\ thr'[t].pc \in {"exit", "serve_data"}
  <2>1. thr \in [Thread -> Connection]
    BY DEF TypeInv, TypeOK, Connection
  <2>2. \/ \E l \in {"exit", "serve_data"} : Step(t, l)
        \/ thr' = [thr EXCEPT ![t].pc = "serve_data", ![t].ctl = 0]
    BY <1>2, RequestCases DEF TypeInv, CloseCtlRequest
  <2> QED BY <2>1, <2>2 DEF Step, Connection
<1>8. Past(t) /\ StreamOK(t) /\ thr'[t].pc # "header"
  BY <1>1, <1>7 DEF Past, StreamBody, PastInv
<1>9. \A i \in 1..Len(thr'[t].played) : thr'[t].played[i] = <<"audio", thr[t].own[1][1], i>>
  BY <1>7 DEF StreamBody, PlaysWhatWasSent
<1>10. \A u \in Thread : Past(u) => inbox'[thr[u].own[1]] = inbox[thr[u].own[1]]
  <2> SUFFICES ASSUME NEW u \in Thread, Past(u) PROVE inbox'[thr[u].own[1]] = inbox[thr[u].own[1]]
    OBVIOUS
  <2>1. thr[u].own[1] # e /\ thr[u].own[1] \in Endpoint
    <3>1. CASE u = t
      BY <1>3, <3>1
    <3>2. CASE u # t
      BY <1>1, <1>2, <3>2, OwnFacts DEF Past, Live
    <3> QED BY <3>1, <3>2
  <2> QED BY <1>4, <1>5, <2>1
<1>11. StreamOK(t)'
  <2>1. ~Early(thr[t].own[1][1])'
    <3>1. ~Early(thr[t].own[1][1])
      BY <1>8 DEF StreamOK
    <3> QED BY <1>1, <3>1 DEF Early
  <2> QED BY <1>1, <1>7, <1>8, <1>10, <2>1, SameStream
<1>12. \A c \in Clients : <<c, "ctl">> \in Endpoint /\ <<c, "data">> \in Endpoint
  BY DEF Endpoint
<1>13. PICK c \in Clients : e = <<c, "ctl">> \/ e = <<c, "data">>
  BY <1>3 DEF Endpoint
<1>14. ASSUME NEW d \in Clients, Fresh(d)' PROVE Fresh(d) /\ e # <<d, "data">>
  <2>1. Fresh(d)
    BY <1>1, <1>7, <1>14 DEF Fresh
  <2>2. e # <<d, "data">>
    <3> SUFFICES ASSUME e = <<d, "data">> PROVE FALSE
      OBVIOUS
    <3>1. <<d, "data">> \in Elems(thr'[t].own)
      BY <1>1, <1>3
    <3>2. thr'[t].pc = "header"
      BY <1>14, <3>1 DEF Fresh
    <3> QED BY <1>7, <3>2
  <2> QED BY <2>1, <2>2
<1> HIDE DEF e
<1>15. CASE e = <<c, "ctl">>
  <2>1. \A d \in Clients : inbox'[<<d, "data">>] = inbox[<<d, "data">>]
    BY <1>4, <1>5, <1>12, <1>15
  <2>2. CtlInv'
    <3> SUFFICES ASSUME NEW d \in Clients PROVE \A i \in 1..Len(inbox'[<<d, "ctl">>]) : inbox'[<<d, "ctl">>][i][1] # "header"
      BY DEF CtlInv
    <3>1. CASE d = c
      <4> DEFINE q == inbox[e]
                 k == Len(q)
                 r == SubSeq(q, n, k)
      <4>1. inbox'[<<d, "ctl">>] = r
        BY <1>3, <1>4, <1>5, <1>15, <3>1
      <4>2. Len(r) = k - n + 1 /\ \A i \in 1..(k - n + 1) : r[i] = q[n + i - 1]
        BY <1>4, RestFacts
      <4>3. k \in Nat /\ n \in 1..(k + 1)
        BY <1>4
      <4>4. \A i \in 1..k : q[i][1] # "header"
        BY <1>15 DEF StreamBody, CtlInv
      <4> HIDE DEF r, k, q
      <4>5. \A i \in 1..(k - n + 1) : n + i - 1 \in 1..k
        BY <4>3
      <4>6. \A i \in 1..Len(r) : r[i][1] # "header"
        BY <4>2, <4>4, <4>5
      <4> QED BY <4>1, <4>6
    <3>2. CASE d # c
      <4>1. <<d, "ctl">> # e /\ <<d, "ctl">> \in Endpoint
        BY <1>12, <1>15, <3>2
      <4>2. inbox'[<<d, "ctl">>] = inbox[<<d, "ctl">>]
        BY <1>4, <1>5, <4>1
      <4> QED BY <4>2 DEF StreamBody, CtlInv
    <3> QED BY <3>1, <3>2
  <2>3. \A d \in Clients : Early(d) => inbox'[<<d, "data">>] = << >>
    BY <2>1 DEF StreamBody, FreshInv
  <2>4. \A d \in Clients : Fresh(d)' => Fresh(d) /\ inbox'[<<d, "data">>] = inbox[<<d, "data">>]
    BY <1>14, <2>1
  <2> QED BY <1>0, <1>6, <1>8, <1>9, <1>10, <1>11, <2>2, <2>3, <2>4, StreamRule
<1>16. CASE e = <<c, "data">>
  <2>1. \A d \in Clients : inbox'[<<d, "ctl">>] = inbox[<<d, "ctl">>]
    BY <1>4, <1>5, <1>12, <1>16
  <2>2. CtlInv'
    BY <2>1 DEF StreamBody, CtlInv
  <2>3. \A d \in Clients \ {c} : inbox'[<<d, "data">>] = inbox[<<d, "data">>]
    <3> SUFFICES ASSUME NEW d \in Clients, d # c PROVE inbox'[<<d, "data">>] = inbox[<<d, "data">>]
      OBVIOUS
    <3>1. <<d, "data">> # e /\ <<d, "data">> \in Endpoint
      BY <1>12, <1>16
    <3> QED BY <1>4, <1>5, <3>1
  <2>4. ~Early(c)
    BY <1>4, <1>16 DEF StreamBody, FreshInv
  <2>5. \A d \in Clients : Early(d) => inbox'[<<d, "data">>] = << >>
    BY <2>3, <2>4 DEF StreamBody, FreshInv
  <2>6. \A d \in Clients : Fresh(d)' => Fresh(d) /\ inbox'[<<d, "data">>] = inbox[<<d, "data">>]
    BY <1>14, <1>16, <2>3
  <2> QED BY <1>0, <1>6, <1>8, <1>9, <1>10, <1>11, <2>2, <2>5, <2>6, StreamRule
<1> QED BY <1>13, <1>15, <1>16

\* Audio is read from the data socket into the buffer.
LEMMA StreamRead ==
  ASSUME TypeInv, OnceInv, OwnInv, KeepInv, fd[0] = Stdin, StreamBody, NEW t \in Thread,
         ServeData(t), thr[t].socket \in thr[t].ready, Readable(thr[t].socket)
  PROVE  StreamBody'
<1> DEFINE e == thr[t].own[1]
           item == Head(inbox[e])
<1>0. rsd_thread(t)
  BY DEF rsd_thread
<1>1. /\ UNCHANGED <<client, units>> /\ thr'[t].own = thr[t].own /\ Live(t) /\ thr[t].pc = "serve_data"
      /\ \A u \in Thread \ {t} : thr'[u] = thr[u]
  BY <1>0, ThreadFrame DEF Live, ServeData, At
<1>2. StreamOK(t)
  BY <1>1 DEF StreamBody, PastInv, Past
<1>3. /\ e \in Endpoint /\ e \in Elems(thr[t].own) /\ fd[thr[t].socket] = e /\ e[2] = "data"
  BY <1>1, <1>2, OwnFacts, ElemsPair DEF OwnInv, KeepInv, HoldsData, StreamOK
<1>4. /\ inbox \in [Endpoint -> Seq(Item)] /\ inbox[e] # << >> /\ inbox[e] \in Seq(Item)
      /\ inbox' = [inbox EXCEPT ![e] = Tail(inbox[e])]
  BY <1>3 DEF ServeData, Readable, Consumed, TypeInv, TypeOK
<1>5. PICK l \in {"write", "stream"} :
        thr' = [thr EXCEPT ![t] = [thr[t] EXCEPT !.ready = {}, !.pc = l, !.buffer = Append(@, item)]]
  <2>1. thr \in [Thread -> Connection]
    BY DEF TypeInv, TypeOK, Connection
  <2> DEFINE turn == [thr[t] EXCEPT !.ready = {}, !.pc = "stream"]
  <2>2. PICK l \in {"write", "stream"} :
          thr' = [thr EXCEPT ![t] = [turn EXCEPT !.buffer = Append(@, Head(inbox[fd[thr[t].socket]])), !.pc = l]]
    BY DEF ServeData
  <2>3. thr' = [thr EXCEPT ![t] = [turn EXCEPT !.buffer = Append(@, item), !.pc = l]]
    BY <1>3, <2>2
  <2> HIDE DEF item
  <2>4. [turn EXCEPT !.buffer = Append(@, item), !.pc = l]
          = [thr[t] EXCEPT !.ready = {}, !.pc = l, !.buffer = Append(@, item)]
    BY <2>1 DEF Connection
  <2> QED BY <2>3, <2>4
<1>6. informed' = informed
  BY DEF ServeData
<1>7. /\ thr'[t].played = thr[t].played /\ thr'[t].buffer = Append(thr[t].buffer, item)
      /\ thr'[t].pc \in {"write", "stream"}
  <2>1. thr \in [Thread -> Connection]
    BY DEF TypeInv, TypeOK, Connection
  <2> HIDE DEF item
  <2> QED BY <1>5, <2>1 DEF Connection
<1>8. \A i \in 1..Len(thr'[t].played) : thr'[t].played[i] = <<"audio", thr[t].own[1][1], i>>
  BY <1>7 DEF StreamBody, PlaysWhatWasSent
<1>9. \A u \in Thread \ {t} : Past(u) => inbox'[thr[u].own[1]] = inbox[thr[u].own[1]]
  <2> SUFFICES ASSUME NEW u \in Thread, u # t, Past(u) PROVE inbox'[thr[u].own[1]] = inbox[thr[u].own[1]]
    OBVIOUS
  <2>1. thr[u].own[1] # e /\ thr[u].own[1] \in Endpoint
    BY <1>1, OwnFacts DEF Past, Live
  <2> QED BY <1>4, <2>1
<1>10. \A c \in Clients : <<c, "ctl">> \in Endpoint /\ <<c, "data">> \in Endpoint
  BY DEF Endpoint
<1>11. PICK c \in Clients : e = <<c, "data">> /\ e[1] = c
  BY <1>3 DEF Endpoint
<1>12. StreamOK(t)'
  <2> DEFINE q == inbox[e]
             k == Len(q)
             r == Tail(q)
             b == thr[t].buffer
             m == Len(b)
             p == Len(thr[t].played)
             b1 == Append(b, item)
  <2>1. /\ \A i \in 1..k : q[i] = <<"audio", c, (p + m) + i>>
        /\ (p + m) + k = units[c]
        /\ \A i \in 1..m : b[i] = <<"audio", c, p + i>>
    BY <1>2, <1>11 DEF StreamOK, Taken
  <2>2. p \in Nat /\ m \in Nat /\ b \in Seq(Item)
    BY TakenType DEF TypeInv, TypeOK
  <2>3. /\ item = q[1] /\ 1 \in 1..k /\ k \in Nat /\ Len(r) = k - 1 /\ item \in Item
        /\ \A i \in 1..(k - 1) : r[i] = q[i + 1]
    BY <1>4, TailFacts
  <2>4. Len(b1) = m + 1 /\ (\A i \in 1..m : b1[i] = b[i]) /\ b1[m + 1] = item
    BY <2>2, <2>3, AppendFacts
  <2>5. /\ thr'[t].own[1] = e /\ thr'[t].buffer = b1 /\ Len(thr'[t].played) = p
        /\ Taken(t)' = p + Len(b1) /\ inbox'[e] = r
    BY <1>1, <1>3, <1>4, <1>7 DEF Taken
  <2>6. ~Early(c)' /\ units' = units
    BY <1>1, <1>2, <1>11 DEF StreamOK, Early
  <2> HIDE DEF q, k, r, b, m, p, b1, item, e
  <2>7. \A i \in 1..(m + 1) : i \in 1..m \/ i = m + 1
    BY <2>2
  <2>8. \A i \in 1..Len(b1) : b1[i] = <<"audio", c, p + i>>
    <3>1. item = <<"audio", c, (p + m) + 1>>
      BY <2>1, <2>3
    <3>2. (p + m) + 1 = p + (m + 1)
      BY <2>2
    <3> QED BY <2>1, <2>4, <2>7, <3>1, <3>2
  <2>9. \A i \in 1..Len(r) : r[i] = <<"audio", c, (p + Len(b1)) + i>>
    <3> SUFFICES ASSUME NEW i \in 1..Len(r) PROVE r[i] = <<"audio", c, (p + Len(b1)) + i>>
      OBVIOUS
    <3>1. i + 1 \in 1..k /\ r[i] = q[i + 1]
      BY <2>3
    <3>2. (p + m) + (i + 1) = (p + Len(b1)) + i
      BY <2>2, <2>3, <2>4
    <3> QED BY <2>1, <3>1, <3>2
  <2>10. (p + Len(b1)) + Len(r) = units[c]
    <3>1. units[c] \in Int
      BY DEF TypeInv, TypeOK
    <3> QED BY <2>1, <2>2, <2>3, <2>4, <3>1
  <2> QED BY <1>3, <1>11, <2>5, <2>6, <2>8, <2>9, <2>10 DEF StreamOK
<1> HIDE DEF e, item
<1>13. CtlInv'
  <2>1. \A d \in Clients : inbox'[<<d, "ctl">>] = inbox[<<d, "ctl">>]
    BY <1>4, <1>10, <1>11
  <2> QED BY <2>1 DEF StreamBody, CtlInv
<1>14. \A d \in Clients \ {c} : inbox'[<<d, "data">>] = inbox[<<d, "data">>]
  <2> SUFFICES ASSUME NEW d \in Clients, d # c PROVE inbox'[<<d, "data">>] = inbox[<<d, "data">>]
    OBVIOUS
  <2>1. <<d, "data">> # e /\ <<d, "data">> \in Endpoint
    BY <1>10, <1>11
  <2> QED BY <1>4, <2>1
<1>15. \A d \in Clients : Early(d) => inbox'[<<d, "data">>] = << >>
  <2>1. ~Early(c)
    BY <1>2, <1>11 DEF StreamOK, e
  <2> QED BY <1>14, <2>1 DEF StreamBody, FreshInv
<1>16. \A d \in Clients : Fresh(d)' => Fresh(d) /\ inbox'[<<d, "data">>] = inbox[<<d, "data">>]
  <2> SUFFICES ASSUME NEW d \in Clients, Fresh(d)' PROVE Fresh(d) /\ d # c
    BY <1>14
  <2>1. Fresh(d)
    BY <1>1, <1>7 DEF Fresh
  <2>2. ASSUME d = c PROVE FALSE
    <3>1. <<d, "data">> \in Elems(thr'[t].own)
      BY <1>1, <1>3, <1>11, <2>2
    <3>2. thr'[t].pc = "header"
      BY <3>1 DEF Fresh
    <3> QED BY <1>7, <3>2
  <2> QED BY <2>1, <2>2
<1>17. thr'[t].pc # "header"
  BY <1>7
<1> QED BY <1>0, <1>6, <1>8, <1>9, <1>12, <1>13, <1>15, <1>16, <1>17, StreamRule

LEMMA StreamThread ==
  ASSUME TypeInv, OnceInv, OwnInv, KeepInv, fd[0] = Stdin, StreamBody, NEW t \in Thread, rsd_thread(t)
  PROVE  StreamBody'
<1>1. thr \in [Thread -> Connection] /\ Live(t) /\ UNCHANGED <<client, units>> /\ thr'[t].own = thr[t].own
  BY ThreadFrame DEF TypeInv, TypeOK, Connection, Live
<1>2. ASSUME NEW l, Step(t, l), l # "header", inbox' = inbox,
             informed' \in {informed, informed \cup {thr[t].own[1]}},
             l \in {"init", "info", "stream", "serve_ctl", "serve_data", "write"} => Past(t)
      PROVE  StreamBody'
  <2>1. thr'[t].pc = l /\ thr'[t].played = thr[t].played /\ thr'[t].buffer = thr[t].buffer
    BY <1>1, <1>2 DEF Step, Connection
  <2> QED BY <1>2, <2>1, StreamQuiet DEF Past
<1>3. ASSUME thr' = [thr EXCEPT ![t].pc = "exit", ![t].broke = TRUE], inbox' = inbox, informed' = informed
      PROVE  StreamBody'
  <2>1. thr'[t].pc = "exit" /\ thr'[t].played = thr[t].played /\ thr'[t].buffer = thr[t].buffer
    BY <1>1, <1>3 DEF Connection
  <2> QED BY <1>3, <2>1, StreamQuiet DEF Past
<1>4. CASE get_wav_header(t)
  <2>1. CASE Readable(thr[t].socket) /\ inbox' = Consumed(thr[t].socket)
    BY <1>4, <2>1, StreamHeader
  <2>2. CASE Step(t, "drop") /\ inbox' = inbox /\ informed' = informed
    BY <1>2, <2>2
  <2> QED BY <1>4, <2>1, <2>2 DEF get_wav_header
<1>5. CASE DropData(t) \/ DropCtl(t) \/ CloseData(t) \/ CloseCtlSocket(t)
  <2>1. inbox' = inbox /\ informed' = informed /\ \E l \in {"drop_ctl", "exited", "exit_ctl"} : Step(t, l)
    BY <1>5 DEF DropData, DropCtl, CloseData, CloseCtlSocket, wires
  <2> QED BY <1>2, <2>1
<1>6. CASE OpenBackend(t)
  <2>1. /\ inbox' = inbox /\ informed' = informed /\ Past(t)
        /\ Step(t, "info") \/ thr' = [thr EXCEPT ![t].pc = "exit", ![t].broke = TRUE]
    BY <1>6 DEF OpenBackend, wires, At, Past
  <2> QED BY <1>2, <1>3, <2>1
<1>7. CASE send_backend_info(t)
  <2>1. fd[thr[t].socket] = thr[t].own[1]
    BY <1>1, <1>7 DEF KeepInv, HoldsData, send_backend_info, At
  <2>2. /\ inbox' = inbox /\ Past(t) /\ informed' \in {informed, informed \cup {thr[t].own[1]}}
        /\ \E l \in {"stream", "exit"} : Step(t, l)
    BY <1>7, <2>1 DEF send_backend_info, wires, At, Past
  <2> QED BY <1>2, <2>2
<1>8. CASE Poll(t)
  <2>1. /\ inbox' = inbox /\ informed' = informed /\ Past(t)
        /\ \E ready : thr' = [thr EXCEPT ![t].pc = "serve_ctl", ![t].ready = ready]
    BY <1>8 DEF Poll, wires, At, Past
  <2>2. thr'[t].pc = "serve_ctl" /\ thr'[t].played = thr[t].played /\ thr'[t].buffer = thr[t].buffer
    BY <1>1, <2>1 DEF Connection
  <2> QED BY <2>1, <2>2, StreamQuiet
<1>9. CASE ServeCtl(t)
  <2>1. CASE Readable(thr[t].ctl) /\ handle_ctl_request(t)
    BY <1>9, <2>1, StreamRequest
  <2>2. CASE Step(t, "serve_data") /\ inbox' = inbox
    <3>1. informed' = informed /\ Past(t)
      BY <1>9 DEF ServeCtl, At, Past
    <3> QED BY <1>2, <2>2, <3>1
  <2> QED BY <1>9, <2>1, <2>2 DEF ServeCtl
<1>10. CASE ServeData(t)
  <2>1. CASE thr[t].socket \in thr[t].ready /\ Readable(thr[t].socket)
    BY <1>10, <2>1, StreamRead
  <2>2. CASE ~(thr[t].socket \in thr[t].ready /\ Readable(thr[t].socket))
    <3> DEFINE turn == [thr[t] EXCEPT !.ready = {}, !.pc = "stream"]
    <3>1. /\ inbox' = inbox /\ informed' = informed /\ Past(t)
          /\ thr' = [thr EXCEPT ![t] = [turn EXCEPT !.pc = "exit"]] \/ thr' = [thr EXCEPT ![t] = turn]
      BY <1>10, <2>2 DEF ServeData, At, Past
    <3>2. thr'[t].pc \in {"exit", "stream"} /\ thr'[t].played = thr[t].played /\ thr'[t].buffer = thr[t].buffer
      BY <1>1, <3>1 DEF Connection
    <3> QED BY <3>1, <3>2, StreamQuiet
  <2> QED BY <2>1, <2>2
<1>11. CASE BackendWrite(t)
  <2>1. inbox' = inbox /\ informed' = informed /\ Past(t)
    BY <1>11 DEF BackendWrite, wires, At, Past
  <2>2. CASE thr' = [thr EXCEPT ![t].pc = "exit", ![t].broke = TRUE]
    BY <1>3, <2>1, <2>2
  <2>3. CASE thr' = [thr EXCEPT ![t] = [thr[t] EXCEPT !.played = @ \o thr[t].buffer, !.buffer = << >>,
                                                      !.pc = "stream"]]
    <3> DEFINE p == thr[t].played
               b == thr[t].buffer
               c == thr[t].own[1][1]
               pb == p \o b
    <3>1. thr' = [thr EXCEPT ![t] = [thr[t] EXCEPT !.played = pb, !.buffer = << >>, !.pc = "stream"]]
      BY <2>3
    <3>2. thr'[t].played = pb /\ thr'[t].buffer = << >> /\ thr'[t].pc = "stream"
      <4> HIDE DEF pb
      <4> QED BY <1>1, <3>1 DEF Connection
    <3>3. StreamOK(t)
      BY <2>1 DEF StreamBody, PastInv
    <3>4. /\ \A i \in 1..Len(p) : p[i] = <<"audio", c, i>>
          /\ \A i \in 1..Len(b) : b[i] = <<"audio", c, Len(p) + i>>
          /\ Len(p) \in Nat /\ Len(b) \in Nat /\ Len(pb) = Len(p) + Len(b)
          /\ \A i \in 1..Len(p) : pb[i] = p[i]
          /\ \A i \in 1..Len(b) : pb[Len(p) + i] = b[i]
      <4>1. p \in Seq(Item) /\ b \in Seq(Item)
        BY DEF TypeInv, TypeOK
      <4>2. /\ \A i \in 1..Len(p) : p[i] = <<"audio", c, i>>
            /\ \A i \in 1..Len(b) : b[i] = <<"audio", c, Len(p) + i>>
        BY <3>3 DEF StreamOK, StreamBody, PlaysWhatWasSent
      <4>3. /\ Len(p) \in Nat /\ Len(b) \in Nat /\ Len(pb) = Len(p) + Len(b)
            /\ \A i \in 1..Len(p) : pb[i] = p[i]
            /\ \A i \in 1..Len(b) : pb[Len(p) + i] = b[i]
        <5> HIDE DEF p, b
        <5> QED BY <4>1, JoinFacts
      <4> QED BY <4>2, <4>3
    <3>5. \A i \in 1..Len(pb) : pb[i] = <<"audio", c, i>>
      <4> DEFINE m == Len(p)
                 k == Len(b)
      <4> HIDE DEF p, b, pb, m, k
      <4>1. SUFFICES ASSUME NEW i \in 1..(m + k) PROVE pb[i] = <<"audio", c, i>>
        BY <3>4 DEF m, k
      <4>2. CASE i \in 1..m
        BY <3>4, <4>2 DEF m
      <4>3. CASE i \notin 1..m
        <5>1. m \in Nat /\ k \in Nat
          BY <3>4 DEF m, k
        <5>2. i - m \in 1..k /\ m + (i - m) = i
          BY <4>3, <5>1
        <5>3. pb[i] = b[i - m]
          BY <3>4, <5>2 DEF m, k
        <5> QED BY <3>4, <5>2, <5>3 DEF m, k
      <4> QED BY <4>2, <4>3
    <3>6. Taken(t)' = Taken(t)
      <4>1. Len(<< >>) = 0
        OBVIOUS
      <4>2. Taken(t)' = Len(pb) + 0
        <5>1. Len(thr'[t].buffer) = 0 /\ Len(thr'[t].played) = Len(pb)
          BY <3>2, <4>1, Zenon
        <5> QED BY <5>1 DEF Taken
      <4>3. Taken(t) = Len(p) + Len(b)
        BY DEF Taken
      <4> DEFINE m == Len(p)
                 k == Len(b)
                 q == Len(pb)
      <4>4. m \in Nat /\ k \in Nat /\ q = m + k /\ Taken(t) = m + k /\ Taken(t)' = q + 0
        BY <3>4, <4>2, <4>3
      <4> HIDE DEF m, k, q
      <4> QED BY <4>4
    <3>7. StreamOK(t)'
      <4>1. ~Early(thr[t].own[1][1])'
        <5>1. ~Early(thr[t].own[1][1])
          BY <3>3 DEF StreamOK
        <5> QED BY <1>1, <5>1 DEF Early
      <4>2. \A i \in 1..Len(thr'[t].buffer) : FALSE
        <5>1. Len(<< >>) = 0
          OBVIOUS
        <5>2. Len(thr'[t].buffer) = 0
          BY <3>2, <5>1, Zenon
        <5> QED BY <5>2
      <4> DEFINE e == thr[t].own[1]
                 n == Taken(t)
                 n1 == Taken(t)'
                 q == inbox[e]
      <4>3. /\ e[2] = "data"
            /\ \A i \in 1..Len(q) : q[i] = <<"audio", e[1], n + i>>
            /\ n + Len(q) = units[e[1]]
        BY <3>3 DEF StreamOK
      <4>4. thr'[t].own[1] = e /\ inbox'[e] = q /\ n1 = n /\ units' = units
        BY <1>1, <2>1, <3>6
      <4> HIDE DEF e, n, n1, q, pb, p, b, c
      <4>5. /\ e[2] = "data"
            /\ \A i \in 1..Len(inbox'[e]) : inbox'[e][i] = <<"audio", e[1], n1 + i>>
            /\ n1 + Len(inbox'[e]) = units'[e[1]]
        BY <4>3, <4>4
      <4> QED BY <4>1, <4>2, <4>4, <4>5 DEF StreamOK, n1
    <3>8. CtlInv' /\ \A d \in Clients : Early(d) => inbox'[<<d, "data">>] = << >>
      BY <2>1 DEF StreamBody, CtlInv, FreshInv
    <3>9. ASSUME NEW d \in Clients, Fresh(d)' PROVE Fresh(d)
      <4>1. \A u \in Thread \ {t} : thr'[u] = thr[u]
        BY ThreadFrame
      <4> QED BY <1>1, <3>2, <3>9, <4>1 DEF Fresh
    <3>10. \A i \in 1..Len(thr'[t].played) : thr'[t].played[i] = <<"audio", thr[t].own[1][1], i>>
      BY <3>2, <3>5
    <3> HIDE DEF p, b, c, pb
    <3> QED BY <2>1, <3>2, <3>7, <3>8, <3>9, <3>10, StreamRule
  <2> QED BY <1>11, <2>2, <2>3 DEF BackendWrite
<1> QED BY <1>4, <1>5, <1>6, <1>7, <1>8, <1>9, <1>10, <1>11 DEF rsd_thread

LEMMA StreamStep ==
  TypeInv /\ OnceInv /\ OwnInv /\ KeepInv /\ StreamInv /\ [Next]_vars => StreamInv'
<1> SUFFICES ASSUME TypeInv, OnceInv, OwnInv, KeepInv, StreamInv, [Next]_vars, fd'[0] = Stdin
             PROVE  StreamBody'
  BY DEF StreamInv
<1>1. fd[0] = Stdin /\ StreamBody
  BY StdinStays DEF StreamInv
<1>2. CASE UNCHANGED vars \/ Waiting
  <2>1. UNCHANGED <<client, units, inbox, informed, thr>>
    BY <1>2 DEF Waiting, vars
  <2>2. CtlInv' /\ StartInv' /\ PlaysWhatWasSent'
    BY <1>1, <2>1 DEF StreamBody, CtlInv, StartInv, PlaysWhatWasSent
  <2>3. FreshInv'
    BY <1>1, <2>1 DEF StreamBody, FreshInv, Fresh, Early
  <2>4. PastInv'
    BY <1>1, <2>1 DEF StreamBody, PastInv, Past, StreamOK, Early, Taken
  <2> QED BY <2>2, <2>3, <2>4 DEF StreamBody
<1>3. CASE ClientStep
  BY <1>1, <1>3, StreamClient
<1>4. CASE MainStep
  BY <1>1, <1>4, StreamMain
<1>5. ASSUME NEW t \in Thread, rsd_thread(t) PROVE StreamBody'
  BY <1>1, <1>5, StreamThread
<1> QED BY <1>2, <1>3, <1>4, <1>5 DEF Next

\* As long as descriptor 0 is the server's standard input, every backend is given the
\* audio of its own client, from the first unit on, in order, each once: whatever
\* connections were paired, lost or torn down around it.
THEOREM PlaysInOrder == Spec => [](fd[0] = Stdin => PlaysWhatWasSent)
<1> DEFINE IInv == TypeInv /\ OnceInv /\ OwnInv /\ KeepInv /\ StreamInv
<1>1. Init => IInv
  BY TypeInit, OnceInit, KeepInit, StreamInit
<1>2. IInv /\ [Next]_vars => IInv'
  BY TypeStep, OnceStep, OwnStep, KeepStep, StreamStep
<1>3. IInv => (fd[0] = Stdin => PlaysWhatWasSent)
  BY DEF StreamInv, StreamBody
<1> QED BY <1>1, <1>2, <1>3, PTL DEF Spec

-----------------------------------------------------------------------------
(* Clients that connect one after the other, with both sockets, in time *)

\* The backlog and the connection whose partner the loop waits for: data and control
\* sockets alternate, each control socket follows the data socket of its client, and
\* only the last data socket may still be without one.
PairInv ==
  /\ \A i \in 1..Len(backlog) : backlog[i][2] = "data" =>
       IF i = Len(backlog) THEN client[backlog[i][1]] = "data"
       ELSE backlog[i + 1] = <<backlog[i][1], "ctl">>
  /\ \A i \in 1..(Len(backlog) - 1) : backlog[i][2] = "ctl" => backlog[i + 1][2] = "data"
  /\ main.pc # "poll" /\ backlog # << >> => backlog[1][2] = "data"
  /\ main.pc = "poll" =>
       /\ main.their_addr[1][2] = "data"
       /\ IF backlog = << >> THEN client[main.their_addr[1][1]] = "data"
          ELSE backlog[1] = <<main.their_addr[1][1], "ctl">>
  /\ \A c \in Clients : client[c] = "data" =>
       \/ backlog # << >> /\ backlog[Len(backlog)] = <<c, "data">>
       \/ backlog = << >> /\ main.pc = "poll" /\ main.their_addr[1] = <<c, "data">>

\* Nobody is handed descriptor 0 where it would be closed.
StdinInv ==
  /\ fd[0] = Stdin
  /\ main.pc \in {"check", "nonblock", "join"} => main.s_ctl # 0
  /\ \A t \in Thread : thr[t].pc \in {"header", "drop", "drop_ctl"} => thr[t].ctl # 0

Orderly == Faults \cap {"late", "scan", "mix"} = {}

LEMMA PairInit == Init => PairInv /\ StdinInv
<1> SUFFICES ASSUME Init PROVE PairInv /\ StdinInv
  OBVIOUS
<1>1. backlog = << >> /\ main.pc = "accept" /\ (\A c \in Clients : client[c] = "new")
      /\ (\A t \in Thread : thr[t].pc = "none") /\ fd[0] = Stdin
  BY RsdServerAssumption DEF Init, NewThread, InitialFds
<1>2. Len(backlog) = 0
  <2>1. Len(<< >>) = 0
    OBVIOUS
  <2> QED BY <1>1, <2>1, Zenon
<1> QED BY <1>1, <1>2 DEF PairInv, StdinInv

LEMMA PairClient == Orderly /\ TypeInv /\ PairInv /\ ClientStep => PairInv'
<1> SUFFICES ASSUME Orderly, TypeInv, PairInv, ClientStep PROVE PairInv'
  OBVIOUS
<1>0. /\ client \in [Clients -> ClientLabels] /\ backlog \in Seq(Endpoint) /\ main.their_addr \in Seq(Endpoint)
      /\ Len(backlog) \in Nat /\ (backlog = << >> <=> Len(backlog) = 0)
  BY DEF TypeInv, TypeOK, ClientLabels
<1>1. UNCHANGED main
  BY DEF ClientStep, server, ConnectData, ConnectCtl, SendHeader, SendAudio, SendRequest, SendCloseCtl,
     CloseCtl, Stop, HangUp
<1>2. PICK c \in Clients :
        \/ client[c] = "new" /\ client' = [client EXCEPT ![c] = "data"]
           /\ backlog' = Append(backlog, <<c, "data">>) /\ \A d \in Clients : client[d] # "data"
        \/ client[c] = "data" /\ client' = [client EXCEPT ![c] = "both"]
           /\ backlog' = Append(backlog, <<c, "ctl">>)
        \/ client[c] # "data" /\ backlog' = backlog
           /\ \E l \in ClientLabels \ {"new", "data"} : client' = [client EXCEPT ![c] = l]
        \/ UNCHANGED <<client, backlog>>
  <2>1. "mix" \notin Faults /\ "scan" \notin Faults
    BY DEF Orderly
  <2> QED BY <2>1 DEF ClientStep, server, ConnectData, ConnectCtl, SendHeader, SendAudio, SendRequest, SendCloseCtl,
          CloseCtl, Stop, HangUp, ClientLabels
<1>3. /\ \A i \in 1..Len(backlog) : backlog[i][1] \in Clients /\ backlog[i][2] \in {"data", "ctl"}
      /\ main.pc = "poll" => main.their_addr[1][1] \in Clients
  <2>1. \A i \in 1..Len(backlog) : backlog[i] \in Endpoint
    BY <1>0
  <2>2. ASSUME main.pc = "poll" PROVE main.their_addr[1] \in Endpoint
    <3>1. Len(main.their_addr) = 1
      BY <2>2 DEF TypeInv, MainInv
    <3> QED BY <1>0, <3>1
  <2> QED BY <2>1, <2>2 DEF Endpoint
<1>4. CASE UNCHANGED <<client, backlog>>
  BY <1>1, <1>4 DEF PairInv
<1>5. CASE client[c] # "data" /\ backlog' = backlog
           /\ \E l \in ClientLabels \ {"new", "data"} : client' = [client EXCEPT ![c] = l]
  <2>1. \A d \in Clients : client'[d] = "data" <=> client[d] = "data"
    BY <1>0, <1>5
  <2> QED BY <1>1, <1>3, <1>5, <2>1 DEF PairInv
<1>6. CASE client[c] = "new" /\ client' = [client EXCEPT ![c] = "data"]
           /\ backlog' = Append(backlog, <<c, "data">>) /\ \A d \in Clients : client[d] # "data"
  <2> DEFINE n == Len(backlog)
             b == Append(backlog, <<c, "data">>)
  <2>1. Len(b) = n + 1 /\ (\A i \in 1..n : b[i] = backlog[i]) /\ b[n + 1] = <<c, "data">> /\ n \in Nat /\ b # << >>
    <3>1. <<c, "data">> \in Endpoint
      BY DEF Endpoint
    <3>2. Len(b) = n + 1 /\ (\A i \in 1..n : b[i] = backlog[i]) /\ b[n + 1] = <<c, "data">> /\ n \in Nat
      <4> DEFINE e == <<c, "data">>
      <4> HIDE DEF e
      <4>1. /\ Len(Append(backlog, e)) = n + 1 /\ n \in Nat /\ Append(backlog, e)[n + 1] = e
            /\ \A i \in 1..n : Append(backlog, e)[i] = backlog[i]
        BY <1>0, <3>1, AppendFacts DEF e
      <4> QED BY <4>1 DEF e
    <3>3. ASSUME b = << >> PROVE FALSE
      <4>1. Len(<< >>) = 0
        OBVIOUS
      <4>2. Len(b) = 0
        BY <3>3, <4>1, Zenon
      <4> HIDE DEF b, n
      <4> QED BY <3>2, <4>2
    <3> QED BY <3>2, <3>3
  <2>2. client'[c] = "data" /\ \A d \in Clients \ {c} : client'[d] # "data"
    BY <1>0, <1>6
  <2>3. /\ main.pc = "poll" => backlog # << >>
        /\ backlog # << >> => backlog[n][2] = "ctl" /\ n \in 1..n
    <3>1. main.pc = "poll" => backlog # << >>
      BY <1>3, <1>6 DEF PairInv
    <3>2. ASSUME backlog # << >> PROVE backlog[n][2] = "ctl" /\ n \in 1..n
      <4>1. n \in 1..n
        BY <1>0, <3>2
      <4>2. backlog[n][2] # "data"
        BY <1>3, <1>6, <4>1 DEF PairInv
      <4> QED BY <1>3, <4>1, <4>2
    <3> QED BY <3>1, <3>2
  <2>4. /\ \A i \in 1..n : backlog[i][2] = "data" => i # n /\ backlog[i + 1] = <<backlog[i][1], "ctl">>
        /\ \A i \in 1..(n - 1) : backlog[i][2] = "ctl" => backlog[i + 1][2] = "data"
        /\ main.pc # "poll" /\ backlog # << >> => backlog[1][2] = "data"
        /\ main.pc = "poll" => main.their_addr[1][2] = "data" /\ backlog[1] = <<main.their_addr[1][1], "ctl">>
    <3>1. \A i \in 1..n : backlog[i][2] = "data" => i # n
      BY <1>3, <1>6 DEF PairInv
    <3> QED BY <2>3, <3>1 DEF PairInv
  <2>5. backlog = << >> <=> n = 0
    BY <1>0
  <2> HIDE DEF n, b
  <2>6. \A i \in 1..(n + 1) : i \in 1..n \/ i = n + 1
    BY <2>1
  <2>7. \A i \in 1..n : i # n => i + 1 \in 1..n
    BY <2>1
  <2>8. \A i \in 1..Len(b) : b[i][2] = "data" =>
          IF i = Len(b) THEN client'[b[i][1]] = "data" ELSE b[i + 1] = <<b[i][1], "ctl">>
    <3> SUFFICES ASSUME NEW i \in 1..(n + 1), b[i][2] = "data"
                 PROVE  IF i = n + 1 THEN client'[b[i][1]] = "data" ELSE b[i + 1] = <<b[i][1], "ctl">>
      BY <2>1
    <3>1. CASE i = n + 1
      BY <2>1, <2>2, <3>1
    <3>2. CASE i # n + 1
      <4>1. i \in 1..n /\ b[i] = backlog[i]
        BY <2>1, <2>6, <3>2
      <4>2. i # n /\ backlog[i + 1] = <<backlog[i][1], "ctl">>
        BY <2>4, <4>1
      <4> QED BY <2>1, <2>7, <3>2, <4>1, <4>2
    <3> QED BY <3>1, <3>2
  <2>9. \A i \in 1..(Len(b) - 1) : b[i][2] = "ctl" => b[i + 1][2] = "data"
    <3> SUFFICES ASSUME NEW i \in 1..n, b[i][2] = "ctl" PROVE b[i + 1][2] = "data"
      BY <2>1
    <3>1. CASE i = n
      BY <2>1, <3>1
    <3>2. CASE i # n
      <4>1. i \in 1..(n - 1) /\ i + 1 \in 1..n
        BY <2>1, <3>2
      <4> QED BY <2>1, <2>4, <4>1
    <3> QED BY <3>1, <3>2
  <2>10. /\ main.pc # "poll" => b[1][2] = "data"
         /\ main.pc = "poll" => b[1] = <<main.their_addr[1][1], "ctl">>
    <3>1. CASE n = 0
      <4>1. b[1] = <<c, "data">>
        BY <2>1, <3>1
      <4> QED BY <2>3, <2>5, <3>1, <4>1
    <3>2. CASE n # 0
      <4>1. b[1] = backlog[1]
        BY <2>1, <3>2
      <4> QED BY <2>4, <2>5, <3>2, <4>1
    <3> QED BY <3>1, <3>2
  <2>11. b[Len(b)] = <<c, "data">>
    BY <2>1
  <2>12. backlog' = b
    BY <1>6 DEF b
  <2> QED BY <1>1, <2>1, <2>2, <2>4, <2>8, <2>9, <2>10, <2>11, <2>12 DEF PairInv
<1>7. CASE client[c] = "data" /\ client' = [client EXCEPT ![c] = "both"]
           /\ backlog' = Append(backlog, <<c, "ctl">>)
  <2> DEFINE n == Len(backlog)
             b == Append(backlog, <<c, "ctl">>)
  <2>1. Len(b) = n + 1 /\ (\A i \in 1..n : b[i] = backlog[i]) /\ b[n + 1] = <<c, "ctl">> /\ n \in Nat /\ b # << >>
    <3>1. <<c, "ctl">> \in Endpoint
      BY DEF Endpoint
    <3>2. Len(b) = n + 1 /\ (\A i \in 1..n : b[i] = backlog[i]) /\ b[n + 1] = <<c, "ctl">> /\ n \in Nat
      <4> DEFINE e == <<c, "ctl">>
      <4> HIDE DEF e
      <4>1. /\ Len(Append(backlog, e)) = n + 1 /\ n \in Nat /\ Append(backlog, e)[n + 1] = e
            /\ \A i \in 1..n : Append(backlog, e)[i] = backlog[i]
        BY <1>0, <3>1, AppendFacts DEF e
      <4> QED BY <4>1 DEF e
    <3>3. ASSUME b = << >> PROVE FALSE
      <4>1. Len(<< >>) = 0
        OBVIOUS
      <4>2. Len(b) = 0
        BY <3>3, <4>1, Zenon
      <4> HIDE DEF b, n
      <4> QED BY <3>2, <4>2
    <3> QED BY <3>2, <3>3
  <2>2. \A d \in Clients : client'[d] # "data"
    <3>1. \A d \in Clients \ {c} : client[d] # "data"
      <4> SUFFICES ASSUME NEW d \in Clients, client[d] = "data" PROVE d = c
        OBVIOUS
      <4>1. \/ backlog # << >> /\ backlog[Len(backlog)] = <<d, "data">>
            \/ backlog = << >> /\ main.their_addr[1] = <<d, "data">>
        BY DEF PairInv
      <4>2. \/ backlog # << >> /\ backlog[Len(backlog)] = <<c, "data">>
            \/ backlog = << >> /\ main.their_addr[1] = <<c, "data">>
        BY <1>7 DEF PairInv
      <4> QED BY <4>1, <4>2
    <3> QED BY <1>0, <1>7, <3>1
  <2>3. \/ backlog # << >> /\ n \in 1..n /\ backlog[n] = <<c, "data">>
        \/ backlog = << >> /\ main.pc = "poll" /\ main.their_addr[1] = <<c, "data">>
    <3>1. backlog # << >> => n \in 1..n
      BY <1>0
    <3> QED BY <1>7, <3>1 DEF PairInv
  <2>4. /\ \A i \in 1..n : backlog[i][2] = "data" => i = n \/ backlog[i + 1] = <<backlog[i][1], "ctl">>
        /\ \A i \in 1..(n - 1) : backlog[i][2] = "ctl" => backlog[i + 1][2] = "data"
        /\ main.pc # "poll" /\ backlog # << >> => backlog[1][2] = "data"
        /\ main.pc = "poll" => /\ main.their_addr[1][2] = "data"
                               /\ backlog # << >> => backlog[1] = <<main.their_addr[1][1], "ctl">>
    BY DEF PairInv
  <2>5. backlog = << >> <=> n = 0
    BY <1>0
  <2> HIDE DEF n, b
  <2>6. \A i \in 1..n : i # n => i + 1 \in 1..n
    BY <2>1
  <2>7. \A i \in 1..(n + 1) : i \in 1..n \/ i = n + 1
    BY <2>1
  <2>8. \A i \in 1..Len(b) : b[i][2] = "data" => i # Len(b) /\ b[i + 1] = <<b[i][1], "ctl">>
    <3> SUFFICES ASSUME NEW i \in 1..(n + 1), b[i][2] = "data" PROVE i # n + 1 /\ b[i + 1] = <<b[i][1], "ctl">>
      BY <2>1
    <3>1. ASSUME i = n + 1 PROVE FALSE
      <4>1. b[i] = <<c, "ctl">>
        BY <2>1, <3>1
      <4>2. b[i][2] = "ctl"
        BY <4>1
      <4> QED BY <4>2
    <3>2. i \in 1..n /\ b[i] = backlog[i]
      BY <2>1, <2>7, <3>1
    <3>3. CASE i = n
      BY <2>1, <2>3, <2>5, <3>1, <3>2, <3>3
    <3>4. CASE i # n
      BY <2>1, <2>4, <2>6, <3>1, <3>2, <3>4
    <3> QED BY <3>3, <3>4
  <2>9. \A i \in 1..(Len(b) - 1) : b[i][2] = "ctl" => b[i + 1][2] = "data"
    <3> SUFFICES ASSUME NEW i \in 1..n, b[i][2] = "ctl" PROVE b[i + 1][2] = "data"
      <4>1. Len(b) - 1 = n
        BY <2>1
      <4> QED BY <4>1
    <3>1. ASSUME i = n PROVE FALSE
      <4>1. n # 0 /\ b[i] = backlog[i]
        BY <2>1, <3>1
      <4>2. backlog[i] = <<c, "data">>
        BY <2>3, <2>5, <3>1, <4>1
      <4>3. b[i][2] = "data"
        BY <4>1, <4>2
      <4> QED BY <4>3
    <3>2. i \in 1..(n - 1) /\ i + 1 \in 1..n
      BY <2>1, <3>1
    <3> QED BY <2>1, <2>4, <3>2
  <2>10. /\ main.pc # "poll" => b[1][2] = "data"
         /\ main.pc = "poll" => b[1] = <<main.their_addr[1][1], "ctl">>
    <3>1. CASE n = 0
      <4>1. b[1] = <<c, "ctl">> /\ main.pc = "poll" /\ main.their_addr[1] = <<c, "data">>
        BY <2>1, <2>3, <2>5, <3>1
      <4> QED BY <4>1
    <3>2. CASE n # 0
      <4>1. b[1] = backlog[1]
        BY <2>1, <3>2
      <4> QED BY <2>4, <2>5, <3>2, <4>1
    <3> QED BY <3>1, <3>2
  <2>11. backlog' = b
    BY <1>7 DEF b
  <2> QED BY <1>1, <2>1, <2>2, <2>4, <2>8, <2>9, <2>10, <2>11 DEF PairInv
<1> QED BY <1>2, <1>4, <1>5, <1>6, <1>7

LEMMA PairMain ==
  Orderly /\ TypeInv /\ PairInv /\ FreeFds # {} /\ MainStep => PairInv'
<1> SUFFICES ASSUME Orderly, TypeInv, PairInv, FreeFds # {}, MainStep PROVE PairInv'
  OBVIOUS
<1>0. /\ backlog \in Seq(Endpoint) /\ main.their_addr \in Seq(Endpoint) /\ main \in Loop
      /\ Len(backlog) \in Nat /\ (backlog = << >> <=> Len(backlog) = 0)
  BY DEF TypeInv, TypeOK, Loop
<1>1. UNCHANGED client
  BY DEF MainStep, AcceptData, AcceptCtl, AcceptCtlFails, CtlTimeout, CheckSource, SetNonBlocking,
     new_sound_thread, clients
<1>2. ~AcceptCtlFails
  BY DEF AcceptCtlFails
<1>3. ~CtlTimeout
  BY DEF CtlTimeout, Orderly, PairInv
<1>4. CASE CheckSource \/ SetNonBlocking \/ new_sound_thread
  <2>1. UNCHANGED backlog /\ main.pc # "poll"
    BY <1>4 DEF CheckSource, SetNonBlocking, new_sound_thread, wires
  <2>2. main'.pc # "poll"
    <3>1. CASE new_sound_thread
      BY <3>1, NewThreadFrame
    <3>2. CASE CheckSource \/ SetNonBlocking
      BY <1>0, <3>2 DEF CheckSource, SetNonBlocking, NextClient, Loop
    <3> QED BY <1>4, <3>1, <3>2
  <2> QED BY <1>1, <2>1, <2>2 DEF PairInv
<1> DEFINE n == Len(backlog)
           r == Tail(backlog)
           e == Head(backlog)
<1>5. ASSUME backlog # << >>
      PROVE  /\ n \in Nat \ {0} /\ Len(r) = n - 1 /\ e = backlog[1] /\ 1 \in 1..n
             /\ \A i \in 1..(n - 1) : r[i] = backlog[i + 1]
             /\ r = << >> <=> n = 1
             /\ r # << >> => r[Len(r)] = backlog[n] /\ r[1] = backlog[2] /\ 2 \in 1..n
  <2>1. /\ n \in Nat /\ Len(r) = n - 1 /\ e = backlog[1] /\ 1 \in 1..n /\ r \in Seq(Endpoint)
        /\ \A i \in 1..(n - 1) : r[i] = backlog[i + 1]
    BY <1>0, <1>5, TailFacts
  <2>2. r = << >> <=> Len(r) = 0
    <3> HIDE DEF r
    <3> QED BY <2>1
  <2> HIDE DEF n, r, e
  <2>3. n \in Nat \ {0} /\ (r = << >> <=> n = 1)
    BY <2>1, <2>2
  <2>4. ASSUME r # << >> PROVE r[Len(r)] = backlog[n] /\ r[1] = backlog[2] /\ 2 \in 1..n
    <3>1. 1 \in 1..(n - 1) /\ n - 1 \in 1..(n - 1) /\ (n - 1) + 1 = n /\ 1 + 1 = 2 /\ 2 \in 1..n
      BY <2>3, <2>4
    <3> QED BY <2>1, <3>1
  <2> QED BY <2>1, <2>3, <2>4
\* The rest of the backlog alternates as the whole does.
<1>6. ASSUME backlog # << >>, backlog' = r
      PROVE  /\ \A i \in 1..Len(backlog') : backlog'[i][2] = "data" =>
                  IF i = Len(backlog') THEN client[backlog'[i][1]] = "data"
                  ELSE backlog'[i + 1] = <<backlog'[i][1], "ctl">>
             /\ \A i \in 1..(Len(backlog') - 1) : backlog'[i][2] = "ctl" => backlog'[i + 1][2] = "data"
  <2>1. /\ \A i \in 1..n : backlog[i][2] = "data" =>
             IF i = n THEN client[backlog[i][1]] = "data" ELSE backlog[i + 1] = <<backlog[i][1], "ctl">>
        /\ \A i \in 1..(n - 1) : backlog[i][2] = "ctl" => backlog[i + 1][2] = "data"
    BY DEF PairInv
  <2>2. n \in Nat \ {0} /\ Len(r) = n - 1 /\ \A i \in 1..(n - 1) : r[i] = backlog[i + 1]
    BY <1>5, <1>6
  <2> HIDE DEF n, r
  <2>3. \A i \in 1..(n - 1) : /\ i + 1 \in 1..n /\ (i = n - 1 <=> i + 1 = n)
                              /\ i # n - 1 => i + 1 \in 1..(n - 1)
    BY <2>2
  <2>4. \A i \in 1..(n - 1) : r[i][2] = "data" =>
          IF i = n - 1 THEN client[r[i][1]] = "data" ELSE r[i + 1] = <<r[i][1], "ctl">>
    <3> SUFFICES ASSUME NEW i \in 1..(n - 1), r[i][2] = "data"
                 PROVE  IF i = n - 1 THEN client[r[i][1]] = "data" ELSE r[i + 1] = <<r[i][1], "ctl">>
      OBVIOUS
    <3> DEFINE j == i + 1
    <3>1. j \in 1..n /\ (i = n - 1 <=> j = n) /\ (i # n - 1 => j \in 1..(n - 1)) /\ r[i] = backlog[j]
      BY <2>2, <2>3
    <3>2. j \in 1..(n - 1) => r[j] = backlog[j + 1]
      BY <2>2
    <3> HIDE DEF j
    <3>3. IF j = n THEN client[r[i][1]] = "data" ELSE backlog[j + 1] = <<r[i][1], "ctl">>
      BY <2>1, <3>1
    <3>4. IF i = n - 1 THEN client[r[i][1]] = "data" ELSE r[j] = <<r[i][1], "ctl">>
      BY <3>1, <3>2, <3>3
    <3> QED BY <3>4 DEF j
  <2>5. \A i \in 1..((n - 1) - 1) : r[i][2] = "ctl" => r[i + 1][2] = "data"
    <3> SUFFICES ASSUME NEW i \in 1..((n - 1) - 1), r[i][2] = "ctl" PROVE r[i + 1][2] = "data"
      OBVIOUS
    <3> DEFINE j == i + 1
    <3>1. j \in 1..(n - 1) /\ r[i] = backlog[j] /\ r[j] = backlog[j + 1]
      <4>1. i \in 1..(n - 1) /\ j \in 1..(n - 1)
        BY <2>2
      <4> QED BY <2>2, <4>1
    <3> HIDE DEF j
    <3>2. r[j][2] = "data"
      BY <2>1, <3>1
    <3> QED BY <3>2 DEF j
  <2>6. Len(backlog') = n - 1
    BY <1>6, <2>2
  <2> QED BY <1>6, <2>4, <2>5, <2>6
<1>7. CASE AcceptData
  <2>1. /\ backlog # << >> /\ backlog' = r /\ main.pc = "accept"
        /\ main' = [main EXCEPT !.pc = "poll", !.s_new = LowestFree, !.their_addr = <<e>>]
    BY <1>7 DEF AcceptData
  <2>2. main'.pc = "poll" /\ main'.their_addr[1] = e
    <3> DEFINE a == <<e>>
    <3>1. main' = [main EXCEPT !.pc = "poll", !.s_new = LowestFree, !.their_addr = a] /\ a[1] = e
      BY <2>1
    <3> HIDE DEF a, e
    <3> QED BY <1>0, <3>1 DEF Loop
  <2>3. e[2] = "data" /\ (r = << >> => client[e[1]] = "data")
        /\ (r # << >> => r[1] = <<e[1], "ctl">>)
    <3>1. backlog[1][2] = "data" /\ 1 \in 1..n /\ e = backlog[1]
      BY <1>5, <2>1 DEF PairInv
    <3>2. IF 1 = n THEN client[backlog[1][1]] = "data" ELSE backlog[1 + 1] = <<backlog[1][1], "ctl">>
      BY <3>1 DEF PairInv
    <3> QED BY <1>5, <2>1, <3>1, <3>2
  <2>4. ASSUME NEW c \in Clients, client[c] = "data"
        PROVE  \/ r # << >> /\ r[Len(r)] = <<c, "data">>
               \/ r = << >> /\ e = <<c, "data">>
    <3>1. backlog[n] = <<c, "data">>
      BY <2>1, <2>4 DEF PairInv
    <3> QED BY <1>5, <2>1, <3>1
  <2> HIDE DEF r, e, n
  <2> QED BY <1>1, <1>6, <2>1, <2>2, <2>3, <2>4 DEF PairInv
<1>8. CASE AcceptCtl
  <2>1. /\ backlog # << >> /\ backlog' = r /\ main.pc = "poll" /\ main'.pc = "check"
    BY <1>0, <1>8 DEF AcceptCtl, Loop
  <2>2. backlog[1][2] = "ctl"
    <3>1. backlog[1] = <<main.their_addr[1][1], "ctl">>
      BY <2>1 DEF PairInv
    <3> QED BY <3>1
  <2>3. r # << >> => r[1][2] = "data"
    <3> SUFFICES ASSUME r # << >> PROVE r[1][2] = "data"
      OBVIOUS
    <3>1. 1 \in 1..(n - 1) /\ r[1] = backlog[1 + 1]
      <4>1. n \in Nat \ {0} /\ n # 1 /\ \A i \in 1..(n - 1) : r[i] = backlog[i + 1]
        BY <1>5, <2>1
      <4>2. 1 \in 1..(n - 1)
        BY <4>1
      <4> QED BY <4>1, <4>2
    <3> QED BY <2>2, <3>1 DEF PairInv
  <2>4. ASSUME NEW c \in Clients, client[c] = "data"
        PROVE  r # << >> /\ r[Len(r)] = <<c, "data">>
    <3>1. backlog[n] = <<c, "data">>
      BY <2>1, <2>4 DEF PairInv
    <3>2. n # 1
      <4>1. backlog[n][2] = "data"
        BY <3>1
      <4> QED BY <2>2, <4>1
    <3> QED BY <1>5, <2>1, <3>1, <3>2
  <2> HIDE DEF r, e, n
  <2> QED BY <1>1, <1>6, <2>1, <2>3, <2>4 DEF PairInv
<1> QED BY <1>2, <1>3, <1>4, <1>7, <1>8 DEF MainStep

\* The thread labels before the header has been read, and after a failure to read it.
LEMMA HeaderLabels ==
  ASSUME TypeInv, NEW t \in Thread, rsd_thread(t), thr'[t].pc \in {"header", "drop", "drop_ctl"}
  PROVE  thr[t].pc \in {"header", "drop"} /\ thr'[t].ctl = thr[t].ctl
<1>1. thr \in [Thread -> Connection]
  BY DEF TypeInv, TypeOK, Connection
<1>2. ASSUME NEW l, Step(t, l) PROVE thr'[t].ctl = thr[t].ctl /\ thr'[t].pc = l
  BY <1>1, <1>2 DEF Step, Connection
<1>3. CASE get_wav_header(t) \/ DropData(t)
  <2>1. thr[t].pc \in {"header", "drop"} /\ \E l : Step(t, l)
    BY <1>3 DEF get_wav_header, DropData, At
  <2> QED BY <1>2, <2>1
<1>4. CASE DropCtl(t) \/ send_backend_info(t) \/ CloseData(t) \/ CloseCtlSocket(t)
  <2>1. \E l \in {"exited", "stream", "exit", "exit_ctl"} : Step(t, l)
    BY <1>4 DEF DropCtl, send_backend_info, CloseData, CloseCtlSocket
  <2> QED BY <1>2, <2>1
<1>5. CASE OpenBackend(t)
  <2>1. Step(t, "info") \/ thr' = [thr EXCEPT ![t].pc = "exit", ![t].broke = TRUE]
    BY <1>5 DEF OpenBackend
  <2> QED BY <1>1, <1>2, <2>1 DEF Connection
<1>6. CASE Poll(t)
  <2>1. \E ready : thr' = [thr EXCEPT ![t].pc = "serve_ctl", ![t].ready = ready]
    BY <1>6 DEF Poll
  <2> QED BY <1>1, <2>1 DEF Connection
<1>7. CASE ServeCtl(t)
  <2>1. \/ Readable(thr[t].ctl) /\ handle_ctl_request(t)
        \/ Step(t, "serve_data")
    BY <1>7 DEF ServeCtl
  <2>2. CASE CloseCtlRequest(t)
    BY <1>1, <2>2 DEF CloseCtlRequest, Connection
  <2>3. CASE \E l \in {"exit", "serve_data"} : Step(t, l)
    BY <1>2, <2>3
  <2>4. CASE Readable(thr[t].ctl) /\ handle_ctl_request(t)
    <3>1. fd[thr[t].ctl] \in Endpoint
      BY <2>4 DEF Readable
    <3> QED BY <2>2, <2>3, <2>4, <3>1, RequestCases DEF TypeInv
  <2> QED BY <2>1, <2>3, <2>4
<1>8. CASE ServeData(t)
  <2> DEFINE turn == [thr[t] EXCEPT !.ready = {}, !.pc = "stream"]
             b == Append(turn.buffer, Head(inbox[fd[thr[t].socket]]))
  <2>1. \/ \E l \in {"write", "stream"} : thr' = [thr EXCEPT ![t] = [turn EXCEPT !.buffer = b, !.pc = l]]
        \/ thr' = [thr EXCEPT ![t] = [turn EXCEPT !.pc = "exit"]]
        \/ thr' = [thr EXCEPT ![t] = turn]
    BY <1>8 DEF ServeData
  <2> HIDE DEF b
  <2>2. ASSUME NEW l \in {"write", "stream"}, thr' = [thr EXCEPT ![t] = [turn EXCEPT !.buffer = b, !.pc = l]]
        PROVE  FALSE
    <3>1. thr'[t].pc = l
      BY <1>1, <2>2 DEF Connection
    <3> QED BY <3>1
  <2>3. ASSUME thr' = [thr EXCEPT ![t] = [turn EXCEPT !.pc = "exit"]] \/ thr' = [thr EXCEPT ![t] = turn]
        PROVE  FALSE
    <3>1. thr'[t].pc \in {"exit", "stream"}
      BY <1>1, <2>3 DEF Connection
    <3> QED BY <3>1
  <2> QED BY <2>1, <2>2, <2>3
<1>9. CASE BackendWrite(t)
  <2> DEFINE p == thr[t].played \o thr[t].buffer
  <2>1. \/ thr' = [thr EXCEPT ![t] = [thr[t] EXCEPT !.played = p, !.buffer = << >>, !.pc = "stream"]]
        \/ thr' = [thr EXCEPT ![t].pc = "exit", ![t].broke = TRUE]
    BY <1>9 DEF BackendWrite
  <2> HIDE DEF p
  <2>2. ASSUME thr' = [thr EXCEPT ![t] = [thr[t] EXCEPT !.played = p, !.buffer = << >>, !.pc = "stream"]]
        PROVE  thr'[t].pc = "stream"
    BY <1>1, <2>2 DEF Connection
  <2>3. ASSUME thr' = [thr EXCEPT ![t].pc = "exit", ![t].broke = TRUE]
        PROVE  thr'[t].pc = "exit"
    BY <1>1, <2>3 DEF Connection
  <2> QED BY <2>1, <2>2, <2>3
<1> QED BY <1>3, <1>4, <1>5, <1>6, <1>7, <1>8, <1>9 DEF rsd_thread

LEMMA StdinStep ==
  Orderly /\ TypeInv /\ OnceInv /\ OwnInv /\ KeepInv /\ PairInv /\ StdinInv /\ FreeFds # {} /\ [Next]_vars
    => StdinInv'
<1> SUFFICES ASSUME Orderly, TypeInv, OnceInv, OwnInv, KeepInv, PairInv, StdinInv, FreeFds # {}, [Next]_vars
             PROVE  StdinInv'
  OBVIOUS
<1>1. /\ fd \in [0..MaxFd -> Endpoint \cup {Stdin, Free}] /\ main \in Loop /\ 0 \in 0..MaxFd
      /\ backlog \in Seq(Endpoint) /\ fd[0] = Stdin
  BY RsdServerAssumption DEF TypeInv, TypeOK, Loop, StdinInv
<1>2. Stdin \notin Endpoint /\ Free \notin Endpoint /\ Stdin # Free
  BY OwnFacts
<1>3. CASE UNCHANGED vars \/ Waiting \/ ClientStep
  <2>1. UNCHANGED <<fd, main, thr>>
    BY <1>3 DEF Waiting, vars, ClientStep, server, ConnectData, ConnectCtl, SendHeader, SendAudio,
       SendRequest, SendCloseCtl, CloseCtl, Stop, HangUp
  <2> QED BY <2>1 DEF StdinInv
<1>4. main.pc # "accept" => main.s_new # 0
  BY <1>1, <1>2, OwnFacts DEF KeepInv
<1>5. CASE MainStep
  <2>1. CASE AcceptData \/ AcceptCtl
    <3>1. LowestFree \in 0..MaxFd /\ LowestFree # 0
      BY <1>1, <1>2, LowestFreeFacts
    <3>2. fd'[0] = Stdin /\ UNCHANGED thr
      BY <1>1, <2>1, <3>1 DEF AcceptData, AcceptCtl
    <3>3. main'.pc = "poll" \/ main'.s_ctl = LowestFree
      BY <1>1, <2>1 DEF AcceptData, AcceptCtl, Loop
    <3> QED BY <3>1, <3>2, <3>3 DEF StdinInv
  <2>2. ~AcceptCtlFails
    BY DEF AcceptCtlFails
  <2>3. ~CtlTimeout
    BY DEF CtlTimeout, Orderly, PairInv
  <2>4. CASE CheckSource \/ SetNonBlocking
    <3>1. main.pc \in {"check", "nonblock"} /\ UNCHANGED thr
      BY <2>4 DEF CheckSource, SetNonBlocking
    <3>2. main.s_new # 0 /\ main.s_ctl # 0
      BY <1>4, <3>1 DEF StdinInv
    <3>3. CASE fd' = CloseBoth /\ main' = NextClient
      <4>1. main'.pc = "accept"
        BY <1>1, <3>3 DEF NextClient, Loop
      <4>2. fd'[0] = Stdin
        BY <1>1, <3>2, <3>3 DEF CloseBoth, Closed
      <4> QED BY <3>1, <4>1, <4>2 DEF StdinInv
    <3>4. CASE UNCHANGED fd /\ \E l : main' = [main EXCEPT !.pc = l]
      <4>1. main'.s_ctl = main.s_ctl
        BY <1>1, <3>4 DEF Loop
      <4> QED BY <3>1, <3>2, <3>4, <4>1 DEF StdinInv
    <3> QED BY <2>4, <3>3, <3>4 DEF CheckSource, SetNonBlocking
  <2>5. CASE new_sound_thread
    <3>1. PICK t \in Thread : /\ main'.pc = "accept" /\ thr'[t].ctl = main.s_ctl
                              /\ \A u \in Thread \ {t} : thr'[u] = thr[u]
      BY <2>5, NewThreadFrame
    <3>2. UNCHANGED fd /\ main.s_ctl # 0
      BY <2>5 DEF new_sound_thread, StdinInv
    <3> QED BY <3>1, <3>2 DEF StdinInv
  <2> QED BY <1>5, <2>1, <2>2, <2>3, <2>4, <2>5 DEF MainStep
<1>6. ASSUME NEW t \in Thread, rsd_thread(t) PROVE StdinInv'
  <2>1. /\ UNCHANGED main /\ Live(t) /\ \A u \in Thread \ {t} : thr'[u] = thr[u]
    BY <1>6, ThreadFrame DEF Live
  <2>2. \A u \in Thread : thr'[u].pc \in {"header", "drop", "drop_ctl"} => thr'[u].ctl # 0
    <3> SUFFICES ASSUME NEW u \in Thread, thr'[u].pc \in {"header", "drop", "drop_ctl"} PROVE thr'[u].ctl # 0
      OBVIOUS
    <3>1. CASE u = t
      BY <1>6, <3>1, HeaderLabels DEF StdinInv
    <3>2. CASE u # t
      BY <2>1, <3>2 DEF StdinInv
    <3> QED BY <3>1, <3>2
  <2>3. fd'[0] = Stdin
    <3>1. CASE fd' = fd
      BY <1>1, <3>1
    <3>2. CASE fd' = Closed(fd, thr[t].socket) /\ HoldsData(t)
      <4>1. thr[t].socket # 0
        BY <1>1, <1>2, <2>1, <3>2, OwnFacts DEF KeepInv
      <4> QED BY <1>1, <3>2, <4>1 DEF Closed
    <3>3. CASE fd' = Closed(fd, thr[t].ctl) /\ thr'[t].pc = "exited"
      <4>1. CASE fd' = fd \/ thr[t].ctl # 0
        BY <1>1, <3>3, <4>1 DEF Closed
      <4>2. CASE fd' # fd /\ thr[t].ctl = 0
        <5>1. ~CloseCtlSocket(t) /\ ~DropCtl(t)
          BY <4>2 DEF CloseCtlSocket, DropCtl, At, StdinInv
        <5>2. ~DropData(t) /\ ~CloseData(t)
          <6>1. thr \in [Thread -> Connection]
            BY DEF TypeInv, TypeOK, Connection
          <6> QED BY <3>3, <6>1 DEF DropData, CloseData, Step, Connection
        <5>3. ~ServeCtl(t)
          <6>1. ASSUME ServeCtl(t) PROVE FALSE
            <7>1. Readable(thr[t].ctl)
              BY <4>2, <6>1 DEF ServeCtl
            <7> QED BY <1>1, <1>2, <4>2, <7>1 DEF Readable
          <6> QED BY <6>1
        <5>4. ~get_wav_header(t) /\ ~OpenBackend(t) /\ ~send_backend_info(t) /\ ~Poll(t) /\ ~ServeData(t)
              /\ ~BackendWrite(t)
          BY <4>2 DEF get_wav_header, OpenBackend, send_backend_info, Poll, ServeData, BackendWrite
        <5> QED BY <1>6, <5>1, <5>2, <5>3, <5>4 DEF rsd_thread
      <4> QED BY <4>1, <4>2
    <3>4. CASE fd' = Closed(fd, thr[t].ctl) /\ fd[thr[t].ctl] \in Endpoint
      BY <1>1, <1>2, <3>4 DEF Closed
    <3> QED BY <1>6, <3>1, <3>2, <3>3, <3>4, ThreadFds
  <2> QED BY <2>1, <2>2, <2>3 DEF StdinInv
<1> QED BY <1>3, <1>5, <1>6 DEF Next

LEMMA PairStep == Orderly /\ TypeInv /\ PairInv /\ FreeFds # {} /\ [Next]_vars => PairInv'
<1> SUFFICES ASSUME Orderly, TypeInv, PairInv, FreeFds # {}, [Next]_vars PROVE PairInv'
  OBVIOUS
<1>1. CASE UNCHANGED vars \/ Waiting
  BY <1>1 DEF Waiting, vars, PairInv
<1>2. ASSUME NEW t \in Thread, rsd_thread(t) PROVE PairInv'
  <2>1. UNCHANGED <<client, backlog, main>>
    BY <1>2, ThreadFrame
  <2> QED BY <2>1 DEF PairInv
<1> QED BY <1>1, <1>2, PairClient, PairMain DEF Next

\* When the clients connect both their sockets one client at a time and in time (they
\* may crash at any later moment, and the audio driver may fail), and the descriptor
\* table never fills up, descriptor 0 is never closed: every thread keeps its sockets
\* and plays its client's audio in order, always.
THEOREM OrderlyClientsAreServed ==
  ASSUME Orderly
  PROVE  Spec /\ [](FreeFds # {}) => [](KeepsItsSockets /\ PlaysWhatWasSent)
<1> DEFINE IInv == TypeInv /\ OnceInv /\ OwnInv /\ KeepInv /\ StreamInv /\ PairInv /\ StdinInv
<1>1. Init => IInv
  BY TypeInit, OnceInit, KeepInit, StreamInit, PairInit
<1>2. IInv /\ FreeFds # {} /\ [Next]_vars => IInv'
  BY TypeStep, OnceStep, OwnStep, KeepStep, StreamStep, PairStep, StdinStep
<1>3. IInv => KeepsItsSockets /\ PlaysWhatWasSent
  <2>1. \A t \in Thread : thr[t].ctl > 0 => thr[t].ctl # 0
    OBVIOUS
  <2> QED BY <2>1 DEF KeepInv, StreamInv, StreamBody, StdinInv, KeepsItsSockets, HoldsData, HoldsCtl
<1> QED BY <1>1, <1>2, <1>3, PTL DEF Spec
=============================================================================
