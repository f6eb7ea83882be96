---------------------------- MODULE ControlProofs ----------------------------
(***************************************************************************)
(* The safety properties of Control for every size of chunk and FIFO, every *)
(* number of queries and every combination of faults.                       *)
(***************************************************************************)
EXTENDS Control, FiniteSetTheorems, WellFoundedInduction, TLAPS

-----------------------------------------------------------------------------
(* Places *)

\* A set of numbers has a lowest one: the sets 0..f of its members below a
\* given one are finitely many, so strict inclusion has a minimal one.
LEMMA LowestExists ==
  ASSUME NEW S, S \subseteq Nat, S # {}
  PROVE  \E f \in S : \A g \in S : f <= g
<1>1. PICK n \in S : TRUE
  OBVIOUS
<1> DEFINE Up == {T \in SUBSET (0..n) : \E f \in S : f <= n /\ T = 0..f}
<1>2. IsFiniteSet(0..n) /\ n \in Nat /\ n <= n
  BY <1>1, FS_Interval
<1>3. IsWellFoundedOn(StrictSubsetOrdering(0..n), SUBSET (0..n))
  BY <1>2, FS_FiniteSubsetsOfFinite, FS_StrictSubsetOrderingWellFounded
<1>4. Up \subseteq SUBSET (0..n) /\ Up # {}
  <2>1. 0..n \in Up
    BY <1>1, <1>2
  <2> QED BY <2>1
<1>5. PICK T \in Up : \A U \in Up : <<U, T>> \notin StrictSubsetOrdering(0..n)
  <2> HIDE DEF Up
  <2> QED BY <1>3, <1>4, WFMin
<1>6. PICK f \in S : f <= n /\ T = 0..f
  BY <1>5
<1>7. ASSUME NEW g \in S PROVE f <= g
  <2> SUFFICES ASSUME g < f PROVE FALSE
    BY <1>6
  <2>1. 0..g \in Up /\ g <= n /\ f \in T /\ f \notin 0..g /\ (0..g) \subseteq T
    BY <1>2, <1>6
  <2>2. <<0..g, T>> \in StrictSubsetOrdering(0..n)
    BY <1>4, <1>5, <2>1 DEF StrictSubsetOrdering
  <2> QED BY <1>5, <2>1, <2>2
<1> QED BY <1>7

\* strstr and strrchr give one of the places, or 0.
LEMMA PlaceFacts ==
  ASSUME NEW n \in Nat, NEW places \in SUBSET (1..n)
  PROVE  /\ First(places) \in places \cup {0} /\ (First(places) = 0 <=> places = {})
         /\ Last(places) \in places \cup {0} /\ (Last(places) = 0 <=> places = {})
<1>1. CASE places = {}
  BY <1>1 DEF First, Last
<1>2. CASE places # {}
  <2>1. First(places) \in places
    <3>1. places \subseteq Nat
      OBVIOUS
    <3>2. PICK f \in places : \A g \in places : f <= g
      BY <1>2, <3>1, LowestExists
    <3> QED BY <1>2, <3>2 DEF First, Min
  <2>2. Last(places) \in places
    <3> DEFINE Behind == {d \in 0..n : n - d \in places}
    <3>1. PICK p \in places : TRUE
      BY <1>2
    <3>2. n - p \in Behind /\ Behind \subseteq Nat
      BY <3>1
    <3>3. PICK d \in Behind : \A e \in Behind : d <= e
      <4> HIDE DEF Behind
      <4> QED BY <3>2, LowestExists
    <3>4. \A q \in places : n - d >= q
      <4> SUFFICES ASSUME NEW q \in places PROVE n - d >= q
        OBVIOUS
      <4>1. n - q \in 0..n /\ n - (n - q) = q
        OBVIOUS
      <4>2. n - q \in Behind
        BY <4>1
      <4>3. d <= n - q /\ d \in 0..n
        BY <3>3, <4>2
      <4> QED BY <4>3
    <3>5. n - d \in places
      BY <3>3
    <3> QED BY <1>2, <3>4, <3>5 DEF Last, Max
  <2>3. 0 \notin places
    OBVIOUS
  <2>4. First(places) # 0 /\ Last(places) # 0
    BY <2>1, <2>2, <2>3
  <2> QED BY <1>2, <2>1, <2>2, <2>4
<1> QED BY <1>1, <1>2

-----------------------------------------------------------------------------
(* Streams of units *)

\* A part of a sequence.
LEMMA PartFacts ==
  ASSUME NEW S, NEW s \in Seq(S), NEW m \in Nat \ {0}, NEW n \in 0..Len(s)
  PROVE  /\ SubSeq(s, m, n) \in Seq(S)
         /\ Len(SubSeq(s, m, n)) = IF m <= n THEN n - m + 1 ELSE 0
         /\ \A i \in 1..Len(SubSeq(s, m, n)) : SubSeq(s, m, n)[i] = s[m + i - 1]
  OBVIOUS

\* Two sequences, one behind the other.
LEMMA JoinFacts ==
  ASSUME NEW S, NEW s \in Seq(S), NEW t \in Seq(S)
  PROVE  /\ s \o t \in Seq(S) /\ Len(s \o t) = Len(s) + Len(t)
         /\ Len(s) \in Nat /\ Len(t) \in Nat
         /\ \A i \in 1..Len(s) : (s \o t)[i] = s[i]
         /\ \A i \in 1..Len(t) : (s \o t)[Len(s) + i] = t[i]
  OBVIOUS

\* An element that is added at the end.
LEMMA AppendFacts ==
  ASSUME NEW S, NEW s \in Seq(S), NEW e \in S
  PROVE  /\ Append(s, e) \in Seq(S) /\ Len(Append(s, e)) = Len(s) + 1 /\ Len(s) \in Nat
         /\ \A i \in 1..Len(s) : Append(s, e)[i] = s[i]
         /\ Append(s, e)[Len(s) + 1] = e
  OBVIOUS

NameKinds   == {"", "plain", "NULL", "INFO", "STOP"}
RequestMsg  == [type : {"INFO", "IDENTITY", "STOP", "CLOSECTL"}, c : Nat, s : {0},
                name : NameKinds, answer : {FALSE}]
AnswerMsg   == [type : {"INFO", "OK"}, c : Nat, s : Int, name : {""}, answer : {TRUE}]
RequestUnit == {"RSD", "len", "b1", "b2"} \X RequestMsg
AnswerUnit  == {"RSD", "len", "b1", "b2", "b3", "b4"} \X AnswerMsg

\* The units of a message: its header, then its body.
LEMMA UnitFacts ==
  ASSUME NEW m \in RequestMsg \cup AnswerMsg
  PROVE  /\ BodyLen(m) \in 1..4 /\ (m \in RequestMsg => BodyLen(m) \in 1..2)
         /\ Len(Units(m)) = BodyLen(m) + 2
         /\ Units(m)[1] = <<"RSD", m>> /\ Units(m)[2] = <<"len", m>>
         /\ \A i \in 1..BodyLen(m) : Units(m)[i + 2] = <<Body[i], m>>
         /\ m \in RequestMsg => Units(m) \in Seq(RequestUnit)
         /\ m \in AnswerMsg => Units(m) \in Seq({"RSD", "len", "b1", "b2", "b3", "b4"} \X {m})
<1>1. BodyLen(m) \in 1..4 /\ (m \in RequestMsg => BodyLen(m) \in 1..2)
  <2>1. CASE m.type \in {"STOP", "CLOSECTL"}
    BY <2>1 DEF BodyLen
  <2>2. CASE m.type = "INFO" /\ m.answer
    <3>1. m.answer = TRUE /\ m.type = "INFO"
      BY <2>2 DEF RequestMsg, AnswerMsg
    <3>2. m \notin RequestMsg
      BY <3>1 DEF RequestMsg
    <3>3. BodyLen(m) = 4
      BY <3>1 DEF BodyLen
    <3> QED BY <3>2, <3>3
  <2>3. CASE m.type \notin {"STOP", "CLOSECTL"} /\ ~(m.type = "INFO" /\ m.answer)
    <3>1. BodyLen(m) = 2
      BY <2>3 DEF BodyLen
    <3> QED BY <3>1
  <2> QED BY <2>1, <2>2, <2>3
<1> DEFINE K == {"RSD", "len", "b1", "b2", "b3", "b4"}
           n == BodyLen(m)
           b == [i \in 1..n |-> <<Body[i], m>>]
           h == <<<<"RSD", m>>, <<"len", m>>>>
<1>2. \A i \in 1..4 : Body[i] \in K /\ (i <= 2 => Body[i] \in {"b1", "b2"})
  BY DEF Body
<1>3. Units(m) = h \o b
  BY DEF Units
<1> HIDE DEF n
<1>4. b \in Seq(K \X {m}) /\ Len(b) = n /\ \A i \in 1..n : b[i] = <<Body[i], m>>
  BY <1>1, <1>2 DEF n
<1>5. m \in RequestMsg => b \in Seq(RequestUnit)
  BY <1>1, <1>2 DEF n, RequestUnit
<1>6. h \in Seq(K \X {m}) /\ Len(h) = 2 /\ h[1] = <<"RSD", m>> /\ h[2] = <<"len", m>>
  OBVIOUS
<1>7. m \in RequestMsg => h \in Seq(RequestUnit)
  BY DEF RequestUnit
<1> HIDE DEF b, h, K
<1>0. n \in Nat
  BY <1>1 DEF n
<1> DEFINE KM == K \X {m}
<1>11. b \in Seq(KM) /\ h \in Seq(KM)
  BY <1>4, <1>6
<1> HIDE DEF KM
<1>8. h \o b \in Seq(KM) /\ Len(h \o b) = n + 2
  <2>1. /\ h \o b \in Seq(KM) /\ Len(h \o b) = Len(h) + Len(b)
    BY <1>11, JoinFacts
  <2> QED BY <1>0, <1>4, <1>6, <2>1
<1>9. (h \o b)[1] = h[1] /\ (h \o b)[2] = h[2] /\ \A i \in 1..n : (h \o b)[i + 2] = b[i]
  <2>1. /\ \A i \in 1..Len(h) : (h \o b)[i] = h[i]
        /\ \A i \in 1..Len(b) : (h \o b)[Len(h) + i] = b[i]
    BY <1>11, JoinFacts
  <2>2. ASSUME NEW i \in 1..n PROVE (h \o b)[i + 2] = b[i]
    <3>1. i \in 1..Len(b) /\ Len(h) + i = i + 2
      BY <1>0, <1>4, <1>6
    <3> QED BY <2>1, <3>1
  <2>3. 1 \in 1..Len(h) /\ 2 \in 1..Len(h)
    BY <1>6
  <2> QED BY <2>1, <2>2, <2>3
<1>10. m \in RequestMsg => h \o b \in Seq(RequestUnit)
  BY <1>5, <1>7, JoinFacts
<1> QED BY <1>1, <1>3, <1>4, <1>6, <1>8, <1>9, <1>10 DEF n, K, KM

\* What send() takes of a message is a first part of its units.
LEMMA TakenFacts ==
  ASSUME NEW m \in RequestMsg \cup AnswerMsg, NEW units \in Taken(m)
  PROVE  /\ Len(units) \in 0..(BodyLen(m) + 2)
         /\ \A i \in 1..Len(units) : units[i] = Units(m)[i]
         /\ m \in RequestMsg => units \in Seq(RequestUnit)
         /\ m \in AnswerMsg => units \in Seq({"RSD", "len", "b1", "b2", "b3", "b4"} \X {m})
<1> DEFINE all == Units(m)
           A == {"RSD", "len", "b1", "b2", "b3", "b4"} \X {m}
<1>1. /\ Len(all) = BodyLen(m) + 2 /\ BodyLen(m) \in Nat
      /\ m \in RequestMsg => all \in Seq(RequestUnit)
      /\ m \in AnswerMsg => all \in Seq(A)
  <2>1. BodyLen(m) \in 1..4 /\ Len(all) = BodyLen(m) + 2
    BY UnitFacts
  <2>2. m \in RequestMsg => all \in Seq(RequestUnit)
    BY UnitFacts
  <2>3. m \in AnswerMsg => all \in Seq(A)
    BY UnitFacts, Zenon
  <2> QED BY <2>1, <2>2, <2>3
<1>2. units = all \/ units = << >> \/ \E k \in 1..Len(all) : units = SubSeq(all, 1, k)
  BY DEF Taken
<1> HIDE DEF all, A
<1>3. SUFFICES ASSUME NEW S, all \in Seq(S)
               PROVE  /\ Len(units) \in 0..Len(all) /\ units \in Seq(S)
                      /\ \A i \in 1..Len(units) : units[i] = all[i]
  BY <1>1 DEF all, A
<1>4. CASE units = all
  BY <1>3, <1>4
<1>5. CASE units = << >>
  BY <1>3, <1>5
<1>6. CASE \E k \in 1..Len(all) : units = SubSeq(all, 1, k)
  <2>1. PICK k \in 1..Len(all) : units = SubSeq(all, 1, k)
    BY <1>6
  <2> QED BY <1>3, <2>1, PartFacts
<1> QED BY <1>2, <1>4, <1>5, <1>6

\* What recv() takes of a stream is a first part of it; the rest stays.
LEMMA ArrivedFacts ==
  ASSUME NEW dir, NEW S, wire[dir] \in Seq(S), NEW n \in Nat, NEW u \in Arrived(n, dir)
  PROVE  /\ u \in Seq(S) /\ Len(u) \in 0..n /\ Len(u) <= Len(wire[dir])
         /\ \A i \in 1..Len(u) : u[i] = wire[dir][i]
         /\ SubSeq(wire[dir], Len(u) + 1, Len(wire[dir])) \in Seq(S)
         /\ Len(SubSeq(wire[dir], Len(u) + 1, Len(wire[dir]))) = Len(wire[dir]) - Len(u)
         /\ \A i \in 1..(Len(wire[dir]) - Len(u)) :
              SubSeq(wire[dir], Len(u) + 1, Len(wire[dir]))[i] = wire[dir][Len(u) + i]
<1> DEFINE s == wire[dir]
<1> HIDE DEF s
<1>1. Least(n, dir) \in 0..n /\ Least(n, dir) <= Len(s) /\ Len(s) \in Nat /\ s \in Seq(S)
  BY DEF s, Least
<1>2. PICK k \in 0..Least(n, dir) : u = SubSeq(s, 1, k)
  <2>1. \A k \in {0, Least(n, dir)} : k \in 0..Least(n, dir)
    BY <1>1
  <2> QED BY <2>1 DEF Arrived, s
<1>3. u \in Seq(S) /\ Len(u) = k /\ \A i \in 1..Len(u) : u[i] = s[i]
  BY <1>1, <1>2, PartFacts
<1> DEFINE rest == SubSeq(s, k + 1, Len(s))
<1>4. /\ rest \in Seq(S) /\ Len(rest) = IF k + 1 <= Len(s) THEN Len(s) - (k + 1) + 1 ELSE 0
      /\ \A i \in 1..Len(rest) : rest[i] = s[(k + 1) + i - 1]
  BY <1>1, <1>2, PartFacts
<1> HIDE DEF rest
<1>5. Len(rest) = Len(s) - k /\ \A i \in 1..(Len(s) - k) : rest[i] = s[k + i]
  BY <1>1, <1>2, <1>4
<1>6. rest = SubSeq(s, Len(u) + 1, Len(s))
  BY <1>3 DEF rest
<1>7. /\ u \in Seq(S) /\ Len(u) \in 0..n /\ Len(u) <= Len(s)
      /\ Len(rest) = Len(s) - Len(u) /\ \A i \in 1..(Len(s) - Len(u)) : rest[i] = s[Len(u) + i]
  BY <1>1, <1>2, <1>3, <1>5
<1> QED BY <1>3, <1>4, <1>6, <1>7 DEF s

-----------------------------------------------------------------------------
(* Types *)

PlayerLabels == {"top", "header", "body", "apply", "chunk", "asleep", "ended"}
AppLabels    == {"connected", "ready", "wait", "closed", "refused", "stopped"}
Verdicts     == {"NULL", "STOP", "INFO", "IDENTITY", "CLOSECTL", "OK"}

\* Until the server lets go of the control connection it says OK to nobody.
Early == {u \in AnswerUnit : u[2].type # "OK"}
Told  == IF conn.ctl THEN Early ELSE AnswerUnit

RdOK     == rd \in [total_written : Nat, fifo : Nat, use_latency : BOOLEAN, applied : Seq(Int)]
PlayerOK == player \in [pc : PlayerLabels, len : 0..4, client_ptr : Int, serv_ptr : Int]
AppOK    == /\ app \in [pc : AppLabels, buf : Seq(Told \cup {Nul}), index : Nat]
            /\ app.index <= Len(app.buf)
ConnOK   == conn \in [pc : {"idle", "body", "ended"}, len : 0..4, serv_ptr : Nat, ctl : BOOLEAN]
WireOK   == wire \in [requests : Seq(RequestUnit), answers : Seq(Told)]
HistoryOK == history \in [asked : Seq(RequestMsg), acted : Seq(Verdicts),
                          answered : SUBSET (Nat \X Int), queries : Nat, cut : BOOLEAN]

TypeInv ==
  /\ RdOK /\ PlayerOK /\ AppOK /\ ConnOK /\ WireOK /\ HistoryOK
  /\ app.pc = "closed" => ~conn.ctl

LEMMA TypeInit == Init => TypeInv
<1> SUFFICES ASSUME Init PROVE TypeInv
  OBVIOUS
<1>1. \A S : << >> \in Seq(S) /\ Len(<< >>) = 0
  OBVIOUS
<1> QED BY <1>1 DEF Init, TypeInv, RdOK, PlayerOK, AppOK, ConnOK, WireOK, HistoryOK,
     PlayerLabels, AppLabels

\* A request that is sent lengthens the stream of requests and the list of them.
LEMMA SendFacts ==
  ASSUME TypeInv, NEW m \in RequestMsg, Send(m)
  PROVE  \E units \in Seq(RequestUnit) :
           /\ \A i \in 1..Len(units) : units[i] = Units(m)[i]
           /\ Len(units) \in 0..(BodyLen(m) + 2)
           /\ wire' = [wire EXCEPT !.requests = wire.requests \o units]
           /\ history'.asked = IF units = << >> THEN history.asked ELSE Append(history.asked, m)
           /\ history'.acted = history.acted /\ history'.answered = history.answered
           /\ history'.cut = history.cut
           /\ wire' \in [requests : Seq(RequestUnit), answers : Seq(Told)]
           /\ HistoryOK'
<1>1. PICK units \in Taken(m) :
        /\ wire' = [wire EXCEPT !.requests = wire.requests \o units]
        /\ history' = [history EXCEPT
             !.asked = IF units = << >> THEN history.asked ELSE Append(history.asked, m),
             !.queries = IF m.type = "INFO" THEN history.queries + 1 ELSE history.queries]
  BY DEF Send, Put
<1>2. /\ units \in Seq(RequestUnit) /\ Len(units) \in 0..(BodyLen(m) + 2)
      /\ \A i \in 1..Len(units) : units[i] = Units(m)[i]
  BY TakenFacts
<1>3. /\ wire \in [requests : Seq(RequestUnit), answers : Seq(Told)]
      /\ wire.requests \in Seq(RequestUnit) /\ wire.answers \in Seq(Told)
  BY DEF TypeInv, WireOK
<1>4. wire.requests \o units \in Seq(RequestUnit)
  BY <1>2, <1>3, JoinFacts
<1> DEFINE a == IF units = << >> THEN history.asked ELSE Append(history.asked, m)
           q == IF m.type = "INFO" THEN history.queries + 1 ELSE history.queries
           w == wire.requests \o units
<1>5. a \in Seq(RequestMsg) /\ q \in Nat
  BY AppendFacts DEF TypeInv, HistoryOK
<1>6. history' = [history EXCEPT !.asked = a, !.queries = q] /\ wire' = [wire EXCEPT !.requests = w]
  BY <1>1
<1>7. a = IF units = << >> THEN history.asked ELSE Append(history.asked, m)
  OBVIOUS
<1> HIDE DEF a, q, w
<1>8. /\ HistoryOK' /\ history'.asked = a
      /\ history'.acted = history.acted /\ history'.answered = history.answered
      /\ history'.cut = history.cut
  BY <1>5, <1>6 DEF TypeInv, HistoryOK
<1>9. wire' \in [requests : Seq(RequestUnit), answers : Seq(Told)]
  BY <1>3, <1>4, <1>6 DEF w
<1> QED BY <1>1, <1>2, <1>7, <1>8, <1>9

\* The numbers in an answer.
LEMMA NumberType ==
  ASSUME NEW u \in Seq(AnswerUnit), NEW i \in Nat \ {0}
  PROVE  Number(u, i) \in Int
<1>1. CASE i > Len(u)
  BY <1>1 DEF Number
<1>2. CASE ~(i > Len(u))
  <2>1. u[i] \in AnswerUnit
    BY <1>2
  <2>2. u[i][2].c \in Int /\ u[i][2].s \in Int /\ u[i][2].s \div 2 \in Int
    <3>1. PICK k \in {"RSD", "len", "b1", "b2", "b3", "b4"}, m \in AnswerMsg : u[i] = <<k, m>>
      BY <2>1 DEF AnswerUnit
    <3>2. m.c \in Int /\ m.s \in Int
      <4>1. m.c \in Nat
        BY DEF AnswerMsg
      <4>2. m.s \in Int
        BY DEF AnswerMsg
      <4> QED BY <4>1, <4>2
    <3>3. \A x \in Int : x \div 2 \in Int
      OBVIOUS
    <3> QED BY <3>1, <3>2, <3>3
  <2>3. CASE u[i][1] = "b2"
    BY <1>2, <2>2, <2>3 DEF Number
  <2>4. CASE u[i][1] = "b3"
    BY <1>2, <2>2, <2>4 DEF Number
  <2>5. CASE u[i][1] # "b2" /\ u[i][1] # "b3"
    BY <1>2, <2>5 DEF Number
  <2> QED BY <2>3, <2>4, <2>5
<1> QED BY <1>1, <1>2

\* The number in a request.
LEMMA AskedNumber ==
  ASSUME NEW u \in Seq(RequestUnit)
  PROVE  client_ptr(u) = 0 \/ (2 \in 1..Len(u) /\ client_ptr(u) = u[2][2].c)
<1> SUFFICES ASSUME client_ptr(u) # 0, 2 \in 1..Len(u), u[2] \in RequestUnit
             PROVE  client_ptr(u) = u[2][2].c
  <2>1. CASE 2 > Len(u)
    BY <2>1 DEF client_ptr, Number
  <2>2. CASE ~(2 > Len(u))
    BY <2>2
  <2> QED BY <2>1, <2>2
<1>1. client_ptr(u) = Number(u, 2)
  BY DEF client_ptr
<1>2. u[2][1] # "b3"
  BY DEF RequestUnit
<1>3. CASE u[2][1] = "b2"
  BY <1>1, <1>3 DEF Number
<1>4. CASE u[2][1] # "b2"
  BY <1>1, <1>2, <1>4 DEF Number
<1> QED BY <1>3, <1>4

\* Where a body says INFO.
LEMMA InfoFacts ==
  ASSUME NEW S, NEW u \in Seq(S)
  PROVE  InfoAt(u) \in 0..Len(u) /\ (InfoAt(u) # 0 => u[InfoAt(u)][1] = "b1" /\ u[InfoAt(u)][2].type = "INFO")
<1> DEFINE P == {i \in 1..Len(u) : u[i][1] = "b1" /\ u[i][2].type = "INFO"}
<1>1. First(P) \in P \cup {0}
  <2>1. P \in SUBSET (1..Len(u)) /\ Len(u) \in Nat
    OBVIOUS
  <2> HIDE DEF P
  <2> QED BY <2>1, PlaceFacts
<1> QED BY <1>1 DEF InfoAt

\* What the playback thread may make of an answer.
LEMMA ReadsCases ==
  ASSUME TypeInv, NEW u \in Seq(Told), Reads(u, TRUE)
  PROVE  \/ Player("chunk")
         \/ InfoAt(u) = 0 /\ ~(Len(u) < player.len) /\ Player("header")
         \/ /\ InfoAt(u) # 0 /\ ~(Len(u) < player.len)
            /\ Number(u, InfoAt(u) + 1) # 0
            /\ ~(Len(u) < InfoAt(u) + 2)
            /\ player' = [player EXCEPT !.pc = "header", !.client_ptr = Number(u, InfoAt(u) + 1),
                                        !.serv_ptr = Number(u, InfoAt(u) + 2)]
BY DEF Reads

LEMMA ToldUnits == Told \subseteq AnswerUnit /\ Nul \notin AnswerUnit
BY DEF Told, Early, AnswerUnit, Nul

LEMMA PlayerTypes == TypeInv /\ rsnd_thread => TypeInv'
<1> SUFFICES ASSUME TypeInv, rsnd_thread PROVE TypeInv'
  OBVIOUS
<1>1. /\ rd \in [total_written : Nat, fifo : Nat, use_latency : BOOLEAN, applied : Seq(Int)]
      /\ player \in [pc : PlayerLabels, len : 0..4, client_ptr : Int, serv_ptr : Int]
      /\ wire \in [requests : Seq(RequestUnit), answers : Seq(Told)]
  BY DEF TypeInv, RdOK, PlayerOK, WireOK
<1>2. ASSUME RdOK', PlayerOK', wire' \in [requests : Seq(RequestUnit), answers : Seq(Told)],
             HistoryOK', UNCHANGED <<app, conn>>
      PROVE  TypeInv'
  <2>1. Told' = Told
    BY <1>2 DEF Told
  <2> QED BY <1>2, <2>1 DEF TypeInv, AppOK, ConnOK, WireOK
<1>3. ASSUME NEW l \in PlayerLabels, Player(l) PROVE PlayerOK'
  BY <1>1, <1>3 DEF Player, PlayerOK
<1>4. {"top", "header", "body", "apply", "chunk", "asleep", "ended"} \subseteq PlayerLabels
  BY DEF PlayerLabels
<1>5. CASE rsnd_send_info_query
  <2>1. PlayerOK'
    <3>1. player' = [player EXCEPT !.pc = "header", !.client_ptr = -1, !.serv_ptr = -1]
      BY <1>5 DEF rsnd_send_info_query
    <3> DEFINE none == -1
    <3>2. player' = [player EXCEPT !.pc = "header", !.client_ptr = none, !.serv_ptr = none] /\ none \in Int
      BY <3>1
    <3> HIDE DEF none
    <3>3. "header" \in PlayerLabels
      BY <1>4
    <3> QED BY <1>1, <3>2, <3>3 DEF PlayerOK
  <2>2. CASE Send(Request("INFO", rd.total_written, ""))
    <3>1. Request("INFO", rd.total_written, "") \in RequestMsg
      BY <1>1 DEF Request, RequestMsg, NameKinds
    <3>2. HistoryOK' /\ wire' \in [requests : Seq(RequestUnit), answers : Seq(Told)]
      BY <2>2, <3>1, SendFacts
    <3> QED BY <1>2, <1>5, <2>1, <3>2 DEF rsnd_send_info_query, TypeInv, RdOK
  <2>3. CASE UNCHANGED <<wire, history>>
    BY <1>1, <1>2, <1>5, <2>1, <2>3 DEF rsnd_send_info_query, TypeInv, RdOK, HistoryOK
  <2> QED BY <1>5, <2>2, <2>3 DEF rsnd_send_info_query
<1>6. CASE NoQuery \/ Sleep \/ Wake
  <2>1. \E l \in PlayerLabels : Player(l)
    BY <1>4, <1>6 DEF NoQuery, Sleep, Wake
  <2> QED BY <1>1, <1>2, <1>3, <1>6, <2>1 DEF NoQuery, Sleep, Wake, TypeInv, RdOK, HistoryOK
<1>7. ASSUME NEW n \in Nat, NEW u \in Arrived(n, "answers"), wire' = Rest("answers", u)
      PROVE  u \in Seq(Told) /\ wire' \in [requests : Seq(RequestUnit), answers : Seq(Told)]
  <2>1. /\ u \in Seq(Told)
        /\ SubSeq(wire.answers, Len(u) + 1, Len(wire.answers)) \in Seq(Told)
    <3>1. wire["answers"] \in Seq(Told)
      BY <1>1
    <3> QED BY <3>1, ArrivedFacts
  <2> QED BY <1>1, <1>7, <2>1 DEF Rest
<1>8. CASE UpdateHeader
  <2>1. PICK u \in Arrived(Header, "answers") :
          /\ wire' = Rest("answers", u)
          /\ \/ Break
             \/ Player("chunk")
             \/ /\ Len(u) = Header /\ HasRSD(u)
                /\ player' = [player EXCEPT !.pc = "body", !.len = HeaderLen(u)]
          /\ UNCHANGED <<rd, app, conn, history>>
    BY <1>8 DEF UpdateHeader
  <2>2. Header \in Nat
    BY DEF Header
  <2>3. u \in Seq(Told) /\ wire' \in [requests : Seq(RequestUnit), answers : Seq(Told)]
    BY <1>7, <2>1, <2>2
  <2>4. ASSUME Len(u) = Header PROVE HeaderLen(u) \in 0..4
    <3>0. 1 \in 1..Len(u)
      BY <2>4 DEF Header
    <3>1. u[1] \in AnswerUnit
      BY <2>3, <3>0, ToldUnits
    <3>2. u[1][2] \in AnswerMsg
      BY <3>1 DEF AnswerUnit
    <3>3. BodyLen(u[1][2]) \in 1..4
      BY <3>2, UnitFacts
    <3> QED BY <3>3 DEF HeaderLen
  <2>5. PlayerOK'
    <3>1. CASE Break
      BY <1>3, <1>4, <3>1 DEF Break
    <3>2. CASE Len(u) = Header /\ player' = [player EXCEPT !.pc = "body", !.len = HeaderLen(u)]
      BY <1>1, <1>4, <2>4, <3>2 DEF PlayerOK
    <3> QED BY <1>3, <1>4, <2>1, <3>1, <3>2
  <2> QED BY <1>1, <1>2, <2>1, <2>3, <2>5 DEF TypeInv, RdOK, HistoryOK
<1>9. CASE UpdateBody
  <2>1. PICK u \in Arrived(player.len, "answers") :
          wire' = Rest("answers", u) /\ Reads(u, TRUE) /\ UNCHANGED <<rd, app, conn, history>>
    BY <1>9 DEF UpdateBody
  <2>2. player.len \in Nat
    BY <1>1
  <2>3. u \in Seq(Told) /\ wire' \in [requests : Seq(RequestUnit), answers : Seq(Told)]
    BY <1>7, <2>1, <2>2
  <2>4. u \in Seq(AnswerUnit) /\ InfoAt(u) \in Nat
    <3>1. InfoAt(u) \in 0..Len(u) /\ Len(u) \in Nat
      BY <2>3, InfoFacts
    <3> QED BY <2>3, <3>1, ToldUnits
  <2>5. Number(u, InfoAt(u) + 1) \in Int /\ Number(u, InfoAt(u) + 2) \in Int
    BY <2>4, NumberType
  <2>6. PlayerOK'
    <3> DEFINE c == Number(u, InfoAt(u) + 1)
               s == Number(u, InfoAt(u) + 2)
    <3>1. \/ Player("chunk") \/ Player("header")
          \/ player' = [player EXCEPT !.pc = "header", !.client_ptr = c, !.serv_ptr = s]
      BY <2>1, <2>3, ReadsCases
    <3>2. c \in Int /\ s \in Int
      BY <2>5
    <3> HIDE DEF c, s
    <3>3. CASE player' = [player EXCEPT !.pc = "header", !.client_ptr = c, !.serv_ptr = s]
      BY <1>1, <1>4, <3>2, <3>3 DEF PlayerOK
    <3> QED BY <1>3, <1>4, <3>1, <3>3
  <2> QED BY <1>1, <1>2, <2>1, <2>3, <2>6 DEF TypeInv, RdOK, HistoryOK
<1>10. CASE UpdateOffset
  <2>1. PlayerOK'
    BY <1>3, <1>4, <1>10 DEF UpdateOffset
  <2> DEFINE a == IF Recent THEN <<player.client_ptr, player.serv_ptr>> ELSE rd.applied
  <2>2. a \in Seq(Int)
    BY <1>1
  <2>3. rd' = [rd EXCEPT !.use_latency = TRUE, !.applied = a]
    BY <1>10 DEF UpdateOffset
  <2> HIDE DEF a
  <2>4. RdOK'
    BY <1>1, <2>2, <2>3 DEF RdOK
  <2> QED BY <1>1, <1>2, <1>10, <2>1, <2>4 DEF UpdateOffset, TypeInv, HistoryOK
<1>11. CASE SendChunk
  <2>1. PlayerOK'
    BY <1>3, <1>4, <1>11 DEF SendChunk
  <2>2. RdOK'
    <3> DEFINE f == rd.fifo - Chunk
               n == rd.total_written + Chunk
    <3>0. rd.fifo \in Nat /\ rd.total_written \in Nat /\ Chunk \in Nat /\ rd.fifo >= Chunk
      BY <1>1, <1>11, ControlAssumption DEF SendChunk
    <3>1. f \in Nat /\ n \in Nat
      BY <3>0
    <3>2. rd' = [rd EXCEPT !.fifo = f, !.total_written = n]
      BY <1>11 DEF SendChunk
    <3> HIDE DEF f, n
    <3> QED BY <1>1, <3>1, <3>2 DEF RdOK
  <2> QED BY <1>1, <1>2, <1>11, <2>1, <2>2 DEF SendChunk, TypeInv, HistoryOK
<1> QED BY <1>5, <1>6, <1>8, <1>9, <1>10, <1>11 DEF rsnd_thread

\* A string ends before the first NUL of the text.
LEMMA StrFacts ==
  ASSUME NEW S, NEW t \in Seq(S)
  PROVE  Str(t) \in Seq(S) /\ Len(Str(t)) <= Len(t)
<1> DEFINE P == {i \in 1..Len(t) : t[i] = Nul}
           e == First(P)
<1>1. e \in P \cup {0}
  <2>1. P \in SUBSET (1..Len(t)) /\ Len(t) \in Nat
    OBVIOUS
  <2> HIDE DEF P
  <2> QED BY <2>1, PlaceFacts
<1>2. Str(t) = IF e = 0 THEN t ELSE SubSeq(t, 1, e - 1)
  BY DEF Str
<1>3. CASE e = 0
  BY <1>2, <1>3
<1>4. CASE e # 0
  <2>1. e \in 1..Len(t)
    BY <1>1, <1>4
  <2> HIDE DEF e
  <2>2. e - 1 \in 0..Len(t)
    BY <2>1
  <2>3. SubSeq(t, 1, e - 1) \in Seq(S) /\ Len(SubSeq(t, 1, e - 1)) = IF 1 <= e - 1 THEN (e - 1) - 1 + 1 ELSE 0
    BY <2>2, PartFacts
  <2> QED BY <1>2, <1>4, <2>1, <2>3
<1> QED BY <1>3, <1>4

\* memmove leaves the string from its last header on, and a text of units.
LEMMA MovedFacts ==
  ASSUME NEW S, Nul \in S, NEW t \in Seq(S), LastR(Str(t)) # 0
  PROVE  /\ Moved(t) \in Seq(S)
         /\ Len(Str(t)) - LastR(Str(t)) + 1 \in Nat
         /\ Len(Str(t)) - LastR(Str(t)) + 1 <= Len(Moved(t))
<1> DEFINE str == Str(t)
           r == LastR(str)
           kept == SubSeq(str, r, Len(str))
           nul == IF Len(kept) < Len(t) THEN <<Nul>> ELSE << >>
           behind == SubSeq(t, Len(kept) + 2, Len(t))
<1>1. str \in Seq(S) /\ Len(str) <= Len(t) /\ Len(str) \in Nat
  BY StrFacts
<1>2. r \in 1..Len(str)
  <2> DEFINE P == {i \in 1..Len(str) : str[i][1] = "RSD"}
  <2>1. Last(P) \in P \cup {0}
    <3>1. P \in SUBSET (1..Len(str)) /\ Len(str) \in Nat
      BY <1>1
    <3> HIDE DEF P
    <3> QED BY <3>1, PlaceFacts
  <2> QED BY <2>1 DEF LastR
<1>3. Moved(t) = kept \o nul \o behind
  BY DEF Moved
<1> HIDE DEF str, r
<1>4. kept \in Seq(S) /\ Len(kept) = Len(str) - r + 1 /\ Len(kept) \in Nat
  <2>1. r \in Nat \ {0} /\ Len(str) \in 0..Len(str)
    BY <1>1, <1>2
  <2>2. kept \in Seq(S) /\ Len(kept) = IF r <= Len(str) THEN Len(str) - r + 1 ELSE 0
    BY <1>1, <2>1, PartFacts
  <2> QED BY <1>1, <1>2, <2>2
<1>5. nul \in Seq(S)
  OBVIOUS
<1> HIDE DEF kept
<1>6. behind \in Seq(S)
  <2>1. Len(kept) + 2 \in Nat \ {0} /\ Len(t) \in 0..Len(t)
    BY <1>4
  <2> QED BY <2>1, PartFacts
<1> HIDE DEF nul, behind
<1>7. kept \o nul \in Seq(S) /\ Len(kept \o nul) = Len(kept) + Len(nul) /\ Len(nul) \in Nat
  BY <1>4, <1>5, JoinFacts
<1>8. (kept \o nul) \o behind \in Seq(S)
      /\ Len((kept \o nul) \o behind) = Len(kept \o nul) + Len(behind) /\ Len(behind) \in Nat
  BY <1>6, <1>7, JoinFacts
<1> QED BY <1>3, <1>4, <1>7, <1>8 DEF str, r

\* The text that rsnd_close_ctl looks at.
LEMMA TextFacts ==
  ASSUME TypeInv, NEW units \in Seq(Told)
  PROVE  Text(units) \in Seq(Told \cup {Nul})
<1> DEFINE S == Told \cup {Nul}
           a == SubSeq(app.buf, 1, app.index)
           b == SubSeq(app.buf, app.index + Len(units) + 1, Len(app.buf))
<1>1. app.buf \in Seq(S) /\ app.index \in 0..Len(app.buf) /\ units \in Seq(S) /\ Len(app.buf) \in Nat
  BY DEF TypeInv, AppOK
<1> HIDE DEF S
<1>2. a \in Seq(S)
  BY <1>1, PartFacts
<1>3. b \in Seq(S)
  <2>1. app.index + Len(units) + 1 \in Nat \ {0} /\ Len(app.buf) \in 0..Len(app.buf)
    BY <1>1
  <2> QED BY <1>1, <2>1, PartFacts
<1>4. Text(units) = a \o units \o b
  BY DEF Text
<1> HIDE DEF a, b
<1>5. a \o units \in Seq(S)
  BY <1>1, <1>2, JoinFacts
<1>6. (a \o units) \o b \in Seq(S)
  BY <1>3, <1>5, JoinFacts
<1> QED BY <1>4, <1>6 DEF S

\* An OK that is found was said by a server that has let go.
LEMMA OKFacts ==
  ASSUME NEW t \in Seq(Told \cup {Nul}), FoundOK(t)
  PROVE  ~conn.ctl
<1>1. PICK i \in 1..Len(t) : t[i][1] = "RSD" /\ t[i][2].type = "OK"
  BY DEF FoundOK
<1>2. t[i] \in Told
  <2>1. t[i] # Nul
    BY <1>1 DEF Nul
  <2> QED BY <2>1
<1> QED BY <1>1, <1>2 DEF Told, Early

LEMMA AppTypes == TypeInv /\ Application => TypeInv'
<1> SUFFICES ASSUME TypeInv, Application PROVE TypeInv'
  OBVIOUS
<1>1. /\ rd \in [total_written : Nat, fifo : Nat, use_latency : BOOLEAN, applied : Seq(Int)]
      /\ player \in [pc : PlayerLabels, len : 0..4, client_ptr : Int, serv_ptr : Int]
      /\ app \in [pc : AppLabels, buf : Seq(Told \cup {Nul}), index : Nat]
      /\ wire \in [requests : Seq(RequestUnit), answers : Seq(Told)]
      /\ app.index <= Len(app.buf)
  BY DEF TypeInv, RdOK, PlayerOK, WireOK, AppOK
<1>2. ASSUME RdOK', PlayerOK', app' \in [pc : AppLabels, buf : Seq(Told \cup {Nul}), index : Nat],
             app'.index <= Len(app'.buf), app'.pc = "closed" => ~conn.ctl,
             wire' \in [requests : Seq(RequestUnit), answers : Seq(Told)],
             HistoryOK', UNCHANGED conn
      PROVE  TypeInv'
  <2>1. Told' = Told
    BY <1>2 DEF Told
  <2> QED BY <1>2, <2>1 DEF TypeInv, AppOK, ConnOK, WireOK
<1>3. ASSUME NEW l \in AppLabels, AppGives(l)
      PROVE  /\ app' \in [pc : AppLabels, buf : Seq(Told \cup {Nul}), index : Nat]
             /\ app'.index <= Len(app'.buf) /\ app'.pc = l
  <2>1. << >> \in Seq(Told \cup {Nul}) /\ Len(<< >>) = 0
    OBVIOUS
  <2>2. app' = [app EXCEPT !.pc = l, !.buf = << >>, !.index = 0]
    BY <1>3 DEF AppGives
  <2> DEFINE B == Seq(Told \cup {Nul})
             e == << >>
  <2>3. e \in B /\ Len(e) = 0 /\ app \in [pc : AppLabels, buf : B, index : Nat]
        /\ app' = [app EXCEPT !.pc = l, !.buf = e, !.index = 0]
    BY <1>1, <2>1, <2>2
  <2> HIDE DEF B, e
  <2>4. app' \in [pc : AppLabels, buf : B, index : Nat]
        /\ app'.index = 0 /\ app'.buf = e /\ app'.pc = l
    BY <2>3
  <2> QED BY <2>3, <2>4 DEF B
<1>4. AppLabels = {"connected", "ready", "wait", "closed", "refused", "stopped"}
  BY DEF AppLabels
<1>5. ASSUME NEW l \in AppLabels, app' = [app EXCEPT !.pc = l]
      PROVE  /\ app' \in [pc : AppLabels, buf : Seq(Told \cup {Nul}), index : Nat]
             /\ app'.index <= Len(app'.buf) /\ app'.pc = l
  BY <1>1, <1>5
<1>6. CASE rsnd_send_identity_info
  <2>1. PICK name \in Names : IF name = "" THEN UNCHANGED <<wire, history>>
                              ELSE Send(Request("IDENTITY", 0, name))
    BY <1>6 DEF rsnd_send_identity_info
  <2>2. Request("IDENTITY", 0, name) \in RequestMsg
    BY ControlAssumption DEF Request, RequestMsg, NameKinds
  <2>3. HistoryOK' /\ wire' \in [requests : Seq(RequestUnit), answers : Seq(Told)]
    <3>1. CASE name = ""
      BY <1>1, <2>1, <3>1 DEF TypeInv, HistoryOK
    <3>2. CASE name # ""
      BY <2>1, <2>2, <3>2, SendFacts
    <3> QED BY <3>1, <3>2
  <2>4. app' = [app EXCEPT !.pc = "ready"] /\ UNCHANGED <<rd, player, conn>>
    BY <1>6 DEF rsnd_send_identity_info
  <2> QED BY <1>2, <1>4, <1>5, <2>3, <2>4 DEF TypeInv, RdOK, PlayerOK
<1>7. CASE rsd_write \/ rsd_delay
  <2>1. RdOK'
    <3>1. CASE rsd_write
      <4> DEFINE f == rd.fifo + Chunk
      <4>0. rd.fifo \in Nat /\ Chunk \in Nat
        BY <1>1, ControlAssumption
      <4>1. f \in Nat /\ rd' = [rd EXCEPT !.fifo = f]
        BY <3>1, <4>0 DEF rsd_write
      <4> HIDE DEF f
      <4> QED BY <1>1, <4>1 DEF RdOK
    <3>2. CASE rsd_delay
      BY <1>1, <3>2 DEF rsd_delay, RdOK
    <3> QED BY <1>7, <3>1, <3>2
  <2>2. UNCHANGED <<player, app, conn, wire, history>>
    BY <1>7 DEF rsd_write, rsd_delay
  <2> QED BY <1>1, <1>2, <2>1, <2>2 DEF TypeInv, PlayerOK, HistoryOK
<1>8. CASE rsd_stop \/ rsnd_close_ctl
  <2>1. PICK m \in RequestMsg : Send(m)
    <3>1. Request("STOP", 0, "") \in RequestMsg /\ Request("CLOSECTL", 0, "") \in RequestMsg
      BY DEF Request, RequestMsg, NameKinds
    <3> QED BY <1>8, <3>1 DEF rsd_stop, rsnd_close_ctl
  <2>2. HistoryOK' /\ wire' \in [requests : Seq(RequestUnit), answers : Seq(Told)]
    BY <2>1, SendFacts
  <2>3. PlayerOK'
    BY <1>1, <1>8 DEF rsd_stop, rsnd_close_ctl, Player, PlayerOK, PlayerLabels
  <2>4. /\ app' = [app EXCEPT !.pc = "stopped"] \/ app' = [app EXCEPT !.pc = "wait"]
        /\ UNCHANGED <<rd, conn>>
    BY <1>8 DEF rsd_stop, rsnd_close_ctl
  <2> QED BY <1>2, <1>4, <1>5, <2>2, <2>3, <2>4 DEF TypeInv, RdOK
<1>9. CASE CloseCtlRead
  <2>1. PICK units \in Arrived(Len(wire.answers), "answers") :
          LET text == Text(units)
              str  == Str(text)
          IN  /\ wire' = Rest("answers", units)
              /\ \/ FoundOK(str) /\ AppGives("closed")
                 \/ ~FoundOK(str) /\ LastR(str) = 0 /\ app' = [app EXCEPT !.buf = text, !.index = 0]
                 \/ /\ ~FoundOK(str) /\ LastR(str) # 0
                    /\ app' = [app EXCEPT !.buf = Moved(text), !.index = Len(str) - LastR(str) + 1]
              /\ app.pc = "wait" /\ UNCHANGED <<rd, player, conn, history>>
    BY <1>9 DEF CloseCtlRead
  <2> DEFINE text == Text(units)
             str == Str(text)
             n == Len(str) - LastR(str) + 1
             buf == Moved(text)
  <2>2. /\ units \in Seq(Told)
        /\ SubSeq(wire.answers, Len(units) + 1, Len(wire.answers)) \in Seq(Told)
    <3>1. wire["answers"] \in Seq(Told) /\ Len(wire.answers) \in Nat
      BY <1>1
    <3> QED BY <3>1, ArrivedFacts
  <2>3. wire' \in [requests : Seq(RequestUnit), answers : Seq(Told)]
    BY <1>1, <2>1, <2>2 DEF Rest
  <2>4. text \in Seq(Told \cup {Nul}) /\ str \in Seq(Told \cup {Nul})
    BY <2>2, TextFacts, StrFacts
  <2>5. \/ FoundOK(str) /\ AppGives("closed")
        \/ app' = [app EXCEPT !.buf = text, !.index = 0]
        \/ LastR(str) # 0 /\ app' = [app EXCEPT !.buf = buf, !.index = n]
    BY <2>1
  <2>6. LastR(str) # 0 => buf \in Seq(Told \cup {Nul}) /\ n \in Nat /\ n <= Len(buf)
    <3> HIDE DEF text
    <3> QED BY <2>4, MovedFacts
  <2>7. FoundOK(str) => ~conn.ctl
    <3> HIDE DEF str
    <3> QED BY <2>4, OKFacts
  <2> HIDE DEF text, str, n, buf
  <2>8. /\ app' \in [pc : AppLabels, buf : Seq(Told \cup {Nul}), index : Nat]
        /\ app'.index <= Len(app'.buf) /\ (app'.pc = "closed" => ~conn.ctl)
    <3>1. CASE FoundOK(str) /\ AppGives("closed")
      BY <1>3, <1>4, <2>7, <3>1
    <3>2. CASE app' = [app EXCEPT !.buf = text, !.index = 0]
      <4>1. Len(text) \in Nat
        BY <2>4
      <4>2. app' \in [pc : AppLabels, buf : Seq(Told \cup {Nul}), index : Nat]
            /\ app'.index = 0 /\ app'.buf = text /\ app'.pc = app.pc
        BY <1>1, <2>4, <3>2
      <4> QED BY <2>1, <4>1, <4>2
    <3>3. CASE LastR(str) # 0 /\ app' = [app EXCEPT !.buf = buf, !.index = n]
      BY <1>1, <2>1, <2>6, <3>3
    <3> QED BY <2>5, <3>1, <3>2, <3>3
  <2> QED BY <1>2, <2>1, <2>3, <2>8 DEF TypeInv, RdOK, PlayerOK, HistoryOK
<1>10. CASE CloseCtlHup \/ CloseCtlFails
  <2>1. /\ (AppGives("closed") /\ ~conn.ctl) \/ AppGives("refused")
        /\ UNCHANGED <<rd, player, conn, wire, history>>
    BY <1>10 DEF CloseCtlHup, CloseCtlFails
  <2> QED BY <1>1, <1>2, <1>3, <1>4, <2>1 DEF TypeInv, RdOK, PlayerOK, HistoryOK
<1> QED BY <1>6, <1>7, <1>8, <1>9, <1>10 DEF Application

\* The request a body is taken for is one that it says.
LEMMA ProtoFacts ==
  ASSUME NEW u
  PROVE  /\ get_proto(u) \in {"none", "NULL", "STOP", "INFO", "IDENTITY", "CLOSECTL"}
         /\ get_proto(u) # "none" => Says(u, get_proto(u))
<1> DEFINE P == {j \in 1..Len(Keywords) : Says(u, Keywords[j])}
           i == First(P)
<1>1. Len(Keywords) = 5 /\ \A j \in 1..5 : Keywords[j] \in {"NULL", "STOP", "INFO", "IDENTITY", "CLOSECTL"}
  BY DEF Keywords
<1>2. i \in P \cup {0}
  <2>1. P \in SUBSET (1..Len(Keywords)) /\ Len(Keywords) \in Nat
    BY <1>1
  <2> HIDE DEF P
  <2> QED BY <2>1, PlaceFacts
<1>3. get_proto(u) = IF i = 0 THEN "none" ELSE Keywords[i]
  BY DEF get_proto
<1>4. i # 0 => i \in 1..5 /\ Says(u, Keywords[i])
  BY <1>1, <1>2
<1> HIDE DEF i
<1> QED BY <1>1, <1>3, <1>4

\* What handle_ctl_request does with a body.
Dropped(u) == /\ conn' = [conn EXCEPT !.pc = "idle"]
              /\ wire' = Rest("requests", u) /\ history' = history

Noted(u) == \E word \in {"NULL", "IDENTITY", "STOP"} :
              /\ Says(u, word) /\ wire' = Rest("requests", u)
              /\ history' = [history EXCEPT !.acted = Append(history.acted, word)]
              /\ \/ conn' = [conn EXCEPT !.pc = "idle"]
                 \/ conn' = [conn EXCEPT !.pc = "ended", !.ctl = FALSE]

Informed(u) == \E latency \in 0..Latency :
                 /\ Says(u, "INFO") /\ conn' = [conn EXCEPT !.pc = "idle"]
                 /\ send_proto(Answer("INFO", client_ptr(u), conn.serv_ptr - latency), u)

LetGo(u) == /\ Says(u, "CLOSECTL") /\ conn' = [conn EXCEPT !.pc = "idle", !.ctl = FALSE]
            /\ send_proto(Answer("OK", 0, 0), u)

LEMMA BodyCases ==
  ASSUME HandleBody
  PROVE  /\ conn.pc = "body" /\ UNCHANGED <<rd, player, app>>
         /\ \E u \in Arrived(conn.len, "requests") : Dropped(u) \/ Noted(u) \/ Informed(u) \/ LetGo(u)
<1>1. PICK u \in Arrived(conn.len, "requests") :
        LET proto == IF Len(u) < conn.len THEN "none" ELSE get_proto(u)
            Back  == conn' = [conn EXCEPT !.pc = "idle"]
            Note  == history' = [history EXCEPT !.acted = Append(history.acted, proto)]
        IN
        /\ conn.pc = "body" /\ UNCHANGED <<rd, player, app>>
        /\ \/ /\ proto \in {"none", "NULL", "IDENTITY"} /\ Back
              /\ wire' = Rest("requests", u)
              /\ IF proto = "none" THEN UNCHANGED history ELSE Note
           \/ /\ proto = "STOP" /\ conn' = [conn EXCEPT !.pc = "ended", !.ctl = FALSE]
              /\ wire' = Rest("requests", u) /\ Note
           \/ /\ proto = "INFO" /\ Back
              /\ \E latency \in 0..Latency :
                   send_proto(Answer("INFO", client_ptr(u), conn.serv_ptr - latency), u)
           \/ /\ proto = "CLOSECTL" /\ conn' = [conn EXCEPT !.pc = "idle", !.ctl = FALSE]
              /\ send_proto(Answer("OK", 0, 0), u)
  BY DEF HandleBody
<1> DEFINE proto == IF Len(u) < conn.len THEN "none" ELSE get_proto(u)
<1>2. proto # "none" => Says(u, proto)
  BY ProtoFacts
<1>3. \/ proto = "none" /\ Dropped(u)
      \/ /\ proto \in {"NULL", "IDENTITY", "STOP"} /\ wire' = Rest("requests", u)
         /\ history' = [history EXCEPT !.acted = Append(history.acted, proto)]
         /\ \/ conn' = [conn EXCEPT !.pc = "idle"]
            \/ conn' = [conn EXCEPT !.pc = "ended", !.ctl = FALSE]
      \/ /\ proto = "INFO" /\ conn' = [conn EXCEPT !.pc = "idle"]
         /\ \E latency \in 0..Latency :
              send_proto(Answer("INFO", client_ptr(u), conn.serv_ptr - latency), u)
      \/ /\ proto = "CLOSECTL" /\ conn' = [conn EXCEPT !.pc = "idle", !.ctl = FALSE]
         /\ send_proto(Answer("OK", 0, 0), u)
  BY <1>1 DEF Dropped
<1> HIDE DEF proto
<1>4. Dropped(u) \/ Noted(u) \/ Informed(u) \/ LetGo(u)
  BY <1>2, <1>3 DEF Noted, Informed, LetGo
<1> QED BY <1>1, <1>4

\* An answer lengthens the stream of answers behind the request it answers.
LEMMA AnswerFacts ==
  ASSUME TypeInv, NEW m \in AnswerMsg, NEW u \in Arrived(conn.len, "requests"), send_proto(m, u)
  PROVE  \E units \in Taken(m) :
           /\ wire'.requests = Rest("requests", u).requests
           /\ wire'.answers = wire.answers \o units
           /\ wire' \in [requests : Seq(RequestUnit), answers : Seq(AnswerUnit)]
           /\ m.type # "OK" => wire' \in [requests : Seq(RequestUnit), answers : Seq(Told)]
           /\ history'.acted = Append(history.acted, m.type)
           /\ history'.answered = history.answered \cup {<<m.c, m.s>>}
           /\ history'.asked = history.asked
           /\ history'.cut = (history.cut \/ units \notin {<< >>, Units(m)})
           /\ HistoryOK'
<1>1. PICK units \in Taken(m) :
        /\ wire' = [Rest("requests", u) EXCEPT !.answers = Rest("requests", u).answers \o units]
        /\ history' = [history EXCEPT !.acted = Append(history.acted, m.type),
                                      !.answered = history.answered \cup {<<m.c, m.s>>},
                                      !.cut = history.cut \/ units \notin {<< >>, Units(m)}]
  BY DEF send_proto
<1> DEFINE rest == SubSeq(wire.requests, Len(u) + 1, Len(wire.requests))
           w == wire.answers \o units
           a == Append(history.acted, m.type)
           d == history.answered \cup {<<m.c, m.s>>}
           c == history.cut \/ units \notin {<< >>, Units(m)}
<1>2. /\ wire \in [requests : Seq(RequestUnit), answers : Seq(Told)] /\ conn.len \in Nat
      /\ wire["requests"] \in Seq(RequestUnit) /\ wire.answers \in Seq(Told)
      /\ history \in [asked : Seq(RequestMsg), acted : Seq(Verdicts),
                      answered : SUBSET (Nat \X Int), queries : Nat, cut : BOOLEAN]
  BY DEF TypeInv, WireOK, ConnOK, HistoryOK
<1>3. rest \in Seq(RequestUnit)
  BY <1>2, ArrivedFacts
<1>4. /\ units \in Seq({"RSD", "len", "b1", "b2", "b3", "b4"} \X {m})
      /\ units \in Seq(AnswerUnit) /\ (m.type # "OK" => units \in Seq(Told))
  <2>1. units \in Seq({"RSD", "len", "b1", "b2", "b3", "b4"} \X {m})
    BY TakenFacts, Zenon
  <2>2. {"RSD", "len", "b1", "b2", "b3", "b4"} \X {m} \subseteq AnswerUnit
    BY DEF AnswerUnit
  <2>3. m.type # "OK" => {"RSD", "len", "b1", "b2", "b3", "b4"} \X {m} \subseteq Told
    BY <2>2 DEF Told, Early
  <2> QED BY <2>1, <2>2, <2>3
<1>5. w \in Seq(AnswerUnit) /\ (m.type # "OK" => w \in Seq(Told))
  <2>1. wire.answers \in Seq(AnswerUnit)
    BY <1>2, ToldUnits
  <2> QED BY <1>2, <1>4, <2>1, JoinFacts
<1>6. a \in Seq(Verdicts) /\ d \in SUBSET (Nat \X Int) /\ c \in BOOLEAN
  <2>1. m.type \in Verdicts /\ m.c \in Nat /\ m.s \in Int
    BY DEF AnswerMsg, Verdicts
  <2>2. a \in Seq(Verdicts)
    BY <1>2, <2>1, AppendFacts
  <2> QED BY <1>2, <2>1, <2>2
<1>7. Rest("requests", u) = [wire EXCEPT !.requests = rest]
  BY DEF Rest
<1>8. /\ wire' = [[wire EXCEPT !.requests = rest] EXCEPT !.answers = w]
      /\ history' = [history EXCEPT !.acted = a, !.answered = d, !.cut = c]
  BY <1>1, <1>2, <1>7
<1> HIDE DEF rest, w, a, d, c
<1>9. /\ wire'.requests = rest /\ wire'.answers = w
      /\ wire' \in [requests : Seq(RequestUnit), answers : Seq(AnswerUnit)]
      /\ m.type # "OK" => wire' \in [requests : Seq(RequestUnit), answers : Seq(Told)]
  BY <1>2, <1>3, <1>5, <1>8
<1>10. /\ history'.acted = a /\ history'.answered = d /\ history'.asked = history.asked
       /\ history'.cut = c /\ HistoryOK'
  BY <1>2, <1>6, <1>8 DEF HistoryOK
<1>11. Rest("requests", u).requests = rest
  BY <1>2, <1>7
<1> QED BY <1>9, <1>10, <1>11 DEF w, a, d, c

\* The answer to an INFO query.
LEMMA InformedMsg ==
  ASSUME TypeInv, NEW u \in Arrived(conn.len, "requests"), Informed(u)
  PROVE  \E m \in AnswerMsg : /\ send_proto(m, u) /\ m.type = "INFO" /\ m.c = client_ptr(u)
<1>1. PICK latency \in 0..Latency :
        send_proto(Answer("INFO", client_ptr(u), conn.serv_ptr - latency), u)
  BY DEF Informed
<1> DEFINE s == conn.serv_ptr - latency
           c == client_ptr(u)
           m == Answer("INFO", c, s)
<1>2. conn.serv_ptr \in Nat /\ conn.len \in Nat /\ wire["requests"] \in Seq(RequestUnit)
  BY DEF TypeInv, ConnOK, WireOK
<1>3. s \in Int
  <2>1. latency \in Int
    <3>1. latency \in 0..Latency
      BY <1>1
    <3>2. Latency \in Nat
      BY ControlAssumption
    <3> QED BY <3>1, <3>2
  <2> QED BY <1>2, <2>1
<1>4. u \in Seq(RequestUnit)
  BY <1>2, ArrivedFacts
<1>5. c \in Nat
  <2>1. 2 \in 1..Len(u) => u[2][2].c \in Nat
    <3> SUFFICES ASSUME 2 \in 1..Len(u) PROVE u[2][2].c \in Nat
      OBVIOUS
    <3>1. u[2] \in RequestUnit
      BY <1>4
    <3>2. u[2][2] \in RequestMsg
      BY <3>1 DEF RequestUnit
    <3> QED BY <3>2 DEF RequestMsg
  <2> QED BY <1>4, <2>1, AskedNumber
<1> HIDE DEF s, c
<1>6. m \in AnswerMsg /\ m.type = "INFO" /\ m.c = c
  BY <1>3, <1>5 DEF Answer, AnswerMsg
<1>7. send_proto(m, u)
  BY <1>1 DEF s, c
<1> QED BY <1>6, <1>7 DEF c

LEMMA ServerTypes == TypeInv /\ rsd_thread => TypeInv'
<1> SUFFICES ASSUME TypeInv, rsd_thread PROVE TypeInv'
  OBVIOUS
<1>1. /\ conn \in [pc : {"idle", "body", "ended"}, len : 0..4, serv_ptr : Nat, ctl : BOOLEAN]
      /\ wire \in [requests : Seq(RequestUnit), answers : Seq(Told)]
      /\ history \in [asked : Seq(RequestMsg), acted : Seq(Verdicts),
                      answered : SUBSET (Nat \X Int), queries : Nat, cut : BOOLEAN]
  BY DEF TypeInv, ConnOK, WireOK, HistoryOK
<1>2. ASSUME ConnOK', conn'.ctl => conn.ctl,
             wire' \in [requests : Seq(RequestUnit), answers : Seq(Told')],
             HistoryOK', UNCHANGED <<rd, player, app>>
      PROVE  TypeInv'
  <2>1. Told \subseteq Told'
    BY <1>1, <1>2 DEF Told, Early
  <2>2. app.buf \in Seq(Told' \cup {Nul})
    <3>1. app.buf \in Seq(Told \cup {Nul})
      BY DEF TypeInv, AppOK
    <3> QED BY <2>1, <3>1
  <2>3. AppOK'
    BY <1>2, <2>2 DEF TypeInv, AppOK
  <2> QED BY <1>2, <2>3 DEF TypeInv, RdOK, PlayerOK, WireOK
<1>3. ASSUME conn'.ctl = conn.ctl, wire' \in [requests : Seq(RequestUnit), answers : Seq(Told)]
      PROVE  wire' \in [requests : Seq(RequestUnit), answers : Seq(Told')]
  <2>1. Told' = Told
    BY <1>3 DEF Told
  <2> QED BY <1>3, <2>1
<1>4. ASSUME ~conn'.ctl, wire' \in [requests : Seq(RequestUnit), answers : Seq(AnswerUnit)]
      PROVE  wire' \in [requests : Seq(RequestUnit), answers : Seq(Told')]
  <2>1. Told' = AnswerUnit
    BY <1>4 DEF Told
  <2> QED BY <1>4, <2>1
<1>5. wire \in [requests : Seq(RequestUnit), answers : Seq(AnswerUnit)]
  BY <1>1, ToldUnits
<1>6. ASSUME NEW n \in Nat, NEW u \in Arrived(n, "requests")
      PROVE  u \in Seq(RequestUnit)
             /\ SubSeq(wire.requests, Len(u) + 1, Len(wire.requests)) \in Seq(RequestUnit)
  <2>1. wire["requests"] \in Seq(RequestUnit)
    BY <1>1
  <2> QED BY <2>1, ArrivedFacts
<1>7. ASSUME NEW n \in Nat, NEW u \in Arrived(n, "requests"), wire' = Rest("requests", u)
      PROVE  /\ wire' \in [requests : Seq(RequestUnit), answers : Seq(Told)]
             /\ wire' \in [requests : Seq(RequestUnit), answers : Seq(AnswerUnit)]
  <2> DEFINE rest == SubSeq(wire.requests, Len(u) + 1, Len(wire.requests))
  <2>1. rest \in Seq(RequestUnit) /\ wire' = [wire EXCEPT !.requests = rest]
    BY <1>6, <1>7 DEF Rest
  <2> HIDE DEF rest
  <2> QED BY <1>1, <1>5, <2>1
<1>8. CASE receive_data
  <2>1. ConnOK' /\ conn'.ctl = conn.ctl
    <3> DEFINE p == conn.serv_ptr + Chunk
    <3>1. conn.serv_ptr \in Nat /\ Chunk \in Nat
      BY <1>1, ControlAssumption
    <3>2. p \in Nat /\ conn' = [conn EXCEPT !.serv_ptr = p]
      BY <1>8, <3>1 DEF receive_data
    <3> HIDE DEF p
    <3> QED BY <1>1, <3>2 DEF ConnOK
  <2> QED BY <1>1, <1>2, <1>3, <1>8, <2>1 DEF receive_data, HistoryOK
<1>9. CASE HandleHeader
  <2>1. PICK u \in Arrived(Header, "requests") :
          /\ u # << >> /\ wire' = Rest("requests", u)
          /\ conn' = IF HeaderLen(u) > 0 THEN [conn EXCEPT !.pc = "body", !.len = HeaderLen(u)] ELSE conn
          /\ UNCHANGED <<rd, player, app, history>>
    BY <1>9 DEF HandleHeader
  <2>2. Header \in Nat /\ 1 \in 1..Header
    BY DEF Header
  <2>3. u \in Seq(RequestUnit) /\ wire' \in [requests : Seq(RequestUnit), answers : Seq(Told)]
    BY <1>6, <1>7, <2>1, <2>2
  <2>4. HeaderLen(u) \in 0..4
    <3>1. CASE Len(u) = Header /\ u[1][1] = "RSD"
      <4>1. u[1] \in RequestUnit
        BY <2>2, <2>3, <3>1
      <4>2. u[1][2] \in RequestMsg
        BY <4>1 DEF RequestUnit
      <4>3. BodyLen(u[1][2]) \in 1..4
        BY <4>2, UnitFacts
      <4>4. HeaderLen(u) = BodyLen(u[1][2])
        BY <3>1 DEF HeaderLen
      <4> QED BY <4>3, <4>4
    <3>2. CASE ~(Len(u) = Header /\ u[1][1] = "RSD")
      BY <3>2 DEF HeaderLen
    <3> QED BY <3>1, <3>2
  <2>5. ConnOK' /\ conn'.ctl = conn.ctl
    <3> DEFINE l == HeaderLen(u)
    <3>1. l \in 0..4 /\ (conn' = [conn EXCEPT !.pc = "body", !.len = l] \/ conn' = conn)
      BY <2>1, <2>4
    <3> HIDE DEF l
    <3> QED BY <1>1, <3>1 DEF ConnOK
  <2> QED BY <1>1, <1>2, <1>3, <2>1, <2>3, <2>5 DEF HistoryOK
<1>10. CASE HandleBody
  <2>1. PICK u \in Arrived(conn.len, "requests") : Dropped(u) \/ Noted(u) \/ Informed(u) \/ LetGo(u)
    BY <1>10, BodyCases
  <2>2. UNCHANGED <<rd, player, app>>
    BY <1>10, BodyCases
  <2>3. conn.len \in Nat /\ conn.serv_ptr \in Nat
    BY <1>1
  <2>4. u \in Seq(RequestUnit)
    BY <1>6, <2>3
  <2>5. ASSUME conn' = [conn EXCEPT !.pc = "idle"] PROVE ConnOK' /\ conn'.ctl = conn.ctl
    BY <1>1, <2>5 DEF ConnOK
  <2>6. ASSUME NEW l \in {"idle", "ended"}, conn' = [conn EXCEPT !.pc = l, !.ctl = FALSE]
        PROVE  ConnOK' /\ ~conn'.ctl
    BY <1>1, <2>6 DEF ConnOK
  <2>7. CASE Dropped(u)
    BY <1>1, <1>2, <1>3, <1>7, <2>2, <2>3, <2>5, <2>7 DEF Dropped, HistoryOK
  <2>8. CASE Noted(u)
    <3>1. PICK word \in {"NULL", "IDENTITY", "STOP"} :
            /\ wire' = Rest("requests", u)
            /\ history' = [history EXCEPT !.acted = Append(history.acted, word)]
            /\ \/ conn' = [conn EXCEPT !.pc = "idle"]
               \/ conn' = [conn EXCEPT !.pc = "ended", !.ctl = FALSE]
      BY <2>8 DEF Noted
    <3> DEFINE a == Append(history.acted, word)
    <3>2. a \in Seq(Verdicts)
      BY <1>1, AppendFacts DEF Verdicts
    <3>3. history' = [history EXCEPT !.acted = a]
      BY <3>1
    <3> HIDE DEF a
    <3>4. HistoryOK'
      BY <1>1, <3>2, <3>3 DEF HistoryOK
    <3> QED BY <1>2, <1>3, <1>4, <1>7, <2>2, <2>3, <2>5, <2>6, <3>1, <3>4
  <2>9. CASE Informed(u)
    <3>1. PICK m \in AnswerMsg : send_proto(m, u) /\ m.type = "INFO"
      BY <2>9, InformedMsg
    <3>2. HistoryOK' /\ wire' \in [requests : Seq(RequestUnit), answers : Seq(Told)]
      BY <3>1, AnswerFacts
    <3>3. conn' = [conn EXCEPT !.pc = "idle"]
      BY <2>9 DEF Informed
    <3> QED BY <1>2, <1>3, <2>2, <2>5, <3>2, <3>3
  <2>10. CASE LetGo(u)
    <3> DEFINE m == Answer("OK", 0, 0)
    <3>1. m \in AnswerMsg
      BY DEF Answer, AnswerMsg
    <3>2. send_proto(m, u) /\ conn' = [conn EXCEPT !.pc = "idle", !.ctl = FALSE]
      BY <2>10 DEF LetGo
    <3> HIDE DEF m
    <3>3. HistoryOK' /\ wire' \in [requests : Seq(RequestUnit), answers : Seq(AnswerUnit)]
      BY <3>1, <3>2, AnswerFacts
    <3> QED BY <1>2, <1>4, <2>2, <2>6, <3>2, <3>3
  <2> QED BY <2>1, <2>7, <2>8, <2>9, <2>10
<1> QED BY <1>8, <1>9, <1>10 DEF rsd_thread

LEMMA TypeStep == TypeInv /\ [Next]_vars => TypeInv'
<1> SUFFICES ASSUME TypeInv, [Next]_vars PROVE TypeInv'
  OBVIOUS
<1>1. CASE UNCHANGED vars
  BY <1>1 DEF vars, TypeInv, RdOK, PlayerOK, AppOK, ConnOK, WireOK, HistoryOK, Told
<1>2. CASE rsnd_thread
  BY <1>2, PlayerTypes
<1>3. CASE Application
  BY <1>3, AppTypes
<1>4. CASE rsd_thread
  BY <1>4, ServerTypes
<1> QED BY <1>1, <1>2, <1>3, <1>4 DEF Next, Done

-----------------------------------------------------------------------------
(***************************************************************************)
(* rsnd_close_ctl succeeds only when the server has let go of the control   *)
(* connection: as long as it has not, no unit of an OK is on the wire or in *)
(* the buffer, wherever reads end and whatever earlier reads left behind.   *)
(***************************************************************************)
THEOREM CloseCtlIsHonest == Spec => []CloseCtlHonest
<1>1. TypeInv => CloseCtlHonest
  BY DEF TypeInv, CloseCtlHonest
<1> QED BY <1>1, TypeInit, TypeStep, PTL DEF Spec

-----------------------------------------------------------------------------
(***************************************************************************)
(* The server acts only on requests.  Every unit on the wire can be traced  *)
(* to a request that was made (h), in order; every verdict of the server to *)
(* one before it (f).  Only the end of the last request it acted on can be  *)
(* left on the wire, and it is skipped before the next body is read.        *)
(***************************************************************************)
Fits(m, word) == m.type = word \/ (word = "OK" /\ m.type = "CLOSECTL") \/ m.name = word

\* Units of one request come in their order.
Follows(a, b) == a # "b2" /\ (a = "b1" => b = "b2")

Trace(asked, acted, R, body, f, h) ==
  /\ f \in [1..Len(acted) -> 1..Len(asked)] /\ h \in [1..Len(R) -> 1..Len(asked)]
  /\ \A i \in 1..Len(acted) : Fits(asked[f[i]], acted[i])
  /\ \A i, j \in 1..Len(acted) : i < j => f[i] < f[j]
  /\ \A k \in 1..Len(R) : R[k][2] = asked[h[k]]
  /\ \A k, l \in 1..Len(R) :
       k < l => h[k] <= h[l] /\ (h[k] = h[l] => Follows(R[k][1], R[l][1]))
  /\ \A i \in 1..Len(acted), k \in 1..Len(R) :
       f[i] < h[k] \/ (f[i] = h[k] /\ ~body /\ R[k][1] = "b2")

Traced(asked, acted, R, body) == \E f, h : Trace(asked, acted, R, body, f, h)

\* A request that is sent is traced to itself.
LEMMA TraceSend ==
  ASSUME NEW asked \in Seq(RequestMsg), NEW acted \in Seq(Verdicts), NEW R \in Seq(RequestUnit),
         NEW body \in BOOLEAN, Traced(asked, acted, R, body),
         NEW m \in RequestMsg, NEW units \in Seq(RequestUnit), Len(units) <= BodyLen(m) + 2,
         \A i \in 1..Len(units) : units[i] = Units(m)[i]
  PROVE  Traced(Append(asked, m), acted, R \o units, body)
<1>1. PICK f, h : Trace(asked, acted, R, body, f, h)
  BY DEF Traced
<1> DEFINE n == Len(asked)
           r == Len(R)
           c == Len(units)
           asked2 == Append(asked, m)
           R2 == R \o units
           h2 == [k \in 1..(r + c) |-> IF k <= r THEN h[k] ELSE n + 1]
<1>2. /\ n \in Nat /\ r \in Nat /\ c \in Nat /\ Len(asked2) = n + 1
      /\ asked2[n + 1] = m /\ \A i \in 1..n : asked2[i] = asked[i]
  BY AppendFacts
<1>3. Len(R2) = r + c /\ (\A k \in 1..r : R2[k] = R[k]) /\ \A k \in 1..c : R2[r + k] = units[k]
  BY JoinFacts
<1>4. /\ BodyLen(m) \in 1..2 /\ Units(m)[1] = <<"RSD", m>> /\ Units(m)[2] = <<"len", m>>
      /\ \A i \in 1..BodyLen(m) : Units(m)[i + 2] = <<Body[i], m>>
  BY UnitFacts
<1>5. c <= 4 /\ \A k \in 1..c : /\ units[k][2] = m
                                /\ units[k][1] = IF k = 1 THEN "RSD" ELSE IF k = 2 THEN "len"
                                                 ELSE IF k = 3 THEN "b1" ELSE "b2"
  <2>1. c <= 4
    BY <1>2, <1>4
  <2>2. ASSUME NEW k \in 1..c
        PROVE  /\ units[k][2] = m
               /\ units[k][1] = IF k = 1 THEN "RSD" ELSE IF k = 2 THEN "len"
                                ELSE IF k = 3 THEN "b1" ELSE "b2"
    <3>1. units[k] = Units(m)[k]
      OBVIOUS
    <3>2. CASE k = 1
      BY <1>4, <3>1, <3>2
    <3>3. CASE k = 2
      BY <1>4, <3>1, <3>3
    <3>4. CASE k = 3
      <4>1. Units(m)[3] = <<Body[1], m>>
        <5>1. 1 \in 1..BodyLen(m) /\ 1 + 2 = 3
          BY <1>4
        <5> QED BY <1>4, <5>1
      <4> QED BY <3>1, <3>4, <4>1 DEF Body
    <3>5. CASE k = 4
      <4>1. BodyLen(m) = 2
        BY <1>2, <1>4, <3>5
      <4>2. Units(m)[4] = <<Body[2], m>>
        <5>1. 2 \in 1..BodyLen(m) /\ 2 + 2 = 4
          BY <4>1
        <5> QED BY <1>4, <5>1
      <4> QED BY <3>1, <3>5, <4>2 DEF Body
    <3>6. k \in {1, 2, 3, 4}
      BY <1>2, <2>1
    <3> QED BY <3>2, <3>3, <3>4, <3>5, <3>6
  <2> QED BY <2>1, <2>2
<1> HIDE DEF n, r, c, asked2, R2
<1>6. /\ f \in [1..Len(acted) -> 1..n] /\ h \in [1..r -> 1..n]
      /\ \A i \in 1..Len(acted) : Fits(asked[f[i]], acted[i])
      /\ \A i, j \in 1..Len(acted) : i < j => f[i] < f[j]
      /\ \A k \in 1..r : R[k][2] = asked[h[k]]
      /\ \A k, l \in 1..r : k < l => h[k] <= h[l] /\ (h[k] = h[l] => Follows(R[k][1], R[l][1]))
      /\ \A i \in 1..Len(acted), k \in 1..r :
           f[i] < h[k] \/ (f[i] = h[k] /\ ~body /\ R[k][1] = "b2")
  BY <1>1 DEF Trace, n, r
<1>7. /\ \A k \in 1..r : k \in 1..(r + c) /\ h2[k] = h[k] /\ h[k] \in 1..n /\ R2[k] = R[k]
      /\ \A k \in 1..(r + c) : k \notin 1..r =>
           /\ h2[k] = n + 1 /\ k - r \in 1..c /\ R2[k] = units[k - r]
  <2>1. ASSUME NEW k \in 1..r
        PROVE  k \in 1..(r + c) /\ h2[k] = h[k] /\ h[k] \in 1..n /\ R2[k] = R[k]
    <3>1. k \in 1..(r + c) /\ k <= r
      BY <1>2
    <3> QED BY <1>3, <1>6, <3>1
  <2>2. ASSUME NEW k \in 1..(r + c), k \notin 1..r
        PROVE  h2[k] = n + 1 /\ k - r \in 1..c /\ R2[k] = units[k - r]
    <3>1. ~(k <= r) /\ k - r \in 1..c /\ r + (k - r) = k
      BY <1>2, <2>2
    <3>2. R2[r + (k - r)] = units[k - r]
      BY <1>3, <3>1
    <3> QED BY <3>1, <3>2
  <2> QED BY <2>1, <2>2
<1>8. f \in [1..Len(acted) -> 1..(n + 1)] /\ h2 \in [1..(r + c) -> 1..(n + 1)]
  BY <1>2, <1>6, <1>7
<1> HIDE DEF h2
<1>9. \A i \in 1..Len(acted) : Fits(asked2[f[i]], acted[i])
  BY <1>2, <1>6
<1>10. \A k \in 1..(r + c) : R2[k][2] = asked2[h2[k]]
  <2> SUFFICES ASSUME NEW k \in 1..(r + c) PROVE R2[k][2] = asked2[h2[k]]
    OBVIOUS
  <2>1. CASE k \in 1..r
    <3>1. R2[k] = R[k] /\ h2[k] = h[k] /\ h[k] \in 1..n
      BY <1>7, <2>1
    <3>2. R[k][2] = asked[h[k]] /\ asked2[h[k]] = asked[h[k]]
      BY <1>2, <1>6, <2>1, <3>1
    <3> QED BY <3>1, <3>2
  <2>2. CASE k \notin 1..r
    <3>1. R2[k] = units[k - r] /\ k - r \in 1..c /\ h2[k] = n + 1
      BY <1>7, <2>2
    <3>2. units[k - r][2] = m
      BY <1>5, <3>1
    <3> QED BY <1>2, <3>1, <3>2
  <2> QED BY <2>1, <2>2
<1>11. ASSUME NEW k \in 1..(r + c), NEW l \in 1..(r + c), k < l
       PROVE  h2[k] <= h2[l] /\ (h2[k] = h2[l] => Follows(R2[k][1], R2[l][1]))
  <2>1. CASE l \in 1..r
    <3>1. k \in 1..r
      BY <1>2, <1>11, <2>1
    <3> QED BY <1>6, <1>7, <1>11, <2>1, <3>1
  <2>2. CASE l \notin 1..r /\ k \in 1..r
    <3>1. h2[k] \in 1..n /\ h2[l] = n + 1
      BY <1>7, <2>2
    <3> QED BY <1>2, <3>1
  <2>3. CASE l \notin 1..r /\ k \notin 1..r
    <3>1. k - r \in 1..c /\ l - r \in 1..c /\ k - r < l - r
      BY <1>2, <1>7, <1>11, <2>3
    <3>2. R2[k][1] # "b2" /\ (R2[k][1] = "b1" => R2[l][1] = "b2")
      <4> DEFINE x == k - r
                 y == l - r
      <4>1. R2[k] = units[x] /\ R2[l] = units[y] /\ x \in 1..c /\ y \in 1..c /\ x < y
        BY <1>7, <2>3, <3>1
      <4> HIDE DEF x, y
      <4>2. x \in 1..4 /\ y \in 1..4
        BY <1>2, <1>5, <4>1
      <4> QED BY <1>5, <4>1, <4>2
    <3> QED BY <1>2, <1>7, <2>3, <3>2 DEF Follows
  <2> QED BY <2>1, <2>2, <2>3
<1>12. ASSUME NEW i \in 1..Len(acted), NEW k \in 1..(r + c)
       PROVE  f[i] < h2[k] \/ (f[i] = h2[k] /\ ~body /\ R2[k][1] = "b2")
  <2>1. CASE k \in 1..r
    BY <1>6, <1>7, <2>1
  <2>2. CASE k \notin 1..r
    <3>1. f[i] \in 1..n /\ h2[k] = n + 1
      BY <1>6, <1>7, <2>2
    <3> QED BY <1>2, <3>1
  <2> QED BY <2>1, <2>2
<1>13. Trace(asked2, acted, R2, body, f, h2)
  BY <1>2, <1>3, <1>6, <1>8, <1>9, <1>10, <1>11, <1>12 DEF Trace
<1> QED BY <1>13 DEF Traced, asked2, R2

\* What is read leaves the trace of the rest.  A body is read next only if
\* what was read began with a header.
LEMMA TraceRead ==
  ASSUME NEW asked \in Seq(RequestMsg), NEW acted \in Seq(Verdicts), NEW R \in Seq(RequestUnit),
         NEW body \in BOOLEAN, Traced(asked, acted, R, body), NEW n \in 0..Len(R),
         NEW body2 \in BOOLEAN, body2 => n > 0 /\ R[1][1] = "RSD",
         NEW R2 \in Seq(RequestUnit), Len(R2) = Len(R) - n,
         \A k \in 1..(Len(R) - n) : R2[k] = R[n + k]
  PROVE  Traced(asked, acted, R2, body2)
<1>1. PICK f, h : Trace(asked, acted, R, body, f, h)
  BY DEF Traced
<1> DEFINE r == Len(R)
           a == Len(acted)
           M == 1..Len(asked)
           h2 == [k \in 1..(r - n) |-> h[n + k]]
<1>2. r \in Nat /\ n \in 0..r /\ Len(R2) = r - n /\ \A k \in 1..(r - n) : R2[k] = R[n + k]
  OBVIOUS
<1>3. /\ f \in [1..a -> M] /\ h \in [1..r -> M]
      /\ \A i \in 1..a : Fits(asked[f[i]], acted[i])
      /\ \A i, j \in 1..a : i < j => f[i] < f[j]
      /\ \A k \in 1..r : R[k][2] = asked[h[k]]
      /\ \A k, l \in 1..r : k < l => h[k] <= h[l] /\ (h[k] = h[l] => Follows(R[k][1], R[l][1]))
      /\ \A i \in 1..a, k \in 1..r :
           f[i] < h[k] \/ (f[i] = h[k] /\ ~body /\ R[k][1] = "b2")
  BY <1>1 DEF Trace
<1>10. M \subseteq Nat
  OBVIOUS
<1> HIDE DEF r, a, M
<1>4. \A k \in 1..(r - n) : n + k \in 1..r /\ h2[k] = h[n + k] /\ h[n + k] \in M
                            /\ R2[k] = R[n + k]
  BY <1>2, <1>3
<1>5. h2 \in [1..(r - n) -> M]
  BY <1>4
<1> HIDE DEF h2
<1>6. \A k \in 1..(r - n) : R2[k][2] = asked[h2[k]]
  BY <1>3, <1>4
<1>7. ASSUME NEW k \in 1..(r - n), NEW l \in 1..(r - n), k < l
      PROVE  h2[k] <= h2[l] /\ (h2[k] = h2[l] => Follows(R2[k][1], R2[l][1]))
  <2>1. n + k \in 1..r /\ n + l \in 1..r /\ n + k < n + l
    BY <1>2, <1>4, <1>7
  <2>2. h[n + k] <= h[n + l] /\ (h[n + k] = h[n + l] => Follows(R[n + k][1], R[n + l][1]))
    BY <1>3, <2>1
  <2>3. h2[k] = h[n + k] /\ h2[l] = h[n + l] /\ R2[k] = R[n + k] /\ R2[l] = R[n + l]
    BY <1>4
  <2> QED BY <2>2, <2>3
<1>8. ASSUME NEW i \in 1..a, NEW k \in 1..(r - n)
      PROVE  f[i] < h2[k] \/ (f[i] = h2[k] /\ ~body2 /\ R2[k][1] = "b2")
  <2>1. f[i] < h2[k] \/ (f[i] = h2[k] /\ R2[k][1] = "b2")
    <3>1. n + k \in 1..r /\ h2[k] = h[n + k] /\ R2[k] = R[n + k]
      BY <1>4
    <3>2. f[i] < h[n + k] \/ (f[i] = h[n + k] /\ R[n + k][1] = "b2")
      BY <1>3, <3>1
    <3> QED BY <3>1, <3>2
  <2>2. CASE body2
    <3>1. 1 \in 1..r /\ n + k \in 1..r /\ 1 < n + k /\ R[1][1] = "RSD"
      BY <1>2, <1>4, <2>2
    <3>2. f[i] < h[1] /\ h[1] <= h[n + k] /\ h2[k] = h[n + k]
      BY <1>3, <1>4, <3>1
    <3>3. f[i] \in Nat /\ h[1] \in Nat /\ h[n + k] \in Nat
      BY <1>3, <1>10, <3>1
    <3> QED BY <3>2, <3>3
  <2> QED BY <2>1, <2>2
<1>9. Trace(asked, acted, R2, body2, f, h2)
  BY <1>2, <1>3, <1>5, <1>6, <1>7, <1>8 DEF Trace, a, M
<1> QED BY <1>9 DEF Traced

\* A verdict is traced to the request whose body said it.
LEMMA TraceAct ==
  ASSUME NEW asked \in Seq(RequestMsg), NEW acted \in Seq(Verdicts), NEW R \in Seq(RequestUnit),
         Traced(asked, acted, R, TRUE), NEW n \in 0..Len(R),
         NEW p \in 1..n, R[p][1] \in {"b1", "b2"}, NEW word \in Verdicts, Fits(R[p][2], word),
         NEW R2 \in Seq(RequestUnit), Len(R2) = Len(R) - n,
         \A k \in 1..(Len(R) - n) : R2[k] = R[n + k]
  PROVE  Traced(asked, Append(acted, word), R2, FALSE)
<1>1. PICK f, h : Trace(asked, acted, R, TRUE, f, h)
  BY DEF Traced
<1> DEFINE r == Len(R)
           a == Len(acted)
           M == 1..Len(asked)
           acted2 == Append(acted, word)
           f2 == [i \in 1..(a + 1) |-> IF i <= a THEN f[i] ELSE h[p]]
           h2 == [k \in 1..(r - n) |-> h[n + k]]
<1>2. /\ r \in Nat /\ a \in Nat /\ n \in 0..r /\ p \in 1..n
      /\ Len(R2) = r - n /\ \A k \in 1..(r - n) : R2[k] = R[n + k]
  OBVIOUS
<1>3. /\ Len(acted2) = a + 1 /\ acted2[a + 1] = word /\ \A i \in 1..a : acted2[i] = acted[i]
  BY AppendFacts
<1>4. /\ f \in [1..a -> M] /\ h \in [1..r -> M]
      /\ \A i \in 1..a : Fits(asked[f[i]], acted[i])
      /\ \A i, j \in 1..a : i < j => f[i] < f[j]
      /\ \A k \in 1..r : R[k][2] = asked[h[k]]
      /\ \A k, l \in 1..r : k < l => h[k] <= h[l] /\ (h[k] = h[l] => Follows(R[k][1], R[l][1]))
      /\ \A i \in 1..a, k \in 1..r : f[i] < h[k]
  BY <1>1 DEF Trace
<1>5. M \subseteq Nat
  OBVIOUS
<1> HIDE DEF r, a, M, acted2
<1>6. p \in 1..r /\ h[p] \in M
  BY <1>2, <1>4
<1>7. /\ \A i \in 1..a : i \in 1..(a + 1) /\ f2[i] = f[i] /\ f[i] \in M
      /\ f2[a + 1] = h[p] /\ a + 1 \in 1..(a + 1)
      /\ \A i \in 1..(a + 1) : i \in 1..a \/ i = a + 1
  BY <1>2, <1>4
<1>8. f2 \in [1..(a + 1) -> M]
  BY <1>2, <1>4, <1>6
<1> HIDE DEF f2
<1>9. \A k \in 1..(r - n) : n + k \in 1..r /\ p < n + k /\ h2[k] = h[n + k] /\ h[n + k] \in M
                            /\ R2[k] = R[n + k]
  BY <1>2, <1>4
<1>10. h2 \in [1..(r - n) -> M]
  BY <1>9
<1> HIDE DEF h2
<1>11. \A i \in 1..(a + 1) : Fits(asked[f2[i]], acted2[i])
  <2> SUFFICES ASSUME NEW i \in 1..(a + 1) PROVE Fits(asked[f2[i]], acted2[i])
    OBVIOUS
  <2>1. CASE i \in 1..a
    BY <1>3, <1>4, <1>7, <2>1
  <2>2. CASE i = a + 1
    <3>1. asked[f2[i]] = R[p][2] /\ acted2[i] = word
      BY <1>3, <1>4, <1>6, <1>7, <2>2
    <3> QED BY <3>1
  <2> QED BY <1>7, <2>1, <2>2
<1>12. ASSUME NEW i \in 1..(a + 1), NEW j \in 1..(a + 1), i < j PROVE f2[i] < f2[j]
  <2>1. i \in 1..a
    BY <1>2, <1>12
  <2>2. CASE j \in 1..a
    BY <1>4, <1>7, <1>12, <2>1, <2>2
  <2>3. CASE j = a + 1
    BY <1>4, <1>6, <1>7, <2>1, <2>3
  <2> QED BY <1>7, <2>2, <2>3
<1>13. \A k \in 1..(r - n) : R2[k][2] = asked[h2[k]]
  BY <1>4, <1>9
<1>14. ASSUME NEW k \in 1..(r - n), NEW l \in 1..(r - n), k < l
       PROVE  h2[k] <= h2[l] /\ (h2[k] = h2[l] => Follows(R2[k][1], R2[l][1]))
  <2>1. n + k \in 1..r /\ n + l \in 1..r /\ n + k < n + l
    BY <1>2, <1>9, <1>14
  <2> QED BY <1>4, <1>9, <2>1
<1>15. ASSUME NEW i \in 1..(a + 1), NEW k \in 1..(r - n)
       PROVE  f2[i] < h2[k] \/ (f2[i] = h2[k] /\ ~FALSE /\ R2[k][1] = "b2")
  <2>1. CASE i \in 1..a
    BY <1>4, <1>7, <1>9, <2>1
  <2>2. CASE i = a + 1
    <3>1. /\ h[p] <= h[n + k] /\ (h[p] = h[n + k] => Follows(R[p][1], R[n + k][1]))
          /\ h[p] \in Nat /\ h[n + k] \in Nat
      BY <1>4, <1>5, <1>6, <1>9
    <3>2. h[p] = h[n + k] => R[n + k][1] = "b2"
      BY <3>1 DEF Follows
    <3> QED BY <1>7, <1>9, <2>2, <3>1, <3>2
  <2> QED BY <1>7, <2>1, <2>2
<1>16. Trace(asked, acted2, R2, FALSE, f2, h2)
  BY <1>2, <1>3, <1>8, <1>10, <1>11, <1>12, <1>13, <1>14, <1>15 DEF Trace, M
<1> QED BY <1>16 DEF Traced, acted2

ActsInv == Traced(history.asked, history.acted, wire.requests, conn.pc = "body")

LEMMA ActsInit == Init => ActsInv
<1> SUFFICES ASSUME Init PROVE ActsInv
  OBVIOUS
<1> DEFINE e == << >>
<1>1. Len(e) = 0 /\ e \in [1..0 -> 1..0] /\ \A i : i \notin 1..0
  OBVIOUS
<1> HIDE DEF e
<1>2. Trace(e, e, e, FALSE, e, e)
  BY <1>1 DEF Trace
<1>3. Traced(e, e, e, FALSE)
  BY <1>2 DEF Traced
<1>4. /\ history.asked = e /\ history.acted = e /\ wire.requests = e
      /\ (conn.pc = "body") = FALSE
  BY DEF Init, e
<1> QED BY <1>3, <1>4 DEF ActsInv

\* What TypeInv says of the sequences that are traced.
LEMMA TracedTypes ==
  ASSUME TypeInv
  PROVE  /\ history.asked \in Seq(RequestMsg) /\ history.acted \in Seq(Verdicts)
         /\ wire.requests \in Seq(RequestUnit) /\ wire["requests"] \in Seq(RequestUnit)
BY DEF TypeInv, HistoryOK, WireOK

LEMMA ActsSend ==
  ASSUME TypeInv, ActsInv, NEW m \in RequestMsg, Send(m), conn' = conn
  PROVE  ActsInv'
<1>1. PICK units \in Seq(RequestUnit) :
        /\ \A i \in 1..Len(units) : units[i] = Units(m)[i]
        /\ Len(units) \in 0..(BodyLen(m) + 2)
        /\ wire' = [wire EXCEPT !.requests = wire.requests \o units]
        /\ history'.asked = IF units = << >> THEN history.asked ELSE Append(history.asked, m)
        /\ history'.acted = history.acted
  BY SendFacts
<1>2. wire'.requests = wire.requests \o units
  <2> DEFINE w == wire.requests \o units
  <2>1. wire \in [requests : Seq(RequestUnit), answers : Seq(Told)] /\ wire' = [wire EXCEPT !.requests = w]
    BY <1>1 DEF TypeInv, WireOK
  <2> HIDE DEF w
  <2>2. wire'.requests = w
    BY <2>1
  <2> QED BY <2>2 DEF w
<1>3. CASE units = << >>
  <2>1. wire.requests \o units = wire.requests
    BY <1>3, TracedTypes
  <2> QED BY <1>1, <1>2, <1>3, <2>1 DEF ActsInv
<1>4. CASE units # << >>
  <2> DEFINE body == conn.pc = "body"
  <2>1. body \in BOOLEAN /\ Traced(history.asked, history.acted, wire.requests, body)
    BY DEF ActsInv
  <2> HIDE DEF body
  <2>2. Len(units) <= BodyLen(m) + 2
    <3>1. BodyLen(m) \in 1..4
      BY UnitFacts
    <3> QED BY <1>1, <3>1
  <2>3. Traced(Append(history.asked, m), history.acted, wire.requests \o units, body)
    BY <1>1, <2>1, <2>2, TracedTypes, TraceSend
  <2>4. body = (conn'.pc = "body")
    BY DEF body
  <2>5. history'.asked = Append(history.asked, m)
    BY <1>1, <1>4
  <2> QED BY <1>1, <1>2, <2>3, <2>4, <2>5 DEF ActsInv
<1> QED BY <1>3, <1>4

\* What recv() leaves of the requests.
LEMMA RestFacts ==
  ASSUME TypeInv, NEW n \in Nat, NEW u \in Arrived(n, "requests")
  PROVE  /\ u \in Seq(RequestUnit) /\ Len(u) \in 0..Len(wire.requests)
         /\ \A i \in 1..Len(u) : u[i] = wire.requests[i]
         /\ Rest("requests", u).requests \in Seq(RequestUnit)
         /\ Len(Rest("requests", u).requests) = Len(wire.requests) - Len(u)
         /\ \A i \in 1..(Len(wire.requests) - Len(u)) :
              Rest("requests", u).requests[i] = wire.requests[Len(u) + i]
         /\ Rest("requests", u).answers = wire.answers
<1> DEFINE rest == SubSeq(wire.requests, Len(u) + 1, Len(wire.requests))
<1>1. /\ u \in Seq(RequestUnit) /\ Len(u) \in 0..n /\ Len(u) <= Len(wire.requests)
      /\ \A i \in 1..Len(u) : u[i] = wire.requests[i]
      /\ rest \in Seq(RequestUnit) /\ Len(rest) = Len(wire.requests) - Len(u)
      /\ \A i \in 1..(Len(wire.requests) - Len(u)) : rest[i] = wire.requests[Len(u) + i]
  <2>1. wire["requests"] \in Seq(RequestUnit)
    BY TracedTypes
  <2> QED BY <2>1, ArrivedFacts
<1>2. Rest("requests", u) = [wire EXCEPT !.requests = rest]
  BY DEF Rest
<1> HIDE DEF rest
<1>3. wire \in [requests : Seq(RequestUnit), answers : Seq(Told)]
  BY DEF TypeInv, WireOK
<1>4. Rest("requests", u).requests = rest /\ Rest("requests", u).answers = wire.answers
  BY <1>2, <1>3
<1>5. Len(u) \in 0..Len(wire.requests)
  <2>1. Len(wire.requests) \in Nat
    BY TracedTypes
  <2> QED BY <1>1, <2>1
<1> QED BY <1>1, <1>4, <1>5

LEMMA ActsRead ==
  ASSUME TypeInv, ActsInv, NEW n \in Nat, NEW u \in Arrived(n, "requests"), wire' = Rest("requests", u),
         history' = history, conn'.pc = "body" => Len(u) > 0 /\ u[1][1] = "RSD"
  PROVE  ActsInv'
<1> DEFINE R == wire.requests
           R2 == Rest("requests", u).requests
           l == Len(u)
           body == conn.pc = "body"
           body2 == conn'.pc = "body"
<1>1. /\ R \in Seq(RequestUnit) /\ R2 \in Seq(RequestUnit) /\ l \in 0..Len(R)
      /\ Len(R2) = Len(R) - l /\ \A i \in 1..(Len(R) - l) : R2[i] = R[l + i]
      /\ history.asked \in Seq(RequestMsg) /\ history.acted \in Seq(Verdicts)
  BY RestFacts, TracedTypes
<1>2. body2 => l > 0 /\ R[1][1] = "RSD"
  <2>1. \A i \in 1..Len(u) : u[i] = R[i]
    BY RestFacts
  <2>2. body2 => 1 \in 1..l
    BY <1>1
  <2> QED BY <2>1, <2>2
<1>3. body \in BOOLEAN /\ body2 \in BOOLEAN /\ Traced(history.asked, history.acted, R, body)
  BY DEF ActsInv
<1>4. wire'.requests = R2
  OBVIOUS
<1> HIDE DEF R, R2, l, body, body2
<1>5. Traced(history.asked, history.acted, R2, body2)
  BY <1>1, <1>2, <1>3, TraceRead
<1> QED BY <1>4, <1>5 DEF ActsInv, body2

\* A word that a body says is what a request asked for, or a name it gave.
LEMMA SaidFacts ==
  ASSUME NEW u \in Seq(RequestUnit), NEW word, Says(u, word)
  PROVE  \E p \in 1..Len(u) : /\ u[p][1] \in {"b1", "b2"}
                              /\ Fits(u[p][2], IF word = "CLOSECTL" THEN "OK" ELSE word)
<1>1. PICK p \in 1..Len(u) : \/ u[p][1] = "b1" /\ u[p][2].type = word
                             \/ u[p][1] = "b2" /\ u[p][2].name = word
  BY DEF Says
<1>2. u[p] \in RequestUnit
  OBVIOUS
<1>3. u[p][2] \in RequestMsg
  BY <1>2 DEF RequestUnit
<1>4. u[p][2].name # "CLOSECTL"
  BY <1>3 DEF RequestMsg, NameKinds
<1> QED BY <1>1, <1>4 DEF Fits

LEMMA ActsAct ==
  ASSUME TypeInv, ActsInv, conn.pc = "body", NEW u \in Arrived(conn.len, "requests"),
         NEW word \in {"NULL", "STOP", "INFO", "IDENTITY", "CLOSECTL"}, Says(u, word),
         wire'.requests = Rest("requests", u).requests, history'.asked = history.asked,
         history'.acted = Append(history.acted, IF word = "CLOSECTL" THEN "OK" ELSE word),
         conn'.pc # "body"
  PROVE  ActsInv'
<1> DEFINE R == wire.requests
           R2 == Rest("requests", u).requests
           l == Len(u)
           v == IF word = "CLOSECTL" THEN "OK" ELSE word
<1>1. conn.len \in Nat
  BY DEF TypeInv, ConnOK
<1>2. /\ R \in Seq(RequestUnit) /\ R2 \in Seq(RequestUnit) /\ l \in 0..Len(R)
      /\ Len(R2) = Len(R) - l /\ \A i \in 1..(Len(R) - l) : R2[i] = R[l + i]
      /\ history.asked \in Seq(RequestMsg) /\ history.acted \in Seq(Verdicts)
      /\ u \in Seq(RequestUnit) /\ \A i \in 1..l : u[i] = R[i]
  BY <1>1, RestFacts, TracedTypes
<1>3. PICK p \in 1..l : R[p][1] \in {"b1", "b2"} /\ Fits(R[p][2], v)
  BY <1>2, SaidFacts
<1>4. Traced(history.asked, history.acted, R, TRUE)
  <2>1. (conn.pc = "body") = TRUE
    OBVIOUS
  <2> QED BY <2>1 DEF ActsInv
<1>5. v \in Verdicts
  BY DEF Verdicts
<1>6. wire'.requests = R2 /\ history'.acted = Append(history.acted, v) /\ (conn'.pc = "body") = FALSE
  OBVIOUS
<1> HIDE DEF R, R2, l, v
<1>7. Traced(history.asked, Append(history.acted, v), R2, FALSE)
  BY <1>2, <1>3, <1>4, <1>5, TraceAct
<1> QED BY <1>6, <1>7 DEF ActsInv

LEMMA ActsStep == TypeInv /\ ActsInv /\ [Next]_vars => ActsInv'
<1> SUFFICES ASSUME TypeInv, ActsInv, [Next]_vars PROVE ActsInv'
  OBVIOUS
<1>1. CASE UNCHANGED <<history, wire.requests, conn.pc>>
  BY <1>1 DEF ActsInv
<1>2. CASE UNCHANGED vars
  BY <1>1, <1>2 DEF vars
<1>3. CASE rsnd_thread
  <2>1. CASE rsnd_send_info_query
    <3>1. CASE history.queries < MaxQueries
      <4>1. Request("INFO", rd.total_written, "") \in RequestMsg
        BY DEF Request, RequestMsg, NameKinds, TypeInv, RdOK
      <4> QED BY <2>1, <3>1, <4>1, ActsSend DEF rsnd_send_info_query
    <3>2. CASE ~(history.queries < MaxQueries)
      BY <1>1, <2>1, <3>2 DEF rsnd_send_info_query
    <3> QED BY <3>1, <3>2
  <2>2. ASSUME NEW u, wire' = Rest("answers", u), UNCHANGED <<history, conn>>
        PROVE  UNCHANGED <<history, wire.requests, conn.pc>>
    <3> DEFINE rest == SubSeq(wire.answers, Len(u) + 1, Len(wire.answers))
    <3>1. wire' = [wire EXCEPT !.answers = rest]
      BY <2>2 DEF Rest
    <3>2. wire \in [requests : Seq(RequestUnit), answers : Seq(Told)]
      BY DEF TypeInv, WireOK
    <3> HIDE DEF rest
    <3> QED BY <2>2, <3>1, <3>2
  <2>3. CASE UpdateHeader
    BY <1>1, <2>2, <2>3 DEF UpdateHeader
  <2>4. CASE UpdateBody
    BY <1>1, <2>2, <2>4 DEF UpdateBody
  <2>5. CASE NoQuery \/ UpdateOffset \/ SendChunk \/ Sleep \/ Wake
    BY <1>1, <2>5 DEF NoQuery, UpdateOffset, SendChunk, Sleep, Wake
  <2> QED BY <1>3, <2>1, <2>3, <2>4, <2>5 DEF rsnd_thread
<1>4. CASE Application
  <2>1. CASE rsnd_send_identity_info
    <3>1. PICK name \in Names : IF name = "" THEN UNCHANGED <<wire, history>>
                                ELSE Send(Request("IDENTITY", 0, name))
      BY <2>1 DEF rsnd_send_identity_info
    <3>2. Request("IDENTITY", 0, name) \in RequestMsg
      BY ControlAssumption DEF Request, RequestMsg, NameKinds
    <3>3. CASE name = ""
      BY <1>1, <2>1, <3>1, <3>3 DEF rsnd_send_identity_info
    <3>4. CASE name # ""
      BY <2>1, <3>1, <3>2, <3>4, ActsSend DEF rsnd_send_identity_info
    <3> QED BY <3>3, <3>4
  <2>2. CASE rsd_stop
    <3>1. Request("STOP", 0, "") \in RequestMsg
      BY DEF Request, RequestMsg, NameKinds
    <3> QED BY <2>2, <3>1, ActsSend DEF rsd_stop
  <2>3. CASE rsnd_close_ctl
    <3>1. Request("CLOSECTL", 0, "") \in RequestMsg
      BY DEF Request, RequestMsg, NameKinds
    <3> QED BY <2>3, <3>1, ActsSend DEF rsnd_close_ctl
  <2>4. CASE CloseCtlRead
    <3>1. PICK u : wire' = Rest("answers", u) /\ UNCHANGED <<history, conn>>
      BY <2>4 DEF CloseCtlRead
    <3> DEFINE rest == SubSeq(wire.answers, Len(u) + 1, Len(wire.answers))
    <3>2. wire' = [wire EXCEPT !.answers = rest]
      BY <3>1 DEF Rest
    <3>3. wire \in [requests : Seq(RequestUnit), answers : Seq(Told)]
      BY DEF TypeInv, WireOK
    <3> HIDE DEF rest
    <3>4. wire'.requests = wire.requests
      BY <3>2, <3>3
    <3> QED BY <1>1, <3>1, <3>4
  <2>5. CASE rsd_write \/ rsd_delay \/ CloseCtlHup \/ CloseCtlFails
    BY <1>1, <2>5 DEF rsd_write, rsd_delay, CloseCtlHup, CloseCtlFails
  <2> QED BY <1>4, <2>1, <2>2, <2>3, <2>4, <2>5 DEF Application
<1>5. CASE rsd_thread
  <2>0. conn \in [pc : {"idle", "body", "ended"}, len : 0..4, serv_ptr : Nat, ctl : BOOLEAN]
        /\ history \in [asked : Seq(RequestMsg), acted : Seq(Verdicts),
                        answered : SUBSET (Nat \X Int), queries : Nat, cut : BOOLEAN]
    BY DEF TypeInv, ConnOK, HistoryOK
  <2>1. CASE receive_data
    <3> DEFINE p == conn.serv_ptr + Chunk
    <3>1. conn' = [conn EXCEPT !.serv_ptr = p] /\ UNCHANGED <<history, wire>>
      BY <2>1 DEF receive_data
    <3> HIDE DEF p
    <3>2. conn'.pc = conn.pc
      BY <2>0, <3>1
    <3> QED BY <1>1, <3>1, <3>2
  <2>2. CASE HandleHeader
    <3>1. PICK u \in Arrived(Header, "requests") :
            /\ wire' = Rest("requests", u) /\ conn.pc = "idle" /\ history' = history
            /\ conn' = IF HeaderLen(u) > 0 THEN [conn EXCEPT !.pc = "body", !.len = HeaderLen(u)] ELSE conn
      BY <2>2 DEF HandleHeader
    <3>2. Header \in Nat /\ Header > 0
      BY DEF Header
    <3>3. conn'.pc = "body" => Len(u) > 0 /\ u[1][1] = "RSD"
      <4>1. CASE HeaderLen(u) > 0
        <5>1. Len(u) = Header /\ u[1][1] = "RSD"
          <6> SUFFICES ASSUME ~(Len(u) = Header /\ u[1][1] = "RSD") PROVE FALSE
            OBVIOUS
          <6>1. HeaderLen(u) = 0
            BY DEF HeaderLen
          <6> QED BY <4>1, <6>1
        <5> QED BY <3>2, <5>1
      <4>2. CASE ~(HeaderLen(u) > 0)
        BY <3>1, <4>2
      <4> QED BY <4>1, <4>2
    <3> QED BY <3>1, <3>2, <3>3, ActsRead
  <2>3. CASE HandleBody
    <3>1. PICK u \in Arrived(conn.len, "requests") : Dropped(u) \/ Noted(u) \/ Informed(u) \/ LetGo(u)
      BY <2>3, BodyCases
    <3>2. conn.pc = "body" /\ conn.len \in Nat
      BY <2>0, <2>3, BodyCases
    <3>3. ASSUME \/ conn' = [conn EXCEPT !.pc = "idle"]
                 \/ conn' = [conn EXCEPT !.pc = "ended", !.ctl = FALSE]
                 \/ conn' = [conn EXCEPT !.pc = "idle", !.ctl = FALSE]
          PROVE  conn'.pc # "body"
      BY <2>0, <3>3
    <3>4. CASE Dropped(u)
      BY <3>2, <3>3, <3>4, ActsRead DEF Dropped
    <3>5. CASE Noted(u)
      <4>1. PICK word \in {"NULL", "IDENTITY", "STOP"} :
              /\ Says(u, word) /\ wire' = Rest("requests", u)
              /\ history' = [history EXCEPT !.acted = Append(history.acted, word)]
              /\ \/ conn' = [conn EXCEPT !.pc = "idle"]
                 \/ conn' = [conn EXCEPT !.pc = "ended", !.ctl = FALSE]
        BY <3>5 DEF Noted
      <4>2. history'.asked = history.asked /\ history'.acted = Append(history.acted, word)
        <5> DEFINE a == Append(history.acted, word)
        <5>1. history' = [history EXCEPT !.acted = a]
          BY <4>1
        <5> HIDE DEF a
        <5>2. history'.asked = history.asked /\ history'.acted = a
          BY <2>0, <5>1
        <5> QED BY <5>2 DEF a
      <4>3. wire'.requests = Rest("requests", u).requests /\ conn'.pc # "body"
        BY <3>3, <4>1
      <4>4. history'.acted = Append(history.acted, IF word = "CLOSECTL" THEN "OK" ELSE word)
        BY <4>2
      <4> QED BY <3>2, <4>1, <4>2, <4>3, <4>4, ActsAct
    <3>6. CASE Informed(u)
      <4>1. PICK m \in AnswerMsg : send_proto(m, u) /\ m.type = "INFO"
        BY <3>2, <3>6, InformedMsg
      <4>2. /\ wire'.requests = Rest("requests", u).requests
            /\ history'.asked = history.asked /\ history'.acted = Append(history.acted, m.type)
        BY <4>1, AnswerFacts
      <4>3. Says(u, "INFO") /\ conn'.pc # "body"
        BY <3>3, <3>6 DEF Informed
      <4>4. history'.acted = Append(history.acted, IF "INFO" = "CLOSECTL" THEN "OK" ELSE "INFO")
        BY <4>1, <4>2
      <4> QED BY <3>2, <4>2, <4>3, <4>4, ActsAct
    <3>7. CASE LetGo(u)
      <4> DEFINE m == Answer("OK", 0, 0)
      <4>1. m \in AnswerMsg /\ m.type = "OK"
        BY DEF Answer, AnswerMsg
      <4>2. send_proto(m, u) /\ Says(u, "CLOSECTL") /\ conn'.pc # "body"
        BY <3>3, <3>7 DEF LetGo
      <4> HIDE DEF m
      <4>3. /\ wire'.requests = Rest("requests", u).requests
            /\ history'.asked = history.asked /\ history'.acted = Append(history.acted, m.type)
        BY <4>1, <4>2, AnswerFacts
      <4>4. history'.acted = Append(history.acted, IF "CLOSECTL" = "CLOSECTL" THEN "OK" ELSE "CLOSECTL")
        BY <4>1, <4>3
      <4> QED BY <3>2, <4>2, <4>3, <4>4, ActsAct
    <3> QED BY <3>1, <3>4, <3>5, <3>6, <3>7
  <2> QED BY <1>5, <2>1, <2>2, <2>3 DEF rsd_thread
<1> QED BY <1>2, <1>3, <1>4, <1>5 DEF Next, Done, vars

(***************************************************************************)
(* handle_ctl_request: whatever the requests are cut into and whatever is   *)
(* lost of them, the server acts only on requests the client made, in their *)
(* order and on each at most once, for every number of requests.            *)
(***************************************************************************)
THEOREM ServerActsOnRequests == Spec => []ActsOnRequests
<1>1. TypeInv /\ ActsInv => ActsOnRequests
  <2> SUFFICES ASSUME TypeInv, ActsInv PROVE ActsOnRequests
    OBVIOUS
  <2>1. PICK f, h : Trace(history.asked, history.acted, wire.requests, conn.pc = "body", f, h)
    BY DEF ActsInv, Traced
  <2>2. /\ f \in [1..Len(history.acted) -> 1..Len(history.asked)]
        /\ \A i \in 1..Len(history.acted) : Fits(history.asked[f[i]], history.acted[i])
        /\ \A i, j \in 1..Len(history.acted) : i < j => f[i] < f[j]
    BY <2>1 DEF Trace
  <2> QED BY <2>2 DEF ActsOnRequests, Fits
<1> QED BY <1>1, TypeInit, TypeStep, ActsInit, ActsStep, PTL DEF Spec

-----------------------------------------------------------------------------
(***************************************************************************)
(* The estimate follows the server.  Until a part of an answer is sent, or  *)
(* rsd_exec reads from the same socket, an answer on the wire has all its   *)
(* units behind its header, and the playback thread reads bodies where they *)
(* begin.  A read of a whole body therefore finds both numbers of one       *)
(* answer, and every answer on the wire is one the server gave.             *)
(***************************************************************************)
BodyAt(W, k, m) ==
  k + BodyLen(m) <= Len(W) /\ \A i \in 1..BodyLen(m) : W[k + i] = <<Body[i], m>>

Whole(W) ==
  \A k \in 1..Len(W) :
    W[k][1] = "RSD" => W[k + 1] = <<"len", W[k][2]>> /\ BodyAt(W, k + 1, W[k][2])

AtBody(W, n) == \E m \in AnswerMsg : BodyAt(W, 0, m) /\ n = BodyLen(m)

AskedAt(asked, c) == \E i \in 1..Len(asked) : asked[i].c = c

Given(asked, answered, c, s) == <<c, s>> \in answered /\ AskedAt(asked, c)
Followed(asked, answered, p) == p \in answered /\ AskedAt(asked, p[1])

Real(W, asked, answered) ==
  \A k \in 1..Len(W) :
    W[k][2].type = "INFO" =>
      /\ <<W[k][2].c, W[k][2].s>> \in answered
      /\ W[k][2].c = 0 \/ AskedAt(asked, W[k][2].c)

Alone == ~history.cut /\ app.pc \in {"connected", "ready", "stopped"}

AnswerInv ==
  Alone =>
    /\ Whole(wire.answers) /\ Real(wire.answers, history.asked, history.answered)
    /\ player.pc = "body" => player.len = 0 \/ AtBody(wire.answers, player.len)
    /\ player.pc = "apply" => player.client_ptr # -1
    /\ player.client_ptr = -1 \/ Given(history.asked, history.answered, player.client_ptr, player.serv_ptr)
    /\ rd.applied = << >> \/ Followed(history.asked, history.answered, rd.applied)

\* What is left of a stream of whole answers is whole.
LEMMA WholeRest ==
  ASSUME NEW W \in Seq(AnswerUnit), Whole(W), NEW n \in 0..Len(W), NEW R \in Seq(AnswerUnit),
         Len(R) = Len(W) - n, \A i \in 1..(Len(W) - n) : R[i] = W[n + i]
  PROVE  Whole(R)
<1> SUFFICES ASSUME NEW k \in 1..Len(R), R[k][1] = "RSD"
             PROVE  R[k + 1] = <<"len", R[k][2]>> /\ BodyAt(R, k + 1, R[k][2])
  BY DEF Whole
<1> DEFINE w == Len(W)
           m == R[k][2]
           b == BodyLen(m)
<1>1. w \in Nat /\ n \in 0..w /\ k \in 1..(w - n) /\ Len(R) = w - n
  OBVIOUS
<1>2. n + k \in 1..w /\ R[k] = W[n + k]
  BY <1>1
<1>3. m \in AnswerMsg
  <2>1. R[k] \in AnswerUnit
    OBVIOUS
  <2> QED BY <2>1 DEF AnswerUnit
<1>4. b \in 1..4
  BY <1>3, UnitFacts
<1>5. W[n + k + 1] = <<"len", m>> /\ BodyAt(W, n + k + 1, m)
  BY <1>2 DEF Whole
<1> HIDE DEF b, m
<1>6. (n + k + 1) + b <= w /\ \A i \in 1..b : W[(n + k + 1) + i] = <<Body[i], m>>
  BY <1>5 DEF BodyAt, b
<1>9. \A i \in 1..w : n < i => i - n \in 1..(w - n) /\ n + (i - n) = i /\ R[i - n] = W[i]
  BY <1>1
<1> HIDE DEF w
<1>7. R[k + 1] = <<"len", m>>
  <2>1. n + k + 1 \in 1..w /\ n < n + k + 1 /\ (n + k + 1) - n = k + 1
    BY <1>1, <1>4, <1>6
  <2> QED BY <1>5, <1>9, <2>1
<1>8. BodyAt(R, k + 1, m)
  <2>1. (k + 1) + b <= Len(R)
    BY <1>1, <1>4, <1>6
  <2>2. ASSUME NEW i \in 1..b PROVE R[(k + 1) + i] = <<Body[i], m>>
    <3>1. /\ (n + k + 1) + i \in 1..w /\ n < (n + k + 1) + i
          /\ ((n + k + 1) + i) - n = (k + 1) + i
      BY <1>1, <1>4, <1>6
    <3> QED BY <1>6, <1>9, <3>1
  <2> QED BY <2>1, <2>2 DEF BodyAt, b
<1> QED BY <1>7, <1>8 DEF m

\* A body stays where it is when something is added behind it.
LEMMA BodyJoin ==
  ASSUME NEW W \in Seq(AnswerUnit), NEW units \in Seq(AnswerUnit), NEW k \in Nat,
         NEW m \in AnswerMsg, BodyAt(W, k, m)
  PROVE  BodyAt(W \o units, k, m)
<1> DEFINE w == Len(W)
           b == BodyLen(m)
           J == W \o units
<1>1. b \in 1..4
  BY UnitFacts
<1>2. w \in Nat /\ Len(units) \in Nat /\ Len(J) = w + Len(units) /\ \A i \in 1..w : J[i] = W[i]
  BY JoinFacts
<1>3. k + b <= w /\ \A i \in 1..b : W[k + i] = <<Body[i], m>>
  BY DEF BodyAt
<1> HIDE DEF w, b, J
<1>4. \A i \in 1..b : k + i \in 1..w
  BY <1>1, <1>2, <1>3
<1>5. \A i \in 1..b : J[k + i] = <<Body[i], m>>
  BY <1>2, <1>3, <1>4
<1>6. k + b <= Len(J)
  BY <1>1, <1>2, <1>3
<1> QED BY <1>5, <1>6 DEF BodyAt, J, b

\* A whole answer keeps the stream whole.
LEMMA WholeJoin ==
  ASSUME NEW W \in Seq(AnswerUnit), Whole(W), NEW m \in AnswerMsg, Units(m) \in Seq(AnswerUnit)
  PROVE  Whole(W \o Units(m))
<1> DEFINE U == Units(m)
           w == Len(W)
           b == BodyLen(m)
           J == W \o U
<1>1. /\ b \in 1..4 /\ Len(U) = b + 2 /\ U[1] = <<"RSD", m>> /\ U[2] = <<"len", m>>
      /\ \A i \in 1..b : U[i + 2] = <<Body[i], m>>
  BY UnitFacts
<1>2. /\ w \in Nat /\ Len(J) = w + Len(U) /\ \A i \in 1..w : J[i] = W[i]
      /\ \A i \in 1..Len(U) : J[w + i] = U[i]
  BY JoinFacts
<1>3. \A i \in 1..4 : Body[i] # "RSD"
  BY DEF Body
<1> SUFFICES ASSUME NEW k \in 1..Len(J), J[k][1] = "RSD"
             PROVE  J[k + 1] = <<"len", J[k][2]>> /\ BodyAt(J, k + 1, J[k][2])
  BY DEF Whole
<1>4. CASE k \in 1..w
  <2>1. W[k] \in AnswerUnit
    BY <1>4
  <2>2. W[k][2] \in AnswerMsg
    BY <2>1 DEF AnswerUnit
  <2>3. W[k + 1] = <<"len", W[k][2]>> /\ BodyAt(W, k + 1, W[k][2]) /\ J[k] = W[k]
    BY <1>2, <1>4 DEF Whole
  <2>4. BodyAt(J, k + 1, W[k][2])
    BY <2>2, <2>3, BodyJoin
  <2>5. k + 1 \in 1..w
    <3>1. BodyLen(W[k][2]) \in 1..4
      BY <2>2, UnitFacts
    <3> QED BY <1>2, <1>4, <2>3, <3>1 DEF BodyAt
  <2> QED BY <1>2, <2>3, <2>4, <2>5
<1>5. CASE k \notin 1..w
  <2> HIDE DEF w, b, J, U
  <2> DEFINE i == k - w
  <2>1. i \in 1..(b + 2) /\ k = w + i
    BY <1>1, <1>2, <1>5
  <2> HIDE DEF i
  <2>2. J[k] = U[i]
    BY <1>1, <1>2, <2>1
  <2>3. i = 1
    <3>1. CASE i = 2
      BY <1>1, <2>2, <3>1
    <3>2. CASE i > 2
      <4> DEFINE j == i - 2
      <4>1. j \in 1..b /\ i = j + 2 /\ j \in 1..4
        BY <1>1, <2>1, <3>2
      <4> HIDE DEF j
      <4>2. U[i] = <<Body[j], m>> /\ Body[j] # "RSD"
        BY <1>1, <1>3, <4>1
      <4> QED BY <2>2, <4>2
    <3> QED BY <2>1, <3>1, <3>2
  <2>4. J[k][2] = m /\ J[k + 1] = <<"len", m>>
    <3>1. k + 1 = w + 2 /\ 2 \in 1..Len(U)
      BY <1>1, <1>2, <2>1, <2>3
    <3>2. J[w + 2] = U[2]
      BY <1>2, <3>1
    <3> QED BY <1>1, <2>2, <2>3, <3>1, <3>2
  <2>5. BodyAt(J, k + 1, m)
    <3>1. (k + 1) + b <= Len(J)
      BY <1>1, <1>2, <2>1, <2>3
    <3>2. ASSUME NEW j \in 1..b PROVE J[(k + 1) + j] = <<Body[j], m>>
      <4>1. (k + 1) + j = w + (j + 2) /\ j + 2 \in 1..Len(U)
        BY <1>1, <1>2, <2>1, <2>3
      <4>2. J[w + (j + 2)] = U[j + 2]
        BY <1>2, <4>1
      <4> QED BY <1>1, <4>1, <4>2
    <3> QED BY <3>1, <3>2 DEF BodyAt, b
  <2> QED BY <2>4, <2>5
<1> QED BY <1>4, <1>5

\* Behind a header there is a whole body.
LEMMA HeaderRead ==
  ASSUME NEW W \in Seq(AnswerUnit), Whole(W), Len(W) >= 2, W[1][1] = "RSD", NEW R,
         Len(R) = Len(W) - 2, \A i \in 1..(Len(W) - 2) : R[i] = W[2 + i]
  PROVE  AtBody(R, BodyLen(W[1][2]))
<1> DEFINE m == W[1][2]
           b == BodyLen(m)
           w == Len(W)
<1>1. w \in Nat /\ 1 \in 1..w
  OBVIOUS
<1>2. m \in AnswerMsg
  <2>1. W[1] \in AnswerUnit
    BY <1>1
  <2> QED BY <2>1 DEF AnswerUnit
<1>3. BodyAt(W, 1 + 1, m)
  BY <1>1 DEF Whole
<1>4. b \in 1..4
  BY <1>2, UnitFacts
<1> HIDE DEF m, b
<1>5. 2 + b <= w /\ \A i \in 1..b : W[2 + i] = <<Body[i], m>>
  BY <1>3 DEF BodyAt, b
<1>6. \A i \in 1..b : i \in 1..(w - 2) /\ 0 + i = i
  BY <1>1, <1>4, <1>5
<1>7. 0 + b <= Len(R)
  BY <1>1, <1>4, <1>5
<1>8. \A i \in 1..b : R[0 + i] = <<Body[i], m>>
  BY <1>5, <1>6
<1>9. BodyAt(R, 0, m)
  BY <1>7, <1>8 DEF BodyAt, b
<1> QED BY <1>2, <1>9 DEF AtBody, b, m

\* What is read of a whole body: both numbers of one answer.
LEMMA BodyRead ==
  ASSUME NEW W \in Seq(AnswerUnit), NEW n, AtBody(W, n), NEW u \in Seq(AnswerUnit), Len(u) = n,
         \A i \in 1..Len(u) : u[i] = W[i], InfoAt(u) # 0
  PROVE  /\ 1 \in 1..Len(W) /\ W[1][2].type = "INFO"
         /\ Number(u, InfoAt(u) + 1) = W[1][2].c /\ Number(u, InfoAt(u) + 2) = W[1][2].s
<1>1. PICK m \in AnswerMsg : BodyAt(W, 0, m) /\ n = BodyLen(m)
  BY DEF AtBody
<1>2. BodyLen(m) \in 1..4
  BY UnitFacts
<1>3. \A i \in 1..BodyLen(m) : u[i] = <<Body[i], m>>
  <2>1. \A i \in 1..BodyLen(m) : 0 + i = i /\ W[0 + i] = <<Body[i], m>>
    BY <1>1, <1>2 DEF BodyAt
  <2> QED BY <1>1, <2>1
<1>4. InfoAt(u) = 1 /\ m.type = "INFO"
  <2> DEFINE i == InfoAt(u)
  <2>1. i \in 0..Len(u) /\ (i # 0 => u[i][1] = "b1" /\ u[i][2].type = "INFO")
    BY InfoFacts
  <2> HIDE DEF i
  <2>2. i \in 1..BodyLen(m) /\ i \in 1..4
    BY <1>1, <1>2, <2>1 DEF i
  <2>3. u[i] = <<Body[i], m>> /\ Body[i] = "b1"
    BY <1>3, <2>1, <2>2
  <2>4. i = 1
    BY <2>2, <2>3 DEF Body
  <2> QED BY <2>1, <2>3, <2>4 DEF i
<1>5. BodyLen(m) = 4
  <2>1. m.answer = TRUE
    BY DEF AnswerMsg
  <2> QED BY <1>4, <2>1 DEF BodyLen
<1>6. u[2] = <<"b2", m>> /\ u[3] = <<"b3", m>> /\ u[4] = <<"b4", m>> /\ Len(u) = 4
  BY <1>1, <1>3, <1>5 DEF Body
<1>7. Number(u, 2) = m.c
  BY <1>6 DEF Number
<1>8. Number(u, 3) = m.s
  BY <1>6 DEF Number
<1>9. 1 \in 1..Len(W) /\ W[1][2] = m
  <2>1. 0 + 4 <= Len(W) /\ Len(W) \in Nat /\ W[0 + 1] = <<Body[1], m>>
    BY <1>1, <1>5 DEF BodyAt
  <2> QED BY <2>1
<1> QED BY <1>4, <1>7, <1>8, <1>9

\* What is left of a stream of real answers is real, and so is it when more
\* has been asked and answered.
LEMMA RealRest ==
  ASSUME NEW W \in Seq(AnswerUnit), NEW asked, NEW answered, Real(W, asked, answered),
         NEW n \in 0..Len(W), NEW R \in Seq(AnswerUnit),
         Len(R) = Len(W) - n, \A i \in 1..(Len(W) - n) : R[i] = W[n + i]
  PROVE  Real(R, asked, answered)
<1>1. \A i \in 1..(Len(W) - n) : n + i \in 1..Len(W) /\ R[i] = W[n + i]
  OBVIOUS
<1> QED BY <1>1 DEF Real

LEMMA RealGrows ==
  ASSUME NEW W, NEW asked, NEW answered, Real(W, asked, answered), NEW asked2, NEW answered2,
         \A c : AskedAt(asked, c) => AskedAt(asked2, c), answered \subseteq answered2
  PROVE  Real(W, asked2, answered2)
BY DEF Real

LEMMA RealJoin ==
  ASSUME NEW W \in Seq(AnswerUnit), NEW asked, NEW answered, Real(W, asked, answered),
         NEW m \in AnswerMsg, NEW units \in Seq(AnswerUnit), \A i \in 1..Len(units) : units[i][2] = m,
         m.type = "INFO" => <<m.c, m.s>> \in answered /\ (m.c = 0 \/ AskedAt(asked, m.c))
  PROVE  Real(W \o units, asked, answered)
<1> DEFINE J == W \o units
           w == Len(W)
<1>1. /\ w \in Nat /\ Len(units) \in Nat /\ Len(J) = w + Len(units) /\ \A i \in 1..w : J[i] = W[i]
      /\ \A i \in 1..Len(units) : J[w + i] = units[i]
  BY JoinFacts
<1> SUFFICES ASSUME NEW k \in 1..Len(J), J[k][2].type = "INFO"
             PROVE  /\ <<J[k][2].c, J[k][2].s>> \in answered
                    /\ J[k][2].c = 0 \/ AskedAt(asked, J[k][2].c)
  BY DEF Real
<1>2. CASE k \in 1..w
  BY <1>1, <1>2 DEF Real
<1>3. CASE k \notin 1..w
  <2> HIDE DEF J, w
  <2> DEFINE i == k - w
  <2>1. i \in 1..Len(units) /\ k = w + i
    BY <1>1, <1>3
  <2> HIDE DEF i
  <2>2. J[k][2] = m
    BY <1>1, <2>1
  <2> QED BY <2>2 DEF J
<1> QED BY <1>2, <1>3

\* What TypeInv says of the answers.
LEMMA AnswerTypes ==
  ASSUME TypeInv
  PROVE  wire.answers \in Seq(AnswerUnit) /\ wire["answers"] \in Seq(AnswerUnit)
BY ToldUnits DEF TypeInv, WireOK

\* What recv() leaves of the answers.
LEMMA AnswerRest ==
  ASSUME TypeInv, NEW n \in Nat, NEW u \in Arrived(n, "answers")
  PROVE  /\ u \in Seq(AnswerUnit) /\ Len(u) \in 0..Len(wire.answers)
         /\ \A i \in 1..Len(u) : u[i] = wire.answers[i]
         /\ Rest("answers", u).answers \in Seq(AnswerUnit)
         /\ Len(Rest("answers", u).answers) = Len(wire.answers) - Len(u)
         /\ \A i \in 1..(Len(wire.answers) - Len(u)) :
              Rest("answers", u).answers[i] = wire.answers[Len(u) + i]
<1> DEFINE rest == SubSeq(wire.answers, Len(u) + 1, Len(wire.answers))
<1>1. /\ u \in Seq(AnswerUnit) /\ Len(u) \in 0..n /\ Len(u) <= Len(wire.answers)
      /\ \A i \in 1..Len(u) : u[i] = wire.answers[i]
      /\ rest \in Seq(AnswerUnit) /\ Len(rest) = Len(wire.answers) - Len(u)
      /\ \A i \in 1..(Len(wire.answers) - Len(u)) : rest[i] = wire.answers[Len(u) + i]
  <2>1. wire["answers"] \in Seq(AnswerUnit)
    BY AnswerTypes
  <2> QED BY <2>1, ArrivedFacts
<1>2. Rest("answers", u) = [wire EXCEPT !.answers = rest]
  BY DEF Rest
<1> HIDE DEF rest
<1>3. wire \in [requests : Seq(RequestUnit), answers : Seq(Told)]
  BY DEF TypeInv, WireOK
<1>4. Rest("answers", u).answers = rest
  BY <1>2, <1>3
<1>5. Len(u) \in 0..Len(wire.answers)
  <2>1. Len(wire.answers) \in Nat
    BY AnswerTypes
  <2> QED BY <1>1, <2>1
<1> QED BY <1>1, <1>4, <1>5

\* A step that only asks more, forgets what it read, or reads more of the
\* answers keeps what is known of them.
LEMMA AnswerKept ==
  ASSUME AnswerInv, Alone' => Alone, wire'.answers = wire.answers,
         \A c : AskedAt(history.asked, c) => AskedAt(history'.asked, c),
         history'.answered = history.answered,
         player'.pc = "body" => player.pc = "body" /\ player'.len = player.len,
         player'.pc = "apply" => player.pc = "apply" /\ player'.client_ptr = player.client_ptr,
         \/ player'.client_ptr = -1
         \/ player'.client_ptr = player.client_ptr /\ player'.serv_ptr = player.serv_ptr,
         rd'.applied = rd.applied
  PROVE  AnswerInv'
<1> SUFFICES ASSUME Alone' PROVE AnswerInv'
  BY DEF AnswerInv
<1>1. /\ Whole(wire.answers) /\ Real(wire.answers, history.asked, history.answered)
      /\ player.pc = "body" => player.len = 0 \/ AtBody(wire.answers, player.len)
      /\ player.pc = "apply" => player.client_ptr # -1
      /\ player.client_ptr = -1 \/ Given(history.asked, history.answered, player.client_ptr, player.serv_ptr)
      /\ rd.applied = << >> \/ Followed(history.asked, history.answered, rd.applied)
  BY DEF AnswerInv
<1>2. /\ \A c, s : Given(history.asked, history.answered, c, s) => Given(history'.asked, history'.answered, c, s)
      /\ \A p : Followed(history.asked, history.answered, p) => Followed(history'.asked, history'.answered, p)
  BY DEF Given, Followed
<1>3. Real(wire'.answers, history'.asked, history'.answered)
  BY <1>1, RealGrows
<1>4. Whole(wire'.answers)
  BY <1>1
<1>5. player'.pc = "body" => player'.len = 0 \/ AtBody(wire'.answers, player'.len)
  BY <1>1
<1>6. \/ player'.client_ptr = -1
      \/ Given(history'.asked, history'.answered, player'.client_ptr, player'.serv_ptr)
  BY <1>1, <1>2
<1>7. rd'.applied = << >> \/ Followed(history'.asked, history'.answered, rd'.applied)
  BY <1>1, <1>2
<1>8. player'.pc = "apply" => player'.client_ptr # -1
  BY <1>1
<1> QED BY <1>3, <1>4, <1>5, <1>6, <1>7, <1>8 DEF AnswerInv

\* A request that is sent leaves what was asked.
LEMMA AskedGrows ==
  ASSUME TypeInv, NEW m \in RequestMsg, Send(m)
  PROVE  /\ \A c : AskedAt(history.asked, c) => AskedAt(history'.asked, c)
         /\ wire'.answers = wire.answers /\ history'.answered = history.answered
         /\ history'.cut = history.cut
<1>1. PICK units \in Seq(RequestUnit) :
        /\ wire' = [wire EXCEPT !.requests = wire.requests \o units]
        /\ history'.asked = IF units = << >> THEN history.asked ELSE Append(history.asked, m)
        /\ history'.answered = history.answered /\ history'.cut = history.cut
  BY SendFacts
<1>2. wire'.answers = wire.answers
  <2> DEFINE w == wire.requests \o units
  <2>1. wire \in [requests : Seq(RequestUnit), answers : Seq(Told)] /\ wire' = [wire EXCEPT !.requests = w]
    BY <1>1 DEF TypeInv, WireOK
  <2> HIDE DEF w
  <2> QED BY <2>1
<1>3. ASSUME NEW c, AskedAt(history.asked, c) PROVE AskedAt(history'.asked, c)
  <2>1. CASE units = << >>
    BY <1>1, <1>3, <2>1
  <2>2. CASE units # << >>
    <3> DEFINE A == history.asked
               B == Append(A, m)
    <3>1. /\ Len(B) = Len(A) + 1 /\ Len(A) \in Nat /\ \A i \in 1..Len(A) : B[i] = A[i]
      BY TracedTypes, AppendFacts
    <3>2. PICK i \in 1..Len(A) : A[i].c = c
      BY <1>3 DEF AskedAt
    <3>3. history'.asked = B
      BY <1>1, <2>2
    <3> HIDE DEF A, B
    <3>4. i \in 1..Len(B) /\ B[i].c = c
      BY <3>1, <3>2
    <3> QED BY <3>3, <3>4 DEF AskedAt
  <2> QED BY <2>1, <2>2
<1> QED BY <1>1, <1>2, <1>3

\* The playback thread moves on.
LEMMA PlayerMoves ==
  ASSUME TypeInv, NEW l, Player(l)
  PROVE  /\ player'.pc = l /\ player'.len = player.len
         /\ player'.client_ptr = player.client_ptr /\ player'.serv_ptr = player.serv_ptr
BY DEF TypeInv, PlayerOK, Player

\* The playback thread reads a header, or something that is none.
LEMMA AnswerHeader == TypeInv /\ AnswerInv /\ UpdateHeader => AnswerInv'
<1> SUFFICES ASSUME TypeInv, AnswerInv, UpdateHeader, Alone' PROVE AnswerInv'
  BY DEF AnswerInv
<1>1. PICK u \in Arrived(Header, "answers") :
        /\ wire' = Rest("answers", u) /\ UNCHANGED <<rd, app, conn, history>>
        /\ \/ Break
           \/ Player("chunk")
           \/ /\ Len(u) = Header /\ HasRSD(u)
              /\ player' = [player EXCEPT !.pc = "body", !.len = HeaderLen(u)]
  BY DEF UpdateHeader
<1> DEFINE W == wire.answers
           R == Rest("answers", u).answers
<1>2. Header = 2 /\ Header \in Nat
  BY DEF Header
<1>3. /\ W \in Seq(AnswerUnit) /\ R \in Seq(AnswerUnit) /\ Len(u) \in 0..Len(W)
      /\ \A i \in 1..Len(u) : u[i] = W[i]
      /\ Len(R) = Len(W) - Len(u) /\ \A i \in 1..(Len(W) - Len(u)) : R[i] = W[Len(u) + i]
  BY <1>2, AnswerRest, AnswerTypes
<1>4. Alone /\ wire'.answers = R
  BY <1>1 DEF Alone
<1>5. /\ Whole(W) /\ Real(W, history.asked, history.answered)
      /\ player.client_ptr = -1 \/ Given(history.asked, history.answered, player.client_ptr, player.serv_ptr)
      /\ rd.applied = << >> \/ Followed(history.asked, history.answered, rd.applied)
  BY <1>4 DEF AnswerInv
<1> HIDE DEF W, R
<1>6. Whole(R) /\ Real(R, history.asked, history.answered)
  BY <1>3, <1>5, WholeRest, RealRest
<1>7. ASSUME player'.client_ptr = player.client_ptr, player'.serv_ptr = player.serv_ptr,
             player'.pc = "body" => player'.len = 0 \/ AtBody(R, player'.len),
             player'.pc = "apply" => player'.client_ptr # -1
      PROVE  AnswerInv'
  BY <1>1, <1>4, <1>5, <1>6, <1>7 DEF AnswerInv
<1>8. CASE Break
  <2>1. PICK l : Player(l) /\ (l = "chunk" \/ (l = "apply" /\ player.client_ptr > 0))
    BY <1>8 DEF Break
  <2>2. player.client_ptr \in Int
    BY DEF TypeInv, PlayerOK
  <2>3. player.client_ptr > 0 => player.client_ptr # -1
    BY <2>2
  <2> QED BY <1>7, <2>1, <2>3, PlayerMoves
<1>9. CASE Player("chunk")
  BY <1>7, <1>9, PlayerMoves
<1>10. CASE Len(u) = Header /\ HasRSD(u) /\ player' = [player EXCEPT !.pc = "body", !.len = HeaderLen(u)]
  <2>1. HeaderLen(u) = 0 \/ AtBody(R, HeaderLen(u))
    <3>1. CASE u[1][1] = "RSD"
      <4>1. Len(W) >= 2 /\ Len(R) = Len(W) - 2 /\ u[1] = W[1]
            /\ \A i \in 1..(Len(W) - 2) : R[i] = W[2 + i]
        BY <1>2, <1>3, <1>10
      <4>2. AtBody(R, BodyLen(W[1][2]))
        BY <1>3, <1>5, <3>1, <4>1, HeaderRead
      <4>3. HeaderLen(u) = BodyLen(W[1][2])
        BY <1>10, <3>1, <4>1 DEF HeaderLen
      <4> QED BY <4>2, <4>3
    <3>2. CASE u[1][1] # "RSD"
      BY <3>2 DEF HeaderLen
    <3> QED BY <3>1, <3>2
  <2> DEFINE l == HeaderLen(u)
  <2>2. player' = [player EXCEPT !.pc = "body", !.len = l] /\ (l = 0 \/ AtBody(R, l))
    BY <1>10, <2>1
  <2> HIDE DEF l
  <2>3. /\ player'.client_ptr = player.client_ptr /\ player'.serv_ptr = player.serv_ptr
        /\ player'.len = l /\ player'.pc = "body"
    BY <2>2 DEF TypeInv, PlayerOK
  <2> QED BY <1>7, <2>2, <2>3
<1> QED BY <1>1, <1>8, <1>9, <1>10

\* The playback thread reads a body, all of it or nothing it uses.
LEMMA AnswerBody == TypeInv /\ AnswerInv /\ UpdateBody => AnswerInv'
<1> SUFFICES ASSUME TypeInv, AnswerInv, UpdateBody, Alone' PROVE AnswerInv'
  BY DEF AnswerInv
<1>1. PICK u \in Arrived(player.len, "answers") :
        /\ player.pc = "body" /\ wire' = Rest("answers", u) /\ Reads(u, TRUE)
        /\ UNCHANGED <<rd, app, conn, history>>
  BY DEF UpdateBody
<1> DEFINE W == wire.answers
           R == Rest("answers", u).answers
<1>2. player.len \in 0..4 /\ player.len \in Nat
  BY DEF TypeInv, PlayerOK
<1>3. /\ W \in Seq(AnswerUnit) /\ R \in Seq(AnswerUnit) /\ u \in Seq(AnswerUnit)
      /\ Len(u) \in 0..Len(W) /\ \A i \in 1..Len(u) : u[i] = W[i]
      /\ Len(R) = Len(W) - Len(u) /\ \A i \in 1..(Len(W) - Len(u)) : R[i] = W[Len(u) + i]
  BY <1>2, AnswerRest, AnswerTypes
<1>4. Alone /\ wire'.answers = R
  BY <1>1 DEF Alone
<1>5. /\ Whole(W) /\ Real(W, history.asked, history.answered)
      /\ player.len = 0 \/ AtBody(W, player.len)
      /\ player.client_ptr = -1 \/ Given(history.asked, history.answered, player.client_ptr, player.serv_ptr)
      /\ rd.applied = << >> \/ Followed(history.asked, history.answered, rd.applied)
  BY <1>1, <1>4 DEF AnswerInv
<1>6. u \in Seq(Told) /\ Len(u) \in 0..player.len
  <2>1. wire["answers"] \in Seq(Told)
    BY DEF TypeInv, WireOK
  <2> QED BY <1>2, <2>1, ArrivedFacts
<1> HIDE DEF W, R
<1>7. Whole(R) /\ Real(R, history.asked, history.answered)
  BY <1>3, <1>5, WholeRest, RealRest
<1>8. ASSUME player'.pc \in {"chunk", "header"},
             \/ player'.client_ptr = -1
             \/ Given(history.asked, history.answered, player'.client_ptr, player'.serv_ptr)
      PROVE  AnswerInv'
  BY <1>1, <1>4, <1>5, <1>7, <1>8 DEF AnswerInv
<1>9. CASE Player("chunk") \/ Player("header")
  BY <1>5, <1>8, <1>9, PlayerMoves
<1>10. CASE /\ InfoAt(u) # 0 /\ ~(Len(u) < player.len)
            /\ Number(u, InfoAt(u) + 1) # 0
            /\ player' = [player EXCEPT !.pc = "header", !.client_ptr = Number(u, InfoAt(u) + 1),
                                        !.serv_ptr = Number(u, InfoAt(u) + 2)]
  <2> DEFINE c == Number(u, InfoAt(u) + 1)
             s == Number(u, InfoAt(u) + 2)
  <2>1. Len(u) = player.len
    BY <1>2, <1>6, <1>10
  <2>2. player.len # 0
    <3>1. InfoAt(u) \in 0..Len(u)
      BY <1>3, InfoFacts
    <3> QED BY <1>10, <2>1, <3>1
  <2>3. /\ 1 \in 1..Len(W) /\ W[1][2].type = "INFO" /\ c = W[1][2].c /\ s = W[1][2].s
    BY <1>3, <1>5, <1>10, <2>1, <2>2, BodyRead
  <2>4. c # 0 /\ player' = [player EXCEPT !.pc = "header", !.client_ptr = c, !.serv_ptr = s]
    BY <1>10
  <2> HIDE DEF c, s
  <2>5. Given(history.asked, history.answered, c, s)
    <3>1. /\ <<W[1][2].c, W[1][2].s>> \in history.answered
          /\ W[1][2].c = 0 \/ AskedAt(history.asked, W[1][2].c)
      BY <1>5, <2>3 DEF Real
    <3> QED BY <2>3, <2>4, <3>1 DEF Given
  <2>6. player'.pc = "header" /\ player'.client_ptr = c /\ player'.serv_ptr = s
    BY <2>4 DEF TypeInv, PlayerOK
  <2> QED BY <1>8, <2>5, <2>6
<1> QED BY <1>1, <1>6, <1>9, <1>10, ReadsCases

\* The server answers: with all of the answer, with nothing, or with a part,
\* which ends what is claimed.
LEMMA AnswerSent ==
  ASSUME TypeInv, AnswerInv, UNCHANGED <<rd, player, app>>, NEW m \in AnswerMsg,
         NEW u \in Arrived(conn.len, "requests"), send_proto(m, u),
         m.type = "INFO" => m.c = 0 \/ AskedAt(history.asked, m.c)
  PROVE  AnswerInv'
<1> SUFFICES ASSUME Alone' PROVE AnswerInv'
  BY DEF AnswerInv
<1>1. PICK units \in Taken(m) :
        /\ wire'.answers = wire.answers \o units
        /\ history'.answered = history.answered \cup {<<m.c, m.s>>}
        /\ history'.asked = history.asked
        /\ history'.cut = (history.cut \/ units \notin {<< >>, Units(m)})
  BY AnswerFacts
<1>2. Alone /\ units \in {<< >>, Units(m)}
  BY <1>1 DEF Alone
<1> DEFINE W == wire.answers
           A == history.answered \cup {<<m.c, m.s>>}
<1>3. /\ units \in Seq(AnswerUnit) /\ \A i \in 1..Len(units) : units[i][2] = m
  <2> DEFINE S == {"RSD", "len", "b1", "b2", "b3", "b4"} \X {m}
  <2>1. units \in Seq(S)
    BY TakenFacts, Zenon
  <2>2. S \subseteq AnswerUnit /\ \A x \in S : x[2] = m
    BY DEF AnswerUnit
  <2> HIDE DEF S
  <2> QED BY <2>1, <2>2
<1>4. W \in Seq(AnswerUnit)
  BY AnswerTypes
<1>5. /\ Whole(W) /\ Real(W, history.asked, history.answered)
      /\ player.pc = "body" => player.len = 0 \/ AtBody(W, player.len)
      /\ player.pc = "apply" => player.client_ptr # -1
      /\ player.client_ptr = -1 \/ Given(history.asked, history.answered, player.client_ptr, player.serv_ptr)
      /\ rd.applied = << >> \/ Followed(history.asked, history.answered, rd.applied)
  BY <1>2 DEF AnswerInv
<1>6. history.answered \subseteq A /\ <<m.c, m.s>> \in A /\ history'.answered = A
  BY <1>1
<1>7. wire'.answers = W \o units
  BY <1>1
<1> HIDE DEF W, A
<1>8. Whole(W \o units)
  <2>1. CASE units = << >>
    <3>1. W \o units = W
      BY <1>4, <2>1
    <3> QED BY <1>5, <3>1
  <2>2. CASE units = Units(m)
    BY <1>3, <1>4, <1>5, <2>2, WholeJoin
  <2> QED BY <1>2, <2>1, <2>2
<1>9. Real(W \o units, history.asked, A)
  <2>1. Real(W, history.asked, A)
    BY <1>5, <1>6, RealGrows
  <2> QED BY <1>3, <1>4, <1>6, <2>1, RealJoin
<1>10. ASSUME NEW n, AtBody(W, n) PROVE AtBody(W \o units, n)
  <2>1. PICK x \in AnswerMsg : BodyAt(W, 0, x) /\ n = BodyLen(x)
    BY <1>10 DEF AtBody
  <2>2. BodyAt(W \o units, 0, x)
    BY <1>3, <1>4, <2>1, BodyJoin
  <2> QED BY <2>1, <2>2 DEF AtBody
<1>11. /\ \A c, s : Given(history.asked, history.answered, c, s) => Given(history.asked, A, c, s)
       /\ \A p : Followed(history.asked, history.answered, p) => Followed(history.asked, A, p)
  BY <1>6 DEF Given, Followed
<1> QED BY <1>1, <1>5, <1>6, <1>7, <1>8, <1>9, <1>10, <1>11 DEF AnswerInv

\* A unit on the wire is of a request that was made.
LEMMA AskedOnWire ==
  ASSUME TypeInv, ActsInv, NEW n \in Nat, NEW u \in Arrived(n, "requests"), client_ptr(u) # 0
  PROVE  AskedAt(history.asked, client_ptr(u))
<1>1. PICK f, h : Trace(history.asked, history.acted, wire.requests, conn.pc = "body", f, h)
  BY DEF ActsInv, Traced
<1>2. /\ u \in Seq(RequestUnit) /\ Len(u) \in 0..Len(wire.requests)
      /\ \A i \in 1..Len(u) : u[i] = wire.requests[i]
  BY RestFacts
<1>3. 2 \in 1..Len(u) /\ client_ptr(u) = u[2][2].c
  BY <1>2, AskedNumber
<1>4. /\ h \in [1..Len(wire.requests) -> 1..Len(history.asked)]
      /\ \A k \in 1..Len(wire.requests) : wire.requests[k][2] = history.asked[h[k]]
  BY <1>1 DEF Trace
<1>5. 2 \in 1..Len(wire.requests) /\ u[2] = wire.requests[2]
  <2>1. Len(wire.requests) \in Nat
    BY TracedTypes
  <2> QED BY <1>2, <1>3, <2>1
<1>6. h[2] \in 1..Len(history.asked) /\ history.asked[h[2]].c = client_ptr(u)
  BY <1>3, <1>4, <1>5
<1> QED BY <1>6 DEF AskedAt

LEMMA AnswerStep == TypeInv /\ ActsInv /\ AnswerInv /\ [Next]_vars => AnswerInv'
<1> SUFFICES ASSUME TypeInv, ActsInv, AnswerInv, [Next]_vars PROVE AnswerInv'
  OBVIOUS
<1>0. /\ player \in [pc : PlayerLabels, len : 0..4, client_ptr : Int, serv_ptr : Int]
      /\ rd \in [total_written : Nat, fifo : Nat, use_latency : BOOLEAN, applied : Seq(Int)]
      /\ app \in [pc : AppLabels, buf : Seq(Told \cup {Nul}), index : Nat]
      /\ conn \in [pc : {"idle", "body", "ended"}, len : 0..4, serv_ptr : Nat, ctl : BOOLEAN]
      /\ history \in [asked : Seq(RequestMsg), acted : Seq(Verdicts),
                      answered : SUBSET (Nat \X Int), queries : Nat, cut : BOOLEAN]
  BY DEF TypeInv, PlayerOK, RdOK, AppOK, ConnOK, HistoryOK
<1>1. CASE UNCHANGED <<rd.applied, player, app.pc, wire.answers, history>>
  BY <1>1, AnswerKept DEF Alone
<1>2. CASE UNCHANGED vars
  BY <1>1, <1>2 DEF vars
<1>3. CASE rsnd_thread
  <2>1. CASE rsnd_send_info_query
    <3>1. /\ player' = [player EXCEPT !.pc = "header", !.client_ptr = -1, !.serv_ptr = -1]
          /\ UNCHANGED <<rd, app, conn>>
          /\ \/ Send(Request("INFO", rd.total_written, "")) \/ UNCHANGED <<wire, history>>
      BY <2>1 DEF rsnd_send_info_query
    <3>2. player'.pc = "header" /\ player'.client_ptr = -1
      <4> DEFINE no == -1
      <4>1. player' = [player EXCEPT !.pc = "header", !.client_ptr = no, !.serv_ptr = no]
        BY <3>1
      <4>2. no = -1
        OBVIOUS
      <4> HIDE DEF no
      <4> QED BY <1>0, <4>1, <4>2
    <3>3. Request("INFO", rd.total_written, "") \in RequestMsg
      BY <1>0 DEF Request, RequestMsg, NameKinds
    <3>4. /\ \A c : AskedAt(history.asked, c) => AskedAt(history'.asked, c)
          /\ wire'.answers = wire.answers /\ history'.answered = history.answered
          /\ history'.cut = history.cut
      BY <3>1, <3>3, AskedGrows
    <3>5. Alone' => Alone
      BY <3>1, <3>4 DEF Alone
    <3> QED BY <3>1, <3>2, <3>4, <3>5, AnswerKept
  <2>2. ASSUME NEW l, l \notin {"body", "apply"}, Player(l), rd'.applied = rd.applied,
               UNCHANGED <<app, wire, history>>
        PROVE  AnswerInv'
    BY <2>2, AnswerKept, PlayerMoves DEF Alone
  <2>3. CASE NoQuery
    BY <2>2, <2>3 DEF NoQuery
  <2>4. CASE Sleep
    BY <2>2, <2>4 DEF Sleep
  <2>5. CASE Wake
    BY <2>2, <2>5 DEF Wake
  <2>6. CASE SendChunk
    <3> DEFINE a == rd.fifo - Chunk
               b == rd.total_written + Chunk
    <3>1. rd' = [rd EXCEPT !.fifo = a, !.total_written = b] /\ Player("top") /\ UNCHANGED <<app, wire, history>>
      BY <2>6 DEF SendChunk
    <3> HIDE DEF a, b
    <3>2. rd'.applied = rd.applied
      BY <1>0, <3>1
    <3> QED BY <2>2, <3>1, <3>2
  <2>7. CASE UpdateOffset
    <3> DEFINE e == IF Recent THEN <<player.client_ptr, player.serv_ptr>> ELSE rd.applied
    <3>1. /\ rd' = [rd EXCEPT !.use_latency = TRUE, !.applied = e] /\ player.pc = "apply"
          /\ Player("chunk") /\ UNCHANGED <<app, conn, wire, history>>
      BY <2>7 DEF UpdateOffset
    <3>2. /\ player'.pc = "chunk"
          /\ player'.client_ptr = player.client_ptr /\ player'.serv_ptr = player.serv_ptr
      BY <3>1, PlayerMoves
    <3>3. SUFFICES ASSUME Alone' PROVE AnswerInv'
      BY DEF AnswerInv
    <3>4. /\ Whole(wire.answers) /\ Real(wire.answers, history.asked, history.answered)
          /\ Given(history.asked, history.answered, player.client_ptr, player.serv_ptr)
          /\ rd.applied = << >> \/ Followed(history.asked, history.answered, rd.applied)
      BY <3>1, <3>3 DEF AnswerInv, Alone
    <3>5. e = << >> \/ Followed(history.asked, history.answered, e)
      BY <3>4 DEF Given, Followed
    <3> HIDE DEF e
    <3>6. rd'.applied = e
      BY <1>0, <3>1
    <3> QED BY <3>1, <3>2, <3>4, <3>5, <3>6 DEF AnswerInv
  <2> QED BY <1>3, <2>1, <2>3, <2>4, <2>5, <2>6, <2>7, AnswerHeader, AnswerBody DEF rsnd_thread
<1>4. CASE Application
  <2>0. ASSUME app'.pc \notin {"connected", "ready", "stopped"} PROVE AnswerInv'
    BY <2>0 DEF AnswerInv, Alone
  <2>1. CASE rsnd_send_identity_info
    <3>1. PICK name \in Names : IF name = "" THEN UNCHANGED <<wire, history>>
                                ELSE Send(Request("IDENTITY", 0, name))
      BY <2>1 DEF rsnd_send_identity_info
    <3>2. Request("IDENTITY", 0, name) \in RequestMsg
      BY ControlAssumption DEF Request, RequestMsg, NameKinds
    <3>3. /\ \A c : AskedAt(history.asked, c) => AskedAt(history'.asked, c)
          /\ wire'.answers = wire.answers /\ history'.answered = history.answered
          /\ history'.cut = history.cut
      BY <3>1, <3>2, AskedGrows
    <3>4. (Alone' => Alone) /\ UNCHANGED <<rd, player>>
      BY <2>1, <3>3 DEF Alone, rsnd_send_identity_info
    <3> QED BY <3>3, <3>4, AnswerKept
  <2>2. CASE rsd_write
    <3> DEFINE a == rd.fifo + Chunk
    <3>1. rd' = [rd EXCEPT !.fifo = a] /\ UNCHANGED <<player, app, conn, wire, history>>
      BY <2>2 DEF rsd_write
    <3> HIDE DEF a
    <3>2. rd'.applied = rd.applied
      BY <1>0, <3>1
    <3> QED BY <1>1, <3>1, <3>2
  <2>3. CASE rsd_delay
    BY <1>0, <1>1, <2>3 DEF rsd_delay
  <2>4. CASE rsd_stop
    <3>1. Request("STOP", 0, "") \in RequestMsg
      BY DEF Request, RequestMsg, NameKinds
    <3>2. /\ \A c : AskedAt(history.asked, c) => AskedAt(history'.asked, c)
          /\ wire'.answers = wire.answers /\ history'.answered = history.answered
          /\ history'.cut = history.cut
      BY <2>4, <3>1, AskedGrows DEF rsd_stop
    <3>3. (Alone' => Alone) /\ rd' = rd /\ Player("ended")
      BY <2>4, <3>2 DEF Alone, rsd_stop
    <3>4. /\ player'.pc = "ended"
          /\ player'.client_ptr = player.client_ptr /\ player'.serv_ptr = player.serv_ptr
      BY <3>3, PlayerMoves
    <3> QED BY <3>2, <3>3, <3>4, AnswerKept
  <2>5. CASE rsnd_close_ctl
    BY <1>0, <2>0, <2>5 DEF rsnd_close_ctl
  <2>6. CASE CloseCtlRead
    <3>1. app.pc = "wait" /\ \/ AppGives("closed")
                             \/ app' = app
                             \/ \E b, n : app' = [app EXCEPT !.buf = b, !.index = n]
      BY <2>6 DEF CloseCtlRead
    <3>2. app'.pc \in {"closed", "wait"}
      BY <1>0, <3>1 DEF AppGives
    <3> QED BY <2>0, <3>2
  <2>7. CASE CloseCtlHup \/ CloseCtlFails
    <3>1. app'.pc \in {"closed", "refused"}
      BY <1>0, <2>7 DEF CloseCtlHup, CloseCtlFails, AppGives
    <3> QED BY <2>0, <3>1
  <2> QED BY <1>4, <2>1, <2>2, <2>3, <2>4, <2>5, <2>6, <2>7 DEF Application
<1>5. CASE rsd_thread
  <2>1. CASE receive_data
    BY <1>1, <2>1 DEF receive_data
  <2>2. CASE HandleHeader
    <3>1. PICK u \in Arrived(Header, "requests") :
            wire' = Rest("requests", u) /\ UNCHANGED <<rd, player, app, history>>
      BY <2>2 DEF HandleHeader
    <3>2. Header \in Nat
      BY DEF Header
    <3>3. wire'.answers = wire.answers
      BY <3>1, <3>2, RestFacts
    <3> QED BY <1>1, <3>1, <3>3
  <2>3. CASE HandleBody
    <3>1. PICK u \in Arrived(conn.len, "requests") : Dropped(u) \/ Noted(u) \/ Informed(u) \/ LetGo(u)
      BY <2>3, BodyCases
    <3>2. conn.len \in Nat /\ UNCHANGED <<rd, player, app>>
      BY <1>0, <2>3, BodyCases
    <3>3. Rest("requests", u).answers = wire.answers
      BY <3>2, RestFacts
    <3>4. CASE Dropped(u)
      BY <1>1, <3>2, <3>3, <3>4 DEF Dropped
    <3>5. CASE Noted(u)
      <4>1. PICK word : /\ wire' = Rest("requests", u)
                        /\ history' = [history EXCEPT !.acted = Append(history.acted, word)]
        BY <3>5 DEF Noted
      <4>2. history'.asked = history.asked /\ history'.answered = history.answered /\ history'.cut = history.cut
        <5> DEFINE a == Append(history.acted, word)
        <5>1. history' = [history EXCEPT !.acted = a]
          BY <4>1
        <5> HIDE DEF a
        <5> QED BY <1>0, <5>1
      <4>3. wire'.answers = wire.answers
        BY <3>3, <4>1
      <4>4. Alone' => Alone
        BY <3>2, <4>2 DEF Alone
      <4> QED BY <3>2, <4>2, <4>3, <4>4, AnswerKept
    <3>6. CASE Informed(u)
      <4>1. PICK m \in AnswerMsg : send_proto(m, u) /\ m.type = "INFO" /\ m.c = client_ptr(u)
        BY <3>6, InformedMsg
      <4>2. m.c = 0 \/ AskedAt(history.asked, m.c)
        BY <3>2, <4>1, AskedOnWire
      <4> QED BY <3>2, <4>1, <4>2, AnswerSent
    <3>7. CASE LetGo(u)
      <4> DEFINE m == Answer("OK", 0, 0)
      <4>1. m \in AnswerMsg /\ m.type = "OK"
        BY DEF Answer, AnswerMsg
      <4>2. send_proto(m, u)
        BY <3>7 DEF LetGo
      <4> HIDE DEF m
      <4> QED BY <3>2, <4>1, <4>2, AnswerSent
    <3> QED BY <3>1, <3>4, <3>5, <3>6, <3>7
  <2> QED BY <1>5, <2>1, <2>2, <2>3 DEF rsd_thread
<1> QED BY <1>2, <1>3, <1>4, <1>5 DEF Next, Done, vars

(***************************************************************************)
(* rsnd_update_server_info: the estimate follows only answers the server    *)
(* really gave, both numbers whole and from one of them, to a question that *)
(* was asked, however often the server is asked and wherever reads end.     *)
(***************************************************************************)
THEOREM EstimateFollowsTheServer == Spec => []FollowsTheServer
<1>1. Init => AnswerInv
  <2> SUFFICES ASSUME Init PROVE AnswerInv
    OBVIOUS
  <2>1. /\ wire.answers = << >> /\ player.pc = "top" /\ player.client_ptr = -1 /\ rd.applied = << >>
    BY DEF Init
  <2>2. Whole(<< >>) /\ Real(<< >>, history.asked, history.answered)
    BY DEF Whole, Real
  <2> QED BY <2>1, <2>2 DEF AnswerInv
<1>2. TypeInv /\ AnswerInv => FollowsTheServer
  <2> SUFFICES ASSUME TypeInv, AnswerInv, rd.applied # << >>, ~history.cut, app.pc \in {"ready", "stopped"}
               PROVE  /\ rd.applied \in history.answered
                      /\ \E i \in 1..Len(history.asked) : history.asked[i].c = rd.applied[1]
    BY DEF FollowsTheServer
  <2>1. Followed(history.asked, history.answered, rd.applied)
    BY DEF AnswerInv, Alone
  <2> QED BY <2>1 DEF Followed, AskedAt
<1> QED BY <1>1, <1>2, TypeInit, TypeStep, ActsInit, ActsStep, AnswerStep, PTL DEF Spec
=============================================================================
