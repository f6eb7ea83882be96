---------------------------- MODULE OssEmulProofs ----------------------------
(***************************************************************************)
(* The properties of OssEmul for every number of slots and descriptors, and *)
(* every size of FIFO and write.                                            *)
(***************************************************************************)
EXTENDS OssEmul, FiniteSetTheorems, WellFoundedInduction, TLAPS

-----------------------------------------------------------------------------
(* Descriptor numbers *)

\* A set of numbers has a lowest one: the sets 0..f of its members below a
\* given one are finitely many, so strict inclusion has a minimal one.
LEMMA LowestExists ==
  ASSUME NEW S, S \subseteq Nat, S # {}
  PROVE  \E f \in S : \A g \in S : f <= g
<1>1. PICK n \in S : TRUE
  OBVIOUS
<1> DEFINE Up == {T \in SUBSET (0..n) : \E f \in S : f <= n /\ T = 0..f}
<1>2. IsFiniteSet(0..n) /\ n \in Nat /\ n <= n
  BY <1>1, FS_Interval
<1>3. IsWellFoundedOn(StrictSubsetOrdering(0..n), SUBSET (0..n))
  BY <1>2, FS_FiniteSubsetsOfFinite, FS_StrictSubsetOrderingWellFounded
<1>4. Up \subseteq SUBSET (0..n) /\ Up # {}
  <2>1. 0..n \in Up
    BY <1>1, <1>2
  <2> QED BY <2>1
<1>5. PICK T \in Up : \A U \in Up : <<U, T>> \notin StrictSubsetOrdering(0..n)
  <2> HIDE DEF Up
  <2> QED BY <1>3, <1>4, WFMin
<1>6. PICK f \in S : f <= n /\ T = 0..f
  BY <1>5
<1>7. ASSUME NEW g \in S PROVE f <= g
  <2> SUFFICES ASSUME g < f PROVE FALSE
    BY <1>6
  <2>1. 0..g \in Up /\ g <= n /\ f \in T /\ f \notin 0..g /\ (0..g) \subseteq T
    BY <1>2, <1>6
  <2>2. <<0..g, T>> \in StrictSubsetOrdering(0..n)
    BY <1>4, <1>5, <2>1 DEF StrictSubsetOrdering
  <2> QED BY <1>5, <2>1, <2>2
<1> QED BY <1>7

\* What LowestOf picks.
LEMMA LowestFacts ==
  ASSUME NEW S, S \subseteq Nat, S # {}
  PROVE  LowestOf(S) \in S /\ \A g \in S : LowestOf(S) <= g
BY LowestExists DEF LowestOf

\* The two numbers that pipe and socket are given.
LEMMA FreeFdFacts ==
  /\ FreeFds \subseteq Fd
  /\ FreeFds # {} => Lowest \in FreeFds
  /\ Cardinality(FreeFds) = 1 => Lowest \in FreeFds
  /\ Cardinality(FreeFds) >= 2 => Lowest \in FreeFds /\ Second \in FreeFds /\ Second # Lowest
<1>1. FreeFds \subseteq Fd /\ FreeFds \subseteq Nat
  BY OssEmulAssumption DEF FreeFds, Fd
<1>2. FreeFds # {} => Lowest \in FreeFds
  BY <1>1, LowestFacts DEF Lowest
<1>3. IsFiniteSet(FreeFds)
  <2>1. MaxFd \in Int
    BY OssEmulAssumption
  <2>2. IsFiniteSet(0..MaxFd)
    BY <2>1, FS_Interval
  <2> QED BY <1>1, <2>2, FS_Subset DEF Fd
<1>4. ASSUME Cardinality(FreeFds) >= 2
      PROVE  Lowest \in FreeFds /\ Second \in FreeFds /\ Second # Lowest
  <2>1. FreeFds # {}
    BY <1>4, FS_EmptySet
  <2>2. Cardinality(FreeFds \ {Lowest}) = Cardinality(FreeFds) - 1
        /\ IsFiniteSet(FreeFds \ {Lowest}) /\ Cardinality(FreeFds) \in Nat
    BY <1>2, <1>3, <2>1, FS_RemoveElement, FS_CardinalityType
  <2>3. FreeFds \ {Lowest} # {}
    BY <1>4, <2>2, FS_EmptySet
  <2>4. Second \in FreeFds \ {Lowest}
    BY <1>1, <2>3, LowestFacts DEF Second
  <2> QED BY <1>2, <2>1, <2>4
<1>5. Cardinality(FreeFds) = 1 => Lowest \in FreeFds
  BY <1>2, FS_EmptySet
<1> QED BY <1>1, <1>2, <1>4, <1>5

-----------------------------------------------------------------------------
(* Types *)

Handles == [alive : BOOLEAN, socket : Fd \cup {NoFd}, ctl : Fd \cup {NoFd},
            fifo : BOOLEAN, level : 0..BufferSize,
            thread : {"none", "new", "on", "closing"}, conn : {0, 1}]

LEMMA NoHandleType == NoHandle \in Handles /\ Idle \in [pc : Labels, i : Slot, count : Nat, todo : Nat]
BY OssEmulAssumption DEF NoHandle, Handles, Idle, Labels, Slot

\* A handle that has lost its connection.
LEMMA ResetHandle ==
  ASSUME NEW h \in Handles
  PROVE  [h EXCEPT !.socket = NoFd, !.ctl = NoFd, !.thread = "none", !.conn = 0] \in Handles
BY DEF Handles

\* A handle that gets sockets, and one that gets its playback thread.
LEMMA NewHandle ==
  ASSUME NEW h \in Handles, NEW f \in Fd, NEW g \in Fd, NEW c \in {0, 1}
  PROVE  /\ [h EXCEPT !.socket = f, !.ctl = g, !.thread = "new", !.conn = c] \in Handles
         /\ [h EXCEPT !.socket = f, !.thread = "new", !.conn = c] \in Handles
BY DEF Handles

LEMMA StartedHandle ==
  ASSUME NEW h \in Handles
  PROVE  [h EXCEPT !.fifo = TRUE, !.level = 0, !.thread = "on"] \in Handles
<1>1. 0 \in 0..BufferSize
  BY OssEmulAssumption
<1> QED BY <1>1 DEF Handles

\* The slot that open takes.
LEMMA VacantFacts ==
  ASSUME get_vacant_fd # {}
  PROVE  LowestOf(get_vacant_fd) \in Slot /\ rd_fd[LowestOf(get_vacant_fd)] = NoFd
<1>1. get_vacant_fd \subseteq Nat /\ \A i \in get_vacant_fd : i \in Slot /\ rd_fd[i] = NoFd
  BY DEF get_vacant_fd, Slot
<1> QED BY <1>1, LowestFacts

LEMMA CallTypes == TypeOK /\ Call => TypeOK'
<1> SUFFICES ASSUME TypeOK, Call PROVE TypeOK'
  OBVIOUS
<1> USE DEF Handles
<1>1. CASE open_generic
  <2>1. LowestOf(get_vacant_fd) \in Slot
    BY <1>1, VacantFacts DEF open_generic
  <2>2. [NoHandle EXCEPT !.alive = TRUE] \in Handles
    BY NoHandleType
  <2>3. [Idle EXCEPT !.pc = "pipe", !.i = LowestOf(get_vacant_fd)]
          \in [pc : Labels, i : Slot, count : Nat, todo : Nat]
    BY <2>1, NoHandleType DEF Labels
  <2> QED BY <1>1, <2>1, <2>2, <2>3 DEF open_generic, TypeOK, Set, table, program
<1>2. ASSUME NEW i \in Slot, NEW count \in WriteSizes, write(i, count) PROVE TypeOK'
  BY <1>2, OssEmulAssumption DEF write, TypeOK, table, program, Labels
<1>3. ASSUME NEW i \in Slot, SetNonblock(i) PROVE TypeOK'
  BY <1>3 DEF SetNonblock, TypeOK
<1>4. ASSUME NEW i \in Slot, Reset(i) \/ GetSpace(i) \/ close(i) PROVE TypeOK'
  BY <1>4, NoHandleType DEF Reset, GetSpace, close, TypeOK, table, program, Labels, Idle
<1> QED BY <1>1, <1>2, <1>3, <1>4 DEF Call

LEMMA StepTypes == TypeOK /\ Step => TypeOK'
<1> SUFFICES ASSUME TypeOK, Step PROVE TypeOK'
  OBVIOUS
<1> USE DEF Handles
<1>0. app.i \in Slot /\ app \in [pc : Labels, i : Slot, count : Nat, todo : Nat]
      /\ Idle \in [pc : Labels, i : Slot, count : Nat, todo : Nat] /\ handle[app.i] \in Handles
  BY NoHandleType DEF TypeOK
<1>16. ASSUME NEW nb \in BOOLEAN, MakePipe(nb) PROVE TypeOK'
  <2>1. Second \in Fd
    BY <1>16, FreeFdFacts DEF MakePipe
  <2>2. Pipe(app.i) \in Object
    BY <1>0 DEF Pipe, Object
  <2> QED BY <1>0, <1>16, <2>1, <2>2 DEF MakePipe, TypeOK, Return
<1>17. CASE PipeFails
  BY <1>0, <1>17, NoHandleType DEF PipeFails, Set, Return, TypeOK, program
<1>18. CASE MakeSockets
  <2> DEFINE c == IF desc[rd_fd[app.i]] = <<"data", app.i, 1>> THEN 0 ELSE 1
  <2>1. c \in {0, 1}
    OBVIOUS
  <2>2. /\ UNCHANGED <<table, program, breaks, aborted>>
        /\ \/ /\ Cardinality(FreeFds) >= 2
              /\ desc' = [desc EXCEPT ![Lowest] = <<"data", app.i, c>>, ![Second] = <<"ctl", app.i, c>>]
              /\ handle' = [handle EXCEPT ![app.i] =
                    [handle[app.i] EXCEPT !.socket = Lowest, !.ctl = Second, !.thread = "new", !.conn = c]]
              /\ Goto("connect")
           \/ /\ Cardinality(FreeFds) = 1
              /\ desc' = [desc EXCEPT ![Lowest] = <<"data", app.i, c>>]
              /\ handle' = [handle EXCEPT ![app.i] =
                    [handle[app.i] EXCEPT !.socket = Lowest, !.thread = "new", !.conn = c]]
              /\ Goto("stop_start")
           \/ Goto("stop_start") /\ UNCHANGED <<desc, handle>>
    BY <1>18 DEF MakeSockets, Set
  <2> HIDE DEF c
  <2>3. <<"data", app.i, c>> \in Object /\ <<"ctl", app.i, c>> \in Object
    BY <1>0, <2>1 DEF Object
  <2>4. /\ Cardinality(FreeFds) >= 2 => Lowest \in Fd /\ Second \in Fd
        /\ Cardinality(FreeFds) = 1 => Lowest \in Fd
    BY FreeFdFacts
  <2>5. desc' \in [Fd -> Object]
    BY <2>2, <2>3, <2>4 DEF TypeOK
  <2>6. handle' \in [Slot -> Handles]
    <3>1. handle \in [Slot -> Handles]
      BY DEF TypeOK
    <3> HIDE DEF Handles
    <3>2. CASE Cardinality(FreeFds) >= 2 /\ handle' = [handle EXCEPT ![app.i] =
                    [handle[app.i] EXCEPT !.socket = Lowest, !.ctl = Second, !.thread = "new", !.conn = c]]
      BY <1>0, <2>1, <2>4, <3>1, <3>2, NewHandle
    <3>3. CASE Cardinality(FreeFds) = 1 /\ handle' = [handle EXCEPT ![app.i] =
                    [handle[app.i] EXCEPT !.socket = Lowest, !.thread = "new", !.conn = c]]
      BY <1>0, <2>1, <2>4, <3>1, <3>3, NewHandle
    <3> QED BY <2>2, <3>1, <3>2, <3>3
  <2>7. app' \in [pc : Labels, i : Slot, count : Nat, todo : Nat]
    BY <1>0, <2>2 DEF Goto, Labels
  <2> QED BY <2>2, <2>5, <2>6, <2>7 DEF TypeOK, table, program
<1>1. CASE StreamIsOpen \/ rsd_start_fails \/ rsd_write_fails \/ WriteDone
  BY <1>0, <1>1 DEF StreamIsOpen, rsd_start_fails, rsd_write_fails, WriteDone, Goto, Return,
     TypeOK, table, program, Labels
<1>2. CASE rsd_start
  <2>1. [handle[app.i] EXCEPT !.fifo = TRUE, !.level = 0, !.thread = "on"] \in Handles
    BY <1>0, StartedHandle
  <2> QED BY <1>0, <1>2, <2>1 DEF rsd_start, Set, Goto, TypeOK, table, program, Labels
<1>3. CASE Reroute
  BY <1>0, <1>3 DEF Reroute, Goto, Return, TypeOK, table, program, Labels
<1>4. CASE CutToAvail
  <2>1. rsd_get_avail \in Nat
    BY <1>0, OssEmulAssumption DEF rsd_get_avail
  <2>2. app' \in [pc : Labels, i : Slot, count : Nat, todo : Nat]
    BY <1>0, <1>4, <2>1 DEF CutToAvail, Return, Labels
  <2> QED BY <1>4, <2>2 DEF CutToAvail, TypeOK, table, program
<1>5. CASE rsd_write
  <2>1. app' \in [pc : Labels, i : Slot, count : Nat, todo : Nat]
    BY <1>0, <1>5 DEF rsd_write
  <2>2. [handle[app.i] EXCEPT !.level = @ + 1] \in Handles
    BY <1>0, <1>5, OssEmulAssumption DEF rsd_write
  <2> QED BY <1>0, <1>5, <2>1, <2>2 DEF rsd_write, Set, TypeOK, table, program
<1>6. CASE rsd_stop
  <2>1. desc' \in [Fd -> Object] /\ handle' \in [Slot -> Handles]
    BY <1>0, <1>6, ResetHandle DEF rsd_stop, Closing, Set, TypeOK, Object, Free
  <2>2. app' \in [pc : Labels, i : Slot, count : Nat, todo : Nat]
    BY <1>0, <1>6 DEF rsd_stop, AfterStop, Goto, Return, Labels
  <2> QED BY <1>6, <2>1, <2>2 DEF rsd_stop, TypeOK, table, program
<1>7. CASE CloseFd
  BY <1>0, <1>7 DEF CloseFd, Closing, Goto, TypeOK, table, program, Labels, Object, Free
<1>8. CASE rsd_free
  BY <1>0, <1>8, NoHandleType DEF rsd_free, Set, Goto, TypeOK, table, program, Labels
<1>9. CASE ClearSlot
  <2>1. 0 \in Fd
    BY OssEmulAssumption DEF Fd
  <2> QED BY <1>0, <1>9, <2>1 DEF ClearSlot, Goto, TypeOK, program, Labels
<1>10. CASE VacateSlot
  BY <1>0, <1>10 DEF VacateSlot, Return, TypeOK, program
<1>11. ASSUME NEW i \in Slot, Play(i) PROVE TypeOK'
  <2>1. [handle[i] EXCEPT !.level = @ - 1] \in Handles
    BY <1>11, OssEmulAssumption DEF Play, TypeOK
  <2> QED BY <1>11, <2>1 DEF Play, Set, TypeOK, table, program
<1>12. ASSUME NEW i \in Slot, PlayFails(i) PROVE TypeOK'
  <2>1. desc' \in [Fd -> Object] /\ breaks' \in 0..MaxBreaks
    BY <1>12, OssEmulAssumption DEF PlayFails, Closing, TypeOK, Object, Free
  <2>2. [handle[i] EXCEPT !.thread = "closing"] \in Handles
    BY DEF TypeOK
  <2> QED BY <1>12, <2>1, <2>2 DEF PlayFails, Set, TypeOK, table, program
<1>13. ASSUME NEW i \in Slot, PlayResets(i) PROVE TypeOK'
  <2>1. handle' \in [Slot -> Handles]
    BY <1>13, ResetHandle DEF PlayResets, Set, TypeOK
  <2> QED BY <1>13, <2>1 DEF PlayResets, TypeOK, table, program
<1>14. CASE OpenFile
  <2>1. Lowest \in Fd
    BY <1>14, FreeFdFacts DEF OpenFile
  <2> QED BY <1>14, <2>1 DEF OpenFile, TypeOK, table, Object, File
<1>15. ASSUME NEW f \in files, CloseFile(f) PROVE TypeOK'
  BY <1>15 DEF CloseFile, Closing, TypeOK, table, Object, Free
<1>19. ASSUME NEW f \in files, CloseDying(f) PROVE TypeOK'
  BY <1>19 DEF CloseDying, TypeOK, table, program
<1> QED BY <1>1, <1>2, <1>3, <1>4, <1>5, <1>6, <1>7, <1>8, <1>9, <1>10, <1>11, <1>12, <1>13,
          <1>14, <1>15, <1>16, <1>17, <1>18, <1>19 DEF Step, OpenSteps, WriteSteps, CloseSteps

(***************************************************************************)
(* Every variable keeps its type: no number goes beyond the descriptor      *)
(* table, no FIFO beyond its size, and only a device is asked for.          *)
(***************************************************************************)
THEOREM TypeCorrect == Spec => []TypeOK
<1>1. Init => TypeOK
  <2> SUFFICES ASSUME Init PROVE TypeOK
    OBVIOUS
  <2>1. handle \in [Slot -> Handles] /\ app \in [pc : Labels, i : Slot, count : Nat, todo : Nat]
    BY NoHandleType DEF Init
  <2>2. desc \in [Fd -> Object]
    BY DEF Init, Object, File, Free
  <2>3. 0 \in Fd /\ 0 \in 0..MaxBreaks
    BY OssEmulAssumption DEF Fd
  <2>4. rd_fd \in [Slot -> Fd \cup {NoFd}] /\ nonblock \in [Slot -> BOOLEAN]
    BY DEF Init
  <2> QED BY <2>1, <2>2, <2>3, <2>4 DEF Init, TypeOK, Handles
<1>2. TypeOK /\ [Next]_vars => TypeOK'
  BY CallTypes, StepTypes DEF Next, vars, table, program, TypeOK
<1> QED BY <1>1, <1>2, PTL DEF Spec
-----------------------------------------------------------------------------
(* The slots: what a device, a device that is being closed and a vacant     *)
(* slot look like between any two steps                                     *)

CloseLabels  == {"stop_close", "os_close", "free", "memset", "vacate"}
DeviceLabels == {"start", "connect", "dup2", "avail", "rsd_write", "stop_start", "stop_write",
                 "stop_reset"}

\* close has begun and the slot is not vacant yet.
Leaving(i) == app.i = i /\ app.pc \in CloseLabels

\* open has begun and the slot has no number yet.
Opening(i) == app.i = i /\ app.pc = "pipe"

\* The slot's number is still its own.
Holding(i) == i \in devices \/ (app.i = i /\ app.pc \in {"stop_close", "os_close"})

\* The stream has its sockets; its playback thread has closed them but not
\* forgotten them.
On(i)      == handle[i].thread \in {"new", "on"}
Failing(i) == handle[i].thread = "closing"

SlotOK(i) ==
  /\ i \notin devices /\ ~Leaving(i) => rd_fd[i] = NoFd /\ ~nonblock[i]
  /\ i \notin devices /\ ~Leaving(i) /\ ~Opening(i) => handle[i] = NoHandle
  /\ Opening(i) => i \notin devices /\ handle[i] = [NoHandle EXCEPT !.alive = TRUE]
  /\ Holding(i) => rd_fd[i] \in Fd /\ handle[i].alive
  /\ IF handle[i].thread = "none" THEN handle[i].socket = NoFd /\ handle[i].ctl = NoFd
     ELSE handle[i].socket \in Fd /\ Holding(i)
  /\ app.i = i /\ app.pc \in {"os_close", "free"} => handle[i].thread = "none"
  /\ app.i = i /\ app.pc \in {"memset", "vacate"} => handle[i] = NoHandle
  /\ app.i = i /\ app.pc = "vacate" => ~nonblock[i]
  /\ i \in devices => (nonblock[i] <=> i \in asked)

AppOK ==
  /\ app.pc \in DeviceLabels => app.i \in devices
  /\ app.pc \in CloseLabels => app.i \notin devices
  /\ app.pc = "connect" => handle[app.i].thread = "new"
  /\ app.pc = "rsd_write" /\ app.i \in asked => app.todo + handle[app.i].level <= BufferSize

SlotInv == AppOK /\ \A i \in Slot : SlotOK(i)

\* What TypeOK says of one slot.
LEMMA HandleFacts ==
  ASSUME TypeOK, NEW i \in Slot
  PROVE  /\ handle[i] \in Handles /\ nonblock[i] \in BOOLEAN /\ rd_fd[i] \in Fd \cup {NoFd}
         /\ handle[i].level \in Nat /\ handle[i].level <= BufferSize
         /\ app.i \in Slot /\ app.todo \in Nat /\ app.count \in Nat /\ NoFd \notin Fd
BY OssEmulAssumption DEF TypeOK, Handles, NoFd, Fd

LEMMA SlotCall == TypeOK /\ SlotInv /\ Call => SlotInv'
<1> SUFFICES ASSUME TypeOK, SlotInv, Call PROVE SlotInv'
  OBVIOUS
<1>1. CASE open_generic
  <2>1. PICK i \in Slot : i = LowestOf(get_vacant_fd) /\ rd_fd[i] = NoFd
    BY <1>1, VacantFacts DEF open_generic
  <2>2. i \notin devices /\ app.pc = "idle"
    BY <1>1, <2>1, HandleFacts DEF open_generic, SlotInv, SlotOK, Holding
  <2>3. /\ handle' = [handle EXCEPT ![i] = [NoHandle EXCEPT !.alive = TRUE]]
        /\ app'.pc = "pipe" /\ app'.i = i /\ UNCHANGED <<rd_fd, nonblock, asked, devices>>
    BY <1>1, <2>1 DEF open_generic, Set, Idle, table, program
  <2>4. AppOK'
    BY <2>3 DEF AppOK, DeviceLabels, CloseLabels
  <2>5. ~nonblock[i]
    BY <2>1, <2>2 DEF SlotInv, SlotOK, Leaving, CloseLabels
  <2>6. ASSUME NEW j \in Slot PROVE SlotOK(j)'
    <3>1. CASE j = i
      BY <2>1, <2>2, <2>3, <2>5, <3>1
         DEF TypeOK, SlotOK, Holding, Leaving, Opening, CloseLabels, NoHandle
    <3>2. CASE j # i
      <4>1. handle'[j] = handle[j]
        BY <2>1, <2>3, <3>2 DEF TypeOK
      <4> QED BY <2>2, <2>3, <3>2, <4>1 DEF SlotInv, SlotOK, Holding, Leaving, Opening, CloseLabels
    <3> QED BY <3>1, <3>2
  <2> QED BY <2>4, <2>6 DEF SlotInv
<1>2. ASSUME NEW i \in Slot, NEW count \in WriteSizes, write(i, count) PROVE SlotInv'
  BY <1>2 DEF write, table, program, SlotInv, SlotOK, AppOK, Holding, Leaving, Opening, CloseLabels, DeviceLabels
<1>3. ASSUME NEW i \in Slot, SetNonblock(i) PROVE SlotInv'
  BY <1>3 DEF SetNonblock, TypeOK, SlotInv, SlotOK, AppOK, Holding, Leaving, Opening, CloseLabels, DeviceLabels
<1>4. ASSUME NEW i \in Slot, Reset(i) \/ GetSpace(i) PROVE SlotInv'
  BY <1>4 DEF Reset, GetSpace, Idle, table, program, SlotInv, SlotOK, AppOK, Holding, Leaving, Opening,
     CloseLabels, DeviceLabels
<1>5. ASSUME NEW i \in Slot, close(i) PROVE SlotInv'
  BY <1>5 DEF close, Idle, table, TypeOK, SlotInv, SlotOK, AppOK, Holding, Leaving, Opening,
     CloseLabels, DeviceLabels
<1> QED BY <1>1, <1>2, <1>3, <1>4, <1>5 DEF Call

\* A handle that changes in its level or its thread only.
LEMMA SlotStep == TypeOK /\ SlotInv /\ Step => SlotInv'
<1> SUFFICES ASSUME TypeOK, SlotInv, Step PROVE SlotInv'
  OBVIOUS
<1>0. app.i \in Slot /\ handle[app.i] \in Handles
  BY HandleFacts DEF TypeOK, Handles
<1> USE DEF SlotInv, SlotOK, AppOK, Holding, Leaving, Opening, CloseLabels, DeviceLabels
<1>1. CASE StreamIsOpen \/ rsd_start_fails \/ rsd_write_fails \/ WriteDone
  BY <1>1 DEF StreamIsOpen, rsd_start_fails, rsd_write_fails, WriteDone, Goto, Return, Idle,
     TypeOK, table, program
<1>2. CASE rsd_start
  BY <1>0, <1>2, HandleFacts DEF rsd_start, Set, Goto, TypeOK, Handles, table, program
<1>16. ASSUME NEW nb \in BOOLEAN, MakePipe(nb) PROVE SlotInv'
  <2>1. PICK i \in Slot : i = app.i
    BY <1>0
  <2>2. /\ Opening(i) /\ i \notin devices /\ Second \in Fd /\ ~nonblock[i] /\ i \notin asked
        /\ handle[i] = [NoHandle EXCEPT !.alive = TRUE]
    BY <1>16, <2>1, FreeFdFacts DEF MakePipe, TypeOK
  <2>3. /\ rd_fd' = [rd_fd EXCEPT ![i] = Second]
        /\ nonblock' = IF nb THEN [nonblock EXCEPT ![i] = TRUE] ELSE nonblock
        /\ asked' = (IF nb THEN asked \cup {i} ELSE asked \ {i})
        /\ devices' = devices \cup {i} /\ app'.pc = "idle" /\ handle' = handle
    BY <1>16, <2>1 DEF MakePipe, Return, Idle
  <2>4. AppOK'
    BY <2>3
  <2>5. ASSUME NEW j \in Slot PROVE SlotOK(j)'
    <3>1. CASE j = i
      <4>1. rd_fd'[i] \in Fd /\ handle'[i].alive /\ handle'[i].thread = "none"
            /\ handle'[i].socket = NoFd /\ handle'[i].ctl = NoFd /\ (nonblock'[i] <=> i \in asked')
        BY <2>2, <2>3 DEF TypeOK, NoHandle
      <4> QED BY <2>3, <3>1, <4>1
    <3>2. CASE j # i
      <4>1. /\ rd_fd'[j] = rd_fd[j] /\ nonblock'[j] = nonblock[j] /\ handle'[j] = handle[j]
            /\ (j \in devices' <=> j \in devices) /\ (j \in asked' <=> j \in asked)
        BY <2>1, <2>3, <3>2 DEF TypeOK
      <4> QED BY <2>1, <2>2, <2>3, <3>2, <4>1
    <3> QED BY <3>1, <3>2
  <2> QED BY <2>4, <2>5
<1>17. CASE PipeFails
  <2>1. PICK i \in Slot : i = app.i
    BY <1>0
  <2>2. /\ app.pc = "pipe" /\ i \notin devices /\ i \notin asked /\ app'.pc = "idle"
        /\ UNCHANGED <<devices, asked>>
        /\ rd_fd' = [rd_fd EXCEPT ![i] = NoFd] /\ nonblock' = [nonblock EXCEPT ![i] = FALSE]
        /\ handle' = [handle EXCEPT ![i] = NoHandle]
    BY <1>17, <2>1 DEF PipeFails, Set, Return, Idle, TypeOK, program
  <2>3. AppOK'
    BY <2>2
  <2>4. ASSUME NEW j \in Slot PROVE SlotOK(j)'
    <3>1. CASE j = i
      BY <2>2, <3>1 DEF TypeOK, NoHandle
    <3>2. CASE j # i
      <4>1. rd_fd'[j] = rd_fd[j] /\ nonblock'[j] = nonblock[j] /\ handle'[j] = handle[j]
        BY <2>1, <2>2, <3>2 DEF TypeOK
      <4> QED BY <2>1, <2>2, <3>2, <4>1
    <3> QED BY <3>1, <3>2
  <2> QED BY <2>3, <2>4
<1>18. CASE MakeSockets
  <2>1. PICK i \in Slot : i = app.i
    BY <1>0
  <2>2. /\ app.pc = "start" /\ app'.i = i /\ app'.pc \in {"connect", "stop_start"} /\ i \in devices
        /\ UNCHANGED <<table, program>>
    BY <1>18, <2>1 DEF MakeSockets, Goto, TypeOK
  <2>3. /\ \A j \in Slot : j # i => handle'[j] = handle[j]
        /\ \/ handle'[i] = handle[i] /\ app'.pc = "stop_start"
           \/ /\ handle'[i].thread = "new" /\ handle'[i].socket \in Fd
              /\ handle'[i].alive = handle[i].alive
    <3> DEFINE c == IF desc[rd_fd[i]] = <<"data", i, 1>> THEN 0 ELSE 1
    <3>1. \/ handle' = handle /\ app'.pc = "stop_start"
          \/ /\ Lowest \in Fd
             /\ handle' = [handle EXCEPT ![i] =
                   [handle[i] EXCEPT !.socket = Lowest, !.ctl = Second, !.thread = "new", !.conn = c]]
          \/ /\ Lowest \in Fd
             /\ handle' = [handle EXCEPT ![i] =
                   [handle[i] EXCEPT !.socket = Lowest, !.thread = "new", !.conn = c]]
      BY <1>18, <2>1, FreeFdFacts DEF MakeSockets, Goto, Set, TypeOK
    <3> HIDE DEF c
    <3>2. handle \in [Slot -> Handles] /\ handle[i] \in Handles
      BY <2>1 DEF TypeOK, Handles
    <3>3. CASE Lowest \in Fd /\ handle' = [handle EXCEPT ![i] =
                   [handle[i] EXCEPT !.socket = Lowest, !.ctl = Second, !.thread = "new", !.conn = c]]
      BY <3>2, <3>3 DEF Handles
    <3>4. CASE Lowest \in Fd /\ handle' = [handle EXCEPT ![i] =
                   [handle[i] EXCEPT !.socket = Lowest, !.thread = "new", !.conn = c]]
      BY <3>2, <3>4 DEF Handles
    <3> QED BY <3>1, <3>3, <3>4
  <2>4. AppOK'
    BY <1>0, <2>1, <2>2, <2>3 DEF table, program
  <2>5. ASSUME NEW j \in Slot PROVE SlotOK(j)'
    <3>1. CASE j = i
      BY <2>1, <2>2, <2>3, <3>1 DEF table, program
    <3>2. CASE j # i
      BY <2>1, <2>2, <2>3, <3>2 DEF table, program
    <3> QED BY <3>1, <3>2
  <2> QED BY <2>4, <2>5
<1>3. CASE Reroute
  BY <1>0, <1>3 DEF Reroute, Goto, Return, Idle, TypeOK, table, program
<1>4. CASE CutToAvail
  <2>1. rsd_get_avail = BufferSize - handle[app.i].level /\ handle[app.i].level \in Nat
        /\ app.count \in Nat
    BY <1>0, HandleFacts DEF rsd_get_avail
  <2>2. /\ app.pc = "avail" /\ UNCHANGED <<table, handle, program>>
        /\ app' = Idle \/ (app'.pc = "rsd_write" /\ app'.i = app.i)
    <3>1. PICK n : app' = Idle \/ app' = [app EXCEPT !.pc = "rsd_write", !.count = n, !.todo = n]
      BY <1>4 DEF CutToAvail, Return
    <3>2. app \in [pc : Labels, i : Slot, count : Nat, todo : Nat]
      BY DEF TypeOK
    <3>3. /\ [app EXCEPT !.pc = "rsd_write", !.count = n, !.todo = n].pc = "rsd_write"
          /\ [app EXCEPT !.pc = "rsd_write", !.count = n, !.todo = n].i = app.i
      BY <3>2
    <3>4. app.pc = "avail" /\ UNCHANGED <<table, handle, program>>
      BY <1>4 DEF CutToAvail
    <3> QED BY <3>1, <3>3, <3>4
  <2>3. app'.pc = "rsd_write" /\ app'.i \in asked => app'.todo + handle[app'.i].level <= BufferSize
    <3> SUFFICES ASSUME app'.pc = "rsd_write", app'.i \in asked
                 PROVE  app'.todo + handle[app'.i].level <= BufferSize
      OBVIOUS
    <3>1. app'.i = app.i /\ app.i \in devices
      BY <2>2 DEF Idle
    <3>2. nonblock[app.i]
      BY <1>0, <3>1
    <3> DEFINE n == IF rsd_get_avail < app.count THEN rsd_get_avail ELSE app.count
          m == IF nonblock[app.i] /\ rsd_get_avail < app.count THEN rsd_get_avail ELSE app.count
    <3>5. m = n
      BY <3>2, Zenon DEF m, n
    <3>6. app' = Idle \/ app' = [app EXCEPT !.pc = "rsd_write", !.count = m, !.todo = m]
      BY <1>4 DEF CutToAvail, Return
    <3> HIDE DEF m, n
    <3>7. app' # Idle /\ app \in [pc : Labels, i : Slot, count : Nat, todo : Nat]
      BY DEF Idle, TypeOK
    <3>8. app'.todo = m
      BY <3>6, <3>7
    <3>4. app'.todo = n
      BY <3>5, <3>8
    <3>3. app'.todo <= rsd_get_avail /\ app'.todo \in Int
      BY <2>1, <3>4, OssEmulAssumption DEF n
    <3> QED BY <2>1, <3>1, <3>3, OssEmulAssumption
  <2> QED BY <2>2, <2>3 DEF Idle, table, program
<1>5. CASE rsd_write
  BY <1>0, <1>5, HandleFacts, OssEmulAssumption DEF rsd_write, Set, TypeOK, Handles, table, program
<1>6. CASE rsd_stop
  BY <1>0, <1>6 DEF rsd_stop, Set, AfterStop, Goto, Return, Idle, TypeOK, Handles, table, program
<1>7. CASE CloseFd
  BY <1>0, <1>7 DEF CloseFd, Goto, TypeOK, table, program
<1>8. CASE rsd_free
  <2>1. /\ app.pc = "free" /\ app'.pc = "memset" /\ app'.i = app.i
        /\ handle'[app.i] = NoHandle /\ \A i \in Slot : i # app.i => handle'[i] = handle[i]
        /\ UNCHANGED <<table, program>>
    BY <1>0, <1>8 DEF rsd_free, Set, Goto, TypeOK
  <2>2. NoHandle.thread = "none" /\ NoHandle.socket = NoFd /\ NoHandle.ctl = NoFd
    BY DEF NoHandle
  <2>3. app.i \notin devices
    BY <2>1
  <2>4. AppOK'
    BY <2>1, <2>3 DEF table, program
  <2>5. SlotOK(app.i)'
    BY <1>0, <2>1, <2>2, <2>3 DEF table, program
  <2>6. ASSUME NEW i \in Slot, i # app.i PROVE SlotOK(i)'
    BY <2>1, <2>6 DEF table, program
  <2> HIDE DEF SlotOK, AppOK
  <2>7. \A i \in Slot : SlotOK(i)'
    <3> SUFFICES ASSUME NEW i \in Slot PROVE SlotOK(i)'
      OBVIOUS
    <3>1. CASE i = app.i
      <4>1. i = app'.i
        BY <2>1, <3>1
      <4> QED BY <2>5, <4>1
    <3>2. CASE i # app.i
      BY <2>6, <3>2
    <3> QED BY <3>1, <3>2
  <2> QED BY <2>4, <2>7
<1>9. CASE ClearSlot
  BY <1>0, <1>9 DEF ClearSlot, Goto, TypeOK, program
<1>10. CASE VacateSlot
  BY <1>0, <1>10 DEF VacateSlot, Return, Idle, TypeOK, program
<1>11. ASSUME NEW i \in Slot, Play(i) PROVE SlotInv'
  <2>1. /\ handle' = [handle EXCEPT ![i].level = @ - 1]
        /\ On(i) /\ handle[i].level \in Nat \ {0} /\ UNCHANGED <<table, app, program>>
    BY <1>11, HandleFacts DEF Play, Set, On, TypeOK
  <2>2. \A j \in Slot : SlotOK(j)'
    <3> TAKE j \in Slot
    <3>1. CASE j = i
      BY <2>1, <3>1 DEF TypeOK, Handles, NoHandle, On, table, program
    <3>2. CASE j # i
      <4>1. handle'[j] = handle[j]
        BY <2>1, <3>2 DEF TypeOK
      <4> QED BY <2>1, <4>1 DEF table, program
    <3> QED BY <3>1, <3>2
  <2>3. handle'[app.i].level <= handle[app.i].level /\ handle'[app.i].level \in Int
    BY <1>0, <2>1, HandleFacts DEF TypeOK
  <2>4. AppOK'
    BY <1>0, <2>1, <2>3, HandleFacts, OssEmulAssumption DEF table, program
  <2> QED BY <2>2, <2>4
<1>12. ASSUME NEW i \in Slot, PlayFails(i) PROVE SlotInv'
  <2>1. /\ handle' = [handle EXCEPT ![i].thread = "closing"]
        /\ On(i) /\ handle[i].thread = "on" /\ UNCHANGED <<table, app, program>>
        /\ \A j \in Slot : j # i => handle'[j] = handle[j]
    BY <1>12 DEF PlayFails, Set, On, TypeOK
  <2>2. \A j \in Slot : SlotOK(j)'
    <3> TAKE j \in Slot
    <3>1. CASE j = i
      BY <2>1, <3>1 DEF TypeOK, Handles, NoHandle, On, table, program
    <3>2. CASE j # i
      <4>1. handle'[j] = handle[j]
        BY <2>1, <3>2 DEF TypeOK
      <4> QED BY <2>1, <4>1 DEF table, program
    <3> QED BY <3>1, <3>2
  <2>3. handle'[app.i].level = handle[app.i].level
    BY <1>0, <2>1 DEF TypeOK, Handles
  <2>4. AppOK'
    BY <2>1, <2>3 DEF table, program
  <2> QED BY <2>2, <2>4
<1>13. ASSUME NEW i \in Slot, PlayResets(i) PROVE SlotInv'
  <2>1. /\ handle' = [handle EXCEPT ![i] =
              [@ EXCEPT !.socket = NoFd, !.ctl = NoFd, !.thread = "none", !.conn = 0]]
        /\ Failing(i) /\ handle[i].thread = "closing" /\ UNCHANGED <<table, app, program>>
        /\ \A j \in Slot : j # i => handle'[j] = handle[j]
    BY <1>13 DEF PlayResets, Set, Failing, TypeOK
  <2>2. \A j \in Slot : SlotOK(j)'
    <3> TAKE j \in Slot
    <3>1. CASE j = i
      BY <2>1, <3>1 DEF TypeOK, Handles, NoHandle, Failing, table, program
    <3>2. CASE j # i
      <4>1. handle'[j] = handle[j]
        BY <2>1, <3>2 DEF TypeOK
      <4> QED BY <2>1, <4>1 DEF table, program
    <3> QED BY <3>1, <3>2
  <2>3. handle'[app.i].level = handle[app.i].level
    BY <1>0, <2>1 DEF TypeOK, Handles
  <2>4. AppOK'
    BY <2>1, <2>3 DEF table, program
  <2> QED BY <2>2, <2>4
<1>14. CASE OpenFile
  BY <1>14 DEF OpenFile, TypeOK, table
<1>15. ASSUME NEW f \in files, CloseFile(f) PROVE SlotInv'
  BY <1>15 DEF CloseFile, TypeOK, table
<1>19. ASSUME NEW f \in files, CloseDying(f) PROVE SlotInv'
  BY <1>19 DEF CloseDying, table, program
<1> QED BY <1>1, <1>2, <1>3, <1>4, <1>5, <1>6, <1>7, <1>8, <1>9, <1>10, <1>11, <1>12, <1>13,
          <1>14, <1>15, <1>16, <1>17, <1>18, <1>19 DEF Step, OpenSteps, WriteSteps, CloseSteps

LEMMA SlotHolds == Spec => []SlotInv
<1>1. Init => SlotInv
  BY DEF Init, Idle, NoHandle, SlotInv, SlotOK, AppOK, Holding, Leaving, Opening, CloseLabels, DeviceLabels
<1>2. TypeOK /\ SlotInv /\ [Next]_vars => SlotInv'
  <2> SUFFICES ASSUME TypeOK, SlotInv, [Next]_vars PROVE SlotInv'
    OBVIOUS
  <2>1. CASE UNCHANGED vars
    BY <2>1 DEF vars, table, program, SlotInv, SlotOK, AppOK, Holding, Leaving, Opening
  <2> QED BY <2>1, SlotCall, SlotStep DEF Next
<1> QED BY <1>1, <1>2, TypeCorrect, PTL DEF Spec

(***************************************************************************)
(* O_NONBLOCK and SNDCTL_DSP_NONBLOCK: such a device's write never sleeps,  *)
(* because what it still has to write was cut to the room, which only       *)
(* grows under it; and the next device in the slot does not inherit it.     *)
(***************************************************************************)
THEOREM NonblockHonoured == Spec => []HonoursNonblock
<1>1. TypeOK /\ SlotInv => HonoursNonblock
  <2> SUFFICES ASSUME TypeOK, SlotInv PROVE HonoursNonblock
    OBVIOUS
  <2>1. \A i \in devices : nonblock[i] = (i \in asked)
    BY DEF SlotInv, SlotOK, TypeOK
  <2>2. app.pc = "rsd_write" /\ app.todo > 0 /\ app.i \in asked => handle[app.i].level < BufferSize
    BY HandleFacts, OssEmulAssumption DEF SlotInv, AppOK, TypeOK
  <2> QED BY <2>1, <2>2 DEF HonoursNonblock
<1> QED BY <1>1, TypeCorrect, SlotHolds, PTL

-----------------------------------------------------------------------------
(* The descriptor table: whom a number belongs to, and what it names        *)

\* A number in use is an ordinary file's, a device's or a stream's.
Owned(f) ==
  \/ f \in files
  \/ \E i \in Slot : Holding(i) /\ f = rd_fd[i]
  \/ \E i \in Slot : On(i) /\ f \in {handle[i].socket, handle[i].ctl}

NamesInv ==
  /\ \A f \in files : desc[f] = File
  /\ \A i \in Slot : On(i) => /\ desc[handle[i].socket] = Sock("data", i)
                              /\ handle[i].ctl # NoFd => desc[handle[i].ctl] = Sock("ctl", i)
  /\ \A i \in Slot : Holding(i) => desc[rd_fd[i]] # Free /\ rd_fd[i] \notin files
  /\ \A i, j \in Slot : Holding(i) /\ Holding(j) /\ rd_fd[i] = rd_fd[j] => i = j
  /\ \A i, j \in Slot : Holding(i) /\ On(j) => rd_fd[i] \notin {handle[j].socket, handle[j].ctl}
  /\ \A f \in Fd : desc[f] # Free => Owned(f)

\* The program's number is a duplicate of the stream's, but while a write
\* starts the stream.
RouteInv == \A i \in Slot : On(i) /\ ~Starting(i) => desc[rd_fd[i]] = Sock("data", i)

(***************************************************************************)
(* A playback thread that fails closes its sockets before it forgets their  *)
(* numbers, and for that while dup2 may copy whatever those numbers name by *)
(* now.  That it is never again the lost connection follows from the order  *)
(* in which devices were opened and streams failed: a number given away     *)
(* again belongs to a device opened later, and a copy of the connection to  *)
(* one that was opened before.                                              *)
(***************************************************************************)
Aged(opened, failed) ==
  \A i \in Slot : Failing(i) =>
    /\ opened[i] < failed[i]
    /\ \A j \in Slot : Holding(j) =>
         /\ handle[i].socket = rd_fd[j] => failed[i] < opened[j]
         /\ desc[rd_fd[j]] = Sock("data", i) => opened[j] < failed[i]

AgeInv == \E clock \in Nat : \E opened, failed \in [Slot -> 0..clock] : Aged(opened, failed)

\* What the table's invariants look at.
SameTable ==
  /\ desc' = desc /\ files' = files
  /\ \A i \in Slot :
       /\ Holding(i)' <=> Holding(i)
       /\ Holding(i) => rd_fd'[i] = rd_fd[i]
       /\ On(i)' <=> On(i)
       /\ Failing(i)' => Failing(i)
       /\ On(i) \/ Failing(i)' => /\ handle'[i].socket = handle[i].socket
                                  /\ handle'[i].ctl = handle[i].ctl
                                  /\ handle'[i].conn = handle[i].conn
       /\ Starting(i) /\ On(i) => Starting(i)'

LEMMA SameTableKeeps ==
  SlotInv /\ NamesInv /\ RouteInv /\ AgeInv /\ SameTable => NamesInv' /\ RouteInv' /\ AgeInv'
<1> SUFFICES ASSUME SlotInv, NamesInv, RouteInv, AgeInv, SameTable
             PROVE  NamesInv' /\ RouteInv' /\ AgeInv'
  OBVIOUS
<1>0. \A i \in Slot : On(i) => Holding(i)
  BY DEF SlotInv, SlotOK, On
<1>1. \A i \in Slot : On(i) \/ Failing(i)' => \A kind : Sock(kind, i)' = Sock(kind, i)
  BY DEF SameTable, Sock
<1>2. \A f \in Fd : Owned(f) => Owned(f)'
  BY DEF SameTable, Owned
<1>3. NamesInv'
  BY <1>1, <1>2 DEF NamesInv, SameTable
<1>4. RouteInv'
  BY <1>0, <1>1 DEF RouteInv, SameTable
<1>5. AgeInv'
  <2>1. PICK clock \in Nat : \E opened, failed \in [Slot -> 0..clock] : Aged(opened, failed)
    BY DEF AgeInv
  <2>2. PICK opened \in [Slot -> 0..clock], failed \in [Slot -> 0..clock] : Aged(opened, failed)
    BY <2>1
  <2>3. Aged(opened, failed)'
    BY <1>1, <2>2 DEF Aged, SameTable
  <2> QED BY <2>3 DEF AgeInv
<1> QED BY <1>3, <1>4, <1>5

\* What the slots' invariant says of a stream.
LEMMA StreamFacts ==
  ASSUME TypeOK, SlotInv, NEW i \in Slot
  PROVE  /\ On(i) => Holding(i) /\ handle[i].socket \in Fd /\ ~Failing(i)
         /\ Failing(i) => Holding(i) /\ handle[i].socket \in Fd
         /\ handle[i].ctl \in Fd \cup {NoFd} /\ NoFd \notin Fd
         /\ Holding(i) => rd_fd[i] \in Fd
         /\ ~On(i) /\ ~Failing(i) => handle[i].socket = NoFd /\ handle[i].ctl = NoFd
BY HandleFacts DEF SlotInv, SlotOK, On, Failing, Handles

\* The steps that leave the table alone.
LEMMA QuietCalls ==
  ASSUME NEW i \in Slot, TypeOK, SlotInv,
         \/ \E count \in WriteSizes : write(i, count)
         \/ SetNonblock(i) \/ Reset(i) \/ GetSpace(i) \/ close(i)
  PROVE  SameTable
<1> USE DEF SameTable, Holding, On, Failing, Starting
<1>1. ASSUME NEW count \in WriteSizes, write(i, count) PROVE SameTable
  BY <1>1 DEF write, table, program
<1>2. CASE SetNonblock(i)
  BY <1>2 DEF SetNonblock
<1>3. CASE Reset(i)
  BY <1>3 DEF Reset, Idle, table, program
<1>4. CASE GetSpace(i)
  BY <1>4 DEF GetSpace, table, program
<1>5. CASE close(i)
  BY <1>5 DEF close, Idle, table
<1> QED BY <1>1, <1>2, <1>3, <1>4, <1>5

LEMMA QuietOpens ==
  ASSUME TypeOK, SlotInv, open_generic \/ PipeFails
  PROVE  SameTable
<1> USE DEF SameTable, Holding, On, Failing, Starting
<1>1. handle \in [Slot -> Handles] /\ app.i \in Slot
  BY DEF TypeOK, Handles
<1>2. CASE open_generic
  <2>1. PICK i \in Slot : i = LowestOf(get_vacant_fd) /\ rd_fd[i] = NoFd
    BY <1>2, VacantFacts DEF open_generic
  <2>2. /\ handle' = [handle EXCEPT ![i] = [NoHandle EXCEPT !.alive = TRUE]]
        /\ app.pc = "idle" /\ app'.pc = "pipe" /\ UNCHANGED <<desc, table, program>>
    BY <1>2, <2>1 DEF open_generic, Set, Idle
  <2>3. ~Holding(i)
    BY <2>1, HandleFacts DEF SlotInv, SlotOK
  <2>4. ~On(i) /\ ~Failing(i)
    BY <2>3, StreamFacts
  <2>5. handle'[i].thread = "none" /\ \A j \in Slot : j # i => handle'[j] = handle[j]
    BY <1>1, <2>2 DEF NoHandle
  <2> QED BY <2>2, <2>4, <2>5 DEF table, program
<1>3. CASE PipeFails
  <2>1. PICK i \in Slot : i = app.i
    BY <1>1
  <2>2. /\ handle' = [handle EXCEPT ![i] = NoHandle] /\ rd_fd' = [rd_fd EXCEPT ![i] = NoFd]
        /\ app.pc = "pipe" /\ app'.pc = "idle" /\ UNCHANGED <<desc, program>>
    BY <1>3, <2>1 DEF PipeFails, Set, Return, Idle
  <2>3. i \notin devices /\ ~Holding(i)
    BY <2>1, <2>2 DEF SlotInv, SlotOK, Opening
  <2>4. ~On(i) /\ ~Failing(i)
    BY <2>3, StreamFacts
  <2>5. /\ handle'[i].thread = "none"
        /\ \A j \in Slot : j # i => handle'[j] = handle[j] /\ rd_fd'[j] = rd_fd[j]
    BY <1>1, <2>2 DEF NoHandle, TypeOK
  <2> QED BY <2>2, <2>3, <2>4, <2>5 DEF program
<1> QED BY <1>2, <1>3

LEMMA QuietSteps ==
  ASSUME TypeOK, SlotInv,
         \/ StreamIsOpen \/ rsd_start \/ rsd_start_fails \/ CutToAvail \/ rsd_write \/ rsd_write_fails
         \/ WriteDone \/ rsd_free \/ ClearSlot \/ VacateSlot
         \/ \E i \in Slot : Play(i) \/ PlayResets(i)
         \/ \E f \in files : CloseDying(f)
  PROVE  SameTable
<1>0. app.i \in Slot /\ handle \in [Slot -> Handles]
      /\ app \in [pc : Labels, i : Slot, count : Nat, todo : Nat] /\ rd_fd \in [Slot -> Fd \cup {NoFd}]
  BY DEF TypeOK, Handles
<1> USE DEF SameTable, Holding, On, Failing, Starting
<1>1. CASE StreamIsOpen \/ CutToAvail \/ rsd_write_fails \/ WriteDone
  <2>1. /\ UNCHANGED <<desc, table, handle, program>>
        /\ app.pc \notin {"connect", "stop_start", "dup2", "stop_close", "os_close"}
        /\ app'.pc \notin {"stop_close", "os_close"}
    <3>1. CASE StreamIsOpen
      BY <1>0, <3>1 DEF StreamIsOpen, Goto
    <3>2. CASE CutToAvail
      <4>1. app.pc = "avail" /\ UNCHANGED <<desc, table, handle, program>>
        BY <3>2 DEF CutToAvail
      <4>2. PICK n : app' = Idle \/ app' = [app EXCEPT !.pc = "rsd_write", !.count = n, !.todo = n]
        BY <3>2 DEF CutToAvail, Return
      <4>3. Idle.pc = "idle"
        BY DEF Idle
      <4>4. [app EXCEPT !.pc = "rsd_write", !.count = n, !.todo = n].pc = "rsd_write"
        BY <1>0
      <4>5. app'.pc \in {"idle", "rsd_write"}
        BY <4>2, <4>3, <4>4
      <4> QED BY <4>1, <4>5
    <3>3. CASE rsd_write_fails
      BY <1>0, <3>3 DEF rsd_write_fails, Goto
    <3>4. CASE WriteDone
      BY <1>0, <3>4 DEF WriteDone, Return, Idle
    <3> QED BY <1>1, <3>1, <3>2, <3>3, <3>4
  <2> QED BY <2>1 DEF table, program
<1>2. CASE rsd_write
  BY <1>0, <1>2 DEF rsd_write, Set, Handles, table, program
<1>8. CASE rsd_start
  <2>1. PICK i \in Slot : i = app.i
    BY <1>0
  <2>2. /\ app.pc = "connect" /\ app'.pc = "dup2" /\ app'.i = i /\ handle[i].thread = "new"
        /\ handle' = [handle EXCEPT ![i] = [handle[i] EXCEPT !.fifo = TRUE, !.level = 0, !.thread = "on"]]
        /\ UNCHANGED <<desc, table, program>>
    BY <1>0, <1>8, <2>1 DEF rsd_start, Set, Goto, SlotInv, AppOK
  <2>3. /\ handle'[i].thread = "on" /\ handle'[i].socket = handle[i].socket
        /\ handle'[i].ctl = handle[i].ctl /\ handle'[i].conn = handle[i].conn
        /\ \A j \in Slot : j # i => handle'[j] = handle[j]
    BY <1>0, <2>2 DEF Handles
  <2> QED BY <2>1, <2>2, <2>3 DEF table, program
<1>9. CASE rsd_start_fails
  BY <1>0, <1>9 DEF rsd_start_fails, Goto, table, program
<1>10. ASSUME NEW f \in files, CloseDying(f) PROVE SameTable
  BY <1>10 DEF CloseDying, table, program
<1>3. CASE rsd_free
  BY <1>0, <1>3 DEF rsd_free, Set, Goto, NoHandle, table, program, SlotInv, SlotOK, AppOK, CloseLabels
<1>4. CASE ClearSlot
  BY <1>0, <1>4 DEF ClearSlot, Goto, program, SlotInv, AppOK, CloseLabels
<1>5. CASE VacateSlot
  BY <1>0, <1>5 DEF VacateSlot, Return, Idle, program, SlotInv, AppOK, CloseLabels
<1>6. ASSUME NEW i \in Slot, Play(i) PROVE SameTable
  BY <1>0, <1>6 DEF Play, Set, Handles, table, program
<1>7. ASSUME NEW i \in Slot, PlayResets(i) PROVE SameTable
  <2>1. /\ ~On(i) /\ handle'[i].thread = "none" /\ UNCHANGED <<desc, table, app, program>>
        /\ \A j \in Slot : j # i => handle'[j] = handle[j]
    <3> DEFINE h == [handle[i] EXCEPT !.socket = NoFd, !.ctl = NoFd, !.thread = "none", !.conn = 0]
    <3>1. handle[i].thread = "closing" /\ handle' = [handle EXCEPT ![i] = h]
          /\ UNCHANGED <<desc, table, app, program>>
      BY <1>7 DEF PlayResets, Set
    <3>2. h.thread = "none"
      BY <1>0 DEF Handles
    <3> HIDE DEF h
    <3> QED BY <1>0, <3>1, <3>2
  <2> QED BY <2>1 DEF table, program
<1> QED BY <1>1, <1>2, <1>3, <1>4, <1>5, <1>6, <1>7, <1>8, <1>9, <1>10

TableInv == NamesInv /\ RouteInv /\ AgeInv

\* A free number is nobody's.
LEMMA FreeIsNobodys ==
  ASSUME NamesInv, NEW f \in FreeFds
  PROVE  /\ f \notin files /\ \A i \in Slot : Holding(i) => rd_fd[i] # f
         /\ \A i \in Slot : On(i) => f # handle[i].socket /\ f # handle[i].ctl
<1>1. f # NoFd /\ desc[f] = Free /\ f \in Fd
  BY OssEmulAssumption DEF FreeFds, Fd, NoFd
<1> QED BY <1>1 DEF NamesInv, Free, File, Sock

\* The ages stay when no stream begins to fail and no device is opened.
LEMMA AgesStay ==
  ASSUME AgeInv,
         \A i \in Slot : Failing(i)' => Failing(i) /\ handle'[i].socket = handle[i].socket
                                                   /\ handle'[i].conn = handle[i].conn,
         \A j \in Slot : Holding(j)' => Holding(j) /\ rd_fd'[j] = rd_fd[j]
                                                   /\ desc'[rd_fd[j]] = desc[rd_fd[j]]
  PROVE  AgeInv'
<1>1. PICK clock \in Nat : \E opened, failed \in [Slot -> 0..clock] : Aged(opened, failed)
  BY DEF AgeInv
<1>2. PICK opened \in [Slot -> 0..clock], failed \in [Slot -> 0..clock] : Aged(opened, failed)
  BY <1>1
<1>3. Aged(opened, failed)'
  BY <1>2 DEF Aged, Sock
<1> QED BY <1>3 DEF AgeInv

LEMMA OpenFileTable == TypeOK /\ SlotInv /\ TableInv /\ OpenFile => TableInv'
<1> SUFFICES ASSUME TypeOK, SlotInv, NamesInv, RouteInv, AgeInv, OpenFile PROVE TableInv'
  BY DEF TableInv
<1> DEFINE f == Lowest
<1>1. f \in FreeFds /\ f \in Fd
  BY FreeFdFacts DEF OpenFile
<1>2. /\ desc' = [desc EXCEPT ![f] = File] /\ files' = files \cup {f}
      /\ UNCHANGED <<rd_fd, handle, app, devices>>
  BY DEF OpenFile, table
<1> HIDE DEF f
<1>3. \A i \in Slot : /\ Holding(i)' <=> Holding(i)
                      /\ On(i)' <=> On(i)
                      /\ Failing(i)' <=> Failing(i)
                      /\ Starting(i)' <=> Starting(i)
                      /\ \A kind : Sock(kind, i)' = Sock(kind, i)
  BY <1>2 DEF Holding, On, Failing, Starting, Sock
<1>4. desc'[f] = File /\ \A g \in Fd : g # f => desc'[g] = desc[g]
  BY <1>1, <1>2 DEF TypeOK
<1>5. \A g \in Fd : Owned(g) \/ g = f => Owned(g)'
  BY <1>2, <1>3 DEF Owned
<1>6. NamesInv'
  <2>1. \A g \in files' : desc'[g] = File
    BY <1>2, <1>3, <1>4, <1>1, FreeIsNobodys DEF NamesInv, TypeOK
  <2>2. \A i \in Slot : On(i)' => /\ desc'[handle'[i].socket] = Sock("data", i)'
                                  /\ (handle'[i].ctl # NoFd => desc'[handle'[i].ctl] = Sock("ctl", i)')
    BY <1>2, <1>3, <1>4, <1>1, FreeIsNobodys, StreamFacts DEF NamesInv
  <2>3. \A i \in Slot : Holding(i)' => desc'[rd_fd'[i]] # Free /\ rd_fd'[i] \notin files'
    BY <1>2, <1>3, <1>4, <1>1, FreeIsNobodys, StreamFacts DEF NamesInv
  <2>4. \A i, j \in Slot : Holding(i)' /\ Holding(j)' /\ rd_fd'[i] = rd_fd'[j] => i = j
    BY <1>2, <1>3, <1>4 DEF NamesInv
  <2>5. \A i, j \in Slot : Holding(i)' /\ On(j)' => rd_fd'[i] \notin {handle'[j].socket, handle'[j].ctl}
    BY <1>2, <1>3, <1>4 DEF NamesInv
  <2>6. \A g \in Fd : desc'[g] # Free => Owned(g)'
    BY <1>2, <1>3, <1>4, <1>5 DEF NamesInv
  <2> QED BY <2>1, <2>2, <2>3, <2>4, <2>5, <2>6 DEF NamesInv
<1>7. RouteInv'
  BY <1>1, <1>2, <1>3, <1>4, FreeIsNobodys, StreamFacts DEF RouteInv
<1>8. AgeInv'
  BY <1>1, <1>2, <1>3, <1>4, FreeIsNobodys, StreamFacts, AgesStay
<1> QED BY <1>6, <1>7, <1>8 DEF TableInv

LEMMA CloseFileTable ==
  ASSUME NEW f \in files
  PROVE  TypeOK /\ SlotInv /\ TableInv /\ CloseFile(f) => TableInv'
<1> SUFFICES ASSUME TypeOK, SlotInv, NamesInv, RouteInv, AgeInv, CloseFile(f) PROVE TableInv'
  BY DEF TableInv
<1>1. /\ f \in Fd /\ \A i \in Slot : Holding(i) => rd_fd[i] # f
      /\ \A i \in Slot : On(i) => f # handle[i].socket /\ f # handle[i].ctl
  <2>1. f \in Fd /\ f # NoFd /\ desc[f] = File
    BY OssEmulAssumption DEF NamesInv, TypeOK, Fd, NoFd
  <2> QED BY <2>1 DEF NamesInv, File, Sock
<1>2. /\ desc' = Closing({f}) /\ files' = files \ {f}
      /\ UNCHANGED <<rd_fd, handle, app, devices>>
  BY DEF CloseFile, table
<1>3. \A i \in Slot : /\ Holding(i)' <=> Holding(i)
                      /\ On(i)' <=> On(i)
                      /\ Failing(i)' <=> Failing(i)
                      /\ Starting(i)' <=> Starting(i)
                      /\ \A kind : Sock(kind, i)' = Sock(kind, i)
  BY <1>2 DEF Holding, On, Failing, Starting, Sock
<1>4. desc'[f] = Free /\ \A g \in Fd : g # f => desc'[g] = desc[g]
  BY <1>1, <1>2 DEF TypeOK, Closing
<1>5. \A g \in Fd : Owned(g) /\ g # f => Owned(g)'
  BY <1>2, <1>3 DEF Owned
<1>6. NamesInv'
  <2>1. \A g \in files' : desc'[g] = File
    BY <1>2, <1>3, <1>4, <1>1 DEF NamesInv, TypeOK
  <2>2. \A i \in Slot : On(i)' => /\ desc'[handle'[i].socket] = Sock("data", i)'
                                  /\ (handle'[i].ctl # NoFd => desc'[handle'[i].ctl] = Sock("ctl", i)')
    BY <1>2, <1>3, <1>4, <1>1, StreamFacts DEF NamesInv
  <2>3. \A i \in Slot : Holding(i)' => desc'[rd_fd'[i]] # Free /\ rd_fd'[i] \notin files'
    BY <1>2, <1>3, <1>4, <1>1, StreamFacts DEF NamesInv
  <2>4. \A i, j \in Slot : Holding(i)' /\ Holding(j)' /\ rd_fd'[i] = rd_fd'[j] => i = j
    BY <1>2, <1>3, <1>4 DEF NamesInv
  <2>5. \A i, j \in Slot : Holding(i)' /\ On(j)' => rd_fd'[i] \notin {handle'[j].socket, handle'[j].ctl}
    BY <1>2, <1>3, <1>4 DEF NamesInv
  <2>6. \A g \in Fd : desc'[g] # Free => Owned(g)'
    BY <1>2, <1>3, <1>4, <1>5 DEF NamesInv
  <2> QED BY <2>1, <2>2, <2>3, <2>4, <2>5, <2>6 DEF NamesInv
<1>7. RouteInv'
  BY <1>1, <1>2, <1>3, <1>4, StreamFacts DEF RouteInv
<1>8. AgeInv'
  BY <1>1, <1>2, <1>3, <1>4, StreamFacts, AgesStay
<1> QED BY <1>6, <1>7, <1>8 DEF TableInv

LEMMA CloseFdTable == TypeOK /\ SlotInv /\ TableInv /\ CloseFd => TableInv'
<1> SUFFICES ASSUME TypeOK, SlotInv, NamesInv, RouteInv, AgeInv, CloseFd PROVE TableInv'
  BY DEF TableInv
<1> DEFINE f == rd_fd[app.i]
<1>1. /\ app.i \in Slot /\ app.pc = "os_close" /\ app.i \notin devices
      /\ handle[app.i].thread = "none" /\ Holding(app.i)
  <2>1. app.i \in Slot /\ app.pc = "os_close"
    BY DEF TypeOK, CloseFd
  <2> QED BY <2>1 DEF SlotInv, SlotOK, AppOK, CloseLabels, Holding
<1>2. /\ desc' = Closing({f}) /\ app'.pc = "free" /\ app'.i = app.i
      /\ UNCHANGED <<rd_fd, handle, devices, files>>
  BY DEF CloseFd, Goto, table, program, TypeOK
<1>3. \A i \in Slot : /\ Holding(i)' <=> Holding(i) /\ i # app.i
                      /\ On(i)' <=> On(i)
                      /\ Failing(i)' <=> Failing(i)
                      /\ On(i) \/ Failing(i) => i # app.i
                      /\ ~Starting(i)
                      /\ \A kind : Sock(kind, i)' = Sock(kind, i)
  BY <1>1, <1>2 DEF Holding, On, Failing, Starting, Sock
<1>4. /\ f \in Fd /\ f \notin files /\ \A i \in Slot : Holding(i) /\ i # app.i => rd_fd[i] # f
      /\ \A i \in Slot : On(i) => f # handle[i].socket /\ f # handle[i].ctl
  BY <1>1, StreamFacts DEF NamesInv
<1>5. desc'[f] = Free /\ \A g \in Fd : g # f => desc'[g] = desc[g]
  BY <1>2, <1>4 DEF TypeOK, Closing
<1>6. \A g \in Fd : Owned(g) /\ g # f => Owned(g)'
  BY <1>2, <1>3 DEF Owned
<1> HIDE DEF f
<1>7. NamesInv'
  <2>1. \A g \in files' : desc'[g] = File
    BY <1>2, <1>3, <1>5, <1>4 DEF NamesInv, TypeOK
  <2>2. \A i \in Slot : On(i)' => /\ desc'[handle'[i].socket] = Sock("data", i)'
                                  /\ (handle'[i].ctl # NoFd => desc'[handle'[i].ctl] = Sock("ctl", i)')
    <3> SUFFICES ASSUME NEW i \in Slot, On(i)'
                 PROVE  /\ desc'[handle[i].socket] = Sock("data", i)
                        /\ handle[i].ctl # NoFd => desc'[handle[i].ctl] = Sock("ctl", i)
      BY <1>2, <1>3
    <3>1. /\ On(i) /\ handle[i].socket \in Fd \ {f}
          /\ handle[i].ctl # NoFd => handle[i].ctl \in Fd \ {f}
      BY <1>3, <1>4, StreamFacts
    <3> QED BY <1>5, <3>1 DEF NamesInv
  <2>3. \A i \in Slot : Holding(i)' => desc'[rd_fd'[i]] # Free /\ rd_fd'[i] \notin files'
    BY <1>2, <1>3, <1>5, <1>4, StreamFacts DEF NamesInv
  <2>4. \A i, j \in Slot : Holding(i)' /\ Holding(j)' /\ rd_fd'[i] = rd_fd'[j] => i = j
    BY <1>2, <1>3, <1>5 DEF NamesInv
  <2>5. \A i, j \in Slot : Holding(i)' /\ On(j)' => rd_fd'[i] \notin {handle'[j].socket, handle'[j].ctl}
    BY <1>2, <1>3, <1>5 DEF NamesInv
  <2>6. \A g \in Fd : desc'[g] # Free => Owned(g)'
    BY <1>2, <1>3, <1>5, <1>6 DEF NamesInv
  <2> QED BY <2>1, <2>2, <2>3, <2>4, <2>5, <2>6 DEF NamesInv
<1>8. RouteInv'
  BY <1>2, <1>3, <1>4, <1>5, StreamFacts DEF RouteInv
<1>9. AgeInv'
  BY <1>2, <1>3, <1>4, <1>5, StreamFacts, AgesStay
<1> QED BY <1>7, <1>8, <1>9 DEF TableInv

\* The two sockets that a stream closes are no other's.
LEMMA SocketsAreOwn ==
  ASSUME TypeOK, SlotInv, NamesInv, NEW i \in Slot, On(i)
  PROVE  /\ {handle[i].socket, handle[i].ctl} \cap files = {}
         /\ \A j \in Slot : Holding(j) => rd_fd[j] \notin {handle[i].socket, handle[i].ctl}
         /\ \A j \in Slot : On(j) /\ j # i =>
              /\ handle[j].socket \notin {handle[i].socket, handle[i].ctl}
              /\ handle[j].ctl # NoFd => handle[j].ctl \notin {handle[i].socket, handle[i].ctl}
<1>1. ASSUME NEW j \in Slot, On(j)
      PROVE  /\ desc[handle[j].socket] = Sock("data", j)
             /\ handle[j].ctl = NoFd \/ desc[handle[j].ctl] = Sock("ctl", j)
  BY <1>1 DEF NamesInv
<1>2. \A j \in Slot : On(j) => handle[j].socket # NoFd
  BY StreamFacts
<1>9. /\ desc[handle[i].socket] = Sock("data", i)
      /\ handle[i].ctl = NoFd \/ desc[handle[i].ctl] = Sock("ctl", i)
  BY <1>1
<1>3. \A j \in Slot : j # i => {Sock("data", i), Sock("ctl", i)} \cap {Sock("data", j), Sock("ctl", j)} = {}
  BY DEF Sock
<1>4. File \notin {Sock("data", i), Sock("ctl", i)}
  BY DEF File, Sock
<1>5. NoFd \notin files /\ \A f \in files : desc[f] = File
  BY StreamFacts DEF NamesInv, TypeOK
<1>6. {handle[i].socket, handle[i].ctl} \cap files = {}
  <2>1. Sock("data", i) # File /\ Sock("ctl", i) # File
    BY <1>4
  <2>2. handle[i].socket \notin files
    BY <1>5, <1>9, <2>1
  <2>3. handle[i].ctl \notin files
    BY <1>5, <1>9, <2>1
  <2> QED BY <2>2, <2>3
<1>7. \A j \in Slot : Holding(j) => rd_fd[j] \notin {handle[i].socket, handle[i].ctl}
  BY DEF NamesInv
<1>8. ASSUME NEW j \in Slot, On(j), j # i
      PROVE  /\ handle[j].socket \notin {handle[i].socket, handle[i].ctl}
             /\ handle[j].ctl # NoFd => handle[j].ctl \notin {handle[i].socket, handle[i].ctl}
  <2>1. /\ Sock("data", j) # Sock("data", i) /\ Sock("data", j) # Sock("ctl", i)
        /\ Sock("ctl", j) # Sock("data", i) /\ Sock("ctl", j) # Sock("ctl", i)
    BY <1>8 DEF Sock
  <2>6. /\ desc[handle[j].socket] = Sock("data", j) /\ handle[j].socket # NoFd
        /\ handle[j].ctl = NoFd \/ desc[handle[j].ctl] = Sock("ctl", j)
    BY <1>1, <1>2, <1>8
  <2>2. handle[j].socket # handle[i].socket /\ handle[j].socket # NoFd
    BY <1>9, <2>1, <2>6
  <2>3. handle[j].socket # handle[i].ctl
    BY <1>9, <2>1, <2>6
  <2>4. handle[j].ctl # NoFd => handle[j].ctl # handle[i].socket
    BY <1>9, <2>1, <2>6
  <2>5. handle[j].ctl # NoFd => handle[j].ctl # handle[i].ctl
    BY <1>9, <2>1, <2>6
  <2> QED BY <2>2, <2>3, <2>4, <2>5
<1> QED BY <1>6, <1>7, <1>8

\* A stream closes its sockets: rsd_stop, or its thread when a send fails.
LEMMA SocketsClose ==
  ASSUME TypeOK, SlotInv, NamesInv, RouteInv, NEW i \in Slot, On(i), ~On(i)',
         desc' = Closing({handle[i].socket, handle[i].ctl}), files' = files, rd_fd' = rd_fd,
         \A j \in Slot : j # i => handle'[j] = handle[j],
         \A j \in Slot : Holding(j)' <=> Holding(j),
         \A j \in Slot : j # i => (Starting(j)' <=> Starting(j))
  PROVE  /\ NamesInv' /\ RouteInv'
         /\ \A j \in Slot : Holding(j)' => desc'[rd_fd[j]] = desc[rd_fd[j]]
<1> DEFINE S == {handle[i].socket, handle[i].ctl}
<1>1. /\ S \cap files = {}
      /\ \A j \in Slot : Holding(j) => rd_fd[j] \notin S
      /\ \A j \in Slot : On(j) /\ j # i => /\ handle[j].socket \notin S
                                           /\ handle[j].ctl # NoFd => handle[j].ctl \notin S
  BY SocketsAreOwn
<1>2. \A g \in Fd : desc'[g] = IF g \in S THEN Free ELSE desc[g]
  BY DEF TypeOK, Closing
<1>3. \A j \in Slot : /\ On(j)' <=> On(j) /\ j # i
                      /\ j # i => \A kind : Sock(kind, j)' = Sock(kind, j)
  BY DEF On, Sock
<1>4. \A g \in Fd : Owned(g) /\ g \notin S => Owned(g)'
  BY <1>3 DEF Owned
<1> HIDE DEF S
<1>5. NamesInv'
  <2>1. \A g \in files' : desc'[g] = File
    BY <1>1, <1>2 DEF NamesInv, TypeOK
  <2>2. \A j \in Slot : On(j)' => /\ desc'[handle'[j].socket] = Sock("data", j)'
                                  /\ (handle'[j].ctl # NoFd => desc'[handle'[j].ctl] = Sock("ctl", j)')
    BY <1>1, <1>2, <1>3, StreamFacts DEF NamesInv
  <2>3. \A j \in Slot : Holding(j)' => desc'[rd_fd'[j]] # Free /\ rd_fd'[j] \notin files'
    <3> SUFFICES ASSUME NEW j \in Slot, Holding(j)'
                 PROVE  desc'[rd_fd'[j]] # Free /\ rd_fd'[j] \notin files'
      OBVIOUS
    <3> QED BY <1>1, <1>2, StreamFacts DEF NamesInv
  <2>4. \A j, k \in Slot : Holding(j)' /\ Holding(k)' /\ rd_fd'[j] = rd_fd'[k] => j = k
    BY <1>3 DEF NamesInv
  <2>5. \A j, k \in Slot : Holding(j)' /\ On(k)' => rd_fd'[j] \notin {handle'[k].socket, handle'[k].ctl}
    BY <1>3 DEF NamesInv
  <2>6. \A g \in Fd : desc'[g] # Free => Owned(g)'
    BY <1>2, <1>4 DEF NamesInv
  <2> QED BY <2>1, <2>2, <2>3, <2>4, <2>5, <2>6 DEF NamesInv
<1>6. \A j \in Slot : Holding(j)' => desc'[rd_fd[j]] = desc[rd_fd[j]]
  BY <1>1, <1>2, StreamFacts
<1>7. RouteInv'
  BY <1>1, <1>2, <1>3, <1>6, StreamFacts DEF RouteInv
<1> QED BY <1>5, <1>6, <1>7

LEMMA StopTable == TypeOK /\ SlotInv /\ TableInv /\ rsd_stop => TableInv'
<1> SUFFICES ASSUME TypeOK, SlotInv, NamesInv, RouteInv, AgeInv, rsd_stop PROVE TableInv'
  BY DEF TableInv
<1>0. PICK i \in Slot : i = app.i
  BY DEF TypeOK
<1> DEFINE h == [handle[i] EXCEPT !.socket = NoFd, !.ctl = NoFd, !.thread = "none", !.conn = 0]
<1>1. app.i = i /\ app \in [pc : Labels, i : Slot, count : Nat, todo : Nat] /\ handle \in [Slot -> Handles]
  BY <1>0 DEF TypeOK, Handles
<1>2. h.thread = "none"
  BY <1>1 DEF Handles
<1>3. /\ app.pc \in {"stop_start", "stop_write", "stop_reset", "stop_close"} /\ ~Failing(i)
      /\ desc' = Closing({handle[i].socket, handle[i].ctl}) /\ handle' = [handle EXCEPT ![i] = h]
      /\ AfterStop /\ UNCHANGED <<rd_fd, devices, files>>
  BY <1>0 DEF rsd_stop, Failing, Set, table, program
<1> HIDE DEF h
<1>4. /\ ~On(i)' /\ ~Failing(i)' /\ \A j \in Slot : j # i => handle'[j] = handle[j]
  BY <1>1, <1>2, <1>3 DEF On, Failing
<1>5. \A j \in Slot : (Holding(j)' <=> Holding(j)) /\ (j # i => ~Starting(j)) /\ ~Starting(j)'
  <2>1. CASE app.pc = "stop_close"
    BY <1>1, <1>3, <2>1 DEF Holding, Starting, AfterStop, Goto
  <2>2. CASE app.pc # "stop_close"
    BY <1>1, <1>3, <2>2 DEF Holding, Starting, AfterStop, Return, Idle
  <2> QED BY <2>1, <2>2
<1>6. \A j \in Slot : Failing(j)' => Failing(j) /\ handle'[j] = handle[j]
  BY <1>4 DEF Failing
<1>7. CASE On(i)
  <2>1. /\ NamesInv' /\ RouteInv'
        /\ \A j \in Slot : Holding(j)' => desc'[rd_fd[j]] = desc[rd_fd[j]]
    BY <1>1, <1>3, <1>4, <1>5, <1>7, SocketsClose
  <2>2. AgeInv'
    BY <1>3, <1>5, <1>6, <2>1, AgesStay
  <2> QED BY <2>1, <2>2 DEF TableInv
<1>8. CASE ~On(i)
  <2>1. NoFd \notin Fd /\ handle[i].socket = NoFd /\ handle[i].ctl = NoFd
    BY <1>1, <1>3, <1>8, StreamFacts, HandleFacts
  <2>2. desc' = desc
    BY <1>3, <2>1 DEF Closing, TypeOK
  <2>3. \A j \in Slot : On(j)' <=> On(j)
    BY <1>4, <1>8 DEF On
  <2>4. SameTable
    BY <1>3, <1>4, <1>5, <1>6, <1>8, <2>2, <2>3 DEF SameTable
  <2> QED BY <2>4, SameTableKeeps DEF TableInv
<1> QED BY <1>7, <1>8

LEMMA PlayFailsTable ==
  ASSUME NEW i \in Slot
  PROVE  TypeOK /\ SlotInv /\ TableInv /\ PlayFails(i) => TableInv'
<1> SUFFICES ASSUME TypeOK, SlotInv, NamesInv, RouteInv, AgeInv, PlayFails(i) PROVE TableInv'
  BY DEF TableInv
<1>1. /\ On(i) /\ desc' = Closing({handle[i].socket, handle[i].ctl})
      /\ handle' = [handle EXCEPT ![i].thread = "closing"]
      /\ UNCHANGED <<rd_fd, app, devices, files>>
  BY DEF PlayFails, On, Set, table, program, TypeOK
<1>2. /\ ~On(i)' /\ \A j \in Slot : j # i => handle'[j] = handle[j]
      /\ handle'[i].socket = handle[i].socket
  BY <1>1 DEF On, TypeOK
<1>3. \A j \in Slot : (Holding(j)' <=> Holding(j)) /\ (Starting(j)' <=> Starting(j))
  BY <1>1 DEF Holding, Starting
<1>4. /\ NamesInv' /\ RouteInv'
      /\ \A j \in Slot : Holding(j)' => desc'[rd_fd[j]] = desc[rd_fd[j]]
  BY <1>1, <1>2, <1>3, SocketsClose
<1>5. AgeInv'
  <2>1. PICK clock \in Nat : \E opened, failed \in [Slot -> 0..clock] : Aged(opened, failed)
    BY DEF AgeInv
  <2>2. PICK opened \in [Slot -> 0..clock], failed \in [Slot -> 0..clock] : Aged(opened, failed)
    BY <2>1
  <2> DEFINE now == [failed EXCEPT ![i] = clock + 1]
  <2>3. clock + 1 \in Nat /\ opened \in [Slot -> 0..(clock + 1)] /\ now \in [Slot -> 0..(clock + 1)]
    BY <2>1, <2>2
  <2>4. \A j \in Slot : Holding(j) => handle[i].socket # rd_fd[j]
    BY <1>1 DEF NamesInv
  <2>5. now[i] = clock + 1 /\ \A j \in Slot : j # i => now[j] = failed[j]
    BY <2>2
  <2>6. \A j \in Slot : opened[j] < now[i]
    BY <2>1, <2>2, <2>5
  <2> HIDE DEF now
  <2>7. ASSUME NEW k \in Slot, Failing(k)'
        PROVE  /\ opened[k] < now[k]
               /\ \A j \in Slot : Holding(j)' =>
                    /\ handle'[k].socket = rd_fd'[j] => now[k] < opened[j]
                    /\ desc'[rd_fd'[j]] = Sock("data", k)' => opened[j] < now[k]
    <3>1. CASE k = i
      BY <1>1, <1>2, <1>3, <2>4, <2>6, <3>1
    <3>2. CASE k # i
      BY <1>1, <1>2, <1>3, <1>4, <2>2, <2>5, <2>7, <3>2 DEF Aged, Failing, Sock
    <3> QED BY <3>1, <3>2
  <2>8. Aged(opened, now)'
    BY <2>7 DEF Aged
  <2> QED BY <2>3, <2>8 DEF AgeInv
<1> QED BY <1>4, <1>5 DEF TableInv

LEMMA PipeTable ==
  ASSUME NEW nb \in BOOLEAN
  PROVE  TypeOK /\ SlotInv /\ TableInv /\ MakePipe(nb) => TableInv'
<1> SUFFICES ASSUME TypeOK, SlotInv, NamesInv, RouteInv, AgeInv, MakePipe(nb) PROVE TableInv'
  BY DEF TableInv
<1>1. PICK i \in Slot : i = app.i
  BY DEF TypeOK
<1>2. PICK f \in FreeFds : f = Second
  BY FreeFdFacts DEF MakePipe
<1>3. f \in Fd /\ desc[f] = Free
  BY DEF FreeFds
<1>4. /\ desc' = [desc EXCEPT ![f] = Pipe(i)] /\ rd_fd' = [rd_fd EXCEPT ![i] = f]
      /\ devices' = devices \cup {i} /\ UNCHANGED <<handle, files>>
      /\ app.pc = "pipe" /\ app'.pc = "idle"
  BY <1>1, <1>2 DEF MakePipe, Return, Idle
<1>5. ~Holding(i) /\ handle[i].thread = "none"
  BY <1>1, <1>4 DEF SlotInv, SlotOK, Opening, Holding, NoHandle
<1>6. handle'[i].thread = "none" /\ \A j \in Slot : j # i => handle'[j] = handle[j] /\ rd_fd'[j] = rd_fd[j]
  BY <1>4, <1>5 DEF TypeOK
<1>7. ~On(i) /\ ~Failing(i) /\ rd_fd'[i] = f
  BY <1>4, <1>5, StreamFacts DEF TypeOK
<1>8. \A j \in Slot : /\ Holding(j)' <=> Holding(j) \/ j = i
                      /\ On(j)' <=> On(j) /\ j # i
                      /\ On(j) => j # i
                      /\ Failing(j)' => Failing(j) /\ j # i
                      /\ ~Starting(j)
                      /\ j # i => \A kind : Sock(kind, j)' = Sock(kind, j)
  BY <1>4, <1>5, <1>6, <1>7 DEF Holding, On, Failing, Starting, Sock
<1>9. desc'[f] = Pipe(i) /\ \A g \in Fd : g # f => desc'[g] = desc[g]
  BY <1>3, <1>4 DEF TypeOK
<1>10. \A g \in Fd : Owned(g) \/ g = f => Owned(g)'
  <2>1. Holding(i)' /\ \A j \in Slot : Holding(j) => Holding(j)' /\ rd_fd'[j] = rd_fd[j]
    BY <1>5, <1>6, <1>8
  <2>2. \A j \in Slot : On(j) => On(j)' /\ handle'[j] = handle[j]
    BY <1>6, <1>8
  <2>3. files' = files
    BY <1>4
  <2> QED BY <1>7, <2>1, <2>2, <2>3 DEF Owned
<1>11. Pipe(i) # Free /\ Pipe(i) # File /\ \A j \in Slot : Pipe(i) # Sock("data", j)'
  BY DEF Pipe, Free, File, Sock
<1>12. /\ f \notin files /\ \A j \in Slot : Holding(j) => rd_fd[j] # f
       /\ \A j \in Slot : On(j) => f # handle[j].socket /\ f # handle[j].ctl
  BY FreeIsNobodys
<1>13. NamesInv'
  <2>1. \A g \in files' : desc'[g] = File
    BY <1>4, <1>9, <1>12 DEF NamesInv, TypeOK
  <2>2. \A j \in Slot : On(j)' => /\ desc'[handle'[j].socket] = Sock("data", j)'
                                  /\ (handle'[j].ctl # NoFd => desc'[handle'[j].ctl] = Sock("ctl", j)')
    BY <1>6, <1>8, <1>9, <1>12, StreamFacts DEF NamesInv
  <2>3. \A j \in Slot : Holding(j)' => desc'[rd_fd'[j]] # Free /\ rd_fd'[j] \notin files'
    BY <1>4, <1>6, <1>7, <1>8, <1>9, <1>11, <1>12, StreamFacts DEF NamesInv
  <2>4. \A j, k \in Slot : Holding(j)' /\ Holding(k)' /\ rd_fd'[j] = rd_fd'[k] => j = k
    BY <1>6, <1>7, <1>8, <1>12 DEF NamesInv
  <2>5. \A j, k \in Slot : Holding(j)' /\ On(k)' => rd_fd'[j] \notin {handle'[k].socket, handle'[k].ctl}
    BY <1>6, <1>7, <1>8, <1>12 DEF NamesInv
  <2>6. \A g \in Fd : desc'[g] # Free => Owned(g)'
    BY <1>9, <1>10 DEF NamesInv
  <2> QED BY <2>1, <2>2, <2>3, <2>4, <2>5, <2>6 DEF NamesInv
<1>14. RouteInv'
  <2> SUFFICES ASSUME NEW j \in Slot, On(j)' PROVE desc'[rd_fd'[j]] = Sock("data", j)'
    BY DEF RouteInv
  <2>1. /\ On(j) /\ j # i /\ Holding(j) /\ rd_fd[j] \in Fd \ {f} /\ rd_fd'[j] = rd_fd[j]
        /\ Sock("data", j)' = Sock("data", j)
    BY <1>6, <1>8, <1>12, StreamFacts
  <2> QED BY <1>8, <1>9, <2>1 DEF RouteInv
<1>15. AgeInv'
  <2>1. PICK clock \in Nat : \E opened, failed \in [Slot -> 0..clock] : Aged(opened, failed)
    BY DEF AgeInv
  <2>2. PICK opened \in [Slot -> 0..clock], failed \in [Slot -> 0..clock] : Aged(opened, failed)
    BY <2>1
  <2> DEFINE now == [opened EXCEPT ![i] = clock + 1]
  <2>3. clock + 1 \in Nat /\ failed \in [Slot -> 0..(clock + 1)] /\ now \in [Slot -> 0..(clock + 1)]
    BY <2>1, <2>2
  <2>4. now[i] = clock + 1 /\ \A j \in Slot : j # i => now[j] = opened[j]
    BY <2>2
  <2>5. \A j \in Slot : failed[j] < now[i]
    BY <2>1, <2>2, <2>4
  <2> HIDE DEF now
  <2>6. ASSUME NEW k \in Slot, Failing(k)'
        PROVE  /\ now[k] < failed[k]
               /\ \A j \in Slot : Holding(j)' =>
                    /\ handle'[k].socket = rd_fd'[j] => failed[k] < now[j]
                    /\ desc'[rd_fd'[j]] = Sock("data", k)' => now[j] < failed[k]
    <3>1. /\ Failing(k) /\ k # i /\ handle'[k] = handle[k] /\ now[k] = opened[k]
          /\ Sock("data", k)' = Sock("data", k)
      BY <1>6, <1>8, <2>4, <2>6
    <3>2. now[k] < failed[k]
      BY <2>2, <3>1 DEF Aged
    <3>3. ASSUME NEW j \in Slot, Holding(j)'
          PROVE  /\ handle'[k].socket = rd_fd'[j] => failed[k] < now[j]
                 /\ desc'[rd_fd'[j]] = Sock("data", k)' => now[j] < failed[k]
      <4>1. CASE j = i
        BY <1>7, <1>9, <1>11, <2>5, <4>1
      <4>2. CASE j # i
        <5>1. Holding(j) /\ rd_fd'[j] = rd_fd[j] /\ now[j] = opened[j] /\ desc'[rd_fd[j]] = desc[rd_fd[j]]
          BY <1>6, <1>8, <1>9, <1>12, <2>4, <3>3, <4>2, StreamFacts
        <5> QED BY <2>2, <3>1, <5>1 DEF Aged
      <4> QED BY <4>1, <4>2
    <3> QED BY <3>2, <3>3
  <2>7. Aged(now, failed)'
    BY <2>6 DEF Aged
  <2> QED BY <2>3, <2>7 DEF AgeInv
<1> QED BY <1>13, <1>14, <1>15 DEF TableInv

\* The stream that write starts gets one socket or two: f, and g unless it is
\* NoFd.
LEMMA SocketsMade ==
  ASSUME TypeOK, SlotInv, NamesInv, RouteInv, AgeInv, NEW i \in Slot, i = app.i,
         app.pc = "start", app'.pc \in {"connect", "stop_start"}, app'.i = i, handle[i].socket = NoFd,
         UNCHANGED <<rd_fd, devices, files>>,
         NEW f \in FreeFds, NEW g \in (FreeFds \ {f}) \cup {NoFd}, NEW c,
         \A h \in Fd : desc'[h] = IF h = f THEN <<"data", i, c>> ELSE IF h = g THEN <<"ctl", i, c>> ELSE desc[h],
         handle'[i].thread = "new" /\ handle'[i].socket = f /\ handle'[i].ctl = g /\ handle'[i].conn = c,
         \A j \in Slot : j # i => handle'[j] = handle[j]
  PROVE  TableInv'
<1>3. f \in Fd /\ desc[f] = Free /\ NoFd \notin Fd /\ (g # NoFd => g \in Fd /\ desc[g] = Free) /\ f # g
  BY HandleFacts DEF FreeFds
<1>7. ~On(i) /\ ~Failing(i) /\ Holding(i)
  <2>1. i \in devices
    BY DEF SlotInv, AppOK, DeviceLabels
  <2> QED BY <2>1, StreamFacts, HandleFacts DEF Holding
<1>8. \A j \in Slot : /\ Holding(j)' <=> Holding(j)
                      /\ On(j)' <=> On(j) \/ j = i
                      /\ On(j) => j # i
                      /\ Failing(j)' => Failing(j) /\ j # i
                      /\ ~Starting(j) /\ (Starting(j)' <=> j = i)
                      /\ j # i => \A kind : Sock(kind, j)' = Sock(kind, j)
  BY <1>7 DEF Holding, On, Failing, Starting, Sock
<1>9. /\ desc'[f] = Sock("data", i)' /\ (g # NoFd => desc'[g] = Sock("ctl", i)')
      /\ \A h \in Fd : h # f /\ h # g => desc'[h] = desc[h]
  BY <1>3 DEF Sock
<1>10. \A h \in Fd : Owned(h) \/ h = f \/ h = g => Owned(h)'
  BY <1>8 DEF Owned
<1>11. \A h \in {f, g} \ {NoFd} :
         /\ h \notin files /\ \A j \in Slot : Holding(j) => rd_fd[j] # h
         /\ \A j \in Slot : On(j) => h # handle[j].socket /\ h # handle[j].ctl
  BY <1>3, FreeIsNobodys
<1>12. NamesInv'
  <2>1. \A h \in files' : desc'[h] = File
    <3> SUFFICES ASSUME NEW h \in files PROVE desc'[h] = File
      OBVIOUS
    <3>1. h \in Fd /\ h # NoFd /\ desc[h] = File
      BY <1>3 DEF NamesInv, TypeOK
    <3>2. h # f /\ h # g
      BY <1>3, <1>11, <3>1
    <3> QED BY <1>9, <3>1, <3>2
  <2>2. \A j \in Slot : On(j)' => /\ desc'[handle'[j].socket] = Sock("data", j)'
                                  /\ (handle'[j].ctl # NoFd => desc'[handle'[j].ctl] = Sock("ctl", j)')
    BY <1>8, <1>9, <1>11, StreamFacts DEF NamesInv
  <2>3. \A j \in Slot : Holding(j)' => desc'[rd_fd'[j]] # Free /\ rd_fd'[j] \notin files'
    BY <1>8, <1>9, <1>11, StreamFacts DEF NamesInv
  <2>4. \A j, k \in Slot : Holding(j)' /\ Holding(k)' /\ rd_fd'[j] = rd_fd'[k] => j = k
    BY <1>8 DEF NamesInv
  <2>5. \A j, k \in Slot : Holding(j)' /\ On(k)' => rd_fd'[j] \notin {handle'[k].socket, handle'[k].ctl}
    <3> SUFFICES ASSUME NEW j \in Slot, NEW k \in Slot, Holding(j)', On(k)'
                 PROVE  rd_fd[j] # handle'[k].socket /\ rd_fd[j] # handle'[k].ctl
      OBVIOUS
    <3>1. Holding(j) /\ rd_fd[j] # NoFd
      BY <1>8, StreamFacts
    <3>2. rd_fd[j] # f /\ rd_fd[j] # g
      BY <1>3, <1>11, <3>1
    <3>3. CASE k = i
      BY <3>2, <3>3
    <3>4. CASE k # i
      <4>1. On(k) /\ handle'[k] = handle[k]
        BY <1>8, <3>4
      <4> QED BY <3>1, <4>1 DEF NamesInv
    <3> QED BY <3>3, <3>4
  <2>6. \A h \in Fd : desc'[h] # Free => Owned(h)'
    BY <1>9, <1>10 DEF NamesInv
  <2> QED BY <2>1, <2>2, <2>3, <2>4, <2>5, <2>6 DEF NamesInv
<1>13. RouteInv'
  BY <1>8, <1>9, <1>11, StreamFacts DEF RouteInv
<1>14. AgeInv'
  BY <1>8, <1>9, <1>11, StreamFacts, AgesStay
<1> QED BY <1>12, <1>13, <1>14 DEF TableInv

LEMMA SocketTable == TypeOK /\ SlotInv /\ TableInv /\ MakeSockets => TableInv'
<1> SUFFICES ASSUME TypeOK, SlotInv, NamesInv, RouteInv, AgeInv, MakeSockets PROVE TableInv'
  BY DEF TableInv
<1>1. PICK i \in Slot : i = app.i
  BY DEF TypeOK
<1>2. /\ app.pc = "start" /\ app'.pc \in {"connect", "stop_start"} /\ app'.i = i
      /\ handle[i].socket = NoFd /\ UNCHANGED <<rd_fd, devices, files>>
  BY <1>1 DEF MakeSockets, Goto, table, program, TypeOK
<1>3. CASE UNCHANGED <<desc, handle>>
  <2>1. SameTable
    BY <1>2, <1>3 DEF SameTable, Holding, On, Failing, Starting
  <2> QED BY <2>1, SameTableKeeps DEF TableInv
<1>4. ASSUME NEW f \in FreeFds, NEW g \in (FreeFds \ {f}) \cup {NoFd}, NEW c,
             \A h \in Fd : desc'[h] = IF h = f THEN <<"data", i, c>> ELSE IF h = g THEN <<"ctl", i, c>> ELSE desc[h],
             handle'[i].thread = "new" /\ handle'[i].socket = f /\ handle'[i].ctl = g /\ handle'[i].conn = c,
             \A j \in Slot : j # i => handle'[j] = handle[j]
      PROVE  TableInv'
  BY <1>1, <1>2, <1>4, SocketsMade
<1>5. CASE ~(UNCHANGED <<desc, handle>>)
  <2>1. PICK c :
          \/ /\ Cardinality(FreeFds) >= 2
             /\ desc' = [desc EXCEPT ![Lowest] = <<"data", i, c>>, ![Second] = <<"ctl", i, c>>]
             /\ handle' = [handle EXCEPT ![i] =
                   [handle[i] EXCEPT !.socket = Lowest, !.ctl = Second, !.thread = "new", !.conn = c]]
          \/ /\ Cardinality(FreeFds) = 1
             /\ desc' = [desc EXCEPT ![Lowest] = <<"data", i, c>>]
             /\ handle' = [handle EXCEPT ![i] =
                   [handle[i] EXCEPT !.socket = Lowest, !.thread = "new", !.conn = c]]
    BY <1>1, <1>5 DEF MakeSockets, Set
  <2>2. handle[i] \in Handles /\ handle[i].ctl = NoFd /\ NoFd \notin FreeFds /\ FreeFds \subseteq Fd
    <3>1. ~On(i) /\ ~Failing(i)
      BY <1>2, StreamFacts
    <3> QED BY <3>1, StreamFacts, HandleFacts, FreeFdFacts
  <2>3. CASE Cardinality(FreeFds) >= 2
    <3>1. Cardinality(FreeFds) # 1
      BY <2>3
    <3>2. Lowest \in FreeFds /\ Second \in FreeFds \ {Lowest}
      BY <2>3, FreeFdFacts
    <3>3. \A h \in Fd : desc'[h] = IF h = Lowest THEN <<"data", i, c>>
                                  ELSE IF h = Second THEN <<"ctl", i, c>> ELSE desc[h]
      BY <2>1, <2>2, <3>1, <3>2 DEF TypeOK
    <3>4. /\ handle'[i].thread = "new" /\ handle'[i].socket = Lowest /\ handle'[i].ctl = Second
          /\ handle'[i].conn = c /\ \A j \in Slot : j # i => handle'[j] = handle[j]
      <4>1. handle' = [handle EXCEPT ![i] =
                   [handle[i] EXCEPT !.socket = Lowest, !.ctl = Second, !.thread = "new", !.conn = c]]
        BY <2>1, <3>1
      <4>2. handle \in [Slot -> Handles]
        BY DEF TypeOK, Handles
      <4> QED BY <2>2, <4>1, <4>2 DEF Handles
    <3> QED BY <1>4, <3>2, <3>3, <3>4
  <2>4. CASE ~(Cardinality(FreeFds) >= 2)
    <3>1. Lowest \in FreeFds
      BY <2>1, <2>4, FreeFdFacts
    <3>2. \A h \in Fd : desc'[h] = IF h = Lowest THEN <<"data", i, c>>
                                  ELSE IF h = NoFd THEN <<"ctl", i, c>> ELSE desc[h]
      BY <2>1, <2>2, <2>4, <3>1, StreamFacts DEF TypeOK
    <3>3. /\ handle'[i].thread = "new" /\ handle'[i].socket = Lowest /\ handle'[i].ctl = NoFd
          /\ handle'[i].conn = c /\ \A j \in Slot : j # i => handle'[j] = handle[j]
      <4>1. handle' = [handle EXCEPT ![i] =
                   [handle[i] EXCEPT !.socket = Lowest, !.thread = "new", !.conn = c]]
        BY <2>1, <2>4
      <4>2. handle \in [Slot -> Handles]
        BY DEF TypeOK, Handles
      <4> QED BY <2>2, <4>1, <4>2 DEF Handles
    <3> QED BY <1>4, <3>1, <3>2, <3>3
  <2> QED BY <2>3, <2>4
<1> QED BY <1>3, <1>5

LEMMA RerouteTable == TypeOK /\ SlotInv /\ TableInv /\ Reroute => TableInv'
<1> SUFFICES ASSUME TypeOK, SlotInv, NamesInv, RouteInv, AgeInv, Reroute PROVE TableInv'
  BY DEF TableInv
<1>1. PICK i \in Slot : i = app.i
  BY DEF TypeOK
<1>2. PICK s : s = handle[i].socket
  OBVIOUS
<1>3. /\ app.pc = "dup2" /\ i \in devices /\ Holding(i) /\ rd_fd[i] \in Fd
      /\ UNCHANGED <<rd_fd, handle, devices, files>>
  BY <1>1, StreamFacts DEF Reroute, SlotInv, AppOK, DeviceLabels, Holding, table, program
<1>4. \A j \in Slot : /\ Holding(j)' <=> Holding(j)
                      /\ On(j)' <=> On(j)
                      /\ Failing(j)' <=> Failing(j)
                      /\ Starting(j) <=> j = i
                      /\ ~Starting(j)'
                      /\ \A kind : Sock(kind, j)' = Sock(kind, j)
  <2>1. app'.pc \in {"idle", "avail"}
    BY <1>1 DEF Reroute, Return, Goto, Idle, TypeOK
  <2> QED BY <1>1, <1>3, <2>1 DEF Holding, On, Failing, Starting, Sock
<1>5. CASE s = NoFd \/ desc[s] = Free
  <2>1. desc' = desc
    BY <1>1, <1>2, <1>5 DEF Reroute
  <2>2. ~On(i)
    BY <1>2, <1>5, StreamFacts, HandleFacts DEF NamesInv, Sock, Free
  <2>3. NamesInv' /\ RouteInv'
    <3>1. \A h \in Fd : Owned(h) => Owned(h)'
      BY <1>3, <1>4 DEF Owned
    <3> QED BY <1>3, <1>4, <2>1, <2>2, <3>1 DEF NamesInv, RouteInv
  <2>4. AgeInv'
    BY <1>3, <1>4, <2>1, AgesStay
  <2> QED BY <2>3, <2>4 DEF TableInv
<1>6. CASE s # NoFd /\ desc[s] # Free
  <2>1. desc' = [desc EXCEPT ![rd_fd[i]] = desc[s]]
    BY <1>1, <1>2, <1>6 DEF Reroute
  <2>2. s \in Fd /\ (On(i) \/ Failing(i))
    BY <1>2, <1>6, StreamFacts
  <2>3. desc'[rd_fd[i]] = desc[s] /\ \A h \in Fd : h # rd_fd[i] => desc'[h] = desc[h]
    BY <1>3, <2>1 DEF TypeOK
  <2>4. \A h \in Fd : Owned(h) \/ h = rd_fd[i] => Owned(h)'
    BY <1>3, <1>4 DEF Owned
  <2>5. \A j \in Slot : Holding(j) /\ j # i => rd_fd[j] # rd_fd[i]
    BY <1>3 DEF NamesInv
  <2>6. \A j \in Slot : On(j) => rd_fd[i] # handle[j].socket /\ rd_fd[i] # handle[j].ctl
    BY <1>3 DEF NamesInv
  <2>7. NamesInv'
    <3>1. \A h \in files' : desc'[h] = File
      BY <1>3, <2>3 DEF NamesInv, TypeOK
    <3>2. \A j \in Slot : On(j)' => /\ desc'[handle'[j].socket] = Sock("data", j)'
                                    /\ (handle'[j].ctl # NoFd => desc'[handle'[j].ctl] = Sock("ctl", j)')
      BY <1>3, <1>4, <2>3, <2>6, StreamFacts DEF NamesInv
    <3>3. \A j \in Slot : Holding(j)' => desc'[rd_fd'[j]] # Free /\ rd_fd'[j] \notin files'
      BY <1>3, <1>4, <1>6, <2>3, <2>5, StreamFacts DEF NamesInv
    <3>4. \A h \in Fd : desc'[h] # Free => Owned(h)'
      BY <2>3, <2>4 DEF NamesInv
    <3> QED BY <1>3, <1>4, <3>1, <3>2, <3>3, <3>4 DEF NamesInv
  <2>8. RouteInv'
    <3>1. On(i) => desc[s] = Sock("data", i)
      BY <1>2 DEF NamesInv
    <3> QED BY <1>3, <1>4, <2>3, <2>5, <3>1, StreamFacts DEF RouteInv
  <2>9. AgeInv'
    <3>1. PICK clock \in Nat : \E opened, failed \in [Slot -> 0..clock] : Aged(opened, failed)
      BY DEF AgeInv
    <3>2. PICK opened \in [Slot -> 0..clock], failed \in [Slot -> 0..clock] : Aged(opened, failed)
      BY <3>1
    <3>3. ASSUME NEW k \in Slot, Failing(k), desc[s] = Sock("data", k) PROVE opened[i] < failed[k]
      <4>1. CASE On(i)
        <5>1. k = i
          BY <1>2, <3>3, <4>1 DEF NamesInv, Sock
        <5> QED BY <3>3, <4>1, <5>1, StreamFacts
      <4>2. CASE Failing(i)
        <5>1. PICK j \in Slot : Holding(j) /\ s = rd_fd[j]
          <6>1. Owned(s)
            BY <1>6, <2>2 DEF NamesInv
          <6>2. s \notin files
            BY <3>3 DEF NamesInv, File, Sock
          <6>3. ASSUME NEW j \in Slot, On(j), s \in {handle[j].socket, handle[j].ctl} PROVE FALSE
            <7>1. desc[s] = Sock("data", j) \/ desc[s] = Sock("ctl", j)
              BY <1>6, <6>3 DEF NamesInv
            <7>2. j = k
              BY <3>3, <7>1 DEF Sock
            <7> QED BY <3>3, <6>3, <7>2 DEF On, Failing
          <6> QED BY <6>1, <6>2, <6>3 DEF Owned
        <5>2. failed[i] < opened[j] /\ opened[j] < failed[k] /\ opened[i] < failed[i]
          BY <1>2, <3>2, <3>3, <4>2, <5>1 DEF Aged
        <5> QED BY <3>1, <3>2, <5>2
      <4> QED BY <2>2, <4>1, <4>2
    <3>4. ASSUME NEW k \in Slot, Failing(k)'
          PROVE  /\ opened[k] < failed[k]
                 /\ \A j \in Slot : Holding(j)' =>
                      /\ handle'[k].socket = rd_fd'[j] => failed[k] < opened[j]
                      /\ desc'[rd_fd'[j]] = Sock("data", k)' => opened[j] < failed[k]
      <4>1. Failing(k) /\ Sock("data", k)' = Sock("data", k)
        BY <1>4, <3>4
      <4>2. opened[k] < failed[k]
        BY <3>2, <4>1 DEF Aged
      <4>3. ASSUME NEW j \in Slot, Holding(j)'
            PROVE  /\ handle'[k].socket = rd_fd'[j] => failed[k] < opened[j]
                   /\ desc'[rd_fd'[j]] = Sock("data", k)' => opened[j] < failed[k]
        <5>1. Holding(j) /\ handle' = handle /\ rd_fd' = rd_fd /\ rd_fd[j] \in Fd
          BY <1>3, <1>4, <4>3, StreamFacts
        <5>2. handle[k].socket = rd_fd[j] => failed[k] < opened[j]
          BY <3>2, <4>1, <5>1 DEF Aged
        <5>3. CASE j = i
          BY <2>3, <3>3, <4>1, <5>1, <5>2, <5>3
        <5>4. CASE j # i
          BY <2>3, <2>5, <3>2, <4>1, <5>1, <5>2, <5>4 DEF Aged
        <5> QED BY <5>3, <5>4
      <4> QED BY <4>2, <4>3
    <3>5. Aged(opened, failed)'
      BY <3>4 DEF Aged
    <3> QED BY <3>5 DEF AgeInv
  <2> QED BY <2>7, <2>8, <2>9 DEF TableInv
<1> QED BY <1>5, <1>6

LEMMA TableHolds == Spec => []TableInv
<1>1. Init => TableInv
  <2> SUFFICES ASSUME Init PROVE TableInv
    OBVIOUS
  <2>1. \A i \in Slot : ~On(i) /\ ~Failing(i) /\ ~Holding(i)
    BY DEF Init, NoHandle, Idle, On, Failing, Holding
  <2>2. NamesInv /\ RouteInv
    BY <2>1, OssEmulAssumption DEF Init, NamesInv, RouteInv, Owned, Fd
  <2>3. AgeInv
    <3>1. [i \in Slot |-> 0] \in [Slot -> 0..0] /\ Aged([i \in Slot |-> 0], [i \in Slot |-> 0])
      BY <2>1 DEF Aged
    <3> QED BY <3>1 DEF AgeInv
  <2> QED BY <2>2, <2>3 DEF TableInv
<1>2. TypeOK /\ SlotInv /\ TableInv /\ [Next]_vars => TableInv'
  <2> SUFFICES ASSUME TypeOK, SlotInv, TableInv, [Next]_vars PROVE TableInv'
    OBVIOUS
  <2>1. SameTable => TableInv'
    BY SameTableKeeps DEF TableInv
  <2>2. CASE UNCHANGED vars
    BY <2>1, <2>2 DEF vars, table, program, SameTable, Holding, On, Failing, Starting
  <2>3. CASE Call
    BY <2>1, <2>3, QuietOpens, QuietCalls DEF Call
  <2>4. CASE Step
    BY <2>1, <2>4, QuietOpens, QuietSteps, SocketTable, PipeTable, RerouteTable, StopTable, CloseFdTable, PlayFailsTable,
       OpenFileTable, CloseFileTable DEF Step, OpenSteps, WriteSteps, CloseSteps
  <2> QED BY <2>2, <2>3, <2>4 DEF Next
<1> QED BY <1>1, <1>2, TypeCorrect, SlotHolds, PTL DEF Spec

(***************************************************************************)
(* fd2index never takes an ordinary file for a device, for any number of    *)
(* slots and files, whichever numbers the process gives out again, but in   *)
(* the steps of close between the number's end and the slot's.              *)
(***************************************************************************)
THEOREM FilesStayFiles == Spec => []FilesAreFiles
<1>1. TypeOK /\ SlotInv /\ TableInv => FilesAreFiles
  <2> SUFFICES ASSUME TypeOK, SlotInv, TableInv, NEW f \in files, NEW i \in Slot, rd_fd[i] = f
               PROVE  app.i = i /\ app.pc \in {"free", "memset", "vacate"}
    BY DEF FilesAreFiles, fd2index
  <2>1. f \in Fd /\ f # NoFd
    BY HandleFacts DEF TypeOK
  <2>2. ~Holding(i)
    BY DEF TableInv, NamesInv
  <2> QED BY <2>1, <2>2 DEF SlotInv, SlotOK, Holding, Leaving, CloseLabels
<1> QED BY <1>1, TypeCorrect, SlotHolds, TableHolds, PTL

(***************************************************************************)
(* start_rsd: the number the program polls is a duplicate of the socket of  *)
(* this connection whenever the stream has one, for any number of devices,  *)
(* files, failures and restarts, although dup2 may copy a number that       *)
(* another thread has been given meanwhile.                                 *)
(***************************************************************************)
THEOREM AlwaysRerouted == Spec => []ReroutedToServer
<1>1. TypeOK /\ SlotInv /\ TableInv => ReroutedToServer
  <2> SUFFICES ASSUME TypeOK, SlotInv, NamesInv, RouteInv, AgeInv,
                      NEW i \in devices, Connected(i), ~Starting(i)
               PROVE  desc[rd_fd[i]] = desc[handle[i].socket]
    BY DEF ReroutedToServer, Starting, TableInv
  <2> DEFINE s == handle[i].socket
  <2>1. i \in Slot /\ Holding(i) /\ s # NoFd /\ desc[s] = Sock("data", i)
    BY DEF TypeOK, Holding, Connected
  <2>2. s \in Fd /\ (On(i) \/ Failing(i))
    BY <2>1, StreamFacts
  <2>3. ASSUME Failing(i) PROVE FALSE
    <3>1. Owned(s) /\ s \notin files
      BY <2>1, <2>2 DEF NamesInv, Sock, Free, File
    <3>2. ASSUME NEW j \in Slot, On(j), s \in {handle[j].socket, handle[j].ctl} PROVE FALSE
      <4>1. desc[s] = Sock("data", j) \/ desc[s] = Sock("ctl", j)
        BY <2>1, <3>2 DEF NamesInv
      <4>2. j = i
        BY <2>1, <4>1 DEF Sock
      <4> QED BY <2>3, <3>2, <4>2 DEF On, Failing
    <3>3. PICK j \in Slot : Holding(j) /\ s = rd_fd[j]
      BY <3>1, <3>2 DEF Owned
    <3>4. PICK clock \in Nat : \E opened, failed \in [Slot -> 0..clock] : Aged(opened, failed)
      BY DEF AgeInv
    <3>5. PICK opened \in [Slot -> 0..clock], failed \in [Slot -> 0..clock] : Aged(opened, failed)
      BY <3>4
    <3>6. failed[i] < opened[j] /\ opened[j] < failed[i]
      BY <2>1, <2>3, <3>3, <3>5 DEF Aged
    <3> QED BY <2>1, <3>3, <3>4, <3>5, <3>6
  <2> QED BY <2>1, <2>2, <2>3 DEF RouteInv
<1> QED BY <1>1, TypeCorrect, SlotHolds, TableHolds, PTL

(***************************************************************************)
(* Between calls nothing is left of what was closed or has failed: a slot   *)
(* without a device is as new, and no number is in use that is neither a    *)
(* file's nor an open device's.                                             *)
(***************************************************************************)
THEOREM AllGivenBack == Spec => []GivenBack
<1>1. TypeOK /\ SlotInv /\ TableInv => GivenBack
  <2> SUFFICES ASSUME TypeOK, SlotInv, TableInv, app.pc = "idle" PROVE GivenBack
    BY DEF GivenBack
  <2>1. \A i \in Slot \ devices : rd_fd[i] = NoFd /\ ~nonblock[i] /\ handle[i] = NoHandle
    BY DEF SlotInv, SlotOK, Leaving, Opening, CloseLabels
  <2>2. \A i \in Slot : (Holding(i) => i \in devices) /\ (On(i) => Holding(i))
    BY StreamFacts DEF Holding
  <2>3. \A f \in Fd : desc[f] = Free \/ f \in files
           \/ \E i \in devices : f \in {rd_fd[i], handle[i].socket, handle[i].ctl}
    BY <2>2 DEF TableInv, NamesInv, Owned
  <2> QED BY <2>1, <2>3 DEF GivenBack
<1> QED BY <1>1, TypeCorrect, SlotHolds, TableHolds, PTL
=============================================================================
