------------------------------- MODULE Drivers -------------------------------
(***************************************************************************)
(* The drivers that keep a buffer between the server's thread and the       *)
(* device's: CoreAudio, JACK and OpenAL.  The server runs with one of them  *)
(* (option -b, or the first that was built in: src/src/rsound-common.c).    *)
(***************************************************************************)
EXTENDS CoreAudio, Jack, OpenAL

CONSTANT Backends   \* the drivers that are built in

ASSUME DriversAssumption == Backends \subseteq {"coreaudio", "jack", "openal"}

VARIABLE backend

vars == <<backend, cavars, jvars, alvars>>

Init == backend \in Backends /\ CAInit /\ JInit /\ ALInit

CoreAudioStep == backend = "coreaudio" /\ CANext /\ UNCHANGED <<backend, jvars, alvars>>
JackStep      == backend = "jack"      /\ JNext  /\ UNCHANGED <<backend, cavars, alvars>>
OpenALStep    == backend = "openal"    /\ ALNext /\ UNCHANGED <<backend, cavars, jvars>>

Closed ==
  /\ "closed" \in {ca_writer, jwriter, awriter}
  /\ UNCHANGED vars

Next == CoreAudioStep \/ JackStep \/ OpenALStep \/ Closed

Spec ==
  /\ Init /\ [][Next]_vars
  /\ (backend = "coreaudio" => CAFair) /\ (backend = "jack" => JFair) /\ (backend = "openal" => ALFair)

-----------------------------------------------------------------------------
(* Properties *)

\* Every variable of the three drivers has its type.
TypeOK == backend \in Backends /\ CATypeOK /\ JTypeOK /\ ALTypeOK

\* CoreAudio and OpenAL play the stream: nothing is lost, skipped or played
\* out of order.  (JACK: JHeardTogether.)
HeardInOrder == CAHeardInOrder /\ ALHeardInOrder

\* A call of the driver's write returns: the device makes room, or its end is
\* seen.
WritesReturn ==
  /\ ca_writer \in {"write", "wait"} ~> ca_writer = "idle"
  /\ jwriter \in {"space", "write"} ~> jwriter \in {"idle", "failed"}
  /\ awriter \in {"get", "queue", "play"} ~> awriter \in {"idle", "failed"}
=============================================================================
