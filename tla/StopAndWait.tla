---------------------------- MODULE StopAndWait ----------------------------
(***************************************************************************)
(* The stop-and-wait file transfers of 2/: sender and receiver, which come *)
(* in three variants that differ in how a wait is bounded (alarm, select,  *)
(* SO_RCVTIMEO).  One part of the file is in flight; it is sent again      *)
(* until the receiver's position has moved to its end.                     *)
(*                                                                         *)
(* Sequence numbers start at a random number and are only compared for     *)
(* equality, so they are modelled as positions in the file.  Byte i of the *)
(* file is the value i.  An action is one turn from a call of recv to the  *)
(* next one; a timer may expire whenever its process waits.                *)
(***************************************************************************)
EXTENDS Integers, Sequences, Datagrams

CONSTANTS
    FileLen,                         \* length of the file in bytes
    MaxData,                         \* MAX_PACK_SIZE - 12
    InitTries, PartTries, StopTries, \* 10, 30, 30: tries of the sender
    DataTries, StopAcks,             \* 30, and 30 or 22: tries of the receiver
    MaxSessions,                     \* bound: INITs answered by main
    LateInits,     \* an INIT may reach main after the sender was answered
    LostAlarms     \* an alarm may expire outside recv

ASSUME StopAndWaitAssumption ==
    /\ FileLen \in Nat /\ MaxData \in Nat \ {0}
    /\ {InitTries, PartTries, StopTries, DataTries, StopAcks, MaxSessions} \subseteq Nat
    /\ {LateInits, LostAlarms} \subseteq BOOLEAN

VARIABLES
    phase,      \* sender: what it is trying to do
    waiting,    \* sender: in tryToGetAck
    currentSN,  \* sender: the position it sends from
    tries,      \* sender: the loop counter
    timer,      \* sender: of the wait, see Timers
    rPhase,     \* receiver: in main, in the loop for data, in the loop after STOP
    rWaiting,   \* receiver: in recv with a timer (main has none)
    rCurrentSN, \* receiver: the position it expects
    rTries,     \* receiver: the loop counter
    rTimer,     \* receiver: of the wait
    written,    \* receiver: what has been written with fwrite
    sessions,   \* receiver: how many INITs main has answered
    toR, toS    \* the packets in flight

sendVars == <<phase, waiting, currentSN, tries, timer>>
recvVars == <<rPhase, rWaiting, rCurrentSN, rTries, rTimer, written, sessions>>
vars     == <<sendVars, recvVars, toR, toS>>

\* "set": it will end the wait.  "gone": it expired before tryToGet... cleared
\* isTimeout.  "noted": it expired after that, but before recv was entered.
Timers == {"set", "gone", "noted"}

Packet(type, sn, data) == [type |-> type, sn |-> sn, data |-> data]
Answer(type, sn)       == [type |-> type, sn |-> sn]

Lose == \/ \E m \in toR : toR' = toR \ {m} /\ UNCHANGED <<sendVars, recvVars, toS>>
        \/ \E m \in toS : toS' = toS \ {m} /\ UNCHANGED <<sendVars, recvVars, toR>>

-----------------------------------------------------------------------------
(* The sender.                                                             *)

MinOf(a, b) == IF a < b THEN a ELSE b

\* The size of the part that starts at currentSN; a short one sets feof.
\* Its mutant sends as much as fread was asked for.
PartSize_Asked == MaxData
PartSize == MinOf(MaxData, FileLen - currentSN)
LastPart == PartSize < MaxData

\* What is sent in a phase, how often, and the answer that ends it.
Request == CASE phase = "init" -> Packet("INIT", currentSN, <<>>)
             [] phase = "part" -> Packet("SEND", currentSN,
                                         [i \in 1 .. PartSize |-> currentSN + i - 1])
             [] phase = "stop" -> Packet("STOP", currentSN, <<>>)

TriesOf == CASE phase = "init" -> InitTries
             [] phase = "part" -> PartTries
             [] phase = "stop" -> StopTries

\* Mutant of Wanted: an acknowledgement of the part's beginning will do.
Wanted_Old == CASE phase = "init" -> Answer("INIT_ACK", currentSN)
                [] phase = "part" -> Answer("ACK", currentSN)
                [] phase = "stop" -> Answer("STOP_ACK", currentSN)
Wanted == CASE phase = "init" -> Answer("INIT_ACK", currentSN)
            [] phase = "part" -> Answer("ACK", currentSN + PartSize)
            [] phase = "stop" -> Answer("STOP_ACK", currentSN)

\* The phase after the wanted answer; the mutant stops at once.
NextPhase_Stop == CASE phase = "init" -> "part"
                    [] phase = "part" -> "stop"
                    [] phase = "stop" -> "done"
NextPhase == CASE phase = "init" -> "part"
               [] phase = "part" -> IF LastPart THEN "stop" ELSE "part"
               [] phase = "stop" -> "done"

Trying == phase \in {"init", "part", "stop"}

\* The loop counter after a try; the mutant starts again.
Tried_Again == 1
Tried       == tries + 1

SndTry ==
    /\ Trying /\ ~waiting
    /\ IF tries = TriesOf
       THEN phase' = "failed" /\ UNCHANGED <<waiting, tries, timer, toR>>
       ELSE /\ waiting' = TRUE
            /\ tries' = Tried
            /\ timer' = "set"
            /\ toR' = Send(toR, Request)
            /\ UNCHANGED phase
    /\ UNCHANGED <<currentSN, recvVars, toS>>

\* The wanted answer.  After the last one STOP_REALLY is sent, once.
SndAnswered(m) ==
    /\ Trying /\ waiting /\ m = Wanted
    /\ toS' \in Taken(toS, m)
    /\ waiting' = FALSE /\ tries' = 0
    /\ phase' = NextPhase
    /\ currentSN' = IF phase = "part" THEN currentSN + PartSize ELSE currentSN
    /\ toR' = IF phase = "stop" THEN Send(toR, Packet("STOP_REALLY", currentSN, <<>>))
                                ELSE toR
    /\ UNCHANGED <<timer, recvVars>>

\* Any other packet is thrown away, and an alarm noted ends the wait.
SndIgnore(m) ==
    /\ Trying /\ waiting /\ m # Wanted
    /\ toS' \in Taken(toS, m)
    /\ waiting' = (timer # "noted")
    /\ UNCHANGED <<phase, currentSN, tries, timer, recvVars, toR>>

SndTimeout ==
    /\ Trying /\ waiting /\ timer = "set"
    /\ waiting' = FALSE
    /\ UNCHANGED <<phase, currentSN, tries, timer, recvVars, toR, toS>>

SndLoseAlarm ==
    /\ LostAlarms /\ Trying /\ waiting /\ timer = "set"
    /\ timer' \in {"gone", "noted"}
    /\ UNCHANGED <<phase, waiting, currentSN, tries, recvVars, toR, toS>>

-----------------------------------------------------------------------------
(* The receiver.                                                           *)

\* main: INIT is answered and the file opened, which truncates it.  A receiver
\* that gave up waiting for data is connected again this way.
RcvInit(m) ==
    /\ rPhase = "main" /\ sessions < MaxSessions /\ m.type = "INIT"
    /\ phase = "init" \/ LateInits
    /\ toR' \in Taken(toR, m)
    /\ toS' = Send(toS, Answer("INIT_ACK", m.sn))
    /\ rPhase' = "data" /\ rWaiting' = TRUE /\ rTries' = 0 /\ rTimer' = "set"
    /\ rCurrentSN' = m.sn
    /\ written' = <<>>
    /\ sessions' = sessions + 1
    /\ UNCHANGED sendVars

RcvIdle(m) ==
    /\ rPhase = "main" /\ m.type # "INIT"
    /\ toR' \in Taken(toR, m)
    /\ UNCHANGED <<sendVars, recvVars, toS>>

\* tryToGetFile takes a part or STOP at the position expected.  Its mutant
\* takes any part.
Expected_Any(m) == m.type \in {"SEND", "STOP"}
Expected(m)     == m.type \in {"SEND", "STOP"} /\ m.sn = rCurrentSN

RcvData(m) ==
    /\ rPhase = "data" /\ Expected(m) /\ m.type = "SEND"
    /\ toR' \in Taken(toR, m)
    /\ rCurrentSN' = rCurrentSN + Len(m.data)
    /\ written' = written \o m.data
    /\ toS' = Send(toS, Answer("ACK", rCurrentSN'))
    /\ rTries' = 0 /\ rTimer' = "set"
    /\ UNCHANGED <<sendVars, rPhase, rWaiting, sessions>>

RcvStop(m) ==
    /\ rPhase = "data" /\ Expected(m) /\ m.type = "STOP"
    /\ toR' \in Taken(toR, m)
    /\ rPhase' = "stop" /\ rWaiting' = FALSE /\ rTries' = 0
    /\ UNCHANGED <<sendVars, rCurrentSN, rTimer, written, sessions, toS>>

\* The wait for data ends without any: the position is acknowledged (again),
\* and after DataTries waits the receiver goes back to main.
DataTimeout ==
    /\ toS' = Send(toS, Answer("ACK", rCurrentSN))
    /\ rTries' = rTries + 1
    /\ rPhase' = IF rTries' = DataTries THEN "main" ELSE "data"
    /\ rWaiting' = (rTries' # DataTries)
    /\ rTimer' = "set"

RcvTimeout ==
    /\ rPhase = "data" /\ rTimer = "set"
    /\ DataTimeout
    /\ UNCHANGED <<sendVars, rCurrentSN, written, sessions, toR>>

RcvIgnore(m) ==
    /\ rPhase = "data" /\ ~Expected(m)
    /\ toR' \in Taken(toR, m)
    /\ IF rTimer = "noted" THEN DataTimeout ELSE UNCHANGED <<rPhase, rWaiting, rTries, rTimer, toS>>
    /\ UNCHANGED <<sendVars, rCurrentSN, written, sessions>>

\* The loop after STOP: STOP_ACK until STOP_REALLY comes back, or StopAcks times.
RcvStopAck ==
    /\ rPhase = "stop" /\ ~rWaiting
    /\ IF rTries = StopAcks
       THEN rPhase' = "main" /\ UNCHANGED <<rWaiting, rTries, rTimer, toS>>
       ELSE /\ rWaiting' = TRUE
            /\ rTries' = rTries + 1
            /\ rTimer' = "set"
            /\ toS' = Send(toS, Answer("STOP_ACK", rCurrentSN))
            /\ UNCHANGED rPhase
    /\ UNCHANGED <<sendVars, rCurrentSN, written, sessions, toR>>

RcvReally(m) ==
    /\ rPhase = "stop" /\ rWaiting
    /\ m.type = "STOP_REALLY" /\ m.sn = rCurrentSN
    /\ toR' \in Taken(toR, m)
    /\ rPhase' = "main" /\ rWaiting' = FALSE
    /\ UNCHANGED <<sendVars, rCurrentSN, rTries, rTimer, written, sessions, toS>>

RcvStopIgnore(m) ==
    /\ rPhase = "stop" /\ rWaiting
    /\ ~(m.type = "STOP_REALLY" /\ m.sn = rCurrentSN)
    /\ toR' \in Taken(toR, m)
    /\ rWaiting' = (rTimer # "noted")
    /\ UNCHANGED <<sendVars, rPhase, rCurrentSN, rTries, rTimer, written, sessions, toS>>

RcvStopTimeout ==
    /\ rPhase = "stop" /\ rWaiting /\ rTimer = "set"
    /\ rWaiting' = FALSE
    /\ UNCHANGED <<sendVars, rPhase, rCurrentSN, rTries, rTimer, written, sessions, toR, toS>>

RcvLoseAlarm ==
    /\ LostAlarms /\ rPhase # "main" /\ rWaiting /\ rTimer = "set"
    /\ rTimer' \in {"gone", "noted"}
    /\ UNCHANGED <<sendVars, rPhase, rWaiting, rCurrentSN, rTries, written, sessions, toR, toS>>

-----------------------------------------------------------------------------

Init ==
    /\ phase = "init" /\ waiting = FALSE /\ currentSN = 0 /\ tries = 0 /\ timer = "gone"
    /\ rPhase = "main" /\ rWaiting = FALSE /\ rCurrentSN = 0 /\ rTries = 0
    /\ rTimer = "gone" /\ written = <<>> /\ sessions = 0
    /\ toR = {} /\ toS = {}

\* The sender has exited and the receiver waits in main for the next INIT.
Finished == phase \in {"done", "failed"} /\ rPhase = "main" /\ UNCHANGED vars

SndStep == SndTry \/ SndTimeout \/ \E m \in toS : SndAnswered(m) \/ SndIgnore(m)

RcvStep == \/ RcvTimeout \/ RcvStopAck \/ RcvStopTimeout
           \/ \E m \in toR : \/ RcvInit(m) \/ RcvIdle(m) \/ RcvData(m) \/ RcvStop(m)
                             \/ RcvIgnore(m) \/ RcvReally(m) \/ RcvStopIgnore(m)

Next == SndStep \/ RcvStep \/ Lose \/ SndLoseAlarm \/ RcvLoseAlarm \/ Finished

Spec == Init /\ [][Next]_vars

\* The scheduler runs both programs and a set timer expires.  Nothing is
\* assumed of the network.
FairSpec == Spec /\ WF_vars(SndStep) /\ WF_vars(RcvStep)

-----------------------------------------------------------------------------
(* Properties.                                                             *)

File  == [i \in 1 .. FileLen |-> i - 1]
Bytes == 0 .. FileLen

\* Every variable keeps its range; the two positions never leave the file.
TypeOK ==
    /\ phase \in {"init", "part", "stop", "done", "failed"}
    /\ waiting \in BOOLEAN /\ tries \in Nat /\ timer \in Timers
    /\ currentSN \in 0 .. FileLen
    /\ rPhase \in {"main", "data", "stop"}
    /\ rWaiting \in BOOLEAN /\ rTries \in Nat /\ rTimer \in Timers
    /\ rCurrentSN \in 0 .. FileLen
    /\ written \in Seq(Bytes) /\ sessions \in Nat
    /\ toR \subseteq [type : {"INIT", "SEND", "STOP", "STOP_REALLY"}, sn : 0 .. FileLen,
                      data : Seq(Bytes)]
    /\ toS \subseteq [type : {"INIT_ACK", "ACK", "STOP_ACK"}, sn : 0 .. FileLen]

\* However often a part is sent and received, it is written once and in its
\* place, in every session, also one that a late INIT has opened.
FilePrefix == /\ Len(written) <= FileLen
              /\ \A i \in DOMAIN written : written[i] = i - 1

\* Unless an old INIT has truncated the file, the sender has moved past nothing
\* that is not written: neither an acknowledgement of the part before, nor one
\* from a session the receiver gave up, is taken for that of the part in flight.
AckedIsWritten == currentSN <= Len(written)

\* Unless an old INIT has truncated it, the transfer is a FileCopy: it grows as
\* a prefix, and the sender reports success only for a complete copy.
Outcome  == IF phase \in {"done", "failed"} THEN phase ELSE "running"
Copy     == INSTANCE FileCopy WITH dest <- written, outcome <- Outcome
CopySpec == Copy!Spec

\* The sender ends, one way or the other.
Terminates == <>(phase \in {"done", "failed"})
=============================================================================
