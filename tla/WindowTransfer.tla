--------------------------- MODULE WindowTransfer ---------------------------
(***************************************************************************)
(* The sliding-window file transfer of new2/: sender1.c and receiver1.c    *)
(* over UDP.  The sender reads the file into a ring, sends it in packets   *)
(* of at most MaxData bytes, keeps the unacknowledged packets in a list    *)
(* and resends from that list on a timeout or on duplicate                 *)
(* acknowledgements.  The receiver stores packets that lie in its window   *)
(* into a ring of its own, in any order, and writes the bytes that have    *)
(* become contiguous to the file.                                          *)
(*                                                                         *)
(* Byte i of the file being sent is the value i, so a byte in the wrong    *)
(* place is visible.  An action is one turn of one of the program's loops: *)
(* from a call of recv (or the point before it) to the next one.  A timer  *)
(* may expire whenever its process waits; how long a timer runs is not     *)
(* modelled, hence neither are Rto and the packets' time stamps.           *)
(***************************************************************************)
EXTENDS SeqRing, Datagrams

CONSTANTS
    FileLen,       \* length of the file in bytes
    InitSNs,       \* the values rand() may return for initSN
    MaxData,       \* MAX_PACK_SIZE - 12, and the window of a version-1 receiver
    WindowSize,    \* MAX_WINDOW_SIZE, FILE_BUF_SIZE - 1
    MaxPackets,    \* MAX_SEND_PACKET: packet ids are 1 .. MaxPackets - 1
    InitLen,       \* data bytes of an INIT packet: file name, 0, magic
    InitTries, MaxTries, StopTries, CloseTries,  \* 10, 30, 20, 30
    MaxDeaths, StopAcks,                         \* 30, 30
    MaxSessions,   \* bound: INITs the receiver answers with a new session
    LostAlarms     \* whether an alarm may expire just before recv is entered

\* How many packets of m bytes it takes to cover n bytes.
CeilDiv(n, m) == (n + m - 1) \div m

ASSUME TransferAssumption ==
    /\ FileLen \in Nat
    /\ MaxData \in Nat \ {0}
    /\ WindowSize = BufSize - 1 /\ MaxData <= WindowSize
    /\ FileLen + 2 * BufSize < SNSpace
    /\ InitSNs \subseteq SN
    /\ MaxPackets \in Nat /\ MaxPackets >= CeilDiv(WindowSize, MaxData) + 2
    /\ InitLen \in Nat /\ InitLen < BufSize
    /\ {InitTries, MaxTries, StopTries, CloseTries, MaxDeaths, StopAcks,
        MaxSessions} \subseteq Nat
    /\ LostAlarms \in BOOLEAN

Ids    == 1 .. MaxPackets - 1
NoByte == FileLen               \* what a ring holds before it is written
Bytes  == 0 .. FileLen
DupCap == 4                     \* bound: dupAck is only compared with 3

VARIABLES
    \* sender1.c
    sPc,          \* where the sender is in initsendfile and sendfile
    initSN, currentSN, ackedSN, nackedBytes, windowSize, fileEnds, dupAck,
    rcvrVersion, filebuf, checkbuf, sendpack, unacked, resentPtr, packetId,
    tries,        \* tries, and the loop counter i of the other phases
    filePos,      \* position in fileToSend
    sAlarm,       \* whether the alarm that bounds the sender's recv is pending
    \* receiver1.c
    rPc,          \* where the receiver is in main and recv_file
    rInitSN, rCurrentSN, rAckedSN, senderVersion, rFilebuf, rCheckbuf,
    written,      \* what has been written to fileToRecv
    death,        \* death, and the loop counter i of the last phase
    rAlarm,       \* FALSE: the alarm expired outside recv, isTimeout is set
    sessions,     \* how often an INIT was answered by main
    \* the network
    toR, toS      \* the sets of packets in flight

connVars  == <<initSN, rcvrVersion, windowSize>>
ringVars  == <<currentSN, fileEnds, filebuf, checkbuf, sendpack, packetId, filePos>>
ackVars   == <<ackedSN, nackedBytes, unacked>>
sendVars  == <<sPc, connVars, ringVars, ackVars, resentPtr, dupAck, tries, sAlarm>>
storeVars == <<rCurrentSN, rAckedSN, rFilebuf, rCheckbuf, written>>
openVars  == <<rInitSN, senderVersion, sessions>>
recvVars  == <<rPc, openVars, storeVars, death, rAlarm>>
vars      == <<sendVars, recvVars, toR, toS>>

-----------------------------------------------------------------------------
(* Packets.                                                                *)

\* Packets to the receiver.  A version-1 sender types its data packets 0.
ToReceiver(type, sn, data) == [type |-> type, sn |-> sn, data |-> data]

\* Packets to the sender; only a 16-byte INIT_ACK has the magic number.
ToSender(type, sn, magic) == [type |-> type, sn |-> sn, magic |-> magic]

Lose == \/ \E m \in toR : toR' = toR \ {m} /\ UNCHANGED <<sendVars, recvVars, toS>>
        \/ \E m \in toS : toS' = toS \ {m} /\ UNCHANGED <<sendVars, recvVars, toR>>

-----------------------------------------------------------------------------
(* The sender's list of unacknowledged packets.                            *)

Live      == {unacked[i] : i \in DOMAIN unacked}
StartOf(id) == Minus(sendpack[id].sn, sendpack[id].size)

\* The element after the sentinel, and the element after id; 0 is the sentinel.
First(list)    == IF list = <<>> THEN 0 ELSE list[1]
After(list, id) == IF \E i \in 1 .. Len(list) - 1 : list[i] = id
                   THEN LET i == CHOOSE i \in 1 .. Len(list) - 1 : list[i] = id
                        IN list[i + 1]
                   ELSE 0

\* sendPacket: the bytes are those the ring holds now.
DataPacket(sn, size, ring) ==
    ToReceiver(IF rcvrVersion = 1 THEN "OLDSEND" ELSE "SEND", sn,
               RingRead(ring, sn, size))

Resent(id) == DataPacket(StartOf(id), sendpack[id].size, filebuf)

\* sendOldFilePart(1) on the list with resentPtr at r: the packet is resent
\* when it was sent long enough ago, otherwise resentPtr moves on.
ResendLater(list, r) ==
    LET id == IF r = 0 THEN First(list) ELSE r
    IN \/ resentPtr' = After(list, id) /\ UNCHANGED toR
       \/ /\ id # 0
          /\ resentPtr' = id
          /\ toR' = Send(toR, Resent(id))

\* recvAck(ackedSN, to): drop packets from the one at ackedSN on while they
\* are covered by to.  r' is what becomes of resentPtr.
\* Mutants of Covered: the packet's start instead of its end; strictly beyond.
Covered_Start(id, to)  == Minus(to, StartOf(id)) < BufSize
Covered_Strict(id, to) == Minus(to, sendpack[id].sn) \in 1 .. BufSize - 1
Covered(id, to) == Minus(to, sendpack[id].sn) < BufSize

AckPoint == checkbuf[Slot(ackedSN)]

RecvAck(to) ==
    LET p == IF AckPoint \in Live
             THEN CHOOSE i \in DOMAIN unacked : unacked[i] = AckPoint
             ELSE Len(unacked) + 1        \* dsuFind ends at the sentinel
    IN \E q \in p - 1 .. Len(unacked) :
         /\ \A i \in p .. q : Covered(unacked[i], to)
         /\ q < Len(unacked) => ~Covered(unacked[q + 1], to)
         /\ unacked' = SubSeq(unacked, 1, p - 1) \o SubSeq(unacked, q + 1, Len(unacked))
         /\ IF q >= p /\ StartOf(unacked[p]) = ackedSN
            THEN ackedSN' = sendpack[unacked[q]].sn
            ELSE UNCHANGED ackedSN
         /\ nackedBytes' = IF q < p THEN nackedBytes
                           ELSE nackedBytes - Minus(sendpack[unacked[q]].sn,
                                                    StartOf(unacked[p]))

\* resentPtr moves to the next packet whenever its own is dropped.
ResentKept == IF resentPtr \in {unacked'[i] : i \in DOMAIN unacked'} THEN resentPtr
              ELSE IF resentPtr = 0 THEN 0
              ELSE First(unacked')

\* recvMaybeAck on packet m; every packet to the sender is some kind of ACK.
InWindow(m)  == Minus(m.sn, ackedSN) <= Minus(currentSN, ackedSN)
IsStopAck(m) == m.type = "STOP_ACK" /\ m.sn = ackedSN
IsAck(m)     == InWindow(m) /\ ~IsStopAck(m) /\ AckPoint # 0
Accepted(m)  == InWindow(m) /\ (IsStopAck(m) \/ AckPoint # 0)
DupAfter(m)  == IF m.sn # ackedSN THEN 1
                ELSE IF dupAck < DupCap THEN dupAck + 1 ELSE DupCap

-----------------------------------------------------------------------------
(* The sender: initsendfile.                                               *)

SndInit ==
    /\ sPc = "init"
    /\ IF tries = InitTries
       THEN sPc' = "failed" /\ UNCHANGED <<tries, sAlarm, toR>>
       ELSE /\ sPc' = "initwait"
            /\ tries' = tries + 1
            /\ sAlarm' = TRUE
            /\ toR' = Send(toR, ToReceiver("INIT", currentSN, <<>>))
    /\ UNCHANGED <<connVars, ringVars, ackVars, resentPtr, dupAck, recvVars, toS>>

\* waitInitAck, and the check of the receiver's version once it succeeded.
SndInitRecv(m) ==
    /\ sPc = "initwait"
    /\ toS' \in Taken(toS, m)
    /\ IF m.type = "INIT_ACK" /\ m.sn = currentSN
       THEN /\ sPc' = "send"
            /\ tries' = 0
            /\ sAlarm' = TRUE           \* the main loop sets it before it waits
            /\ ackedSN' = currentSN
            /\ nackedBytes' = 0
            /\ IF m.magic
               THEN rcvrVersion' = 2 /\ windowSize' = WindowSize
               ELSE UNCHANGED <<rcvrVersion, windowSize>>
       ELSE UNCHANGED <<sPc, tries, sAlarm, ackedSN, nackedBytes, rcvrVersion, windowSize>>
    /\ UNCHANGED <<initSN, ringVars, unacked, resentPtr, dupAck, recvVars, toR>>

SndInitTimeout ==
    /\ sPc = "initwait" /\ sAlarm
    /\ sPc' = "init"
    /\ UNCHANGED <<connVars, ringVars, ackVars, resentPtr, dupAck, tries, sAlarm,
                   recvVars, toR, toS>>

-----------------------------------------------------------------------------
(* The sender: the main loop of sendfile.                                  *)

Unacked == Minus(currentSN, ackedSN)

\* Mutant of Looping: leaves the loop at the end of the file.
Looping_Eof == ~fileEnds
Looping == ~fileEnds \/ currentSN # ackedSN
CanSend == ~fileEnds /\ Unacked < BufSize - 1 /\ nackedBytes < windowSize - 1

MinOf(a, b) == IF a < b THEN a ELSE b

\* The size of the next packet, as far as the window and the ring allow.
\* Its mutant forgets the window.
Can_NoWindow == MinOf(MaxData, BufSize - Unacked)
Can == MinOf(MinOf(MaxData, windowSize - nackedBytes), BufSize - Unacked)

\* What sendNewFilePart notes of a packet of n bytes: its end and its size,
\* and in checkbuf its id at its first byte, no mark at the others.
NewEntry_Start(n) == [sn |-> currentSN, size |-> n]               \* mutant
NewEntry(n)       == [sn |-> Plus(currentSN, n), size |-> n]
NewMarks_Erased(n) ==                                             \* mutant
    RingFill([checkbuf EXCEPT ![Slot(currentSN)] = packetId], currentSN, n, 0)
NewMarks(n) ==
    [RingFill(checkbuf, currentSN, n, 0) EXCEPT ![Slot(currentSN)] = packetId]
NextId_Early == IF packetId + 1 >= MaxPackets - 1 THEN 1 ELSE packetId + 1  \* mutant
NextId       == IF packetId + 1 >= MaxPackets THEN 1 ELSE packetId + 1

\* sendNewFilePart.  At the end of the file fread returns 0 bytes; the empty
\* packet is sent and listed like any other.
SndNewPart ==
    /\ sPc = "send" /\ Looping /\ CanSend
    /\ LET n    == MinOf(Can, FileLen - filePos)
           data == [i \in 1 .. n |-> filePos + i - 1]
       IN /\ filePos' = filePos + n
          /\ fileEnds' = (n = 0)
          /\ filebuf' = RingWrite(filebuf, currentSN, data)
          /\ checkbuf' = NewMarks(n)
          /\ sendpack' = [sendpack EXCEPT ![packetId] = NewEntry(n)]
          /\ unacked' = Append(unacked, packetId)
          /\ currentSN' = Plus(currentSN, n)
          /\ nackedBytes' = nackedBytes + n
          /\ toR' = Send(toR, DataPacket(currentSN, n, filebuf'))
    /\ packetId' = NextId
    /\ UNCHANGED <<sPc, connVars, ackedSN, resentPtr, dupAck, tries, sAlarm,
                   recvVars, toS>>

\* A packet arrives.  Anything that arrives resets the count of timeouts.
SndRecv(m) ==
    /\ sPc = "send" /\ Looping /\ ~CanSend
    /\ toS' \in Taken(toS, m)
    /\ dupAck' = DupAfter(m)
    /\ IF IsAck(m) THEN RecvAck(m.sn) ELSE UNCHANGED ackVars
    /\ \/ ~Accepted(m) /\ UNCHANGED <<resentPtr, toR>>
       \/ Accepted(m) /\ dupAck' = 3 /\ ResendLater(unacked', 0)
       \/ /\ Accepted(m) /\ dupAck' # 3
          /\ IF nackedBytes' < nackedBytes
             THEN ResendLater(unacked', ResentKept)
             ELSE resentPtr' = ResentKept /\ UNCHANGED toR
    /\ tries' = 0
    /\ sAlarm' = TRUE
    /\ UNCHANGED <<sPc, connVars, ringVars, recvVars>>

\* The alarm interrupts recv: the first packet is resent, then
\* sendOldFilePart(1) either resends it once more or moves resentPtr on.
SndTimeout ==
    /\ sPc = "send" /\ Looping /\ ~CanSend /\ sAlarm
    /\ tries' = tries + 1
    /\ IF tries' = MaxTries
       THEN sPc' = "failed" /\ UNCHANGED <<resentPtr, toR>>
       ELSE /\ UNCHANGED sPc
            /\ IF unacked = <<>>
               THEN resentPtr' = 0 /\ UNCHANGED toR
               ELSE /\ resentPtr' \in {First(unacked), After(unacked, First(unacked))}
                    /\ toR' = Send(toR, Resent(First(unacked)))
    /\ UNCHANGED <<connVars, ringVars, ackVars, dupAck, sAlarm, recvVars, toS>>

-----------------------------------------------------------------------------
(* The sender: the end of sendfile.  STOP is sent until it is answered or  *)
(* StopTries is reached; either way CloseTries STOP_ACKs follow and main   *)
(* reports success.                                                        *)

SndFinish ==
    /\ sPc = "send" /\ ~Looping
    /\ sPc' = "stop"
    /\ tries' = 0
    /\ UNCHANGED <<connVars, ringVars, ackVars, resentPtr, dupAck, sAlarm,
                   recvVars, toR, toS>>

SndStop ==
    /\ sPc = "stop"
    /\ IF tries = StopTries
       THEN sPc' = "close" /\ tries' = 0 /\ UNCHANGED <<sAlarm, toR>>
       ELSE /\ sPc' = "stopwait"
            /\ tries' = tries + 1
            /\ sAlarm' = TRUE
            /\ toR' = Send(toR, ToReceiver("STOP", currentSN, <<>>))
    /\ UNCHANGED <<connVars, ringVars, ackVars, resentPtr, dupAck, recvVars, toS>>

SndStopRecv(m) ==
    /\ sPc = "stopwait"
    /\ toS' \in Taken(toS, m)
    /\ dupAck' = DupAfter(m)
    /\ IF IsAck(m) THEN RecvAck(m.sn) ELSE UNCHANGED ackVars
    /\ resentPtr' = ResentKept
    /\ IF InWindow(m) /\ IsStopAck(m)
       THEN sPc' = "close" /\ tries' = 0
       ELSE sPc' = "stop" /\ UNCHANGED tries
    /\ UNCHANGED <<connVars, ringVars, sAlarm, recvVars, toR>>

\* Nothing was received, but recvMaybeAck runs all the same, on the packet
\* received before: it is refused or acknowledges ackedSN once more.
SndStopTimeout ==
    /\ sPc = "stopwait" /\ sAlarm
    /\ sPc' = "stop"
    /\ \/ UNCHANGED ackVars
       \/ AckPoint # 0 /\ RecvAck(ackedSN)
    /\ resentPtr' = ResentKept
    /\ dupAck' \in {1, DupAfter([sn |-> ackedSN])}
    /\ UNCHANGED <<connVars, ringVars, tries, sAlarm, recvVars, toR, toS>>

SndClose ==
    /\ sPc = "close"
    /\ IF tries = CloseTries
       THEN sPc' = "done" /\ UNCHANGED <<tries, toR>>
       ELSE /\ tries' = tries + 1
            /\ toR' = Send(toR, ToReceiver("STOP_ACK", ackedSN, <<>>))
            /\ UNCHANGED sPc
    /\ UNCHANGED <<connVars, ringVars, ackVars, resentPtr, dupAck, sAlarm,
                   recvVars, toS>>

\* The alarm expires between ualarm and recv: sig_alarm only sets isTimeout,
\* which the sender has just cleared or does not look at.
SndLoseAlarm ==
    /\ LostAlarms /\ sAlarm
    /\ \/ sPc \in {"initwait", "stopwait"}
       \/ sPc = "send" /\ Looping /\ ~CanSend
    /\ sAlarm' = FALSE
    /\ UNCHANGED <<sPc, connVars, ringVars, ackVars, resentPtr, dupAck, tries,
                   recvVars, toR, toS>>

-----------------------------------------------------------------------------
(* The receiver: main.                                                     *)

\* An INIT opens a session.  Its INIT_ACK leaves before the file is opened,
\* and fopen truncates the file; when it fails nobody serves the session.
RcvOpen(m) ==
    /\ rPc = "idle" /\ sessions < MaxSessions /\ m.type = "INIT"
    /\ toR' \in Taken(toR, m)
    /\ sessions' = sessions + 1
    /\ rInitSN' = m.sn /\ rCurrentSN' = m.sn /\ rAckedSN' = m.sn
    /\ senderVersion' = 2
    /\ toS' = Send(toS, ToSender("INIT_ACK", m.sn, TRUE))
    /\ \/ UNCHANGED <<rPc, written, rCheckbuf, death, rAlarm>>
       \/ /\ rPc' = "recv"
          /\ written' = <<>>
          /\ rCheckbuf' = [s \in Slots |-> FALSE]
          /\ death' = 0
          /\ rAlarm' = TRUE
    /\ UNCHANGED <<rFilebuf, sendVars>>

RcvIdle(m) ==
    /\ rPc = "idle" /\ m.type # "INIT"
    /\ toR' \in Taken(toR, m)
    /\ UNCHANGED <<sendVars, recvVars, toS>>

-----------------------------------------------------------------------------
(* The receiver: recv_file.                                                *)

\* The file name of an INIT counts as its data.
DataLen(m) == IF m.type = "INIT" THEN InitLen ELSE Len(m.data)
EndOf(m)   == Plus(m.sn, DataLen(m))

\* mayRecvFile: is the packet in [currentSN-window, ackedSN+window)?
MayRecv(m) == LET a == Minus(rCurrentSN, WindowSize)
                  b == Plus(rAckedSN, WindowSize)
              IN InsideRange(m.sn, a, b) /\ InsideRange(EndOf(m), a, b)

IsData(m) == m.type = "SEND" \/ (senderVersion = 1 /\ m.type = "OLDSEND")

\* storeFile: mark and copy the data, then write what is contiguous.
\* Its mutant stores whatever mayRecvFile lets through.
Storable_Always(m) == MayRecv(m)
Storable(m) == LET b == Plus(rAckedSN, WindowSize)
               IN InsideRange(m.sn, rAckedSN, b) /\ InsideRange(EndOf(m), rAckedSN, b)

StoreFile(m) ==
    LET marked == RingFill(rCheckbuf, m.sn, Len(m.data), TRUE)
    IN \E n \in 0 .. BufSize :
         /\ \A i \in 0 .. n - 1 : marked[Slot(Plus(rAckedSN, i))]
         /\ n < BufSize => ~marked[Slot(Plus(rAckedSN, n))]
         /\ rFilebuf' = RingWrite(rFilebuf, m.sn, m.data)
         /\ rCheckbuf' = RingFill(marked, rAckedSN, n, FALSE)
         /\ rAckedSN' = Plus(rAckedSN, n)
         /\ rCurrentSN' = IF InsideRange(EndOf(m), rAckedSN, rCurrentSN)
                          THEN rCurrentSN ELSE EndOf(m)
         /\ written' = written \o RingRead(rFilebuf', rAckedSN, n)

\* After a packet that is not ignored the alarm is set anew.
Alive == death' = 0 /\ rAlarm' = TRUE

RcvData(m) ==
    /\ rPc = "recv" /\ rAlarm /\ MayRecv(m) /\ IsData(m)
    /\ toR' \in Taken(toR, m)
    /\ IF Storable(m) THEN StoreFile(m) ELSE UNCHANGED storeVars
    /\ toS' = Send(toS, ToSender("ACK", rAckedSN', FALSE))
    /\ Alive
    /\ UNCHANGED <<sendVars, rPc, openVars>>

\* A repeated INIT is answered with 12 bytes, without the magic number.
RcvInitAgain(m) ==
    /\ rPc = "recv" /\ rAlarm /\ MayRecv(m) /\ m.type = "INIT"
    /\ toR' \in Taken(toR, m)
    /\ toS' = Send(toS, ToSender("INIT_ACK", rAckedSN, FALSE))
    /\ Alive
    /\ UNCHANGED <<sendVars, rPc, openVars, storeVars>>

RcvStop(m) ==
    /\ rPc = "recv" /\ rAlarm /\ MayRecv(m) /\ m.type = "STOP"
    /\ toR' \in Taken(toR, m)
    /\ IF rCurrentSN = rAckedSN
       THEN rPc' = "stop" /\ death' = 0 /\ rAlarm' = TRUE
       ELSE UNCHANGED rPc /\ Alive
    /\ UNCHANGED <<sendVars, openVars, storeVars, toS>>

RcvIgnore(m) ==
    /\ rPc = "recv" /\ rAlarm
    /\ ~MayRecv(m) \/ ~(IsData(m) \/ m.type \in {"INIT", "STOP"})
    /\ toR' \in Taken(toR, m)
    /\ UNCHANGED <<sendVars, recvVars, toS>>

\* recv is interrupted; or isTimeout was already set, and recv returns a
\* packet only for it to be thrown away.
RcvTimeout ==
    /\ rPc = "recv"
    /\ \/ rAlarm /\ UNCHANGED toR
       \/ ~rAlarm /\ \E m \in toR : toR' \in Taken(toR, m)
    /\ toS' = Send(toS, ToSender("ACK", rAckedSN, FALSE))
    /\ death' = death + 1
    /\ rAlarm' = TRUE
    /\ rPc' = IF death' = MaxDeaths THEN "idle" ELSE "recv"
    /\ UNCHANGED <<sendVars, openVars, storeVars>>

\* The loop after STOP: answer STOP_ACK until one comes back.
RcvStopAck ==
    /\ rPc = "stop"
    /\ IF death = StopAcks
       THEN rPc' = "idle" /\ UNCHANGED <<death, rAlarm, toS>>
       ELSE /\ rPc' = "stopwait"
            /\ death' = death + 1
            /\ rAlarm' = TRUE
            /\ toS' = Send(toS, ToSender("STOP_ACK", rAckedSN, FALSE))
    /\ UNCHANGED <<sendVars, openVars, storeVars, toR>>

RcvStopWait ==
    /\ rPc = "stopwait"
    /\ \/ rAlarm /\ rPc' = "stop" /\ UNCHANGED toR
       \/ \E m \in toR : /\ toR' \in Taken(toR, m)
                         /\ rPc' = IF m.type = "STOP_ACK" THEN "idle" ELSE "stop"
    /\ UNCHANGED <<sendVars, openVars, storeVars, death, rAlarm, toS>>

\* The alarm expires while the receiver is not in recv: isTimeout is set,
\* and recv is entered with no alarm pending.
RcvLoseAlarm ==
    /\ LostAlarms /\ rPc \in {"recv", "stopwait"} /\ rAlarm
    /\ rAlarm' = FALSE
    /\ UNCHANGED <<sendVars, rPc, openVars, storeVars, death, toR, toS>>

-----------------------------------------------------------------------------

Init ==
    /\ sPc = "init"
    /\ initSN \in InitSNs /\ currentSN = initSN
    /\ ackedSN = 0 /\ nackedBytes = 0
    /\ windowSize = MaxData /\ rcvrVersion = 1
    /\ fileEnds = FALSE /\ dupAck = 0 /\ filePos = 0
    /\ filebuf = [s \in Slots |-> NoByte]
    /\ checkbuf = [s \in Slots |-> 0]
    /\ sendpack = [id \in Ids |-> [sn |-> 0, size |-> 0]]
    /\ unacked = <<>> /\ resentPtr = 0 /\ packetId = 1
    /\ tries = 0 /\ sAlarm = FALSE
    /\ rPc = "idle"
    /\ rInitSN = 0 /\ rCurrentSN = 0 /\ rAckedSN = 0 /\ senderVersion = 1
    /\ rFilebuf = [s \in Slots |-> NoByte]
    /\ rCheckbuf = [s \in Slots |-> FALSE]
    /\ written = <<>> /\ death = 0 /\ rAlarm = FALSE /\ sessions = 0
    /\ toR = {} /\ toS = {}

\* Both programs have nothing left to do: the sender has exited and the
\* receiver waits in main for the next INIT.
Finished == sPc \in {"done", "failed"} /\ rPc = "idle" /\ UNCHANGED vars

SndStep == \/ SndInit \/ SndInitTimeout
           \/ SndNewPart \/ SndTimeout
           \/ SndFinish \/ SndStop \/ SndStopTimeout \/ SndClose
           \/ \E m \in toS : SndInitRecv(m) \/ SndRecv(m) \/ SndStopRecv(m)

RcvStep == \/ RcvTimeout \/ RcvStopAck \/ RcvStopWait
           \/ \E m \in toR : \/ RcvOpen(m) \/ RcvIdle(m)
                             \/ RcvData(m) \/ RcvInitAgain(m) \/ RcvStop(m)
                             \/ RcvIgnore(m)

Next == SndStep \/ RcvStep \/ Lose \/ SndLoseAlarm \/ RcvLoseAlarm \/ Finished

Spec == Init /\ [][Next]_vars

\* The scheduler runs both programs, and a pending alarm goes off: a program
\* that can take a step takes one.  Nothing is assumed of the network; it may
\* lose every packet.
FairSpec == Spec /\ WF_vars(SndStep) /\ WF_vars(RcvStep)

-----------------------------------------------------------------------------
(* Properties.                                                             *)

Connected == sPc \notin {"init", "initwait"} /\ (sPc = "failed" => unacked # <<>>)

\* Offset of a sequence number in the file, and the n bytes from there on.
Off(sn)         == Minus(sn, initSN)
FileData(sn, n) == [i \in 1 .. n |-> Off(sn) + i - 1]
File            == [i \in 1 .. FileLen |-> i - 1]

Packets(types) == [type : types, sn : SN, data : Seq(Bytes)]

\* Every variable keeps the range its C type and its use give it: no ring index,
\* packet id or count leaves its table, and the window is never exceeded.
SndTypeOK ==
    /\ sPc \in {"init", "initwait", "send", "stop", "stopwait", "close", "done", "failed"}
    /\ {initSN, currentSN, ackedSN} \subseteq SN
    /\ nackedBytes \in 0 .. WindowSize
    /\ windowSize \in {MaxData, WindowSize}
    /\ fileEnds \in BOOLEAN
    /\ dupAck \in 0 .. DupCap
    /\ rcvrVersion \in {1, 2}
    /\ filebuf \in [Slots -> Bytes]
    /\ checkbuf \in [Slots -> {0} \cup Ids]
    /\ sendpack \in [Ids -> [sn : SN, size : 0 .. MaxData]]
    /\ unacked \in Seq(Ids)
    /\ resentPtr \in {0} \cup Ids
    /\ packetId \in Ids
    /\ tries \in Nat
    /\ filePos \in 0 .. FileLen
    /\ sAlarm \in BOOLEAN

RcvTypeOK ==
    /\ rPc \in {"idle", "recv", "stop", "stopwait"}
    /\ {rInitSN, rCurrentSN, rAckedSN} \subseteq SN
    /\ senderVersion \in {1, 2}
    /\ rFilebuf \in [Slots -> Bytes]
    /\ rCheckbuf \in [Slots -> BOOLEAN]
    /\ written \in Seq(Bytes)
    /\ death \in Nat
    /\ rAlarm \in BOOLEAN
    /\ sessions \in Nat

NetTypeOK ==
    /\ toR \subseteq Packets({"INIT", "SEND", "OLDSEND", "STOP", "STOP_ACK"})
    /\ toS \subseteq [type : {"INIT_ACK", "ACK", "STOP_ACK"}, sn : SN, magic : BOOLEAN]

TypeOK == SndTypeOK /\ RcvTypeOK /\ NetTypeOK

\* Loss, reordering, duplication, retransmission and the wrap of both rings
\* never put a wrong byte into the received file: what storeFile has written
\* is the beginning of the file that is being sent, in every session.
FilePrefix == /\ Len(written) <= FileLen
              /\ \A i \in DOMAIN written : written[i] = i - 1

\* sendNewFilePart never overwrites ring slots of a packet that is still on
\* the list: a retransmission carries the bytes of the first transmission.
ResendsOriginal ==
    \A i \in DOMAIN unacked :
        Resent(unacked[i]).data = FileData(StartOf(unacked[i]), sendpack[unacked[i]].size)

\* The packets on the list lie end to end from ackedSN to currentSN, and
\* nackedBytes is the number of bytes in them.
ListTilesWindow ==
    Connected =>
      /\ nackedBytes = Unacked
      /\ \A i \in DOMAIN unacked :
           /\ StartOf(unacked[i]) = IF i = 1 THEN ackedSN ELSE sendpack[unacked[i - 1]].sn
           /\ i = Len(unacked) => sendpack[unacked[i]].sn = currentSN
      /\ unacked = <<>> => ackedSN = currentSN

\* The mark recvAck starts from leads to the first packet of the list: no
\* acknowledgement is dropped as a "strange ack position" while data is
\* outstanding, although slots and packet ids are used again and again.
AckPointIsFirst == unacked # <<>> => AckPoint = unacked[1]

\* sendpack is reused round and round: there are never so many unacknowledged
\* packets that a new one takes the entry of an old one.  A window holds one
\* packet that was cut short besides the empty one at the end of the file.
PacketTableSuffices ==
    /\ Len(unacked) <= CeilDiv(windowSize, MaxData) + 1
    /\ \A i, j \in DOMAIN unacked : unacked[i] = unacked[j] => i = j

\* With one session the sender takes nothing as acknowledged that the
\* receiver has not written.
AckedIsWritten == Connected => Off(ackedSN) <= Len(written)

\* The transfer is a FileCopy: success is reported only for a complete copy,
\* whatever happened to STOP and STOP_ACK.
Outcome  == IF sPc \in {"done", "failed"} THEN sPc ELSE "running"
Copy     == INSTANCE FileCopy WITH dest <- written, outcome <- Outcome
CopySpec == Copy!Spec

\* The sender ends, one way or the other.
Terminates == <>(sPc \in {"done", "failed"})

\* "check receiver version": a sender that is connected uses the protocol
\* version under which the receiver treats its data.
VersionAgreement == sPc = "send" => rcvrVersion = senderVersion

\* "use alarm() timeout": no transfer waits for a packet for ever.  In the
\* state excluded here both programs wait in recv with no alarm pending (or
\* the receiver is back in main), and no packet is in flight.
NoStall == ~ /\ sPc = "send" /\ Looping /\ ~CanSend /\ ~sAlarm
             /\ rPc = "idle" \/ (rPc \in {"recv", "stopwait"} /\ ~rAlarm)
             /\ toR = {} /\ toS = {}
=============================================================================
