-------------------------- MODULE WindowInvariant --------------------------
(***************************************************************************)
(* The inductive invariant of WindowTransfer.  It speaks of positions in   *)
(* the file instead of sequence numbers: At(n) is the sequence number of   *)
(* position n.                                                             *)
(***************************************************************************)
EXTENDS WindowTransfer

At(n) == Plus(initSN, n)

\* The positions of the acknowledged data and of the packets on the list.
Acked   == Off(ackedSN)
End(id) == Off(sendpack[id].sn)
Beg(id) == End(id) - sendpack[id].size

\* The id handed out k packets before id p, 1 <= k < MaxPackets.
Back(p, k) == IF k < p THEN p - k ELSE p - k + (MaxPackets - 1)

\* Before the connection is made nothing has been sent.
Fresh == filePos = 0 /\ unacked = <<>> /\ ~fileEnds /\ nackedBytes = 0

\* The bytes between ackedSN and currentSN are within the window and in the ring.
WindowInv ==
    /\ Acked <= filePos
    /\ nackedBytes = filePos - Acked /\ nackedBytes <= windowSize
    /\ fileEnds => filePos = FileLen
    /\ \A p \in Acked .. filePos - 1 : filebuf[Slot(At(p))] = p

\* The packets on the list lie end to end, each one is marked where it
\* begins, and only the last one may be empty.  Contiguity is stated for
\* neighbours and, as a consequence, for any two packets.
ListInv ==
    /\ unacked = <<>> => Acked = filePos
    /\ \A i \in 1 .. Len(unacked) :
         /\ Beg(unacked[i]) = IF i = 1 THEN Acked ELSE End(unacked[i - 1])
         /\ Acked <= Beg(unacked[i]) /\ End(unacked[i]) <= filePos
         /\ i = Len(unacked) => End(unacked[i]) = filePos
         /\ sendpack[unacked[i]].size = 0 => i = Len(unacked) /\ fileEnds
         /\ checkbuf[Slot(At(Beg(unacked[i])))] = unacked[i]
    /\ \A i, j \in 1 .. Len(unacked) : i < j => End(unacked[i]) <= Beg(unacked[j])

\* Ids were handed out in order; how many can be outstanding follows from how
\* many packets of a window can be shorter than MaxData: the one that fills
\* the window, the last one with data, and the empty one.
Packs(w) == CeilDiv(w, MaxData)
Spare    == Packs(windowSize) * MaxData - windowSize
IdInv ==
    /\ Len(unacked) <= Packs(windowSize) + 1
    /\ \A i \in 1 .. Len(unacked) :
         unacked[i] = Back(packetId, Len(unacked) + 1 - i)
    /\ \A i, j \in 1 .. Len(unacked) :
         i <= j => End(unacked[j]) - Beg(unacked[i]) <= (j - i + 1) * MaxData
    /\ Len(unacked) * MaxData <= nackedBytes + Spare
                                 + (IF filePos = FileLen THEN MaxData ELSE 0)
                                 + (IF fileEnds THEN MaxData ELSE 0)

SenderInv ==
    /\ currentSN = At(filePos)
    /\ sPc \in {"init", "initwait"} => Fresh
    /\ Connected => WindowInv /\ ListInv /\ IdInv

\* What is in flight to the receiver is a part of the file, however old.
Original(m) ==
    /\ Off(m.sn) + Len(m.data) <= FileLen
    /\ \A i \in 1 .. Len(m.data) : m.data[i] = Off(m.sn) + i - 1
NetInv ==
    \A m \in toR : /\ m.type = "INIT" => m.sn = initSN
                   /\ m.type \in {"SEND", "OLDSEND"} => Original(m)

\* A marked slot of the receiver's ring, k places on from ackedSN, holds the
\* byte of the file that belongs there; no mark is left from an earlier turn.
Done == Len(written)
ReceiverInv ==
    /\ FilePrefix
    /\ rPc # "idle" =>
         /\ rAckedSN = At(Done)
         /\ Done <= Off(rCurrentSN) /\ Off(rCurrentSN) <= FileLen
         /\ Off(rCurrentSN) - Done <= WindowSize
         /\ \A k \in 0 .. BufSize - 1 :
              rCheckbuf[Slot(At(Done + k))] =>
                 Done + k < Off(rCurrentSN) /\ rFilebuf[Slot(At(Done + k))] = Done + k

IInv == TypeOK /\ SenderInv /\ NetInv /\ ReceiverInv

\* With one session nothing is written off again: every acknowledgement, however
\* old, stays true, and what the sender has noted as acknowledged is written.
Closing == {"stop", "stopwait", "close", "done"}
SingleInv ==
    /\ sessions <= MaxSessions
    /\ sessions = 0 => written = <<>> /\ rPc = "idle"
    /\ \A m \in toS : Off(m.sn) <= Done
    /\ AckedIsWritten
    /\ sPc \in Closing => fileEnds /\ currentSN = ackedSN
=============================================================================
