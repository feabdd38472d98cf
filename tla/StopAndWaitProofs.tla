------------------------- MODULE StopAndWaitProofs -------------------------
(***************************************************************************)
(* The stop-and-wait transfer writes a prefix of the file, and unless an   *)
(* old INIT truncates the file it implements FileCopy.                     *)
(***************************************************************************)
EXTENDS StopAndWait, SequenceTheorems, TLAPS

\* What may be in flight to the receiver: the parts of the file.
Original(m) == /\ m.sn + Len(m.data) <= FileLen
               /\ \A i \in 1 .. Len(m.data) : m.data[i] = m.sn + i - 1
PartsInv == \A m \in toR : /\ m.type = "INIT" => m.sn = 0
                           /\ m.type = "SEND" => Original(m)

\* The receiver's position is the end of what it has written.
SWInv == /\ TypeOK /\ FilePrefix /\ PartsInv
         /\ rCurrentSN = Len(written)
         /\ phase = "init" => currentSN = 0

\* Nothing is written before the sender is connected, and with no late INIT
\* every answer stays true.
Fresh   == written = <<>> /\ \A m \in toR : m.type = "INIT"
CopyInv == /\ phase = "init" => Fresh
           /\ \A m \in toS : m.sn <= Len(written)
           /\ AckedIsWritten
           /\ phase \in {"stop", "done"} => currentSN = FileLen

Packets == [type : {"INIT", "SEND", "STOP", "STOP_REALLY"}, sn : 0 .. FileLen,
            data : Seq(Bytes)]
Answers == [type : {"INIT_ACK", "ACK", "STOP_ACK"}, sn : 0 .. FileLen]

LEMMA Sent ==
    ASSUME NEW net, NEW m, NEW p, p \in Send(net, m)
    PROVE  p \in net \/ p = m
  BY DEF Send

LEMMA TakenShrinks ==
    ASSUME NEW net, NEW m, NEW rest, rest \in Taken(net, m)
    PROVE  rest \subseteq net
  BY DEF Taken

\* A part is within the file and carries its bytes.
LEMMA PartIsOriginal ==
    ASSUME currentSN \in 0 .. FileLen
    PROVE  /\ PartSize \in 0 .. MaxData /\ currentSN + PartSize \in 0 .. FileLen
           /\ LastPart => currentSN + PartSize = FileLen
           /\ Packet("SEND", currentSN, [i \in 1 .. PartSize |-> currentSN + i - 1]) \in Packets
           /\ Original(Packet("SEND", currentSN, [i \in 1 .. PartSize |-> currentSN + i - 1]))
  <1>1. FileLen \in Nat /\ MaxData \in Nat BY StopAndWaitAssumption
  <1>2. /\ PartSize \in 0 .. MaxData /\ currentSN + PartSize \in 0 .. FileLen
        /\ LastPart => currentSN + PartSize = FileLen
    BY <1>1 DEF PartSize, LastPart, MinOf
  <1>3. PICK n : n = PartSize OBVIOUS
  <1>4. PICK d : d = [i \in 1 .. n |-> currentSN + i - 1] OBVIOUS
  <1>5. n \in Nat /\ currentSN + n <= FileLen /\ currentSN \in Nat BY <1>1, <1>2, <1>3
  <1>6. \A i \in 1 .. n : currentSN + i - 1 \in Bytes BY <1>1, <1>5 DEF Bytes
  <1>7. d \in Seq(Bytes) /\ Len(d) = n /\ \A i \in 1 .. n : d[i] = currentSN + i - 1
    BY <1>4, <1>5, <1>6
  <1>8. Packet("SEND", currentSN, d) = [type |-> "SEND", sn |-> currentSN, data |-> d]
    BY DEF Packet
  <1>9. Packet("SEND", currentSN, d) \in Packets BY <1>7, <1>8 DEF Packets
  <1>10. Original(Packet("SEND", currentSN, d)) BY <1>5, <1>7, <1>8 DEF Original
  <1>11. QED BY <1>2, <1>3, <1>4, <1>9, <1>10

\* What the sender adds to the network.
GoodPacket(m) == /\ m \in Packets
                 /\ m.type = "INIT" => m.sn = 0
                 /\ m.type = "SEND" => Original(m)

LEMMA RequestIsGood ==
    ASSUME SWInv, Trying
    PROVE  /\ GoodPacket(Request) /\ (phase = "init" => Request.type = "INIT")
           /\ GoodPacket(Packet("STOP_REALLY", currentSN, <<>>))
  <1>1. currentSN \in 0 .. FileLen /\ (phase = "init" => currentSN = 0)
    BY DEF SWInv, TypeOK
  <1>2. <<>> \in Seq(Bytes) OBVIOUS
  <1>3. ASSUME NEW type \in {"INIT", "STOP", "STOP_REALLY"}, type = "INIT" => currentSN = 0
        PROVE  GoodPacket(Packet(type, currentSN, <<>>))
    BY <1>1, <1>2, <1>3 DEF GoodPacket, Packet, Packets
  <1>4. GoodPacket(Packet("STOP_REALLY", currentSN, <<>>)) BY <1>3
  <1>5. CASE phase = "init"
    <2>1. Request = Packet("INIT", currentSN, <<>>) BY <1>5 DEF Request
    <2>2. GoodPacket(Packet("INIT", currentSN, <<>>)) BY <1>1, <1>3, <1>5
    <2>3. QED BY <1>4, <2>1, <2>2 DEF Packet
  <1>6. CASE phase = "part"
    <2>1. Request = Packet("SEND", currentSN, [i \in 1 .. PartSize |-> currentSN + i - 1])
      BY <1>6 DEF Request
    <2>2. Request \in Packets /\ Original(Request) BY <1>1, <2>1, PartIsOriginal
    <2>3. Request.type = "SEND" BY <2>1 DEF Packet
    <2>4. QED BY <1>4, <1>6, <2>2, <2>3 DEF GoodPacket
  <1>7. CASE phase = "stop"
    <2>1. Request = Packet("STOP", currentSN, <<>>) BY <1>7 DEF Request
    <2>2. GoodPacket(Packet("STOP", currentSN, <<>>)) BY <1>3
    <2>3. QED BY <1>4, <1>7, <2>1, <2>2
  <1>8. QED BY <1>5, <1>6, <1>7 DEF Trying

\* Writing a part that is expected.
LEMMA PartIsWritten ==
    ASSUME SWInv, NEW m, GoodPacket(m), m.type = "SEND", m.sn = rCurrentSN
    PROVE  /\ written \o m.data \in Seq(Bytes)
           /\ Len(written \o m.data) = rCurrentSN + Len(m.data)
           /\ rCurrentSN + Len(m.data) \in 0 .. FileLen
           /\ Len(written) <= Len(written \o m.data)
           /\ \A i \in DOMAIN (written \o m.data) : (written \o m.data)[i] = i - 1
  <1>1. /\ written \in Seq(Bytes) /\ m.data \in Seq(Bytes) /\ rCurrentSN = Len(written)
        /\ rCurrentSN + Len(m.data) <= FileLen /\ FileLen \in Nat
        /\ \A i \in 1 .. Len(m.data) : m.data[i] = rCurrentSN + i - 1
        /\ \A i \in 1 .. Len(written) : written[i] = i - 1
    BY StopAndWaitAssumption, LenProperties
       DEF SWInv, TypeOK, FilePrefix, GoodPacket, Packets, Original
  <1>2. PICK L, k : L = Len(written) /\ k = Len(m.data) OBVIOUS
  <1>3. L \in Nat /\ k \in Nat BY <1>1, <1>2, LenProperties
  <1>4. PICK w : w = written \o m.data OBVIOUS
  <1>5. /\ w \in Seq(Bytes) /\ Len(w) = L + k
        /\ \A i \in 1 .. L + k : w[i] = IF i <= L THEN written[i] ELSE m.data[i - L]
    BY <1>1, <1>2, <1>4, ConcatProperties
  <1>6. ASSUME NEW i \in 1 .. L + k PROVE w[i] = i - 1
    <2>1. CASE i <= L
      <3>1. i \in 1 .. L BY <1>3, <2>1
      <3>2. QED BY <1>1, <1>2, <1>5, <2>1, <3>1
    <2>2. CASE ~(i <= L)
      <3>1. i - L \in 1 .. k /\ L + (i - L) - 1 = i - 1 BY <1>3, <2>2
      <3>2. m.data[i - L] = L + (i - L) - 1 BY <1>1, <1>2, <3>1
      <3>3. QED BY <1>5, <2>2, <3>1, <3>2
    <2>3. QED BY <2>1, <2>2
  <1>7. DOMAIN w = 1 .. L + k BY <1>5, LenProperties
  <1>8. L <= L + k /\ L + k \in 0 .. FileLen BY <1>1, <1>2, <1>3
  <1>9. QED BY <1>1, <1>2, <1>4, <1>5, <1>6, <1>7, <1>8

-----------------------------------------------------------------------------
(* The steps.                                                              *)

LEMMA SenderStep ==
    ASSUME SWInv, SndStep \/ SndLoseAlarm
    PROVE  /\ SWInv' /\ UNCHANGED recvVars /\ toS' \subseteq toS
           /\ phase = "init" => \A m \in toR' : m \in toR \/ m.type = "INIT"
           /\ phase \notin {"done", "failed"}
           /\ \/ phase' = phase /\ currentSN' = currentSN
              \/ phase' = "failed" /\ currentSN' = currentSN
              \/ phase # "stop" /\ phase' \in {"part", "stop"} /\ Wanted \in toS
                 /\ (phase = "init" => phase' = "part" /\ currentSN' = currentSN)
                 /\ (phase = "part" => currentSN' = Wanted.sn
                                       /\ (phase' = "stop" => currentSN' = FileLen))
              \/ phase = "stop" /\ phase' = "done" /\ currentSN' = currentSN
  <1>1. /\ currentSN \in 0 .. FileLen /\ tries \in Nat /\ waiting \in BOOLEAN
        /\ timer \in Timers /\ 0 \in Nat /\ Tried \in Nat
    BY DEF SWInv, TypeOK, Tried
  <1>2. /\ currentSN + PartSize \in 0 .. FileLen
        /\ LastPart => currentSN + PartSize = FileLen
    BY <1>1, PartIsOriginal
  <1>3. /\ UNCHANGED recvVars /\ toS' \subseteq toS /\ Trying
        /\ tries' \in Nat /\ waiting' \in BOOLEAN /\ timer' \in Timers
        /\ \A m \in toR' : m \in toR \/ m = Request
                           \/ (phase = "stop" /\ m = Packet("STOP_REALLY", currentSN, <<>>))
        /\ \/ phase' = phase /\ currentSN' = currentSN
           \/ phase' = "failed" /\ currentSN' = currentSN
           \/ phase # "stop" /\ phase' \in {"part", "stop"} /\ Wanted \in toS
              /\ (phase = "init" => phase' = "part" /\ currentSN' = currentSN)
              /\ (phase = "part" => currentSN' = currentSN + PartSize
                                    /\ (phase' = "stop" => LastPart))
           \/ phase = "stop" /\ phase' = "done" /\ currentSN' = currentSN
    <2>1. CASE SndTry BY <1>1, <2>1, Sent DEF SndTry, Timers
    <2>2. CASE SndTimeout BY <1>1, <2>2 DEF SndTimeout
    <2>3. CASE SndLoseAlarm BY <1>1, <2>3 DEF SndLoseAlarm, Timers
    <2>4. CASE \E m \in toS : SndIgnore(m) BY <1>1, <2>4, TakenShrinks DEF SndIgnore
    <2>5. CASE \E m \in toS : SndAnswered(m)
      <3>1. PICK m \in toS : SndAnswered(m) BY <2>5
      <3>2. CASE phase = "init"
        BY <1>1, <3>1, <3>2, TakenShrinks DEF SndAnswered, NextPhase
      <3>3. CASE phase = "part"
        BY <1>1, <3>1, <3>3, TakenShrinks DEF SndAnswered, NextPhase
      <3>4. CASE phase = "stop"
        BY <1>1, <3>1, <3>4, TakenShrinks, Sent DEF SndAnswered, NextPhase
      <3>5. QED BY <3>1, <3>2, <3>3, <3>4 DEF SndAnswered, Trying
    <2>6. QED BY <2>1, <2>2, <2>3, <2>4, <2>5 DEF SndStep
  <1>4. currentSN' \in 0 .. FileLen /\ (phase' = "init" => currentSN' = 0)
        /\ phase' \in {"init", "part", "stop", "done", "failed"}
    BY <1>1, <1>2, <1>3 DEF SWInv, TypeOK, Trying
  <1>5. \A m \in toR' : m \in toR \/ GoodPacket(m) BY <1>3, RequestIsGood
  <1>6. \A m \in toR' : GoodPacket(m)
    BY <1>5 DEF SWInv, TypeOK, PartsInv, GoodPacket, Packets
  <1>7. TypeOK' BY <1>3, <1>4, <1>6 DEF SWInv, TypeOK, GoodPacket, Packets, recvVars
  <1>8. PartsInv' BY <1>6 DEF PartsInv, GoodPacket, Original
  <1>9. FilePrefix' /\ rCurrentSN' = Len(written')
    BY <1>3 DEF SWInv, FilePrefix, recvVars
  <1>10. SWInv' BY <1>4, <1>7, <1>8, <1>9 DEF SWInv
  <1>11. phase = "part" => Wanted.sn = currentSN + PartSize BY DEF Wanted, Answer
  <1>12. phase = "init" => \A m \in toR' : m \in toR \/ m.type = "INIT"
    BY <1>3, RequestIsGood
  <1>13. phase \notin {"done", "failed"} BY <1>3 DEF Trying
  <1>14. phase # "stop" => phase \in {"init", "part"} BY <1>3 DEF Trying
  <1>15. QED BY <1>2, <1>3, <1>10, <1>11, <1>12, <1>13, <1>14

LEMMA ReceiverStep ==
    ASSUME SWInv, RcvStep \/ RcvLoseAlarm
    PROVE  /\ SWInv' /\ UNCHANGED sendVars /\ toR' \subseteq toR
           /\ \A m \in toS' : m \in toS \/ m.sn = Len(written')
           /\ \/ Len(written) <= Len(written')
              \/ written' = <<>> /\ (phase = "init" \/ LateInits)
           /\ written' # written => written' = <<>> \/ \E m \in toR : m.type = "SEND"
  <1>1. /\ rCurrentSN \in 0 .. FileLen /\ rTries \in Nat /\ rWaiting \in BOOLEAN
        /\ rTimer \in Timers /\ rPhase \in {"main", "data", "stop"} /\ sessions \in Nat
        /\ rCurrentSN = Len(written) /\ Len(written) \in Nat /\ written \in Seq(Bytes)
        /\ toS \subseteq Answers
    BY LenProperties DEF SWInv, TypeOK, Answers
  <1>2. \A m \in toR : GoodPacket(m) BY DEF SWInv, TypeOK, PartsInv, GoodPacket, Packets
  <1>3. ASSUME UNCHANGED sendVars, toR' \subseteq toR,
               rPhase' \in {"main", "data", "stop"}, rWaiting' \in BOOLEAN,
               rTries' \in Nat, rTimer' \in Timers, sessions' \in Nat,
               rCurrentSN' \in 0 .. FileLen, written' \in Seq(Bytes),
               rCurrentSN' = Len(written'), FilePrefix',
               \A m \in toS' : m \in toS \/ \E type \in {"INIT_ACK", "ACK", "STOP_ACK"} :
                                               m = Answer(type, rCurrentSN')
        PROVE  SWInv' /\ \A m \in toS' : m \in toS \/ m.sn = Len(written')
    <2>1. \A m \in toS' : m \in Answers /\ (m \in toS \/ m.sn = rCurrentSN')
      BY <1>1, <1>3 DEF Answer, Answers
    <2>2. TypeOK' BY <1>3, <2>1 DEF SWInv, TypeOK, sendVars, Answers
    <2>3. PartsInv' BY <1>3 DEF SWInv, PartsInv, Original
    <2>4. SWInv' BY <1>3, <2>2, <2>3 DEF SWInv, sendVars
    <2>5. QED BY <1>3, <2>1, <2>4
  <1>4. CASE \E m \in toR : RcvInit(m)
    <2>1. PICK m \in toR : RcvInit(m) BY <1>4
    <2>2. m.sn = 0 BY <1>2, <2>1 DEF RcvInit, GoodPacket
    <2>3. /\ UNCHANGED sendVars /\ toR' \subseteq toR /\ rPhase' = "data"
          /\ rWaiting' = TRUE /\ rTries' = 0 /\ rTimer' = "set" /\ sessions' = sessions + 1
          /\ rCurrentSN' = 0 /\ written' = <<>> /\ (phase = "init" \/ LateInits)
          /\ \A p \in toS' : p \in toS \/ p = Answer("INIT_ACK", 0)
      BY <2>1, <2>2, TakenShrinks, Sent DEF RcvInit
    <2>4. written' \in Seq(Bytes) /\ Len(written') = 0 /\ DOMAIN written' = {} BY <2>3
    <2>5. FilePrefix' /\ 0 \in 0 .. FileLen
      BY <2>4, StopAndWaitAssumption DEF FilePrefix
    <2>6. rTimer' \in Timers /\ rTries' \in Nat /\ rWaiting' \in BOOLEAN /\ sessions' \in Nat
      BY <1>1, <2>3 DEF Timers
    <2>7. QED BY <1>3, <2>3, <2>4, <2>5, <2>6
  <1>5. CASE \E m \in toR : RcvData(m)
    <2>1. PICK m \in toR : RcvData(m) BY <1>5
    <2>2. m.type = "SEND" /\ m.sn = rCurrentSN /\ GoodPacket(m)
      BY <1>2, <2>1 DEF RcvData, Expected
    <2>3. /\ UNCHANGED <<sendVars, rPhase, rWaiting, sessions>> /\ toR' \subseteq toR
          /\ rCurrentSN' = rCurrentSN + Len(m.data) /\ written' = written \o m.data
          /\ rTries' = 0 /\ rTimer' = "set"
          /\ \A p \in toS' : p \in toS \/ p = Answer("ACK", rCurrentSN')
      BY <2>1, TakenShrinks, Sent DEF RcvData
    <2>4. /\ written' \in Seq(Bytes) /\ Len(written') = rCurrentSN'
          /\ rCurrentSN' \in 0 .. FileLen /\ Len(written) <= Len(written')
          /\ \A i \in DOMAIN written' : written'[i] = i - 1
      BY <2>2, <2>3, PartIsWritten
    <2>5. FilePrefix' BY <2>4 DEF FilePrefix
    <2>6. rTimer' \in Timers /\ rTries' \in Nat BY <2>3 DEF Timers
    <2>7. QED BY <1>1, <1>3, <2>2, <2>3, <2>4, <2>5, <2>6
  <1>6. CASE \/ RcvTimeout \/ RcvStopAck \/ RcvStopTimeout \/ RcvLoseAlarm
             \/ \E m \in toR : \/ RcvIdle(m) \/ RcvStop(m) \/ RcvIgnore(m)
                               \/ RcvReally(m) \/ RcvStopIgnore(m)
    <2>1. /\ UNCHANGED <<sendVars, rCurrentSN, written, sessions>> /\ toR' \subseteq toR
          /\ rPhase' \in {"main", "data", "stop"} /\ rWaiting' \in BOOLEAN
          /\ rTries' \in {rTries, 0, rTries + 1} /\ rTimer' \in Timers
          /\ \A m \in toS' : m \in toS \/ \E type \in {"INIT_ACK", "ACK", "STOP_ACK"} :
                                             m = Answer(type, rCurrentSN)
      <3> USE DEF DataTimeout, recvVars, Timers
      <3>1. CASE RcvTimeout BY <1>1, <3>1, Sent DEF RcvTimeout
      <3>2. CASE RcvStopAck
        <4>1. CASE rTries = StopAcks BY <1>1, <3>2, <4>1 DEF RcvStopAck
        <4>2. CASE rTries # StopAcks BY <1>1, <3>2, <4>2, Sent DEF RcvStopAck
        <4>3. QED BY <4>1, <4>2
      <3>3. CASE RcvStopTimeout BY <1>1, <3>3 DEF RcvStopTimeout
      <3>4. CASE RcvLoseAlarm BY <1>1, <3>4 DEF RcvLoseAlarm
      <3>5. CASE \E m \in toR : RcvIdle(m) BY <1>1, <3>5, TakenShrinks DEF RcvIdle
      <3>6. CASE \E m \in toR : RcvStop(m) BY <1>1, <3>6, TakenShrinks DEF RcvStop
      <3>7. CASE \E m \in toR : RcvIgnore(m)
        <4>1. PICK m \in toR : RcvIgnore(m) BY <3>7
        <4>2. CASE rTimer = "noted" BY <1>1, <4>1, <4>2, TakenShrinks, Sent DEF RcvIgnore
        <4>3. CASE rTimer # "noted" BY <1>1, <4>1, <4>3, TakenShrinks DEF RcvIgnore
        <4>4. QED BY <4>2, <4>3
      <3>8. CASE \E m \in toR : RcvReally(m) BY <1>1, <3>8, TakenShrinks DEF RcvReally
      <3>9. CASE \E m \in toR : RcvStopIgnore(m) BY <1>1, <3>9, TakenShrinks DEF RcvStopIgnore
      <3>10. QED BY <1>6, <3>1, <3>2, <3>3, <3>4, <3>5, <3>6, <3>7, <3>8, <3>9
    <2>2. FilePrefix' /\ rTries' \in Nat BY <1>1, <2>1 DEF SWInv, FilePrefix
    <2>3. SWInv' /\ \A m \in toS' : m \in toS \/ m.sn = Len(written')
      BY <1>1, <1>3, <2>1, <2>2
    <2>4. Len(written) <= Len(written') BY <1>1, <2>1
    <2>5. QED BY <2>1, <2>3, <2>4
  <1>7. QED BY <1>4, <1>5, <1>6 DEF RcvStep

-----------------------------------------------------------------------------
(* The whole step.                                                         *)

LEMMA InitEstablishes == Init => SWInv /\ CopyInv
  <1>1. SUFFICES ASSUME Init PROVE SWInv /\ CopyInv OBVIOUS
  <1>2. FileLen \in Nat /\ <<>> \in Seq(Bytes) /\ Len(<<>>) = 0
    BY StopAndWaitAssumption
  <1>3. TypeOK
    <2>1. 0 \in 0 .. FileLen BY <1>2
    <2>2. toR = {} /\ toS = {} /\ written = <<>> /\ currentSN = 0 /\ rCurrentSN = 0
      BY <1>1 DEF Init
    <2>3. /\ phase = "init" /\ waiting = FALSE /\ tries = 0 /\ timer = "gone"
          /\ rPhase = "main" /\ rWaiting = FALSE /\ rTries = 0 /\ rTimer = "gone"
          /\ sessions = 0
      BY <1>1 DEF Init
    <2>4. QED BY <1>2, <2>1, <2>2, <2>3 DEF TypeOK, Timers
  <1>4. FilePrefix /\ rCurrentSN = Len(written) BY <1>1, <1>2 DEF Init, FilePrefix
  <1>5. PartsInv /\ currentSN = 0 /\ phase = "init" /\ toR = {} /\ toS = {}
    BY <1>1 DEF Init, PartsInv
  <1>6. SWInv BY <1>3, <1>4, <1>5 DEF SWInv
  <1>7. CopyInv BY <1>1, <1>2, <1>5 DEF Init, CopyInv, Fresh, AckedIsWritten
  <1>8. QED BY <1>6, <1>7

\* A step of neither program: the network loses a packet, or nothing happens.
Quiet == UNCHANGED <<sendVars, recvVars>> /\ toR' \subseteq toR /\ toS' \subseteq toS

LEMMA StepsOfOne ==
    ASSUME [Next]_vars
    PROVE  SndStep \/ SndLoseAlarm \/ RcvStep \/ RcvLoseAlarm \/ Quiet
  BY DEF Next, Lose, Finished, Quiet, vars

LEMMA NextKeepsSWInv == SWInv /\ [Next]_vars => SWInv'
  <1>1. SUFFICES ASSUME SWInv, [Next]_vars PROVE SWInv' OBVIOUS
  <1>2. CASE Quiet
    <2>1. TypeOK' BY <1>1, <1>2 DEF Quiet, SWInv, TypeOK, sendVars, recvVars
    <2>2. PartsInv' BY <1>1, <1>2 DEF Quiet, SWInv, PartsInv, Original
    <2>3. FilePrefix' BY <1>1, <1>2 DEF Quiet, SWInv, FilePrefix, recvVars
    <2>4. QED BY <1>1, <1>2, <2>1, <2>2, <2>3 DEF Quiet, SWInv, sendVars, recvVars
  <1>3. QED BY <1>1, <1>2, SenderStep, ReceiverStep, StepsOfOne

\* Without late INITs the answers in flight are true of what is written.
LEMMA NextKeepsCopyInv ==
    ASSUME LateInits = FALSE, SWInv, CopyInv, [Next]_vars
    PROVE  CopyInv' /\ Len(written) <= Len(written')
  <1>1. /\ written \in Seq(Bytes) /\ Len(written) \in Nat /\ currentSN \in Nat
        /\ phase \in {"init", "part", "stop", "done", "failed"}
        /\ written' \in Seq(Bytes) /\ Len(written') \in Nat
        /\ \A m \in toS' : m.sn \in Nat
    BY NextKeepsSWInv, LenProperties DEF SWInv, TypeOK
  <1>2. CASE SndStep \/ SndLoseAlarm
    <2>1. written' = written /\ toS' \subseteq toS BY <1>2, SenderStep DEF recvVars
    <2>2. \A m \in toS : m.sn <= Len(written) BY DEF CopyInv
    <2>3. phase' = "init" => phase = "init" BY <1>2, SenderStep
    <2>4. phase' = "init" => Fresh'
      BY <1>2, <2>1, <2>3, SenderStep DEF CopyInv, Fresh
    <2>5. currentSN' = currentSN \/ (Wanted \in toS /\ currentSN' = Wanted.sn)
      BY <1>1, <1>2, SenderStep
    <2>6. currentSN' <= Len(written) BY <2>2, <2>5 DEF CopyInv, AckedIsWritten
    <2>7. phase' \in {"stop", "done"} => currentSN' = FileLen
      BY <1>1, <1>2, SenderStep DEF CopyInv
    <2>8. CopyInv' BY <2>1, <2>2, <2>4, <2>6, <2>7 DEF CopyInv, AckedIsWritten
    <2>9. QED BY <1>1, <2>1, <2>8
  <1>3. CASE RcvStep \/ RcvLoseAlarm
    <2>1. /\ UNCHANGED sendVars /\ toR' \subseteq toR
          /\ \A m \in toS' : m \in toS \/ m.sn = Len(written')
          /\ Len(written) <= Len(written') \/ (written' = <<>> /\ phase = "init")
          /\ written' # written => written' = <<>> \/ \E m \in toR : m.type = "SEND"
      BY <1>3, ReceiverStep
    <2>2. Len(written) <= Len(written')
      <3>1. CASE written' = <<>> /\ phase = "init"
        <4>1. written' = written BY <3>1 DEF CopyInv, Fresh
        <4>2. QED BY <1>1, <4>1
      <3>2. QED BY <2>1, <3>1
    <2>3. phase' = "init" => Fresh'
      <3>1. SUFFICES ASSUME phase' = "init" PROVE Fresh' OBVIOUS
      <3>2. Fresh BY <2>1, <3>1 DEF CopyInv, sendVars
      <3>3. ~\E m \in toR : m.type = "SEND" BY <3>2 DEF Fresh
      <3>4. written' = <<>> BY <2>1, <3>2, <3>3 DEF Fresh
      <3>5. QED BY <2>1, <3>2, <3>4 DEF Fresh
    <2>4. ASSUME NEW m \in toS' PROVE m.sn <= Len(written')
      <3>1. CASE m \in toS
        <4>1. m.sn <= Len(written) BY <3>1 DEF CopyInv
        <4>2. QED BY <1>1, <2>2, <4>1
      <3>2. CASE m.sn = Len(written') BY <1>1, <3>2
      <3>3. QED BY <2>1, <3>1, <3>2
    <2>5. currentSN' = currentSN /\ phase' = phase BY <2>1 DEF sendVars
    <2>6. currentSN <= Len(written') BY <1>1, <2>2 DEF CopyInv, AckedIsWritten
    <2>7. AckedIsWritten' BY <2>5, <2>6 DEF AckedIsWritten
    <2>8. phase' \in {"stop", "done"} => currentSN' = FileLen BY <2>5 DEF CopyInv
    <2>9. CopyInv' BY <2>3, <2>4, <2>7, <2>8 DEF CopyInv
    <2>10. QED BY <2>2, <2>9
  <1>4. CASE Quiet
    <2>1. written' = written /\ phase' = phase /\ currentSN' = currentSN
          /\ toR' \subseteq toR /\ toS' \subseteq toS
      BY <1>4 DEF Quiet, sendVars, recvVars
    <2>2. CopyInv' BY <2>1 DEF CopyInv, Fresh, AckedIsWritten
    <2>3. QED BY <1>1, <2>1, <2>2
  <1>5. QED BY <1>2, <1>3, <1>4, StepsOfOne

-----------------------------------------------------------------------------
(* The theorems.                                                           *)

\* Every variable keeps its range, and the two positions never leave the file:
\* for any file, size of a part and number of tries, on any network.
THEOREM StopAndWaitTypeOK == Spec => []TypeOK
  <1>1. SWInv => TypeOK BY DEF SWInv
  <1>2. QED BY InitEstablishes, NextKeepsSWInv, <1>1, PTL DEF Spec

\* What is received is a prefix of the file, in every session, with lost,
\* reordered and duplicated packets, lost alarms and late INITs.
THEOREM StopAndWaitFilePrefix == Spec => []FilePrefix
  <1>1. SWInv => FilePrefix BY DEF SWInv
  <1>2. QED BY InitEstablishes, NextKeepsSWInv, <1>1, PTL DEF Spec

\* Without late INITs nothing the sender has moved past is unwritten, whatever
\* happens to the packets and however often the receiver gives up.
THEOREM StopAndWaitAcked == ASSUME LateInits = FALSE PROVE Spec => []AckedIsWritten
  <1>1. SWInv /\ CopyInv /\ [Next]_vars => SWInv' /\ CopyInv'
    BY NextKeepsSWInv, NextKeepsCopyInv
  <1>2. CopyInv => AckedIsWritten BY DEF CopyInv
  <1>3. QED BY InitEstablishes, <1>1, <1>2, PTL DEF Spec

\* A sequence that satisfies FilePrefix is a prefix of the file.
LEMMA PrefixOfFile ==
    ASSUME NEW w \in Seq(Bytes), Len(w) <= FileLen, \A i \in DOMAIN w : w[i] = i - 1
    PROVE  w = SubSeq(File, 1, Len(w)) /\ Len(File) = FileLen
  <1>1. FileLen \in Nat BY StopAndWaitAssumption
  <1>2. PICK n : n = Len(w) OBVIOUS
  <1>3. n \in Nat /\ n <= FileLen BY <1>2, LenProperties
  <1>4. w = [i \in 1 .. n |-> w[i]] /\ DOMAIN w = 1 .. n BY <1>2, <1>3, LenProperties
  <1>5. \A i \in 1 .. n : w[i] = i - 1 BY <1>4
  <1>6. \A i \in 1 .. FileLen : i - 1 \in Bytes BY <1>1 DEF Bytes
  <1>7. File \in Seq(Bytes) /\ Len(File) = FileLen BY <1>1, <1>6 DEF File
  <1>8. SubSeq(File, 1, n) = [i \in 1 .. n |-> File[i]]
    BY <1>1, <1>3, <1>7
  <1>9. \A i \in 1 .. n : File[i] = i - 1 BY <1>1, <1>3 DEF File
  <1>10. QED BY <1>2, <1>4, <1>5, <1>7, <1>8, <1>9

LEMMA StepIsCopyStep ==
    ASSUME LateInits = FALSE, SWInv, CopyInv, [Next]_vars
    PROVE  [Copy!Next]_<<written, Outcome>>
  <1>1. /\ SWInv' /\ Len(written) <= Len(written') BY NextKeepsSWInv, NextKeepsCopyInv
  <1>2. /\ written \in Seq(Bytes) /\ Len(written) \in Nat /\ Len(written) <= FileLen
        /\ \A i \in DOMAIN written : written[i] = i - 1
        /\ written' \in Seq(Bytes) /\ Len(written') \in Nat /\ Len(written') <= FileLen
        /\ \A i \in DOMAIN written' : written'[i] = i - 1
    BY <1>1, LenProperties DEF SWInv, TypeOK, FilePrefix
  <1>3. /\ written = SubSeq(File, 1, Len(written)) /\ Len(File) = FileLen
        /\ written' = SubSeq(File, 1, Len(written'))
    BY <1>2, PrefixOfFile
  <1>4. CASE SndStep \/ SndLoseAlarm
    <2>1. /\ written' = written /\ phase \notin {"done", "failed"}
          /\ phase' = "done" => phase = "stop"
      BY <1>4, SenderStep DEF recvVars
    <2>2. Outcome = "running" BY <2>1 DEF Outcome
    <2>3. CASE phase' = "done"
      <3>1. Len(written) = FileLen
        <4>1. currentSN = FileLen /\ currentSN <= Len(written)
          BY <2>1, <2>3 DEF CopyInv, AckedIsWritten
        <4>2. QED BY <1>2, <4>1, StopAndWaitAssumption
      <3>2. written = File
        <4>1. File \in Seq(Bytes)
          <5>1. \A i \in 1 .. FileLen : i - 1 \in Bytes BY StopAndWaitAssumption DEF Bytes
          <5>2. QED BY <5>1, StopAndWaitAssumption DEF File
        <4>2. File = SubSeq(File, 1, FileLen)
          <5>1. \A i \in DOMAIN File : File[i] = i - 1 BY DEF File
          <5>2. QED BY <1>3, <4>1, <5>1, PrefixOfFile, StopAndWaitAssumption
        <4>3. QED BY <1>3, <3>1, <4>2
      <3>3. Outcome' = "done" BY <2>3 DEF Outcome
      <3>4. Copy!Succeed BY <2>1, <2>2, <3>2, <3>3 DEF Copy!Succeed, Outcome
      <3>5. QED BY <3>4 DEF Copy!Next
    <2>4. CASE phase' = "failed"
      <3>1. Outcome' = "failed" BY <2>4 DEF Outcome
      <3>2. Copy!Fail BY <2>1, <2>2, <3>1 DEF Copy!Fail, Outcome
      <3>3. QED BY <3>2 DEF Copy!Next
    <2>5. CASE phase' \notin {"done", "failed"}
      <3>1. Outcome' = Outcome BY <2>2, <2>5 DEF Outcome
      <3>2. QED BY <2>1, <3>1
    <2>6. QED BY <2>3, <2>4, <2>5
  <1>5. CASE RcvStep \/ RcvLoseAlarm
    <2>1. Outcome' = Outcome
      <3>1. phase' = phase BY <1>5, ReceiverStep DEF sendVars
      <3>2. QED BY <3>1 DEF Outcome
    <2>2. CASE Len(written') = Len(written) BY <1>3, <2>1, <2>2
    <2>3. CASE Len(written') # Len(written)
      <3>1. Len(written') \in Len(written) + 1 .. Len(File)
        <4>1. PICK k, l : k = Len(written) /\ l = Len(written') OBVIOUS
        <4>2. k \in Nat /\ l \in Nat /\ k <= l /\ l <= FileLen /\ k # l
          BY <1>1, <1>2, <2>3, <4>1
        <4>3. l \in k + 1 .. FileLen BY <4>2, StopAndWaitAssumption
        <4>4. QED BY <1>3, <4>1, <4>3
      <3>2. Copy!Grow BY <1>3, <2>1, <3>1 DEF Copy!Grow, Copy!Prefix, Outcome
      <3>3. QED BY <3>2 DEF Copy!Next
    <2>4. QED BY <2>2, <2>3
  <1>6. CASE Quiet
    BY <1>6 DEF Quiet, sendVars, recvVars, Outcome
  <1>7. QED BY <1>4, <1>5, <1>6, StepsOfOne

\* Without late INITs the transfer implements FileCopy: the received file grows
\* as a prefix of the one sent, and success means that it is complete.
THEOREM StopAndWaitIsFileCopy == ASSUME LateInits = FALSE PROVE Spec => CopySpec
  <1>1. SWInv /\ CopyInv /\ [Next]_vars => SWInv' /\ CopyInv'
    BY NextKeepsSWInv, NextKeepsCopyInv
  <1>2. SWInv /\ CopyInv /\ [Next]_vars => [Copy!Next]_<<written, Outcome>>
    BY StepIsCopyStep
  <1>3. Init => Copy!Init BY DEF Init, Copy!Init, Outcome
  <1>4. QED BY InitEstablishes, <1>1, <1>2, <1>3, PTL
        DEF Spec, CopySpec, Copy!Spec, Outcome
=============================================================================
