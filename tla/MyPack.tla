------------------------------- MODULE MyPack -------------------------------
(***************************************************************************)
(* The packets of 3/mypack.c over one direction of a TCP connection: a     *)
(* header of type and body length, two bytes each, then the body.  TCP     *)
(* keeps the bytes in order and cuts them anywhere; the sender goes on     *)
(* with an unfinished packet when poll says so, and the receiver collects  *)
(* one packet over as many calls of recvPacket as it takes.                *)
(***************************************************************************)
EXTENDS Integers, SequencesExt

CONSTANTS Base,         \* 256, the number of values of a byte
          Types,        \* packet types
          MaxBody,      \* bound: the longest body
          MaxPackets    \* bound: packets sent on the connection

HeaderSize == 4

\* The callers keep a body within what two bytes can tell (NAME and PUT are
\* at most 263 bytes long, DATA at most 1000).
ASSUME PackAssumption == /\ Base \in Nat \ {0, 1}
                         /\ Types \subseteq 0 .. Base * Base - 1
                         /\ MaxBody \in 0 .. Base * Base - 1
                         /\ MaxPackets \in Nat

Byte == 0 .. Base - 1

Packet == [type : Types, body : BoundedSeq(Byte, MaxBody)]

VARIABLES snd, rcv,   \* struct MyPack of the two ends
          stream,     \* bytes that send took and recv has not returned yet
          ended,      \* the sending program has gone
          closed,     \* recvPacket has returned 0
          sent, got   \* history: packets composed, packets returned

vars == <<snd, rcv, stream, ended, closed, sent, got>>

\* initPacket
Empty == [buf |-> <<>>, finished |-> 0, size |-> 0]

Init == /\ snd = Empty /\ rcv = Empty /\ stream = <<>>
        /\ ended = FALSE /\ closed = FALSE
        /\ sent = <<>> /\ got = <<>>

packetFinished(p) == p.finished = p.size

-----------------------------------------------------------------------------
\* The sender.

\* setPacketHeader, and the body the caller has put behind it.
Encoded(pk) ==
    << (pk.type \div Base) % Base, pk.type % Base,
       (Len(pk.body) \div Base) % Base, Len(pk.body) % Base >> \o pk.body

\* sendPacket, right after a packet was composed in the free buffer.  send
\* takes n bytes, or none (EWOULDBLOCK).
sendPacket(pk, n) ==
    /\ ~ended /\ packetFinished(snd) /\ Len(sent) < MaxPackets
    /\ n <= HeaderSize + Len(pk.body)
    /\ snd' = [buf |-> Encoded(pk), finished |-> n, size |-> HeaderSize + Len(pk.body)]
    /\ stream' = stream \o SubSeq(Encoded(pk), 1, n)
    /\ sent' = Append(sent, pk)
    /\ UNCHANGED <<rcv, ended, closed, got>>

\* What trySendToClientAgain leaves in the buffer after n more bytes: nothing
\* when the packet is complete.  The mutant counts from the beginning again.
AfterSending_Restart(n) ==
    IF n = snd.size THEN [snd EXCEPT !.finished = 0, !.size = 0]
    ELSE [snd EXCEPT !.finished = n]
AfterSending(n) ==
    IF snd.finished + n = snd.size THEN [snd EXCEPT !.finished = 0, !.size = 0]
    ELSE [snd EXCEPT !.finished = @ + n]

\* trySendToClientAgain, for the rest of an unfinished packet.
trySendToClientAgain(n) ==
    /\ ~ended /\ ~packetFinished(snd)
    /\ n <= snd.size - snd.finished
    /\ stream' = stream \o SubSeq(snd.buf, snd.finished + 1, snd.finished + n)
    /\ snd' = AfterSending(n)
    /\ UNCHANGED <<rcv, ended, closed, sent, got>>

\* The sending program ends, or the connection breaks: of the bytes on their
\* way the last ones may be lost.
PeerEnds(kept) ==
    /\ ~ended /\ ended' = TRUE
    /\ kept <= Len(stream) /\ stream' = SubSeq(stream, 1, kept)
    /\ UNCHANGED <<snd, rcv, closed, sent, got>>

-----------------------------------------------------------------------------
\* The receiver.

\* All outcomes of recv of at most k bytes into p from the bytes s.  recv
\* returns 0 at the end of the stream, but also when it is asked for nothing.
Recv(p, s, k) ==
    { [p |-> p, s |-> s, ret |-> "again"] } \cup
    (IF k = 0 \/ (ended /\ s = <<>>) THEN { [p |-> p, s |-> s, ret |-> "closed"] } ELSE {}) \cup
    { [p |-> [p EXCEPT !.buf = @ \o SubSeq(s, 1, n), !.finished = @ + n],
       s |-> SubSeq(s, n + 1, Len(s)), ret |-> "read"] : n \in (1 .. k) \cap (1 .. Len(s)) }

\* A packet that was returned makes room for the next one; the mutant forgets to.
Reopened_Never(p) == p
Reopened(p) == IF p.size > 0 /\ p.finished = p.size THEN Empty ELSE p

\* getPacketType and getPacketSize
getPacketType(p) == p.buf[1] * Base + p.buf[2]
getPacketSize(p) == p.buf[3] * Base + p.buf[4]

\* Once the header is there it tells the size; the mutant takes it for the
\* size of the whole packet.
Sized_Whole(p) == IF p.finished = HeaderSize /\ p.size = 0
                  THEN [p EXCEPT !.size = getPacketSize(p)] ELSE p
Sized(p) == IF p.finished = HeaderSize /\ p.size = 0
            THEN [p EXCEPT !.size = getPacketSize(p) + HeaderSize] ELSE p

\* First recv: the header, unless it is complete.
HeaderPart(p) ==
    IF p.finished < HeaderSize THEN Recv(p, stream, HeaderSize - p.finished)
    ELSE { [p |-> p, s |-> stream, ret |-> "read"] }

\* Second recv: the body, unless there is none or the header is not complete.
\* The mutant asks for a body also when there is none.
BodyPart_Always(p, s) ==
    IF p.size >= HeaderSize THEN Recv(p, s, p.size - p.finished)
    ELSE { [p |-> p, s |-> s, ret |-> "again"] }
BodyPart(p, s) ==
    IF p.size > HeaderSize THEN Recv(p, s, p.size - p.finished)
    ELSE { [p |-> p, s |-> s, ret |-> IF p.size = HeaderSize THEN "read" ELSE "again"] }

\* What a call leaves behind, and the packet that processMessage gets to see.
Returns(o) ==
    /\ rcv' = o.p /\ stream' = o.s
    /\ closed' = (o.ret = "closed")
    /\ got' = IF o.ret = "read" /\ packetFinished(o.p)
              THEN Append(got, [type |-> getPacketType(o.p),
                                body |-> SubSeq(o.p.buf, HeaderSize + 1, o.p.size)])
              ELSE got
    /\ UNCHANGED <<snd, ended, sent>>

recvPacket ==
    /\ ~closed
    /\ \E h \in HeaderPart(Reopened(rcv)) :
          \/ h.ret # "read" /\ Returns(h)
          \/ h.ret = "read" /\ \E b \in BodyPart(Sized(h.p), h.s) : Returns(b)

Next == \/ \E pk \in Packet, n \in 0 .. HeaderSize + MaxBody : sendPacket(pk, n)
        \/ \E n \in 1 .. HeaderSize + MaxBody : trySendToClientAgain(n)
        \/ \E kept \in 0 .. MaxPackets * (HeaderSize + MaxBody) : PeerEnds(kept)
        \/ recvPacket

Spec == Init /\ [][Next]_vars

\* The socket is polled for reading all the time, and poll is level-triggered.
FairSpec == Spec /\ WF_vars(recvPacket)

-----------------------------------------------------------------------------

\* The buffers stay within a packet, and a size is known exactly when the
\* header is complete.
TypeOK ==
    /\ \A p \in {snd, rcv} :
          /\ p.buf \in Seq(Byte)
          /\ p.size \in {0} \cup HeaderSize .. HeaderSize + MaxBody
          /\ p.finished \in 0 .. HeaderSize + MaxBody
    /\ snd.finished <= snd.size
    /\ rcv.size # 0 => rcv.finished \in HeaderSize .. rcv.size
    /\ rcv.size = 0 => rcv.finished < HeaderSize
    /\ stream \in Seq(Byte)
    /\ ended \in BOOLEAN /\ closed \in BOOLEAN
    /\ sent \in Seq(Packet) /\ got \in Seq(Packet)

\* recvPacket reports the end of the connection (and processClient destroys
\* the client) only when the peer has really gone: recv is never asked for
\* zero bytes, whose answer looks the same.
ClosedOnlyAtEnd == closed => ended /\ stream = <<>>

\* However TCP cuts the stream, recvPacket returns the packets that were sent,
\* whole, once, and in order: also packets with no body, and bodies that look
\* like headers.
NoPacket == [type |-> -1, body |-> <<>>]

Channel == INSTANCE Fifo WITH
    Items   <- Packet,
    Nothing <- NoPacket,
    queue   <- SubSeq(sent, Len(got) + 1, Len(sent)),
    taken   <- IF got = <<>> THEN NoPacket ELSE Last(got)
IsChannel == Channel!Spec

\* A packet whose last byte was taken by send is returned in the end, without
\* waiting for bytes of the next one, unless the connection ends.
Handed(i) == Len(sent) > i \/ (Len(sent) = i /\ packetFinished(snd))
Delivered == \A i \in 1 .. MaxPackets : Handed(i) ~> (Len(got) >= i \/ ended)
=============================================================================
