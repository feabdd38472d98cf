---------------------------- MODULE MyPackProofs ----------------------------
(***************************************************************************)
(* For every base, every set of types and every length of a body, the      *)
(* packets of 3/mypack.c arrive whole, once and in order, and the end of   *)
(* the connection is not reported before it.                               *)
(*                                                                         *)
(* The invariant speaks of all bytes of the packets that were composed,    *)
(* laid end to end, and of where each packet is cut.  What the receiver    *)
(* has in its buffer, what is in the stream and what the sender still has  *)
(* to send are adjacent parts of them.                                     *)
(***************************************************************************)
EXTENDS MyPack, SequenceTheorems, TLAPS

Buffer == [buf : Seq(Byte), finished : Nat, size : Nat]

Whole(pk) == HeaderSize + Len(pk.body)

\* The bytes of the packets that were composed; cut[i] is where packet i ends.
Framed(all, cut) ==
    /\ all \in Seq(Byte) /\ cut \in [0 .. Len(sent) -> Nat]
    /\ cut[0] = 0 /\ Len(all) = cut[Len(sent)]
    /\ \A i \in 0 .. Len(sent) : cut[i] <= Len(all)
    /\ \A i \in 1 .. Len(sent) :
          /\ cut[i] = cut[i - 1] + Whole(sent[i])
          /\ \A j \in 1 .. Whole(sent[i]) : all[cut[i - 1] + j] = Encoded(sent[i])[j]

\* The buffer p and then the stream s hold the bytes that follow position c.
Holds(all, c, p, s) ==
    /\ p \in Buffer /\ s \in Seq(Byte) /\ Len(p.buf) = p.finished
    /\ c + p.finished + Len(s) <= Len(all)
    /\ \A j \in 1 .. p.finished : p.buf[j] = all[c + j]
    /\ \A j \in 1 .. Len(s) : s[j] = all[c + p.finished + j]

\* The size that recvPacket goes by is that of the packet that comes next.
Expects(p) ==
    IF p.size = 0 THEN p.finished < HeaderSize
    ELSE /\ HeaderSize <= p.finished /\ p.finished < p.size
         /\ Len(got) < Len(sent) /\ p.size = Whole(sent[Len(got) + 1])

\* What the sender has not sent yet are the last bytes.
Rest(all, c) ==
    /\ c + Reopened(rcv).finished + Len(stream) + (snd.size - snd.finished) = Len(all)
    /\ \A j \in 1 .. snd.size : j > snd.finished => snd.buf[j] = all[Len(all) - snd.size + j]

PackInv ==
    /\ Len(got) <= Len(sent) /\ \A i \in 1 .. Len(got) : got[i] = sent[i]
    /\ \E all, cut : /\ Framed(all, cut)
                     /\ Holds(all, cut[Len(got)], Reopened(rcv), stream)
                     /\ Expects(Reopened(rcv))
                     /\ ~ended => Rest(all, cut[Len(got)])

IInv == /\ TypeOK /\ snd \in Buffer /\ rcv \in Buffer
        /\ snd.size <= Len(snd.buf)
        /\ ClosedOnlyAtEnd /\ PackInv

-----------------------------------------------------------------------------
(* Bytes and numbers.                                                      *)

LEMMA Bases == Base \in Nat /\ Base > 1 /\ 0 \in Byte
  BY PackAssumption DEF PackAssumption, Byte

LEMMA ByteOfMod == ASSUME NEW x \in Int PROVE x % Base \in Byte
  BY Bases DEF Byte

LEMMA DivNat == ASSUME NEW x \in Nat, NEW B \in Nat, B > 1 PROVE x \div B \in Nat
  BY SMT

LEMMA DivMod == ASSUME NEW x \in Nat, NEW B \in Nat, B > 1
                PROVE  x = (x \div B) * B + (x % B) /\ x % B \in 0 .. B - 1
  BY SMT

LEMMA SmallMod == ASSUME NEW x \in Nat, NEW B \in Nat, x < B PROVE x % B = x
  BY SMT

LEMMA Grouped ==
    ASSUME NEW x \in Int, NEW y \in Int, NEW z \in Int PROVE (x + y) + z = x + (y + z)
  BY SMT

LEMMA Below == ASSUME NEW q \in Nat, NEW B \in Nat, NEW r \in Nat, q * B + r < B * B
               PROVE  q < B
  BY SMT

\* Two bytes tell a number below Base * Base.
LEMMA TwoBytes ==
    ASSUME NEW x \in 0 .. Base * Base - 1
    PROVE  ((x \div Base) % Base) * Base + (x % Base) = x
  <1>1. PICK B : B = Base OBVIOUS
  <1>2. B \in Nat /\ B > 1 /\ x \in Nat BY <1>1, Bases
  <1>3. B * B \in Nat BY <1>2
  <1>4. x < B * B BY <1>1, <1>2, <1>3
  <1>5. PICK q : q = x \div B OBVIOUS
  <1>6. q \in Nat /\ x = q * B + (x % B) /\ x % B \in Nat
    <2>1. x = (x \div B) * B + (x % B) /\ x % B \in 0 .. B - 1 BY <1>2, DivMod
    <2>2. x \div B \in Nat BY <1>2, DivNat
    <2>3. x % B \in Nat BY <1>2, <2>1
    <2>4. QED BY <1>5, <2>1, <2>2, <2>3
  <1>7. q * B + (x % B) < B * B BY <1>4, <1>6
  <1>8. q < B BY <1>2, <1>6, <1>7, Below
  <1>9. q % B = q BY <1>2, <1>6, <1>8, SmallMod
  <1>10. QED BY <1>1, <1>5, <1>6, <1>9

LEMMA Packets ==
    ASSUME NEW pk \in Packet
    PROVE  /\ pk.body \in Seq(Byte) /\ Len(pk.body) \in 0 .. MaxBody
           /\ Len(pk.body) \in 0 .. Base * Base - 1 /\ pk.type \in 0 .. Base * Base - 1
           /\ pk = [type |-> pk.type, body |-> pk.body]
           /\ Whole(pk) \in Nat /\ Whole(pk) <= HeaderSize + MaxBody
  <1>1. pk.type \in Types /\ pk.body \in BoundedSeq(Byte, MaxBody)
        /\ pk = [type |-> pk.type, body |-> pk.body]
    BY DEF Packet
  <1>2. PICK m \in 0 .. MaxBody : pk.body \in [1 .. m -> Byte]
    BY <1>1 DEF BoundedSeq, SeqOf
  <1>3. MaxBody \in 0 .. Base * Base - 1 /\ Types \subseteq 0 .. Base * Base - 1
    BY PackAssumption DEF PackAssumption
  <1>4. Base * Base \in Nat BY Bases
  <1>5. pk.body \in Seq(Byte) /\ Len(pk.body) = m /\ m \in Nat /\ MaxBody \in Nat
    BY <1>2, <1>3, <1>4
  <1>6. m <= MaxBody /\ MaxBody <= Base * Base - 1 BY <1>2, <1>3, <1>4
  <1>7. m \in 0 .. Base * Base - 1 BY <1>4, <1>5, <1>6
  <1>8. QED BY <1>1, <1>3, <1>5, <1>6, <1>7 DEF Whole, HeaderSize

LEMMA Lengths == MaxBody \in Nat
  <1>1. Base * Base \in Nat BY Bases
  <1>2. QED BY <1>1, PackAssumption DEF PackAssumption

\* setPacketHeader and what recvPacket makes of it.
LEMMA EncodedPacket ==
    ASSUME NEW pk \in Packet
    PROVE  /\ Encoded(pk) \in Seq(Byte) /\ Len(Encoded(pk)) = Whole(pk)
           /\ Encoded(pk)[1] * Base + Encoded(pk)[2] = pk.type
           /\ Encoded(pk)[3] * Base + Encoded(pk)[4] = Len(pk.body)
           /\ \A j \in 1 .. Len(pk.body) : Encoded(pk)[HeaderSize + j] = pk.body[j]
  <1>1. PICK h : h = << (pk.type \div Base) % Base, pk.type % Base,
                        (Len(pk.body) \div Base) % Base, Len(pk.body) % Base >>
    OBVIOUS
  <1>2. pk.type \in Nat /\ Len(pk.body) \in Nat /\ pk.body \in Seq(Byte)
    <2>1. Base * Base \in Nat BY Bases
    <2>2. QED BY <2>1, Packets
  <1>3. pk.type \div Base \in Int /\ Len(pk.body) \div Base \in Int BY <1>2, Bases, DivNat
  <1>4. PICK a, b, c, d : /\ a = (pk.type \div Base) % Base /\ b = pk.type % Base
                          /\ c = (Len(pk.body) \div Base) % Base /\ d = Len(pk.body) % Base
    OBVIOUS
  <1>5. a \in Byte /\ b \in Byte /\ c \in Byte /\ d \in Byte BY <1>2, <1>3, <1>4, ByteOfMod
  <1>6. h = <<a, b, c, d>> BY <1>1, <1>4
  <1>7. h \in Seq(Byte) /\ Len(h) = 4 /\ h[1] = a /\ h[2] = b /\ h[3] = c /\ h[4] = d
    BY <1>5, <1>6
  <1>8. Encoded(pk) = h \o pk.body BY <1>1 DEF Encoded
  <1>9. /\ h \o pk.body \in Seq(Byte) /\ Len(h \o pk.body) = 4 + Len(pk.body)
        /\ \A i \in 1 .. 4 + Len(pk.body) :
              (h \o pk.body)[i] = IF i <= 4 THEN h[i] ELSE pk.body[i - 4]
    <2>1. /\ h \o pk.body \in Seq(Byte) /\ Len(h \o pk.body) = Len(h) + Len(pk.body)
          /\ \A i \in 1 .. Len(h) + Len(pk.body) :
                (h \o pk.body)[i] = IF i <= Len(h) THEN h[i] ELSE pk.body[i - Len(h)]
      BY <1>2, <1>7, ConcatProperties
    <2>2. QED BY <1>7, <2>1
  <1>10. \A i \in 1 .. 4 : Encoded(pk)[i] = h[i] BY <1>2, <1>8, <1>9
  <1>11. Encoded(pk)[1] * Base + Encoded(pk)[2] = pk.type
    <2>1. a * Base + b = pk.type BY <1>4, Packets, TwoBytes
    <2>2. QED BY <1>7, <1>10, <2>1
  <1>12. Encoded(pk)[3] * Base + Encoded(pk)[4] = Len(pk.body)
    <2>1. c * Base + d = Len(pk.body) BY <1>4, Packets, TwoBytes
    <2>2. QED BY <1>7, <1>10, <2>1
  <1>13. ASSUME NEW j \in 1 .. Len(pk.body) PROVE Encoded(pk)[HeaderSize + j] = pk.body[j]
    <2>2. PICK i : i = HeaderSize + j OBVIOUS
    <2>3. i \in 1 .. 4 + Len(pk.body) /\ ~(i <= 4) /\ i - 4 = j
      BY <1>2, <2>2 DEF HeaderSize
    <2>4. (h \o pk.body)[i] = pk.body[i - 4] BY <1>9, <2>3
    <2>5. QED BY <1>8, <2>2, <2>3, <2>4
  <1>14. QED BY <1>8, <1>9, <1>11, <1>12, <1>13 DEF Whole, HeaderSize

-----------------------------------------------------------------------------
(* The receiver.                                                           *)

LEMMA ExceptBuffer ==
    ASSUME NEW p \in Buffer, NEW b, NEW f
    PROVE  [p EXCEPT !.buf = b, !.finished = f] = [buf |-> b, finished |-> f, size |-> p.size]
  <1>1. PICK q : q = [p EXCEPT !.buf = b, !.finished = f] OBVIOUS
  <1>2. p = [buf |-> p.buf, finished |-> p.finished, size |-> p.size] BY DEF Buffer
  <1>3. q = [buf |-> b, finished |-> f, size |-> p.size] BY <1>1, <1>2
  <1>4. QED BY <1>1, <1>3

\* Whatever recv returns, buffer and stream together hold the same bytes.
LEMMA RecvKeeps ==
    ASSUME NEW all \in Seq(Byte), NEW c \in Nat, NEW p, NEW s, NEW k \in Nat,
           Holds(all, c, p, s), NEW o \in Recv(p, s, k)
    PROVE  /\ Holds(all, c, o.p, o.s) /\ o.p.size = p.size
           /\ p.finished <= o.p.finished /\ o.p.finished <= p.finished + k
           /\ o.p.finished + Len(o.s) = p.finished + Len(s)
           /\ o.ret \in {"again", "closed", "read"}
           /\ o.ret # "read" => o.p = p /\ o.s = s
           /\ o.ret = "closed" => k = 0 \/ (ended /\ s = <<>>)
  <1>1. p \in Buffer /\ s \in Seq(Byte) /\ p.finished \in Nat /\ Len(s) \in Nat
    BY DEF Holds, Buffer
  <1>2. CASE o = [p |-> p, s |-> s, ret |-> "again"]
    BY <1>1, <1>2
  <1>3. CASE (k = 0 \/ (ended /\ s = <<>>)) /\ o = [p |-> p, s |-> s, ret |-> "closed"]
    BY <1>1, <1>3
  <1>4. ASSUME NEW n \in (1 .. k) \cap (1 .. Len(s)),
               o = [p |-> [p EXCEPT !.buf = @ \o SubSeq(s, 1, n), !.finished = @ + n],
                    s |-> SubSeq(s, n + 1, Len(s)), ret |-> "read"]
        PROVE  /\ Holds(all, c, o.p, o.s) /\ o.p.size = p.size /\ o.ret = "read"
               /\ p.finished <= o.p.finished /\ o.p.finished <= p.finished + k
               /\ o.p.finished + Len(o.s) = p.finished + Len(s)
    <2>1. n \in Nat /\ 1 <= n /\ n <= k /\ n <= Len(s) BY <1>1
    <2>2. PICK t, u : t = SubSeq(s, 1, n) /\ u = SubSeq(s, n + 1, Len(s)) OBVIOUS
    <2>3. t \in Seq(Byte) /\ Len(t) = n /\ \A j \in 1 .. n : t[j] = s[j]
      <3>1. \A i \in 1 .. n : s[i] \in Byte BY <1>1, <2>1, ElementOfSeq
      <3>2. /\ SubSeq(s, 1, n) \in Seq(Byte) /\ Len(SubSeq(s, 1, n)) = n - 1 + 1
            /\ \A i \in 1 .. n - 1 + 1 : SubSeq(s, 1, n)[i] = s[1 + i - 1]
        BY <2>1, <3>1, SubSeqProperties
      <3>3. n - 1 + 1 = n /\ \A i \in 1 .. n : 1 + i - 1 = i BY <2>1
      <3>4. QED BY <2>2, <3>2, <3>3
    <2>4. u \in Seq(Byte) /\ Len(u) = Len(s) - n
          /\ \A j \in 1 .. Len(s) - n : u[j] = s[n + j]
      <3>1. \A i \in n + 1 .. Len(s) : s[i] \in Byte
        <4>1. \A i \in n + 1 .. Len(s) : i \in 1 .. Len(s) BY <1>1, <2>1
        <4>2. QED BY <1>1, <4>1, ElementOfSeq
      <3>2. n + 1 \in Int /\ Len(s) \in Int BY <1>1, <2>1
      <3>3. /\ SubSeq(s, n + 1, Len(s)) \in Seq(Byte)
            /\ Len(SubSeq(s, n + 1, Len(s))) =
                  IF n + 1 <= Len(s) THEN Len(s) - (n + 1) + 1 ELSE 0
            /\ \A i \in 1 .. Len(s) - (n + 1) + 1 :
                  SubSeq(s, n + 1, Len(s))[i] = s[n + 1 + i - 1]
        BY <3>1, <3>2, SubSeqProperties
      <3>4. Len(s) - (n + 1) + 1 = Len(s) - n BY <1>1, <2>1
      <3>5. \A i \in 1 .. Len(s) - n : n + 1 + i - 1 = n + i BY <1>1, <2>1
      <3>6. n + 1 <= Len(s) \/ Len(s) - n = 0 BY <1>1, <2>1
      <3>7. QED BY <2>2, <3>3, <3>4, <3>5, <3>6
    <2>5. PICK b, f : b = p.buf /\ f = p.finished OBVIOUS
    <2>6. b \in Seq(Byte) /\ Len(b) = f /\ f \in Nat BY <1>1, <2>5 DEF Holds, Buffer
    <2>7. /\ b \o t \in Seq(Byte) /\ Len(b \o t) = f + n
          /\ \A j \in 1 .. f + n : (b \o t)[j] = IF j <= f THEN b[j] ELSE t[j - f]
      BY <2>3, <2>6, ConcatProperties
    <2>8. PICK q : q = [p EXCEPT !.buf = @ \o t, !.finished = @ + n] OBVIOUS
    <2>9. q \in Buffer /\ q.buf = b \o t /\ q.finished = f + n /\ q.size = p.size
      <3>1. p = [buf |-> b, finished |-> f, size |-> p.size] /\ p.size \in Nat
        BY <1>1, <2>5 DEF Buffer
      <3>2. q = [buf |-> b \o t, finished |-> f + n, size |-> p.size]
        <4>1. q = [p EXCEPT !.buf = b \o t, !.finished = f + n] BY <2>5, <2>8
        <4>2. QED BY <1>1, <4>1, ExceptBuffer
      <3>3. f + n \in Nat BY <2>1, <2>6
      <3>4. QED BY <2>7, <3>1, <3>2, <3>3 DEF Buffer
    <2>10. o.p = q /\ o.s = u /\ o.ret = "read" BY <1>4, <2>2, <2>8
    <2>11. /\ c + f + Len(s) <= Len(all)
           /\ \A j \in 1 .. f : b[j] = all[c + j]
           /\ \A j \in 1 .. Len(s) : s[j] = all[c + f + j]
      BY <2>5 DEF Holds
    <2>12. Len(all) \in Nat BY LenProperties
    <2>13. c + (f + n) + Len(u) <= Len(all) BY <1>1, <2>1, <2>4, <2>6, <2>11, <2>12
    <2>14. ASSUME NEW j \in 1 .. f + n PROVE (b \o t)[j] = all[c + j]
      <3>1. CASE j <= f
        <4>1. j \in 1 .. f BY <2>6, <3>1
        <4>2. QED BY <2>7, <2>11, <3>1, <4>1
      <3>2. CASE ~(j <= f)
        <4>1. j - f \in 1 .. n /\ j - f \in 1 .. Len(s) /\ c + f + (j - f) = c + j
          BY <1>1, <2>1, <2>6, <3>2
        <4>2. (b \o t)[j] = t[j - f] BY <2>7, <3>2
        <4>3. t[j - f] = s[j - f] BY <2>3, <4>1
        <4>4. s[j - f] = all[c + f + (j - f)] BY <2>11, <4>1
        <4>5. QED BY <4>1, <4>2, <4>3, <4>4
      <3>3. QED BY <3>1, <3>2
    <2>15. ASSUME NEW j \in 1 .. Len(u) PROVE u[j] = all[c + (f + n) + j]
      <3>1. n + j \in 1 .. Len(s) /\ c + f + (n + j) = c + (f + n) + j
            /\ j \in 1 .. Len(s) - n
        BY <1>1, <2>1, <2>4, <2>6
      <3>2. QED BY <2>4, <2>11, <3>1
    <2>16. Holds(all, c, q, u)
      BY <2>4, <2>7, <2>9, <2>13, <2>14, <2>15 DEF Holds
    <2>17. f <= f + n /\ f + n <= f + k /\ (f + n) + Len(u) = f + Len(s)
      BY <1>1, <2>1, <2>4, <2>6
    <2>18. QED BY <2>5, <2>9, <2>10, <2>16, <2>17
  <1>5. \/ o = [p |-> p, s |-> s, ret |-> "again"]
        \/ (k = 0 \/ (ended /\ s = <<>>)) /\ o = [p |-> p, s |-> s, ret |-> "closed"]
        \/ \E n \in (1 .. k) \cap (1 .. Len(s)) :
              o = [p |-> [p EXCEPT !.buf = @ \o SubSeq(s, 1, n), !.finished = @ + n],
                   s |-> SubSeq(s, n + 1, Len(s)), ret |-> "read"]
    BY DEF Recv
  <1>6. QED BY <1>2, <1>3, <1>4, <1>5

\* A buffer that holds a header tells the size and the type of the next packet.
LEMMA HeaderTells ==
    ASSUME NEW all, NEW cut, NEW p, NEW s, Framed(all, cut), sent \in Seq(Packet),
           Len(got) \in Nat, Len(got) <= Len(sent),
           Holds(all, cut[Len(got)], p, s), p.finished >= HeaderSize
    PROVE  /\ Len(got) + 1 \in 1 .. Len(sent)
           /\ getPacketType(p) = sent[Len(got) + 1].type
           /\ getPacketSize(p) = Len(sent[Len(got) + 1].body)
           /\ \A j \in 1 .. p.finished : j <= Whole(sent[Len(got) + 1]) =>
                 p.buf[j] = Encoded(sent[Len(got) + 1])[j]
  <1>1. PICK n, c : n = Len(got) /\ c = cut[n] OBVIOUS
  <1>2. n \in Nat /\ Len(sent) \in Nat /\ n <= Len(sent) BY <1>1
  <1>3. c \in Nat /\ Len(all) \in Nat
    <2>1. n \in 0 .. Len(sent) BY <1>2
    <2>2. cut[n] \in Nat BY <2>1 DEF Framed
    <2>3. QED BY <1>1, <2>2 DEF Framed
  <1>4. p.finished \in Nat /\ Len(s) \in Nat /\ c + p.finished + Len(s) <= Len(all)
        /\ \A j \in 1 .. p.finished : p.buf[j] = all[c + j]
    BY <1>1 DEF Holds, Buffer
  <1>5. n # Len(sent)
    <2>1. SUFFICES ASSUME n = Len(sent) PROVE FALSE OBVIOUS
    <2>2. Len(all) = c BY <1>1, <2>1 DEF Framed
    <2>3. QED BY <1>3, <1>4, <2>2 DEF HeaderSize
  <1>6. PICK m : m = n + 1 OBVIOUS
  <1>7. m \in 1 .. Len(sent) /\ m - 1 = n BY <1>2, <1>5, <1>6
  <1>8. PICK pk : pk = sent[m] OBVIOUS
  <1>9. pk \in Packet BY <1>7, <1>8, ElementOfSeq
  <1>10. \A j \in 1 .. Whole(pk) : all[c + j] = Encoded(pk)[j]
    BY <1>1, <1>7, <1>8 DEF Framed
  <1>11. Whole(pk) \in Nat /\ HeaderSize <= Whole(pk)
    <2>1. Len(pk.body) \in 0 .. MaxBody BY <1>9, Packets
    <2>2. QED BY <2>1, Lengths DEF Whole, HeaderSize
  <1>12. \A j \in 1 .. p.finished : j <= Whole(pk) => p.buf[j] = Encoded(pk)[j]
    <2>1. ASSUME NEW j \in 1 .. p.finished, j <= Whole(pk)
          PROVE  p.buf[j] = Encoded(pk)[j]
      <3>1. j \in 1 .. Whole(pk) BY <1>4, <1>11, <2>1
      <3>2. QED BY <1>4, <1>10, <3>1
    <2>2. QED BY <2>1
  <1>13. \A j \in {1, 2, 3, 4} : j \in 1 .. p.finished /\ j <= Whole(pk)
    BY <1>4, <1>11 DEF HeaderSize
  <1>14. /\ p.buf[1] = Encoded(pk)[1] /\ p.buf[2] = Encoded(pk)[2]
         /\ p.buf[3] = Encoded(pk)[3] /\ p.buf[4] = Encoded(pk)[4]
    BY <1>12, <1>13
  <1>15. getPacketType(p) = pk.type /\ getPacketSize(p) = Len(pk.body)
    BY <1>9, <1>14, EncodedPacket DEF getPacketType, getPacketSize
  <1>16. QED BY <1>1, <1>6, <1>7, <1>8, <1>12, <1>15

\* The situations that recvPacket goes through: before its first call of recv,
\* and after Sized.
Started(all, cut, p, s) ==
    /\ Framed(all, cut) /\ sent \in Seq(Packet)
    /\ Len(got) \in Nat /\ Len(got) <= Len(sent)
    /\ Holds(all, cut[Len(got)], p, s)

Announced(p) ==
    IF p.size = 0 THEN p.finished < HeaderSize
    ELSE /\ HeaderSize <= p.finished /\ p.finished <= p.size
         /\ Len(got) + 1 \in 1 .. Len(sent) /\ p.size = Whole(sent[Len(got) + 1])

\* What a call of recvPacket ends with.
Outcome(all, cut, o) ==
    /\ Started(all, cut, o.p, o.s) /\ Announced(o.p)
    /\ o.ret \in {"again", "closed", "read"}
    /\ o.ret = "closed" => ended /\ o.s = <<>>
    /\ o.p.size = 0 => o.ret # "read"
    /\ o.p.size # 0 /\ o.p.finished = o.p.size => o.ret = "read"
    /\ o.p.finished + Len(o.s) = Reopened(rcv).finished + Len(stream)

LEMMA WholeType ==
    ASSUME sent \in Seq(Packet), NEW n \in 1 .. Len(sent)
    PROVE  /\ sent[n] \in Packet /\ Whole(sent[n]) \in Nat
           /\ Whole(sent[n]) = HeaderSize + Len(sent[n].body)
           /\ HeaderSize <= Whole(sent[n]) /\ Whole(sent[n]) <= HeaderSize + MaxBody
  <1>1. sent[n] \in Packet BY ElementOfSeq
  <1>2. PICK l : l = Len(sent[n].body) OBVIOUS
  <1>3. l \in 0 .. MaxBody BY <1>1, <1>2, Packets
  <1>4. QED BY <1>1, <1>2, <1>3, Lengths DEF Whole, HeaderSize

LEMMA HeaderEnds ==
    ASSUME NEW all, NEW cut, NEW h, Started(all, cut, Reopened(rcv), stream),
           Expects(Reopened(rcv)), h \in HeaderPart(Reopened(rcv))
    PROVE  /\ Started(all, cut, h.p, h.s) /\ h.p.size = Reopened(rcv).size
           /\ h.p.finished + Len(h.s) = Reopened(rcv).finished + Len(stream)
           /\ h.ret \in {"again", "closed", "read"}
           /\ h.ret # "read" => h.p = Reopened(rcv)
           /\ h.ret = "closed" => ended /\ h.s = <<>>
           /\ h.p.size = 0 => h.p.finished <= HeaderSize
           /\ h.p.size # 0 => h.p = Reopened(rcv)
  <1>1. PICK p, n, c : p = Reopened(rcv) /\ n = Len(got) /\ c = cut[n] OBVIOUS
  <1>2. p \in Buffer /\ p.finished \in Nat /\ p.size \in Nat
    BY <1>1 DEF Started, Holds, Buffer
  <1>3. c \in Nat /\ all \in Seq(Byte)
    <2>1. n \in 0 .. Len(sent) BY <1>1 DEF Started
    <2>2. QED BY <1>1, <2>1 DEF Started, Framed
  <1>4. Holds(all, c, p, stream) BY <1>1 DEF Started
  <1>5. CASE p.finished < HeaderSize
    <2>1. PICK k : k = HeaderSize - p.finished OBVIOUS
    <2>2. k \in Nat /\ k # 0 /\ p.finished + k = HeaderSize BY <1>2, <1>5, <2>1 DEF HeaderSize
    <2>3. h \in Recv(p, stream, k) BY <1>1, <1>5, <2>1 DEF HeaderPart
    <2>4. /\ Holds(all, c, h.p, h.s) /\ h.p.size = p.size
          /\ h.p.finished <= p.finished + k
          /\ h.p.finished + Len(h.s) = p.finished + Len(stream)
          /\ h.ret \in {"again", "closed", "read"}
          /\ h.ret # "read" => h.p = p /\ h.s = stream
          /\ h.ret = "closed" => k = 0 \/ (ended /\ stream = <<>>)
      BY <1>3, <1>4, <2>2, <2>3, RecvKeeps
    <2>5. p.size = 0
      <3>1. SUFFICES ASSUME p.size # 0 PROVE FALSE OBVIOUS
      <3>2. HeaderSize <= p.finished BY <1>1, <3>1 DEF Expects
      <3>3. QED BY <1>2, <1>5, <3>2 DEF HeaderSize
    <2>6. QED BY <1>1, <2>2, <2>4, <2>5 DEF Started
  <1>6. CASE ~(p.finished < HeaderSize)
    <2>1. h = [p |-> p, s |-> stream, ret |-> "read"] BY <1>1, <1>6 DEF HeaderPart
    <2>2. p.size # 0 BY <1>1, <1>6 DEF Expects
    <2>3. QED BY <1>1, <2>1, <2>2
  <1>7. QED BY <1>5, <1>6

LEMMA SizedEnds ==
    ASSUME NEW all, NEW cut, NEW p, NEW s, Started(all, cut, p, s),
           p.size = 0 => p.finished <= HeaderSize,
           p.size # 0 => Expects(p)
    PROVE  /\ Started(all, cut, Sized(p), s) /\ Announced(Sized(p))
           /\ Sized(p).finished = p.finished
           /\ Sized(p).size > HeaderSize => Sized(p).finished < Sized(p).size
  <1>1. p \in Buffer /\ p.finished \in Nat /\ p.size \in Nat BY DEF Started, Holds, Buffer
  <1>2. PICK m : m = Len(got) + 1 OBVIOUS
  <1>3. CASE p.finished = HeaderSize /\ p.size = 0
    <2>1. p.finished >= HeaderSize BY <1>3 DEF HeaderSize
    <2>2. m \in 1 .. Len(sent) /\ getPacketSize(p) = Len(sent[m].body)
      BY <1>2, <2>1, HeaderTells DEF Started
    <2>3. /\ Whole(sent[m]) \in Nat /\ Whole(sent[m]) = HeaderSize + Len(sent[m].body)
          /\ HeaderSize <= Whole(sent[m]) /\ Len(sent[m].body) \in Nat
      <3>1. sent[m] \in Packet BY <2>2, WholeType DEF Started
      <3>2. Len(sent[m].body) \in 0 .. MaxBody BY <3>1, Packets
      <3>3. QED BY <2>2, <3>2, WholeType, Lengths DEF Started
    <2>4. PICK q : q = [p EXCEPT !.size = Whole(sent[m])] OBVIOUS
    <2>5. Sized(p) = q
      <3>1. getPacketSize(p) + HeaderSize = Whole(sent[m]) BY <2>2, <2>3 DEF HeaderSize
      <3>2. QED BY <1>3, <2>4, <3>1 DEF Sized
    <2>6. q \in Buffer /\ q.buf = p.buf /\ q.finished = p.finished /\ q.size = Whole(sent[m])
      BY <1>1, <2>3, <2>4 DEF Buffer
    <2>7. Started(all, cut, q, s)
      <3>1. PICK c : c = cut[Len(got)] OBVIOUS
      <3>2. Holds(all, c, p, s) BY <3>1 DEF Started
      <3>3. Holds(all, c, q, s) BY <2>6, <3>2 DEF Holds
      <3>4. QED BY <3>1, <3>3 DEF Started
    <2>8. q.size # 0 /\ HeaderSize <= q.finished /\ q.finished <= q.size
          /\ (q.size > HeaderSize => q.finished < q.size)
      BY <1>1, <1>3, <2>3, <2>6 DEF HeaderSize
    <2>9. QED BY <1>2, <2>2, <2>5, <2>6, <2>7, <2>8 DEF Announced
  <1>4. CASE ~(p.finished = HeaderSize /\ p.size = 0)
    <2>1. Sized(p) = p BY <1>4 DEF Sized
    <2>2. CASE p.size = 0
      <3>1. p.finished < HeaderSize BY <1>1, <1>4, <2>2 DEF HeaderSize
      <3>2. ~(p.size > HeaderSize) BY <2>2 DEF HeaderSize
      <3>3. QED BY <2>1, <2>2, <3>1, <3>2 DEF Announced
    <2>3. CASE p.size # 0
      <3>1. HeaderSize <= p.finished /\ p.finished < p.size /\ Len(got) < Len(sent)
            /\ p.size = Whole(sent[Len(got) + 1])
        BY <2>3 DEF Expects
      <3>2. Len(got) + 1 \in 1 .. Len(sent) BY <3>1 DEF Started
      <3>3. p.finished <= p.size BY <1>1, <3>1
      <3>4. QED BY <2>1, <2>3, <3>1, <3>2, <3>3 DEF Announced
    <2>4. QED BY <2>2, <2>3
  <1>5. QED BY <1>3, <1>4

LEMMA BodyEnds ==
    ASSUME NEW all, NEW cut, NEW p, NEW s, NEW o, Started(all, cut, p, s), Announced(p),
           p.size > HeaderSize => p.finished < p.size,
           p.finished + Len(s) = Reopened(rcv).finished + Len(stream),
           o \in BodyPart(p, s)
    PROVE  Outcome(all, cut, o)
  <1>1. p \in Buffer /\ p.finished \in Nat /\ p.size \in Nat BY DEF Started, Holds, Buffer
  <1>2. CASE p.size > HeaderSize
    <2>1. PICK k : k = p.size - p.finished OBVIOUS
    <2>2. k \in Nat /\ k # 0 /\ p.finished + k = p.size BY <1>1, <1>2, <2>1
    <2>3. o \in Recv(p, s, k) BY <1>2, <2>1 DEF BodyPart
    <2>4. PICK n, c : n = Len(got) /\ c = cut[n] OBVIOUS
    <2>5. c \in Nat /\ all \in Seq(Byte) /\ Holds(all, c, p, s)
      <3>1. n \in 0 .. Len(sent) BY <2>4 DEF Started
      <3>2. QED BY <2>4, <3>1 DEF Started, Framed
    <2>6. /\ Holds(all, c, o.p, o.s) /\ o.p.size = p.size
          /\ p.finished <= o.p.finished /\ o.p.finished <= p.finished + k
          /\ o.p.finished + Len(o.s) = p.finished + Len(s)
          /\ o.ret \in {"again", "closed", "read"}
          /\ o.ret # "read" => o.p = p /\ o.s = s
          /\ o.ret = "closed" => k = 0 \/ (ended /\ s = <<>>)
      BY <2>2, <2>3, <2>5, RecvKeeps
    <2>7. o.p.finished \in Nat BY <2>6 DEF Holds, Buffer
    <2>8. p.size # 0 /\ HeaderSize <= p.finished /\ Len(got) + 1 \in 1 .. Len(sent)
          /\ p.size = Whole(sent[Len(got) + 1])
      <3>1. p.size # 0 BY <1>2 DEF HeaderSize
      <3>2. QED BY <3>1 DEF Announced
    <2>9. HeaderSize <= o.p.finished /\ o.p.finished <= o.p.size
      BY <1>1, <2>2, <2>6, <2>7, <2>8 DEF HeaderSize
    <2>10. Announced(o.p) BY <2>6, <2>8, <2>9 DEF Announced
    <2>11. Started(all, cut, o.p, o.s) BY <2>4, <2>6 DEF Started
    <2>12. o.p.finished = o.p.size => o.ret = "read"
      BY <1>1, <1>2, <2>6
    <2>13. QED BY <2>2, <2>6, <2>8, <2>10, <2>11, <2>12 DEF Outcome
  <1>3. CASE ~(p.size > HeaderSize)
    <2>1. o = [p |-> p, s |-> s, ret |-> IF p.size = HeaderSize THEN "read" ELSE "again"]
      BY <1>3 DEF BodyPart
    <2>2. p.size = 0 \/ p.size = HeaderSize
      <3>1. p.size # 0 => HeaderSize <= p.size BY <1>1 DEF Announced, HeaderSize
      <3>2. QED BY <1>1, <1>3, <3>1 DEF HeaderSize
    <2>3. p.size = 0 => p.size # HeaderSize BY DEF HeaderSize
    <2>4. QED BY <2>1, <2>2, <2>3 DEF Outcome
  <1>4. QED BY <1>2, <1>3

\* A packet is appended to got exactly when it is complete, and it is the next
\* one that was sent.
Takes == \/ got' = got
         \/ Len(got) + 1 \in 1 .. Len(sent) /\ got' = Append(got, sent[Len(got) + 1])

LEMMA ReturnedPacket ==
    ASSUME NEW all, NEW cut, NEW o, Outcome(all, cut, o), o.ret = "read",
           packetFinished(o.p)
    PROVE  /\ Len(got) + 1 \in 1 .. Len(sent) /\ o.p.size # 0
           /\ o.p.size = Whole(sent[Len(got) + 1])
           /\ [type |-> getPacketType(o.p), body |-> SubSeq(o.p.buf, HeaderSize + 1, o.p.size)]
                = sent[Len(got) + 1]
  <1>1. PICK p, m : p = o.p /\ m = Len(got) + 1 OBVIOUS
  <1>2. p.size # 0 /\ p.finished = p.size BY <1>1 DEF Outcome, packetFinished
  <1>3. m \in 1 .. Len(sent) /\ p.size = Whole(sent[m]) /\ HeaderSize <= p.finished
    BY <1>1, <1>2 DEF Outcome, Announced
  <1>4. PICK pk, l : pk = sent[m] /\ l = Len(pk.body) OBVIOUS
  <1>5. /\ pk \in Packet /\ l \in Nat /\ Whole(pk) = HeaderSize + l
        /\ pk.body \in Seq(Byte) /\ pk = [type |-> pk.type, body |-> pk.body]
    <2>1. pk \in Packet /\ Whole(pk) = HeaderSize + l
      BY <1>3, <1>4, WholeType DEF Outcome, Started
    <2>2. l \in 0 .. MaxBody BY <1>4, <2>1, Packets
    <2>3. QED BY <2>1, <2>2, Packets, Lengths
  <1>6. p.finished >= HeaderSize
    <2>1. p.finished = HeaderSize + l BY <1>2, <1>3, <1>4, <1>5
    <2>2. QED BY <1>5, <2>1 DEF HeaderSize
  <1>7. /\ getPacketType(p) = pk.type
        /\ \A j \in 1 .. p.finished : j <= Whole(pk) => p.buf[j] = Encoded(pk)[j]
    <2>1. /\ Framed(all, cut) /\ sent \in Seq(Packet) /\ Len(got) \in Nat
          /\ Len(got) <= Len(sent) /\ Holds(all, cut[Len(got)], p, o.s)
      BY <1>1 DEF Outcome, Started
    <2>2. /\ getPacketType(p) = sent[Len(got) + 1].type
          /\ \A j \in 1 .. p.finished : j <= Whole(sent[Len(got) + 1]) =>
                p.buf[j] = Encoded(sent[Len(got) + 1])[j]
      BY <1>6, <2>1, HeaderTells
    <2>3. pk = sent[Len(got) + 1] BY <1>1, <1>4
    <2>4. QED BY <2>2, <2>3
  <1>8. p.buf \in Seq(Byte) /\ Len(p.buf) = HeaderSize + l
    BY <1>1, <1>2, <1>3, <1>4, <1>5 DEF Outcome, Started, Holds, Buffer
  <1>9. PICK b, u : b = p.buf /\ u = SubSeq(b, HeaderSize + 1, HeaderSize + l) OBVIOUS
  <1>10. u \in Seq(Byte) /\ Len(u) = l /\ \A j \in 1 .. l : u[j] = b[HeaderSize + j]
    <2>1. \A i \in HeaderSize + 1 .. HeaderSize + l : b[i] \in Byte
      <3>1. \A i \in HeaderSize + 1 .. HeaderSize + l : i \in 1 .. Len(b)
        BY <1>5, <1>8, <1>9 DEF HeaderSize
      <3>2. b \in Seq(Byte) BY <1>8, <1>9
      <3>3. QED BY <3>1, <3>2, ElementOfSeq
    <2>2. HeaderSize + 1 \in Int /\ HeaderSize + l \in Int BY <1>5 DEF HeaderSize
    <2>3. PICK x, y : x = HeaderSize + 1 /\ y = HeaderSize + l OBVIOUS
    <2>4. x \in Int /\ y \in Int /\ \A i \in x .. y : b[i] \in Byte
      BY <2>1, <2>2, <2>3
    <2>5. /\ SubSeq(b, x, y) \in Seq(Byte)
          /\ Len(SubSeq(b, x, y)) = IF x <= y THEN y - x + 1 ELSE 0
          /\ \A i \in 1 .. y - x + 1 : SubSeq(b, x, y)[i] = b[x + i - 1]
      BY <2>4, SubSeqProperties
    <2>6. /\ y - x + 1 = l /\ (x <= y \/ l = 0)
          /\ \A i \in 1 .. l : x + i - 1 = HeaderSize + i
      BY <1>5, <2>3 DEF HeaderSize
    <2>8. u = SubSeq(b, x, y) BY <1>9, <2>3
    <2>9. QED BY <2>5, <2>6, <2>8
  <1>11. ASSUME NEW j \in 1 .. l PROVE u[j] = pk.body[j]
    <2>1. HeaderSize + j \in 1 .. HeaderSize + l BY <1>5 DEF HeaderSize
    <2>2. HeaderSize + j <= HeaderSize + l BY <1>5 DEF HeaderSize
    <2>3. b[HeaderSize + j] = Encoded(pk)[HeaderSize + j]
      BY <1>2, <1>3, <1>4, <1>5, <1>7, <1>9, <2>1, <2>2
    <2>4. QED BY <1>4, <1>5, <1>10, <2>3, EncodedPacket
  <1>12. u = pk.body BY <1>4, <1>5, <1>10, <1>11, SeqEqual
  <1>13. SubSeq(p.buf, HeaderSize + 1, p.size) = u BY <1>3, <1>4, <1>5, <1>9
  <1>14. QED BY <1>1, <1>2, <1>3, <1>4, <1>5, <1>7, <1>12, <1>13

\* What the fields of a buffer are after a call of recvPacket.
LEMMA OutcomeTypes ==
    ASSUME NEW all, NEW cut, NEW o, Outcome(all, cut, o)
    PROVE  /\ o.p \in Buffer /\ o.s \in Seq(Byte)
           /\ o.p.size \in {0} \cup HeaderSize .. HeaderSize + MaxBody
           /\ o.p.finished \in 0 .. HeaderSize + MaxBody
           /\ o.p.size # 0 => o.p.finished \in HeaderSize .. o.p.size
           /\ o.p.size = 0 => o.p.finished < HeaderSize
  <1>1. o.p \in Buffer /\ o.s \in Seq(Byte) /\ o.p.size \in Nat /\ o.p.finished \in Nat
    BY DEF Outcome, Started, Holds, Buffer
  <1>2. CASE o.p.size = 0
    <2>1. o.p.finished < HeaderSize BY <1>2 DEF Outcome, Announced
    <2>2. QED BY <1>1, <1>2, <2>1, Lengths DEF HeaderSize
  <1>3. CASE o.p.size # 0
    <2>1. HeaderSize <= o.p.finished /\ o.p.finished <= o.p.size
          /\ o.p.size <= HeaderSize + MaxBody
      BY <1>3, WholeType DEF Outcome, Announced, Started
    <2>2. QED BY <1>1, <1>3, <2>1, Lengths DEF HeaderSize
  <1>4. QED BY <1>2, <1>3

LEMMA ReturnsKeeps ==
    ASSUME IInv, NEW all, NEW cut, NEW o, Outcome(all, cut, o),
           ~ended => Rest(all, cut[Len(got)]), Returns(o)
    PROVE  IInv' /\ Takes
  <1>1. PICK n, c : n = Len(got) /\ c = cut[n] OBVIOUS
  <1>2. /\ n \in Nat /\ n <= Len(sent) /\ Len(sent) \in Nat /\ c \in Nat
        /\ Len(all) \in Nat /\ sent \in Seq(Packet) /\ got \in Seq(Packet)
    <2>1. n \in Nat /\ n <= Len(sent) /\ sent \in Seq(Packet) BY <1>1 DEF Outcome, Started
    <2>2. Len(sent) \in Nat BY <2>1, LenProperties
    <2>3. n \in 0 .. Len(sent) BY <2>1, <2>2
    <2>4. QED BY <1>1, <2>1, <2>2, <2>3 DEF Outcome, Started, Framed, IInv, TypeOK
  <1>3. /\ rcv' = o.p /\ stream' = o.s /\ closed' = (o.ret = "closed")
        /\ snd' = snd /\ ended' = ended /\ sent' = sent
    BY DEF Returns
  <1>4. closed' \in BOOLEAN /\ ClosedOnlyAtEnd'
    BY <1>3 DEF Outcome, ClosedOnlyAtEnd
  <1>5. Framed(all, cut) /\ Framed(all, cut)'
    BY <1>3 DEF Outcome, Started, Framed
  <1>6. Holds(all, c, o.p, o.s) BY <1>1 DEF Outcome, Started
  <1>7. /\ o.p.finished + Len(o.s) = Reopened(rcv).finished + Len(stream)
        /\ o.p.finished \in Nat /\ Len(o.s) \in Nat /\ o.p.size \in Nat
    BY <1>6 DEF Outcome, Holds, Buffer
  <1>8. snd.size \in Nat /\ snd.finished \in Nat BY DEF IInv, Buffer
  <1>9. PICK k : k = Reopened(rcv).finished + Len(stream) OBVIOUS
  <1>10. k \in Nat BY <1>7, <1>9
  <1>11. ~ended => /\ c + k + (snd.size - snd.finished) = Len(all)
                   /\ \A j \in 1 .. snd.size :
                         j > snd.finished => snd.buf[j] = all[Len(all) - snd.size + j]
    <2>1. Reopened(rcv).finished \in Nat /\ Len(stream) \in Nat
      <3>1. stream \in Seq(Byte) BY DEF IInv, TypeOK
      <3>2. Reopened(rcv).finished \in Nat
        BY DEF Reopened, Empty, IInv, Buffer
      <3>3. QED BY <3>1, <3>2, LenProperties
    <2>2. c + Reopened(rcv).finished + Len(stream) = c + k BY <1>2, <1>9, <2>1
    <2>3. QED BY <1>1, <2>2 DEF Rest
  <1>15. /\ rcv' \in Buffer /\ ended' \in BOOLEAN /\ stream' \in Seq(Byte)
         /\ \A p \in {snd', rcv'} :
               /\ p.buf \in Seq(Byte)
               /\ p.size \in {0} \cup HeaderSize .. HeaderSize + MaxBody
               /\ p.finished \in 0 .. HeaderSize + MaxBody
         /\ snd'.finished <= snd'.size
         /\ rcv'.size # 0 => rcv'.finished \in HeaderSize .. rcv'.size
         /\ rcv'.size = 0 => rcv'.finished < HeaderSize
    <2>1. /\ ended \in BOOLEAN /\ snd.buf \in Seq(Byte) /\ snd.finished <= snd.size
          /\ snd.size \in {0} \cup HeaderSize .. HeaderSize + MaxBody
          /\ snd.finished \in 0 .. HeaderSize + MaxBody
      BY DEF IInv, TypeOK
    <2>2. /\ o.p \in Buffer /\ o.s \in Seq(Byte)
          /\ o.p.size \in {0} \cup HeaderSize .. HeaderSize + MaxBody
          /\ o.p.finished \in 0 .. HeaderSize + MaxBody
          /\ o.p.size # 0 => o.p.finished \in HeaderSize .. o.p.size
          /\ o.p.size = 0 => o.p.finished < HeaderSize
      BY OutcomeTypes
    <2>3. o.p.buf \in Seq(Byte) BY <2>2 DEF Buffer
    <2>4. QED BY <1>3, <2>1, <2>2, <2>3
  <1>12. CASE o.ret = "read" /\ packetFinished(o.p)
    <2>1. PICK m, pk : m = n + 1 /\ pk = sent[m] OBVIOUS
    <2>2. /\ m \in 1 .. Len(sent) /\ o.p.size # 0 /\ o.p.size = Whole(pk)
          /\ got' = Append(got, pk)
      BY <1>1, <1>12, <2>1, ReturnedPacket DEF Returns
    <2>3. pk \in Packet BY <1>2, <2>1, <2>2, ElementOfSeq
    <2>4. /\ got' \in Seq(Packet) /\ Len(got') = m
          /\ \A i \in 1 .. m : got'[i] = IF i = m THEN pk ELSE got[i]
      <3>1. /\ Append(got, pk) \in Seq(Packet) /\ Len(Append(got, pk)) = n + 1
            /\ \A i \in 1 .. n : Append(got, pk)[i] = got[i]
            /\ Append(got, pk)[n + 1] = pk
        BY <1>1, <1>2, <2>3, AppendProperties
      <3>2. \A i \in 1 .. m : i # m => i \in 1 .. n BY <1>2, <2>1
      <3>3. QED BY <2>1, <2>2, <3>1, <3>2
    <2>5. \A i \in 1 .. m : got'[i] = sent'[i]
      <3>1. \A i \in 1 .. n : got[i] = sent[i] BY <1>1 DEF IInv, PackInv
      <3>2. \A i \in 1 .. m : i # m => i \in 1 .. n BY <1>2, <2>1
      <3>3. QED BY <1>3, <2>1, <2>4, <3>1, <3>2
    <2>6. m \in Nat /\ m <= Len(sent) /\ m - 1 = n BY <1>2, <2>1, <2>2
    <2>7. PICK e : e = cut[m] OBVIOUS
    <2>8. e = c + o.p.size BY <1>1, <1>5, <2>1, <2>2, <2>6, <2>7 DEF Framed
    <2>9. e = c + o.p.finished BY <1>12, <2>8 DEF packetFinished
    <2>10. Reopened(rcv') = Empty
      <3>1. rcv'.size > 0 /\ rcv'.finished = rcv'.size
        BY <1>3, <1>7, <1>12, <2>2 DEF packetFinished
      <3>2. QED BY <3>1 DEF Reopened
    <2>11. Holds(all, e, Empty, o.s)
      <3>1. Empty \in Buffer /\ Empty.finished = 0 /\ Len(Empty.buf) = 0
        BY DEF Empty, Buffer
      <3>2. o.s \in Seq(Byte) /\ c + o.p.finished + Len(o.s) <= Len(all)
            /\ \A j \in 1 .. Len(o.s) : o.s[j] = all[c + o.p.finished + j]
        BY <1>6 DEF Holds
      <3>3. e + 0 = e /\ e \in Nat BY <1>2, <1>7, <2>9
      <3>4. QED BY <2>9, <3>1, <3>2, <3>3 DEF Holds
    <2>12. Expects(Empty)' BY DEF Expects, Empty, HeaderSize
    <2>13. ~ended => Rest(all, e)'
      <3>1. SUFFICES ASSUME ~ended PROVE Rest(all, e)' OBVIOUS
      <3>2. Empty.finished = 0 BY DEF Empty
      <3>3. e + 0 + Len(o.s) + (snd.size - snd.finished) = Len(all)
        <4>1. c + k + (snd.size - snd.finished) = Len(all) BY <1>11, <3>1
        <4>2. o.p.finished + Len(o.s) = k BY <1>7, <1>9
        <4>3. o.p.finished \in Nat /\ Len(o.s) \in Nat BY <1>7
        <4>4. e + 0 + Len(o.s) = c + k
          <5>1. c \in Nat BY <1>2
          <5>2. e + 0 = c + o.p.finished BY <2>9, <4>3, <5>1
          <5>3. QED BY <4>2, <4>3, <5>1, <5>2, Grouped
        <4>5. QED BY <4>1, <4>4
      <3>4. QED BY <1>3, <1>11, <2>10, <3>1, <3>2, <3>3 DEF Rest
    <2>14. PackInv'
      <3>1. Len(got') <= Len(sent') BY <1>3, <2>4, <2>6
      <3>2. Holds(all, cut[Len(got)], Reopened(rcv), stream)'
        BY <1>3, <2>4, <2>7, <2>10, <2>11 DEF Holds
      <3>3. Expects(Reopened(rcv))' BY <2>10, <2>12 DEF Expects
      <3>4. (~ended => Rest(all, cut[Len(got)]))' BY <1>3, <2>4, <2>7, <2>13
      <3>5. QED BY <1>5, <2>4, <2>5, <3>1, <3>2, <3>3, <3>4 DEF PackInv
    <2>15. TypeOK' /\ rcv' \in Buffer
      BY <1>2, <1>3, <1>4, <1>15, <2>4 DEF TypeOK
    <2>16. QED BY <1>1, <1>3, <1>4, <2>1, <2>2, <2>14, <2>15 DEF IInv, Takes
  <1>13. CASE ~(o.ret = "read" /\ packetFinished(o.p))
    <2>1. got' = got BY <1>13 DEF Returns
    <2>2. ~(o.p.size # 0 /\ o.p.finished = o.p.size)
      BY <1>13 DEF Outcome, packetFinished
    <2>3. Reopened(rcv') = rcv'
      <3>1. ~(rcv'.size > 0 /\ rcv'.finished = rcv'.size) BY <1>3, <1>7, <2>2
      <3>2. QED BY <3>1 DEF Reopened
    <2>4. Expects(o.p)
      <3>1. Announced(o.p) BY DEF Outcome
      <3>2. Len(got) + 1 \in 1 .. Len(sent) => Len(got) < Len(sent) BY <1>1, <1>2
      <3>3. o.p.size # 0 /\ o.p.finished <= o.p.size => o.p.finished < o.p.size
        BY <1>7, <2>2
      <3>4. QED BY <3>1, <3>2, <3>3 DEF Announced, Expects
    <2>5. PackInv'
      <3>1. Len(got') <= Len(sent') /\ \A i \in 1 .. Len(got') : got'[i] = sent'[i]
        BY <1>3, <2>1 DEF IInv, PackInv
      <3>2. Holds(all, cut[Len(got)], Reopened(rcv), stream)'
        BY <1>1, <1>3, <1>6, <2>1, <2>3 DEF Holds
      <3>3. Expects(Reopened(rcv))' BY <1>3, <2>1, <2>3, <2>4 DEF Expects
      <3>4. (~ended => Rest(all, cut[Len(got)]))'
        <4>1. SUFFICES ASSUME ~ended PROVE Rest(all, c)' BY <1>1, <1>3, <2>1
        <4>2. c + o.p.finished + Len(o.s) + (snd.size - snd.finished) = Len(all)
          <5>1. c + k + (snd.size - snd.finished) = Len(all) BY <1>11, <4>1
          <5>2. o.p.finished + Len(o.s) = k BY <1>7, <1>9
          <5>3. o.p.finished \in Nat /\ Len(o.s) \in Nat BY <1>7
          <5>4. c + o.p.finished + Len(o.s) = c + k
            <6>1. c \in Nat BY <1>2
            <6>2. QED BY <5>2, <5>3, <6>1, Grouped
          <5>5. QED BY <5>1, <5>4
        <4>3. QED BY <1>3, <1>11, <2>3, <4>1, <4>2 DEF Rest
      <3>5. QED BY <1>5, <3>1, <3>2, <3>3, <3>4 DEF PackInv
    <2>6. TypeOK' /\ rcv' \in Buffer
      BY <1>2, <1>3, <1>4, <1>15, <2>1 DEF TypeOK
    <2>7. QED BY <1>3, <1>4, <2>1, <2>5, <2>6 DEF IInv, Takes
  <1>14. QED BY <1>12, <1>13

LEMMA RecvPacketKeeps ==
    ASSUME IInv, recvPacket
    PROVE  IInv' /\ Takes
  <1>1. PICK all, cut : /\ Framed(all, cut)
                        /\ Holds(all, cut[Len(got)], Reopened(rcv), stream)
                        /\ Expects(Reopened(rcv))
                        /\ ~ended => Rest(all, cut[Len(got)])
    BY DEF IInv, PackInv
  <1>2. Started(all, cut, Reopened(rcv), stream)
    <2>1. Len(got) \in Nat BY LenProperties DEF IInv, TypeOK
    <2>2. QED BY <1>1, <2>1 DEF Started, IInv, PackInv, TypeOK
  <1>3. PICK h \in HeaderPart(Reopened(rcv)) :
            \/ h.ret # "read" /\ Returns(h)
            \/ h.ret = "read" /\ \E b \in BodyPart(Sized(h.p), h.s) : Returns(b)
    BY DEF recvPacket
  <1>4. /\ Started(all, cut, h.p, h.s) /\ h.p.size = Reopened(rcv).size
        /\ h.p.finished + Len(h.s) = Reopened(rcv).finished + Len(stream)
        /\ h.ret \in {"again", "closed", "read"}
        /\ h.ret # "read" => h.p = Reopened(rcv)
        /\ h.ret = "closed" => ended /\ h.s = <<>>
        /\ h.p.size = 0 => h.p.finished <= HeaderSize
        /\ h.p.size # 0 => h.p = Reopened(rcv)
    BY <1>1, <1>2, HeaderEnds
  <1>5. CASE h.ret # "read" /\ Returns(h)
    <2>1. Expects(h.p) BY <1>1, <1>4, <1>5
    <2>2. h.p.finished \in Nat /\ h.p.size \in Nat BY <1>4 DEF Started, Holds, Buffer
    <2>3. Announced(h.p) /\ ~(h.p.size # 0 /\ h.p.finished = h.p.size)
      <3>1. Len(got) < Len(sent) => Len(got) + 1 \in 1 .. Len(sent) BY <1>2 DEF Started
      <3>2. QED BY <2>1, <2>2, <3>1 DEF Announced, Expects
    <2>4. Outcome(all, cut, h) BY <1>4, <1>5, <2>3 DEF Outcome
    <2>5. QED BY <1>1, <1>5, <2>4, ReturnsKeeps
  <1>6. CASE h.ret = "read" /\ \E b \in BodyPart(Sized(h.p), h.s) : Returns(b)
    <2>1. PICK b \in BodyPart(Sized(h.p), h.s) : Returns(b) BY <1>6
    <2>2. /\ Started(all, cut, Sized(h.p), h.s) /\ Announced(Sized(h.p))
          /\ Sized(h.p).finished = h.p.finished
          /\ Sized(h.p).size > HeaderSize => Sized(h.p).finished < Sized(h.p).size
      BY <1>1, <1>4, SizedEnds
    <2>3. Outcome(all, cut, b) BY <1>4, <2>1, <2>2, BodyEnds
    <2>4. QED BY <1>1, <2>1, <2>3, ReturnsKeeps
  <1>7. QED BY <1>3, <1>5, <1>6

-----------------------------------------------------------------------------
(* The sender.                                                             *)

\* Bytes that are sent are the next ones.
LEMMA StreamGrows ==
    ASSUME NEW all \in Seq(Byte), NEW c \in Nat, NEW p, NEW s, Holds(all, c, p, s),
           NEW t \in Seq(Byte), c + p.finished + Len(s) + Len(t) <= Len(all),
           \A j \in 1 .. Len(t) : t[j] = all[c + p.finished + Len(s) + j]
    PROVE  Holds(all, c, p, s \o t) /\ Len(s \o t) = Len(s) + Len(t)
  <1>1. PICK f, l, m : f = p.finished /\ l = Len(s) /\ m = Len(t) OBVIOUS
  <1>2. f \in Nat /\ l \in Nat /\ m \in Nat /\ s \in Seq(Byte)
    BY <1>1, LenProperties DEF Holds, Buffer
  <1>3. /\ s \o t \in Seq(Byte) /\ Len(s \o t) = l + m
        /\ \A j \in 1 .. l + m : (s \o t)[j] = IF j <= l THEN s[j] ELSE t[j - l]
    BY <1>1, <1>2, ConcatProperties
  <1>4. c + f + (l + m) <= Len(all)
    <2>1. Len(all) \in Nat BY LenProperties
    <2>2. c + f + l + m <= Len(all) BY <1>1
    <2>3. QED BY <1>2, <2>1, <2>2
  <1>5. ASSUME NEW j \in 1 .. l + m PROVE (s \o t)[j] = all[c + f + j]
    <2>1. CASE j <= l
      <3>1. j \in 1 .. l BY <1>2, <2>1
      <3>2. s[j] = all[c + f + j] BY <1>1, <3>1 DEF Holds
      <3>3. QED BY <1>3, <2>1, <3>2
    <2>2. CASE ~(j <= l)
      <3>1. j - l \in 1 .. m /\ c + f + l + (j - l) = c + f + j BY <1>2, <2>2
      <3>2. t[j - l] = all[c + f + l + (j - l)] BY <1>1, <3>1
      <3>3. QED BY <1>3, <2>2, <3>1, <3>2
    <2>3. QED BY <2>1, <2>2
  <1>6. QED BY <1>1, <1>3, <1>4, <1>5 DEF Holds

LEMMA BytesGrow ==
    ASSUME NEW all \in Seq(Byte), NEW e \in Seq(Byte)
    PROVE  /\ all \o e \in Seq(Byte) /\ Len(all \o e) = Len(all) + Len(e)
           /\ \A i \in 1 .. Len(all) : (all \o e)[i] = all[i]
           /\ \A j \in 1 .. Len(e) : (all \o e)[Len(all) + j] = e[j]
  <1>1. PICK a, l : a = Len(all) /\ l = Len(e) OBVIOUS
  <1>2. a \in Nat /\ l \in Nat BY <1>1, LenProperties
  <1>3. /\ all \o e \in Seq(Byte) /\ Len(all \o e) = a + l
        /\ \A i \in 1 .. a + l : (all \o e)[i] = IF i <= a THEN all[i] ELSE e[i - a]
    BY <1>1, ConcatProperties
  <1>4. \A i \in 1 .. a : i \in 1 .. a + l /\ i <= a BY <1>2
  <1>5. \A j \in 1 .. l : a + j \in 1 .. a + l /\ ~(a + j <= a) /\ a + j - a = j BY <1>2
  <1>6. QED BY <1>1, <1>3, <1>4, <1>5

LEMMA HoldsMore ==
    ASSUME NEW all \in Seq(Byte), NEW c \in Nat, NEW p, NEW s, Holds(all, c, p, s),
           NEW e \in Seq(Byte)
    PROVE  Holds(all \o e, c, p, s)
  <1>1. PICK f, l, a : f = p.finished /\ l = Len(s) /\ a = Len(all) OBVIOUS
  <1>2. f \in Nat /\ l \in Nat /\ a \in Nat /\ Len(e) \in Nat /\ c + f + l <= a
    BY <1>1, LenProperties DEF Holds, Buffer
  <1>3. c + f + l <= Len(all \o e)
    <2>1. Len(all \o e) = a + Len(e) BY <1>1, BytesGrow
    <2>2. QED BY <1>2, <2>1
  <1>4. \A j \in 1 .. f : (all \o e)[c + j] = all[c + j]
    <2>1. \A j \in 1 .. f : c + j \in 1 .. a BY <1>2
    <2>2. QED BY <1>1, <2>1, BytesGrow
  <1>5. \A j \in 1 .. l : (all \o e)[c + f + j] = all[c + f + j]
    <2>1. \A j \in 1 .. l : c + f + j \in 1 .. a BY <1>2
    <2>2. QED BY <1>1, <2>1, BytesGrow
  <1>6. QED BY <1>1, <1>3, <1>4, <1>5 DEF Holds

\* A packet that is composed is put behind the others.
LEMMA FramedMore ==
    ASSUME NEW all, NEW cut, Framed(all, cut), sent \in Seq(Packet),
           NEW pk \in Packet, sent' = Append(sent, pk)
    PROVE  \E longer, ends : /\ Framed(longer, ends)'
                             /\ longer = all \o Encoded(pk)
                             /\ \A i \in 0 .. Len(sent) : ends[i] = cut[i]
  <1>1. PICK m, e, w, a : m = Len(sent) /\ e = Encoded(pk) /\ w = Whole(pk) /\ a = Len(all)
    OBVIOUS
  <1>2. PICK d : d = [i \in 0 .. m + 1 |-> IF i <= m THEN cut[i] ELSE a + w] OBVIOUS
  <1>3. m \in Nat /\ w \in Nat /\ a \in Nat /\ all \in Seq(Byte)
    BY <1>1, Packets, LenProperties DEF Framed
  <1>4. /\ e \in Seq(Byte) /\ Len(e) = w BY <1>1, EncodedPacket
  <1>5. /\ all \o e \in Seq(Byte) /\ Len(all \o e) = a + w
        /\ \A i \in 1 .. a : (all \o e)[i] = all[i]
        /\ \A j \in 1 .. w : (all \o e)[a + j] = e[j]
    <2>1. /\ all \o e \in Seq(Byte) /\ Len(all \o e) = Len(all) + Len(e)
          /\ \A i \in 1 .. Len(all) : (all \o e)[i] = all[i]
          /\ \A j \in 1 .. Len(e) : (all \o e)[Len(all) + j] = e[j]
      BY <1>3, <1>4, BytesGrow
    <2>2. Len(all) = a /\ Len(e) = w BY <1>1, <1>4
    <2>3. QED BY <2>1, <2>2
  <1>6. /\ Len(sent') = m + 1 /\ \A i \in 1 .. m : sent'[i] = sent[i]
        /\ sent'[m + 1] = pk
    BY <1>1, AppendProperties
  <1>7. /\ cut \in [0 .. m -> Nat] /\ cut[0] = 0 /\ a = cut[m]
        /\ \A i \in 0 .. m : cut[i] <= a
        /\ \A i \in 1 .. m : cut[i] = cut[i - 1] + Whole(sent[i])
        /\ \A i \in 1 .. m : \A j \in 1 .. Whole(sent[i]) :
              all[cut[i - 1] + j] = Encoded(sent[i])[j]
    BY <1>1 DEF Framed
  <1>8. /\ \A i \in 0 .. m : d[i] = cut[i]
        /\ d[m + 1] = a + w
    <2>1. \A i \in 0 .. m : i \in 0 .. m + 1 /\ i <= m BY <1>3
    <2>2. m + 1 \in 0 .. m + 1 /\ ~(m + 1 <= m) BY <1>3
    <2>3. QED BY <1>2, <2>1, <2>2
  <1>9. \A i \in 0 .. m + 1 : i \in 0 .. m \/ i = m + 1 BY <1>3
  <1>10. d \in [0 .. m + 1 -> Nat]
    <2>1. \A i \in 0 .. m : d[i] \in Nat BY <1>7, <1>8
    <2>2. d[m + 1] \in Nat BY <1>3, <1>8
    <2>3. \A i \in 0 .. m + 1 : d[i] \in Nat BY <1>9, <2>1, <2>2
    <2>4. QED BY <1>2, <2>3
  <1>11. d[0] = 0
    <2>1. 0 \in 0 .. m BY <1>3
    <2>2. QED BY <1>7, <1>8, <2>1
  <1>12. \A i \in 0 .. m + 1 : d[i] <= a + w
    <2>1. ASSUME NEW i \in 0 .. m PROVE d[i] <= a + w
      <3>1. d[i] \in Nat /\ d[i] <= a BY <1>7, <1>8
      <3>2. QED BY <1>3, <3>1
    <2>2. a + w <= a + w BY <1>3
    <2>3. QED BY <1>8, <1>9, <2>1, <2>2
  <1>13. ASSUME NEW i \in 1 .. m + 1
         PROVE  /\ d[i] = d[i - 1] + Whole(sent'[i])
                /\ \A j \in 1 .. Whole(sent'[i]) : (all \o e)[d[i - 1] + j] = Encoded(sent'[i])[j]
    <2>1. CASE i = m + 1
      <3>1. i - 1 = m /\ m \in 0 .. m BY <1>3, <2>1
      <3>2. d[i - 1] = a /\ d[i] = a + w /\ sent'[i] = pk BY <1>6, <1>7, <1>8, <2>1, <3>1
      <3>3. QED BY <1>1, <1>5, <3>2
    <2>2. CASE i # m + 1
      <3>1. i \in 1 .. m /\ i - 1 \in 0 .. m /\ i \in 0 .. m BY <1>3, <2>2
      <3>2. PICK b, v : b = cut[i - 1] /\ v = Whole(sent[i]) OBVIOUS
      <3>3. d[i] = cut[i] /\ d[i - 1] = b /\ sent'[i] = sent[i] BY <1>6, <1>8, <3>1, <3>2
      <3>4. cut[i] = b + v /\ cut[i] <= a /\ b \in Nat /\ cut[i] \in Nat
        BY <1>7, <3>1, <3>2
      <3>5. v \in Nat BY <1>1, <3>1, <3>2, WholeType
      <3>6. ASSUME NEW j \in 1 .. v PROVE (all \o e)[b + j] = Encoded(sent[i])[j]
        <4>1. b + j \in 1 .. a BY <1>3, <3>4, <3>5
        <4>2. all[b + j] = Encoded(sent[i])[j] BY <1>7, <3>1, <3>2
        <4>3. QED BY <1>5, <4>1, <4>2
      <3>7. QED BY <3>2, <3>3, <3>4, <3>6
    <2>3. QED BY <2>1, <2>2
  <1>14. PICK longer : longer = all \o e OBVIOUS
  <1>15. Framed(longer, d)'
    <2>1. Len(longer) = a + w /\ d[m + 1] = a + w BY <1>5, <1>8, <1>14
    <2>2. \A i \in 0 .. m + 1 : d[i] <= Len(longer) BY <1>12, <2>1
    <2>3. \A i \in 1 .. m + 1 :
             /\ d[i] = d[i - 1] + Whole(sent'[i])
             /\ \A j \in 1 .. Whole(sent'[i]) : longer[d[i - 1] + j] = Encoded(sent'[i])[j]
      BY <1>13, <1>14
    <2>4. longer \in Seq(Byte) BY <1>5, <1>14
    <2>5. QED BY <1>6, <1>10, <1>11, <2>1, <2>2, <2>3, <2>4 DEF Framed
  <1>16. QED BY <1>1, <1>8, <1>14, <1>15

\* The parts of the state as numbers: p is the buffer of the receiver, c where
\* the packet begins that it holds a part of.
LEMMA Measures ==
    ASSUME IInv
    PROVE  /\ Reopened(rcv).finished \in Nat /\ Len(stream) \in Nat
           /\ Len(got) \in Nat /\ Len(sent) \in Nat
           /\ snd.size \in Nat /\ snd.finished \in Nat /\ snd.finished <= snd.size
           /\ snd.buf \in Seq(Byte) /\ Len(snd.buf) \in Nat /\ snd.size <= Len(snd.buf)
           /\ stream \in Seq(Byte) /\ sent \in Seq(Packet) /\ got \in Seq(Packet)
  <1>1. /\ stream \in Seq(Byte) /\ sent \in Seq(Packet) /\ got \in Seq(Packet)
        /\ snd.finished <= snd.size /\ snd.size <= Len(snd.buf)
        /\ snd \in Buffer /\ rcv \in Buffer
    BY DEF IInv, TypeOK
  <1>2. Reopened(rcv).finished \in Nat BY <1>1 DEF Reopened, Empty, Buffer
  <1>3. QED BY <1>1, <1>2, LenProperties DEF Buffer

LEMMA SendKeeps ==
    ASSUME IInv, NEW pk \in Packet, NEW n \in 0 .. HeaderSize + MaxBody, sendPacket(pk, n)
    PROVE  IInv'
  <1>1. PICK all, cut : /\ Framed(all, cut)
                        /\ Holds(all, cut[Len(got)], Reopened(rcv), stream)
                        /\ Expects(Reopened(rcv))
                        /\ ~ended => Rest(all, cut[Len(got)])
    BY DEF IInv, PackInv
  <1>2. PICK c, a, w, e, f, l : /\ c = cut[Len(got)] /\ a = Len(all) /\ w = Whole(pk)
                             /\ e = Encoded(pk) /\ f = Reopened(rcv).finished
                             /\ l = Len(stream)
    OBVIOUS
  <1>3. /\ ~ended /\ packetFinished(snd) /\ n <= w
        /\ snd' = [buf |-> e, finished |-> n, size |-> w]
        /\ stream' = stream \o SubSeq(e, 1, n) /\ sent' = Append(sent, pk)
        /\ rcv' = rcv /\ ended' = ended /\ closed' = closed /\ got' = got
    BY <1>2 DEF sendPacket, Whole
  <1>4. /\ e \in Seq(Byte) /\ Len(e) = w /\ w \in Nat /\ w <= HeaderSize + MaxBody
        /\ HeaderSize <= w
    <2>1. Len(pk.body) \in 0 .. MaxBody BY Packets
    <2>2. HeaderSize <= w BY <1>2, <2>1, Lengths DEF Whole, HeaderSize
    <2>3. QED BY <1>2, <2>2, Packets, EncodedPacket
  <1>5. /\ f \in Nat /\ l \in Nat /\ a \in Nat /\ all \in Seq(Byte) /\ c \in Nat
        /\ Len(got) \in Nat /\ Len(sent) \in Nat /\ n \in Nat
        /\ Len(got) \in 0 .. Len(sent)
    <2>1. Len(got) \in Nat /\ Len(sent) \in Nat /\ Len(got) <= Len(sent)
      BY Measures DEF IInv, PackInv
    <2>2. Len(got) \in 0 .. Len(sent) BY <2>1
    <2>3. c \in Nat BY <1>1, <1>2, <2>2 DEF Framed
    <2>4. all \in Seq(Byte) BY <1>1 DEF Framed
    <2>5. n \in Nat BY Lengths DEF HeaderSize
    <2>6. QED BY <1>2, <2>1, <2>2, <2>3, <2>4, <2>5, Measures, LenProperties
  \* Everything composed so far has been sent.
  <1>6. c + f + l = a
    <2>1. c + f + l + (snd.size - snd.finished) = a BY <1>1, <1>2, <1>3 DEF Rest
    <2>2. snd.size - snd.finished = 0 BY <1>3, Measures DEF packetFinished
    <2>3. QED BY <1>5, <2>1, <2>2
  <1>7. PICK longer, ends : /\ Framed(longer, ends)'
                            /\ longer = all \o e
                            /\ \A i \in 0 .. Len(sent) : ends[i] = cut[i]
    <2>1. sent \in Seq(Packet) BY Measures
    <2>2. \E longer, ends : /\ Framed(longer, ends)'
                            /\ longer = all \o Encoded(pk)
                            /\ \A i \in 0 .. Len(sent) : ends[i] = cut[i]
      <3>1. Framed(all, cut) /\ sent' = Append(sent, pk) BY <1>1, <1>3
      <3>2. QED BY <2>1, <3>1, FramedMore
    <2>3. QED BY <1>2, <2>2
  <1>8. /\ longer \in Seq(Byte) /\ Len(longer) = a + w
        /\ \A j \in 1 .. w : longer[a + j] = e[j]
    <2>1. /\ all \o e \in Seq(Byte) /\ Len(all \o e) = Len(all) + Len(e)
          /\ \A j \in 1 .. Len(e) : (all \o e)[Len(all) + j] = e[j]
      BY <1>4, <1>5, BytesGrow
    <2>2. Len(all) = a /\ Len(e) = w BY <1>2, <1>4
    <2>3. QED BY <1>7, <2>1, <2>2
  <1>9. ends[Len(got)] = c BY <1>2, <1>5, <1>7
  <1>10. PICK t : t = SubSeq(e, 1, n) OBVIOUS
  <1>11. t \in Seq(Byte) /\ Len(t) = n /\ \A j \in 1 .. n : t[j] = e[j]
    <2>1. \A i \in 1 .. n : e[i] \in Byte
      <3>1. \A i \in 1 .. n : i \in 1 .. Len(e) BY <1>3, <1>4, <1>5
      <3>2. QED BY <1>4, <3>1, ElementOfSeq
    <2>2. /\ SubSeq(e, 1, n) \in Seq(Byte)
          /\ Len(SubSeq(e, 1, n)) = IF 1 <= n THEN n - 1 + 1 ELSE 0
          /\ \A i \in 1 .. n - 1 + 1 : SubSeq(e, 1, n)[i] = e[1 + i - 1]
      BY <1>5, <2>1, SubSeqProperties
    <2>3. n - 1 + 1 = n /\ (1 <= n \/ n = 0) /\ \A i \in 1 .. n : 1 + i - 1 = i BY <1>5
    <2>4. QED BY <1>10, <2>2, <2>3
  <1>12. Holds(longer, c, Reopened(rcv), stream \o t) /\ Len(stream \o t) = l + n
    <2>1. Holds(longer, c, Reopened(rcv), stream) BY <1>1, <1>2, <1>4, <1>5, <1>7, HoldsMore
    <2>2. c + f + l + Len(t) <= Len(longer) BY <1>3, <1>4, <1>5, <1>6, <1>8, <1>11
    <2>3. \A j \in 1 .. Len(t) : t[j] = longer[c + f + l + j]
      <3>1. \A j \in 1 .. n : j \in 1 .. w BY <1>3, <1>4, <1>5
      <3>2. QED BY <1>6, <1>8, <1>11, <3>1
    <2>4. /\ c + Reopened(rcv).finished + Len(stream) + Len(t) <= Len(longer)
          /\ \A j \in 1 .. Len(t) : t[j] = longer[c + Reopened(rcv).finished + Len(stream) + j]
      BY <1>2, <2>2, <2>3
    <2>5. Holds(longer, c, Reopened(rcv), stream \o t) /\ Len(stream \o t) = Len(stream) + Len(t)
      <3>1. c \in Nat /\ longer \in Seq(Byte) /\ t \in Seq(Byte) BY <1>5, <1>8, <1>11
      <3>2. QED BY <2>1, <2>4, <3>1, StreamGrows
    <2>6. QED BY <1>2, <1>11, <2>5
  <1>13. Rest(longer, c)'
    <2>1. Reopened(rcv') = Reopened(rcv) BY <1>3
    <2>2. c + f + (l + n) + (w - n) = a + w BY <1>4, <1>5, <1>6
    <2>3. ASSUME NEW j \in 1 .. w PROVE e[j] = longer[(a + w) - w + j]
      <3>1. (a + w) - w + j = a + j BY <1>4, <1>5
      <3>2. QED BY <1>8, <3>1
    <2>4. snd'.size = w /\ snd'.finished = n /\ snd'.buf = e BY <1>3
    <2>5. Len(stream') = l + n BY <1>3, <1>10, <1>12
    <2>6. QED BY <1>2, <1>8, <2>1, <2>2, <2>3, <2>4, <2>5 DEF Rest
  <1>14. /\ Len(sent') = Len(sent) + 1 /\ sent' \in Seq(Packet)
         /\ \A i \in 1 .. Len(sent) : sent'[i] = sent[i]
    BY <1>3, Measures, AppendProperties
  <1>15. Expects(Reopened(rcv))'
    <2>1. CASE Reopened(rcv).size = 0 BY <1>1, <1>3, <2>1 DEF Expects
    <2>2. CASE Reopened(rcv).size # 0
      <3>1. /\ HeaderSize <= Reopened(rcv).finished
            /\ Reopened(rcv).finished < Reopened(rcv).size /\ Len(got) < Len(sent)
            /\ Reopened(rcv).size = Whole(sent[Len(got) + 1])
        BY <1>1, <2>2 DEF Expects
      <3>2. Len(got) + 1 \in 1 .. Len(sent) /\ Len(got) < Len(sent) + 1 BY <1>5, <3>1
      <3>3. sent'[Len(got) + 1] = sent[Len(got) + 1] BY <1>14, <3>2
      <3>4. QED BY <1>3, <1>14, <2>2, <3>1, <3>2, <3>3 DEF Expects
    <2>3. QED BY <2>1, <2>2
  <1>16. PackInv'
    <2>1. Len(got') <= Len(sent') /\ \A i \in 1 .. Len(got') : got'[i] = sent'[i]
      <3>1. \A i \in 1 .. Len(got) : i \in 1 .. Len(sent) /\ got[i] = sent[i]
        BY <1>5 DEF IInv, PackInv
      <3>2. Len(got) <= Len(sent) + 1 BY <1>5
      <3>3. QED BY <1>3, <1>14, <3>1, <3>2
    <2>2. Holds(longer, ends[Len(got)], Reopened(rcv), stream)'
      <3>1. stream' = stream \o t BY <1>3, <1>10
      <3>2. QED BY <1>3, <1>9, <1>12, <3>1 DEF Holds
    <2>3. (~ended => Rest(longer, ends[Len(got)]))' BY <1>3, <1>9, <1>13 DEF Rest
    <2>4. QED BY <1>7, <1>15, <2>1, <2>2, <2>3 DEF PackInv
  <1>17. snd' \in Buffer /\ snd'.size <= Len(snd'.buf)
    BY <1>3, <1>4, <1>5 DEF Buffer
  <1>18. TypeOK'
    <2>1. /\ rcv.buf \in Seq(Byte) /\ rcv.size \in {0} \cup HeaderSize .. HeaderSize + MaxBody
          /\ rcv.finished \in 0 .. HeaderSize + MaxBody
          /\ rcv.size # 0 => rcv.finished \in HeaderSize .. rcv.size
          /\ rcv.size = 0 => rcv.finished < HeaderSize
          /\ ended \in BOOLEAN /\ closed \in BOOLEAN /\ got \in Seq(Packet)
      BY DEF IInv, TypeOK
    <2>2. stream' \in Seq(Byte) BY <1>3, <1>10, <1>12 DEF Holds
    <2>3. /\ snd'.buf = e /\ snd'.size = w /\ snd'.finished = n BY <1>3
    <2>4. w \in HeaderSize .. HeaderSize + MaxBody BY <1>4, Lengths DEF HeaderSize
    <2>5. QED BY <1>3, <1>4, <1>14, <2>1, <2>2, <2>3, <2>4 DEF TypeOK
  <1>19. ClosedOnlyAtEnd' BY <1>3 DEF IInv, ClosedOnlyAtEnd
  <1>20. QED BY <1>3, <1>16, <1>17, <1>18, <1>19 DEF IInv

LEMMA TryAgainKeeps ==
    ASSUME IInv, NEW n \in 1 .. HeaderSize + MaxBody, trySendToClientAgain(n)
    PROVE  IInv'
  <1>1. PICK all, cut : /\ Framed(all, cut)
                        /\ Holds(all, cut[Len(got)], Reopened(rcv), stream)
                        /\ Expects(Reopened(rcv))
                        /\ ~ended => Rest(all, cut[Len(got)])
    BY DEF IInv, PackInv
  <1>2. PICK c, a, b, f, l, F, S : /\ c = cut[Len(got)] /\ a = Len(all) /\ b = snd.buf
                              /\ f = Reopened(rcv).finished /\ l = Len(stream)
                              /\ F = snd.finished /\ S = snd.size
    OBVIOUS
  <1>3. /\ ~ended /\ n <= S - F
        /\ snd' = AfterSending(n) /\ stream' = stream \o SubSeq(b, F + 1, F + n)
        /\ rcv' = rcv /\ ended' = ended /\ closed' = closed /\ got' = got /\ sent' = sent
    BY <1>2 DEF trySendToClientAgain
  <1>4. /\ f \in Nat /\ l \in Nat /\ a \in Nat /\ all \in Seq(Byte) /\ c \in Nat
        /\ F \in Nat /\ S \in Nat /\ F <= S /\ b \in Seq(Byte) /\ S <= Len(b)
        /\ Len(b) \in Nat /\ n \in Nat /\ n >= 1
    <2>1. Len(got) \in 0 .. Len(sent)
      BY Measures DEF IInv, PackInv
    <2>2. c \in Nat BY <1>1, <1>2, <2>1 DEF Framed
    <2>3. all \in Seq(Byte) BY <1>1 DEF Framed
    <2>4. n \in Nat /\ n >= 1 BY Lengths DEF HeaderSize
    <2>5. QED BY <1>2, <2>2, <2>3, <2>4, Measures, LenProperties
  <1>5. /\ c + f + l + (S - F) = a
        /\ \A j \in 1 .. S : j > F => b[j] = all[a - S + j]
    BY <1>1, <1>2, <1>3 DEF Rest
  <1>6. PICK t : t = SubSeq(b, F + 1, F + n) OBVIOUS
  <1>7. t \in Seq(Byte) /\ Len(t) = n /\ \A j \in 1 .. n : t[j] = b[F + j]
    <2>1. PICK x, y : x = F + 1 /\ y = F + n OBVIOUS
    <2>2. x \in Int /\ y \in Int /\ \A i \in x .. y : b[i] \in Byte
      <3>1. x \in Int /\ y \in Int BY <1>4, <2>1
      <3>2. \A i \in x .. y : i \in 1 .. Len(b) BY <1>3, <1>4, <2>1
      <3>3. QED BY <1>4, <3>1, <3>2, ElementOfSeq
    <2>3. /\ SubSeq(b, x, y) \in Seq(Byte)
          /\ Len(SubSeq(b, x, y)) = IF x <= y THEN y - x + 1 ELSE 0
          /\ \A i \in 1 .. y - x + 1 : SubSeq(b, x, y)[i] = b[x + i - 1]
      BY <2>2, SubSeqProperties
    <2>4. /\ y - x + 1 = n /\ x <= y
          /\ \A i \in 1 .. n : x + i - 1 = F + i
      BY <1>4, <2>1
    <2>5. QED BY <1>6, <2>1, <2>3, <2>4
  <1>8. Holds(all, c, Reopened(rcv), stream \o t) /\ Len(stream \o t) = l + n
    <2>1. Holds(all, c, Reopened(rcv), stream) BY <1>1, <1>2
    <2>2. c + f + l + n <= a BY <1>3, <1>4, <1>5
    <2>3. ASSUME NEW j \in 1 .. n PROVE t[j] = all[c + f + l + j]
      <3>1. F + j \in 1 .. S /\ F + j > F /\ a - S + (F + j) = c + f + l + j
        BY <1>3, <1>4, <1>5
      <3>2. b[F + j] = all[a - S + (F + j)] BY <1>5, <3>1
      <3>3. QED BY <1>7, <3>1, <3>2
    <2>4. /\ c + Reopened(rcv).finished + Len(stream) + Len(t) <= Len(all)
          /\ \A j \in 1 .. Len(t) : t[j] = all[c + Reopened(rcv).finished + Len(stream) + j]
      BY <1>2, <1>7, <2>2, <2>3
    <2>5. Holds(all, c, Reopened(rcv), stream \o t) /\ Len(stream \o t) = Len(stream) + Len(t)
      <3>1. c \in Nat /\ all \in Seq(Byte) /\ t \in Seq(Byte) BY <1>4, <1>7
      <3>2. QED BY <2>1, <2>4, <3>1, StreamGrows
    <2>6. QED BY <1>2, <1>7, <2>5
  <1>9. /\ snd' \in Buffer /\ snd'.buf = b /\ snd'.size \in {0, S}
        /\ snd'.finished \in Nat /\ snd'.finished <= snd'.size
        /\ \/ snd'.size = 0 /\ snd'.finished = 0 /\ F + n = S
           \/ snd'.size = S /\ snd'.finished = F + n
    <2>1. snd = [buf |-> b, finished |-> F, size |-> S] BY <1>2 DEF IInv, Buffer
    <2>2. CASE F + n = S
      <3>1. snd' = [snd EXCEPT !.finished = 0, !.size = 0]
        BY <1>2, <1>3, <2>2 DEF AfterSending
      <3>2. snd' = [buf |-> b, finished |-> 0, size |-> 0] BY <2>1, <3>1
      <3>3. QED BY <1>4, <2>2, <3>2 DEF Buffer
    <2>3. CASE F + n # S
      <3>1. snd' = [snd EXCEPT !.finished = F + n] BY <1>2, <1>3, <2>3 DEF AfterSending
      <3>2. snd' = [buf |-> b, finished |-> F + n, size |-> S] BY <2>1, <3>1
      <3>3. F + n \in Nat /\ F + n <= S BY <1>3, <1>4
      <3>4. QED BY <1>4, <3>2, <3>3 DEF Buffer
    <2>4. QED BY <2>2, <2>3
  <1>10. Rest(all, c)'
    <2>1. Reopened(rcv') = Reopened(rcv) /\ Len(stream') = l + n BY <1>3, <1>6, <1>8
    <2>2. c + f + (l + n) + (snd'.size - snd'.finished) = a
      <3>1. CASE snd'.size = 0 /\ snd'.finished = 0 /\ F + n = S
        <4>1. c + f + (l + n) + (0 - 0) = a BY <1>4, <1>5, <3>1
        <4>2. QED BY <3>1, <4>1
      <3>2. CASE snd'.size = S /\ snd'.finished = F + n
        <4>1. c + f + (l + n) + (S - (F + n)) = a BY <1>4, <1>5
        <4>2. QED BY <3>2, <4>1
      <3>3. QED BY <1>9, <3>1, <3>2
    <2>3. ASSUME NEW j \in 1 .. snd'.size, j > snd'.finished
          PROVE  snd'.buf[j] = all[a - snd'.size + j]
      <3>1. snd'.size = S /\ snd'.finished = F + n BY <1>9, <2>3
      <3>2. j \in 1 .. S /\ j > F BY <1>4, <2>3, <3>1
      <3>3. QED BY <1>5, <1>9, <3>1, <3>2
    <2>4. QED BY <1>2, <2>1, <2>2, <2>3 DEF Rest
  <1>11. PackInv'
    <2>1. Len(got') <= Len(sent') /\ \A i \in 1 .. Len(got') : got'[i] = sent'[i]
      BY <1>3 DEF IInv, PackInv
    <2>2. Holds(all, cut[Len(got)], Reopened(rcv), stream)'
      <3>1. stream' = stream \o t BY <1>3, <1>6
      <3>2. QED BY <1>2, <1>3, <1>8, <3>1 DEF Holds
    <2>3. (~ended => Rest(all, cut[Len(got)]))' BY <1>2, <1>3, <1>10 DEF Rest
    <2>4. Framed(all, cut)' BY <1>1, <1>3 DEF Framed
    <2>5. Expects(Reopened(rcv))' BY <1>1, <1>3 DEF Expects
    <2>6. QED BY <2>1, <2>2, <2>3, <2>4, <2>5 DEF PackInv
  <1>12. TypeOK'
    <2>1. /\ rcv.buf \in Seq(Byte) /\ rcv.size \in {0} \cup HeaderSize .. HeaderSize + MaxBody
          /\ rcv.finished \in 0 .. HeaderSize + MaxBody
          /\ rcv.size # 0 => rcv.finished \in HeaderSize .. rcv.size
          /\ rcv.size = 0 => rcv.finished < HeaderSize
          /\ ended \in BOOLEAN /\ closed \in BOOLEAN /\ got \in Seq(Packet)
          /\ sent \in Seq(Packet)
          /\ S \in {0} \cup HeaderSize .. HeaderSize + MaxBody
      BY <1>2 DEF IInv, TypeOK
    <2>2. stream' \in Seq(Byte) BY <1>3, <1>6, <1>8 DEF Holds
    <2>3. snd'.size \in {0} \cup HeaderSize .. HeaderSize + MaxBody BY <1>9, <2>1
    <2>4. snd'.finished \in 0 .. HeaderSize + MaxBody
      BY <1>4, <1>9, <2>1, Lengths DEF HeaderSize
    <2>5. QED BY <1>3, <1>4, <1>9, <2>1, <2>2, <2>3, <2>4 DEF TypeOK
  <1>13. ClosedOnlyAtEnd' BY <1>3 DEF IInv, ClosedOnlyAtEnd
  <1>14. rcv' \in Buffer /\ snd'.size <= Len(snd'.buf) BY <1>3, <1>4, <1>9 DEF IInv
  <1>15. QED BY <1>9, <1>11, <1>12, <1>13, <1>14 DEF IInv

LEMMA PeerEndsKeeps ==
    ASSUME IInv, NEW kept \in 0 .. MaxPackets * (HeaderSize + MaxBody), PeerEnds(kept)
    PROVE  IInv'
  <1>1. PICK all, cut : /\ Framed(all, cut)
                        /\ Holds(all, cut[Len(got)], Reopened(rcv), stream)
                        /\ Expects(Reopened(rcv))
    BY DEF IInv, PackInv
  <1>2. /\ ~ended /\ ended' = TRUE /\ kept <= Len(stream)
        /\ stream' = SubSeq(stream, 1, kept)
        /\ snd' = snd /\ rcv' = rcv /\ closed' = closed /\ sent' = sent /\ got' = got
    BY DEF PeerEnds
  <1>3. kept \in Nat
    <2>1. PICK m : m = MaxPackets * (HeaderSize + MaxBody) OBVIOUS
    <2>2. m \in Int
      <3>1. MaxPackets \in Int /\ HeaderSize + MaxBody \in Int
        BY PackAssumption, Lengths DEF PackAssumption, HeaderSize
      <3>2. QED BY <2>1, <3>1
    <2>3. kept \in 0 .. m BY <2>1
    <2>4. QED BY <2>2, <2>3
  <1>4. /\ stream' \in Seq(Byte) /\ Len(stream') = kept
        /\ \A j \in 1 .. kept : stream'[j] = stream[j]
    <2>1. \A i \in 1 .. kept : stream[i] \in Byte
      <3>1. \A i \in 1 .. kept : i \in 1 .. Len(stream) BY <1>2, <1>3, Measures
      <3>2. QED BY <3>1, ElementOfSeq, Measures
    <2>2. /\ SubSeq(stream, 1, kept) \in Seq(Byte)
          /\ Len(SubSeq(stream, 1, kept)) = IF 1 <= kept THEN kept - 1 + 1 ELSE 0
          /\ \A i \in 1 .. kept - 1 + 1 : SubSeq(stream, 1, kept)[i] = stream[1 + i - 1]
      BY <1>3, <2>1, SubSeqProperties
    <2>3. kept - 1 + 1 = kept /\ (1 <= kept \/ kept = 0)
          /\ \A i \in 1 .. kept : 1 + i - 1 = i
      BY <1>3
    <2>4. QED BY <1>2, <2>2, <2>3
  <1>5. Holds(all, cut[Len(got)], Reopened(rcv), stream)'
    <2>1. PICK c, p, l, f : /\ c = cut[Len(got)] /\ p = Reopened(rcv) /\ l = Len(stream)
                            /\ f = p.finished
      OBVIOUS
    <2>2. Holds(all, c, p, stream) /\ l \in Nat BY <1>1, <2>1, Measures
    <2>3. c + f + kept <= Len(all)
      <3>1. Len(got) \in 0 .. Len(sent)
        BY Measures DEF IInv, PackInv
      <3>2. c \in Nat /\ all \in Seq(Byte) BY <1>1, <2>1, <3>1 DEF Framed
      <3>3. f \in Nat /\ Len(all) \in Nat BY <2>1, <3>2, Measures, LenProperties
      <3>4. c + f + l <= Len(all) /\ kept <= l BY <1>2, <2>1, <2>2 DEF Holds
      <3>5. QED BY <1>3, <2>2, <3>2, <3>3, <3>4
    <2>4. \A j \in 1 .. kept : j \in 1 .. l BY <1>2, <1>3, <2>1, <2>2
    <2>5. Holds(all, c, p, stream') BY <1>4, <2>1, <2>2, <2>3, <2>4 DEF Holds
    <2>6. QED BY <1>2, <2>1, <2>5 DEF Holds
  <1>6. PackInv'
    <2>1. Len(got') <= Len(sent') /\ \A i \in 1 .. Len(got') : got'[i] = sent'[i]
      BY <1>2 DEF IInv, PackInv
    <2>2. Framed(all, cut)' BY <1>1, <1>2 DEF Framed
    <2>3. Expects(Reopened(rcv))' BY <1>1, <1>2 DEF Expects
    <2>4. QED BY <1>2, <1>5, <2>1, <2>2, <2>3 DEF PackInv
  <1>7. TypeOK' BY <1>2, <1>4 DEF IInv, TypeOK
  <1>8. ClosedOnlyAtEnd' BY <1>2 DEF IInv, ClosedOnlyAtEnd
  <1>9. QED BY <1>2, <1>6, <1>7, <1>8 DEF IInv

-----------------------------------------------------------------------------

LEMMA InitHolds == Init => IInv
  <1>1. SUFFICES ASSUME Init PROVE IInv OBVIOUS
  <1>2. /\ snd = [buf |-> <<>>, finished |-> 0, size |-> 0]
        /\ rcv = [buf |-> <<>>, finished |-> 0, size |-> 0]
        /\ stream = <<>> /\ ended = FALSE /\ closed = FALSE /\ sent = <<>> /\ got = <<>>
    BY <1>1 DEF Init, Empty
  <1>3. <<>> \in Seq(Byte) /\ Len(<<>>) = 0 /\ <<>> \in Seq(Packet) BY EmptySeq
  <1>4. TypeOK /\ snd \in Buffer /\ rcv \in Buffer /\ snd.size <= Len(snd.buf)
        /\ ClosedOnlyAtEnd
    <2>1. \A p \in {snd, rcv} : /\ p.buf = <<>> /\ p.size = 0 /\ p.finished = 0
      BY <1>2
    <2>2. 0 \in {0} \cup HeaderSize .. HeaderSize + MaxBody /\ 0 \in 0 .. HeaderSize + MaxBody
          /\ 0 < HeaderSize
      BY Lengths DEF HeaderSize
    <2>3. snd.finished <= snd.size /\ snd.size <= Len(snd.buf) BY <1>3, <2>1
    <2>4. TypeOK BY <1>2, <1>3, <2>1, <2>2, <2>3 DEF TypeOK
    <2>5. snd \in Buffer /\ rcv \in Buffer BY <1>2, <1>3 DEF Buffer
    <2>6. QED BY <1>2, <2>3, <2>4, <2>5 DEF ClosedOnlyAtEnd
  <1>5. PICK all, cut : all = <<>> /\ cut = [i \in 0 .. 0 |-> 0] OBVIOUS
  <1>6. Reopened(rcv) = rcv BY <1>2 DEF Reopened
  <1>7. cut \in [0 .. 0 -> Nat] /\ cut[0] = 0 BY <1>5
  <1>8. Framed(all, cut)
    <2>1. all \in Seq(Byte) /\ Len(all) = 0 /\ Len(sent) = 0 BY <1>2, <1>3, <1>5
    <2>2. \A i \in 0 .. 0 : cut[i] <= 0 BY <1>7
    <2>3. QED BY <1>7, <2>1, <2>2 DEF Framed
  <1>9. Holds(all, cut[Len(got)], rcv, stream)
    BY <1>2, <1>3, <1>4, <1>5, <1>7 DEF Holds
  <1>10. Rest(all, cut[Len(got)])
    BY <1>2, <1>3, <1>5, <1>6, <1>7 DEF Rest
  <1>11. Expects(rcv) BY <1>2 DEF Expects, HeaderSize
  <1>12. PackInv
    BY <1>2, <1>3, <1>6, <1>8, <1>9, <1>10, <1>11 DEF PackInv
  <1>13. QED BY <1>4, <1>12 DEF IInv

LEMMA NextKeeps == IInv /\ [Next]_vars => IInv'
  <1>1. SUFFICES ASSUME IInv, [Next]_vars PROVE IInv' OBVIOUS
  <1>2. CASE UNCHANGED vars
    <2>1. /\ snd' = snd /\ rcv' = rcv /\ stream' = stream /\ ended' = ended
          /\ closed' = closed /\ sent' = sent /\ got' = got
      BY <1>2 DEF vars
    <2>2. TypeOK' /\ ClosedOnlyAtEnd' /\ snd' \in Buffer /\ rcv' \in Buffer
          /\ snd'.size <= Len(snd'.buf)
      BY <1>1, <2>1 DEF IInv, TypeOK, ClosedOnlyAtEnd
    <2>3. PICK all, cut : /\ Framed(all, cut)
                          /\ Holds(all, cut[Len(got)], Reopened(rcv), stream)
                          /\ Expects(Reopened(rcv))
                          /\ ~ended => Rest(all, cut[Len(got)])
      BY <1>1 DEF IInv, PackInv
    <2>4. Framed(all, cut)' BY <2>1, <2>3 DEF Framed
    <2>5. Holds(all, cut[Len(got)], Reopened(rcv), stream)' BY <2>1, <2>3 DEF Holds
    <2>6. Expects(Reopened(rcv))' BY <2>1, <2>3 DEF Expects
    <2>7. (~ended => Rest(all, cut[Len(got)]))' BY <2>1, <2>3 DEF Rest
    <2>8. Len(got') <= Len(sent') /\ \A i \in 1 .. Len(got') : got'[i] = sent'[i]
      BY <1>1, <2>1 DEF IInv, PackInv
    <2>9. QED BY <2>2, <2>4, <2>5, <2>6, <2>7, <2>8 DEF IInv, PackInv
  <1>3. CASE Next
    BY <1>1, <1>3, SendKeeps, TryAgainKeeps, PeerEndsKeeps, RecvPacketKeeps DEF Next
  <1>4. QED BY <1>1, <1>2, <1>3

\* The buffers of both ends stay within a packet, whatever TCP does.
THEOREM PackTypes == Spec => []TypeOK
  <1>1. IInv => TypeOK BY DEF IInv
  <1>2. QED BY <1>1, InitHolds, NextKeeps, PTL DEF Spec

\* recvPacket reports the end of the connection only when the peer has gone and
\* everything it had sent, as far as it arrived, has been read.
THEOREM EndIsReal == Spec => []ClosedOnlyAtEnd
  <1>1. IInv => ClosedOnlyAtEnd BY DEF IInv
  <1>2. QED BY <1>1, InitHolds, NextKeeps, PTL DEF Spec

-----------------------------------------------------------------------------
(* The channel.                                                            *)

Underway == SubSeq(sent, Len(got) + 1, Len(sent))
LastTaken == IF got = <<>> THEN NoPacket ELSE Last(got)

LEMMA UnderwayIs ==
    ASSUME NEW q \in Seq(Packet), NEW n \in 0 .. Len(q)
    PROVE  /\ SubSeq(q, n + 1, Len(q)) \in Seq(Packet)
           /\ Len(SubSeq(q, n + 1, Len(q))) = Len(q) - n
           /\ \A i \in 1 .. Len(q) - n : SubSeq(q, n + 1, Len(q))[i] = q[n + i]
  <1>1. PICK x, y : x = n + 1 /\ y = Len(q) OBVIOUS
  <1>2. y \in Nat /\ n \in Nat /\ n <= y BY <1>1, LenProperties
  <1>3. x \in Int /\ y \in Int /\ \A i \in x .. y : q[i] \in Packet
    <2>1. \A i \in x .. y : i \in 1 .. Len(q) BY <1>1, <1>2
    <2>2. QED BY <1>1, <1>2, <2>1, ElementOfSeq
  <1>4. /\ SubSeq(q, x, y) \in Seq(Packet)
        /\ Len(SubSeq(q, x, y)) = IF x <= y THEN y - x + 1 ELSE 0
        /\ \A i \in 1 .. y - x + 1 : SubSeq(q, x, y)[i] = q[x + i - 1]
    BY <1>3, SubSeqProperties
  <1>5. /\ y - x + 1 = y - n /\ (x <= y \/ y - n = 0)
        /\ \A i \in 1 .. y - n : x + i - 1 = n + i
    BY <1>1, <1>2
  <1>6. QED BY <1>1, <1>4, <1>5

LEMMA SendPushes ==
    ASSUME sent \in Seq(Packet), Len(got) \in 0 .. Len(sent),
           NEW pk \in Packet, sent' = Append(sent, pk), got' = got
    PROVE  Underway' = Append(Underway, pk) /\ LastTaken' = LastTaken
  <1>1. PICK n, m, q, r : n = Len(got) /\ m = Len(sent) /\ q = Underway /\ r = Underway'
    OBVIOUS
  <1>2. n \in Nat /\ m \in Nat /\ n <= m BY <1>1, LenProperties
  <1>3. /\ sent' \in Seq(Packet) /\ Len(sent') = m + 1
        /\ \A i \in 1 .. m : sent'[i] = sent[i]
        /\ sent'[m + 1] = pk
    BY <1>1, AppendProperties
  <1>4. /\ q \in Seq(Packet) /\ Len(q) = m - n
        /\ \A i \in 1 .. m - n : q[i] = sent[n + i]
    BY <1>1, UnderwayIs DEF Underway
  <1>5. /\ r \in Seq(Packet) /\ Len(r) = (m + 1) - n
        /\ \A i \in 1 .. (m + 1) - n : r[i] = sent'[n + i]
    <2>1. PICK z : z = sent' OBVIOUS
    <2>2. z \in Seq(Packet) /\ Len(z) = m + 1 /\ n \in 0 .. Len(z) BY <1>2, <1>3, <2>1
    <2>3. /\ SubSeq(z, n + 1, Len(z)) \in Seq(Packet)
          /\ Len(SubSeq(z, n + 1, Len(z))) = Len(z) - n
          /\ \A i \in 1 .. Len(z) - n : SubSeq(z, n + 1, Len(z))[i] = z[n + i]
      BY <2>2, UnderwayIs
    <2>4. r = SubSeq(z, n + 1, Len(z)) BY <1>1, <2>1 DEF Underway
    <2>5. QED BY <2>1, <2>2, <2>3, <2>4
  <1>6. /\ Append(q, pk) \in Seq(Packet) /\ Len(Append(q, pk)) = (m - n) + 1
        /\ \A i \in 1 .. m - n : Append(q, pk)[i] = q[i]
        /\ Append(q, pk)[(m - n) + 1] = pk
    BY <1>4, AppendProperties
  <1>7. ASSUME NEW i \in 1 .. (m + 1) - n PROVE r[i] = Append(q, pk)[i]
    <2>1. CASE i = (m - n) + 1
      <3>1. n + i = m + 1 BY <1>2, <2>1
      <3>2. QED BY <1>3, <1>5, <1>6, <2>1, <3>1
    <2>2. CASE i # (m - n) + 1
      <3>1. i \in 1 .. m - n /\ n + i \in 1 .. m BY <1>2, <2>2
      <3>2. QED BY <1>3, <1>4, <1>5, <1>6, <3>1
    <2>3. QED BY <2>1, <2>2
  <1>8. (m + 1) - n = (m - n) + 1 BY <1>2
  <1>9. r = Append(q, pk)
    <2>1. Len(r) = Len(Append(q, pk)) /\ \A i \in 1 .. Len(r) : r[i] = Append(q, pk)[i]
      BY <1>5, <1>6, <1>7, <1>8
    <2>2. QED BY <1>5, <1>6, <2>1, SeqEqual
  <1>10. QED BY <1>1, <1>9 DEF LastTaken, Last

LEMMA TakePops ==
    ASSUME sent \in Seq(Packet), got \in Seq(Packet), Len(got) \in 0 .. Len(sent),
           Len(got) + 1 \in 1 .. Len(sent), sent' = sent,
           got' = Append(got, sent[Len(got) + 1])
    PROVE  /\ Underway # <<>> /\ LastTaken' = Head(Underway)
           /\ Underway' = Tail(Underway)
  <1>1. PICK n, m, q, r : n = Len(got) /\ m = Len(sent) /\ q = Underway /\ r = Underway'
    OBVIOUS
  <1>2. n \in Nat /\ m \in Nat /\ n + 1 <= m BY <1>1, LenProperties
  <1>3. PICK pk : pk = sent[n + 1] OBVIOUS
  <1>4. pk \in Packet BY <1>1, <1>3, ElementOfSeq
  <1>5. got' \in Seq(Packet) /\ Len(got') = n + 1 /\ got'[n + 1] = pk
    BY <1>1, <1>3, <1>4, AppendProperties
  <1>6. /\ q \in Seq(Packet) /\ Len(q) = m - n
        /\ \A i \in 1 .. m - n : q[i] = sent[n + i]
    BY <1>1, UnderwayIs DEF Underway
  <1>7. /\ r \in Seq(Packet) /\ Len(r) = m - (n + 1)
        /\ \A i \in 1 .. m - (n + 1) : r[i] = sent[(n + 1) + i]
    <2>1. PICK k : k = n + 1 OBVIOUS
    <2>2. k \in 0 .. Len(sent) BY <1>1, <1>2, <2>1
    <2>3. r = SubSeq(sent, k + 1, Len(sent)) BY <1>1, <1>5, <2>1 DEF Underway
    <2>4. QED BY <1>1, <2>1, <2>2, <2>3, UnderwayIs
  <1>8. m - n \in Nat /\ m - n >= 1 /\ 1 \in 1 .. m - n BY <1>2
  <1>9. q # <<>> /\ q[1] = pk
    <2>1. q[1] = sent[n + 1] BY <1>6, <1>8
    <2>2. q # <<>>
      <3>1. SUFFICES ASSUME q = <<>> PROVE FALSE OBVIOUS
      <3>2. Len(q) = 0 BY <3>1
      <3>3. QED BY <1>6, <1>8, <3>2
    <2>3. QED BY <1>3, <2>1, <2>2
  <1>10. Tail(q) \in Seq(Packet) /\ Len(Tail(q)) = (m - n) - 1
         /\ \A i \in 1 .. (m - n) - 1 : Tail(q)[i] = q[i + 1]
    BY <1>6, <1>9, HeadTailProperties
  <1>11. (m - n) - 1 = m - (n + 1) BY <1>2
  <1>12. ASSUME NEW i \in 1 .. m - (n + 1) PROVE r[i] = Tail(q)[i]
    <2>1. i + 1 \in 1 .. m - n /\ n + (i + 1) = (n + 1) + i BY <1>2
    <2>2. QED BY <1>6, <1>7, <1>10, <1>11, <2>1
  <1>13. r = Tail(q)
    <2>1. Len(r) = Len(Tail(q)) /\ \A i \in 1 .. Len(r) : r[i] = Tail(q)[i]
      BY <1>7, <1>10, <1>11, <1>12
    <2>2. QED BY <1>7, <1>10, <2>1, SeqEqual
  <1>14. LastTaken' = pk
    <2>1. got' # <<>>
      <3>1. SUFFICES ASSUME got' = <<>> PROVE FALSE OBVIOUS
      <3>2. Len(got') = 0 BY <3>1
      <3>3. QED BY <1>2, <1>5, <3>2
    <2>2. Last(got') = pk BY <1>5 DEF Last
    <2>3. QED BY <2>1, <2>2 DEF LastTaken
  <1>15. Head(q) = pk BY <1>9
  <1>16. QED BY <1>1, <1>9, <1>13, <1>14, <1>15

\* However TCP cuts the stream, recvPacket returns the packets that were sent,
\* whole, once and in order: a connection implements Fifo.
THEOREM PacketsAreChannel == Spec => IsChannel
  <1>1. Init => Channel!Init
    <2>1. SUFFICES ASSUME Init PROVE Underway = <<>> /\ LastTaken = NoPacket
      BY DEF Channel!Init, Underway, LastTaken
    <2>2. sent = <<>> /\ got = <<>> BY <2>1 DEF Init
    <2>3. sent \in Seq(Packet) /\ Len(sent) = 0 /\ Len(got) = 0 BY <2>2, EmptySeq
    <2>4. Underway \in Seq(Packet) /\ Len(Underway) = 0
      <3>1. Len(got) \in 0 .. Len(sent) /\ Len(sent) - Len(got) = 0 BY <2>3
      <3>2. QED BY <2>3, <3>1, UnderwayIs DEF Underway
    <2>5. QED BY <2>2, <2>4, EmptySeq DEF LastTaken
  <1>2. IInv /\ [Next]_vars => [Channel!Next]_<<Underway, LastTaken>>
    <2>1. SUFFICES ASSUME IInv, [Next]_vars
                   PROVE  [Channel!Next]_<<Underway, LastTaken>>
      OBVIOUS
    <2>2. sent \in Seq(Packet) /\ got \in Seq(Packet) /\ Len(got) \in 0 .. Len(sent)
      BY <2>1, Measures DEF IInv, PackInv
    <2>3. ASSUME NEW pk \in Packet, NEW n \in 0 .. HeaderSize + MaxBody, sendPacket(pk, n)
          PROVE  Channel!Push
      <3>1. sent' = Append(sent, pk) /\ got' = got BY <2>3 DEF sendPacket
      <3>2. Underway' = Append(Underway, pk) /\ LastTaken' = LastTaken
        BY <2>2, <3>1, SendPushes
      <3>3. QED BY <3>2 DEF Channel!Push, Underway, LastTaken
    <2>4. ASSUME recvPacket PROVE Channel!Pop \/ UNCHANGED <<Underway, LastTaken>>
      <3>1. sent' = sent BY <2>4 DEF recvPacket, Returns
      <3>2. Takes BY <2>1, <2>4, RecvPacketKeeps
      <3>3. CASE got' = got BY <3>1, <3>3 DEF Underway, LastTaken, Last
      <3>4. CASE Len(got) + 1 \in 1 .. Len(sent) /\ got' = Append(got, sent[Len(got) + 1])
        <4>1. /\ Underway # <<>> /\ LastTaken' = Head(Underway)
              /\ Underway' = Tail(Underway)
          BY <2>2, <3>1, <3>4, TakePops
        <4>2. QED BY <4>1 DEF Channel!Pop, Underway, LastTaken
      <3>5. QED BY <3>2, <3>3, <3>4 DEF Takes
    <2>5. ASSUME sent' = sent /\ got' = got PROVE UNCHANGED <<Underway, LastTaken>>
      BY <2>5 DEF Underway, LastTaken, Last
    <2>6. CASE UNCHANGED vars BY <2>5, <2>6 DEF vars
    <2>7. CASE Next
      <3>1. CASE \E pk \in Packet, n \in 0 .. HeaderSize + MaxBody : sendPacket(pk, n)
        BY <2>3, <3>1 DEF Channel!Next
      <3>2. CASE \E n \in 1 .. HeaderSize + MaxBody : trySendToClientAgain(n)
        BY <2>5, <3>2 DEF trySendToClientAgain
      <3>3. CASE \E kept \in 0 .. MaxPackets * (HeaderSize + MaxBody) : PeerEnds(kept)
        BY <2>5, <3>3 DEF PeerEnds
      <3>4. CASE recvPacket BY <2>4, <3>4 DEF Channel!Next
      <3>5. QED BY <2>7, <3>1, <3>2, <3>3, <3>4 DEF Next
    <2>8. QED BY <2>1, <2>6, <2>7
  <1>3. QED BY <1>1, <1>2, InitHolds, NextKeeps, PTL
        DEF Spec, IsChannel, Channel!Spec, Underway, LastTaken
=============================================================================
