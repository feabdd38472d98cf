--------------------------- MODULE FramingProofs ---------------------------
(***************************************************************************)
(* The lines of the chat of 1/, for all bytes a line may be made of and    *)
(* every initial capacity of the buffer: however TCP cuts the stream, the  *)
(* server (L, LineBuffer) hands out and the client (C, ChatClient) shows   *)
(* every line whole, once and in order, and the server never sleeps on a   *)
(* complete line.                                                          *)
(*                                                                         *)
(* Both invariants say the same of the bytes that were sent and not handed *)
(* out yet.  Some are in the program's buffer and the others in the        *)
(* stream, and together they are the lines that are to come, laid end to   *)
(* end, and then the line that is not complete.                            *)
(***************************************************************************)
EXTENDS MCFraming, SequenceTheorems, Induction

\* The bytes are the lines ls, one behind the other, and then t; pos[k] is where
\* line k ends.
LaidAt(pos, bytes, ls, t) ==
    /\ pos \in [0 .. Len(ls) -> Nat] /\ pos[0] = 0
    /\ \A k, m \in 0 .. Len(ls) : k <= m => pos[k] <= pos[m]
    /\ Len(bytes) = pos[Len(ls)] + Len(t)
    /\ \A k \in 1 .. Len(ls) :
          /\ pos[k] = pos[k - 1] + Len(ls[k])
          /\ \A j \in 1 .. Len(ls[k]) : bytes[pos[k - 1] + j] = ls[k][j]
    /\ \A j \in 1 .. Len(t) : bytes[pos[Len(ls)] + j] = t[j]

Laid(bytes, ls, t) == \E pos : LaidAt(pos, bytes, ls, t)

\* The bytes are d behind position c and then s.
Holds(bytes, c, d, s) ==
    /\ c \in 0 .. Len(d)
    /\ Len(bytes) = Len(d) - c + Len(s)
    /\ \A j \in 1 .. Len(d) - c : bytes[j] = d[c + j]
    /\ \A j \in 1 .. Len(s) : bytes[Len(d) - c + j] = s[j]

\* Lines of letters of A.
LinesOf(A) == {Append(text, Newline) : text \in Seq(A)}

Typing(A, bytes, ls, t) ==
    /\ bytes \in Seq(A \cup {Newline}) /\ ls \in Seq(LinesOf(A)) /\ t \in Seq(A)

-----------------------------------------------------------------------------
\* Lines end to end.

LEMMA Within ==
    ASSUME NEW p \in Nat, NEW q \in Nat, NEW len \in Nat, NEW total \in Nat,
           q = p + len, q <= total, NEW j \in 1 .. len
    PROVE  p + j \in 1 .. total
  OBVIOUS

LEMMA OneMore ==
    ASSUME NEW x \in Nat, NEW y \in Nat, NEW z \in Nat, x = y + z PROVE x + 1 = y + (z + 1)
  OBVIOUS

LEMMA Behind ==
    ASSUME NEW n \in Nat, NEW p \in Nat, n <= p, NEW len \in Nat, NEW total \in Nat,
           p + len <= total, NEW j \in 1 .. len
    PROVE  (p - n) + j \in 1 .. total - n /\ n + ((p - n) + j) = p + j
  OBVIOUS

\* The parts of a sequence before and behind place n.
LEMMA CutAt ==
    ASSUME NEW X, NEW s \in Seq(X), NEW n \in 0 .. Len(s)
    PROVE  /\ SubSeq(s, 1, n) \in Seq(X) /\ Len(SubSeq(s, 1, n)) = n
           /\ \A j \in 1 .. n : SubSeq(s, 1, n)[j] = s[j]
           /\ SubSeq(s, n + 1, Len(s)) \in Seq(X) /\ Len(SubSeq(s, n + 1, Len(s))) = Len(s) - n
           /\ \A j \in 1 .. Len(s) - n : SubSeq(s, n + 1, Len(s))[j] = s[n + j]
  <1>1. PICK u, v : u = SubSeq(s, 1, n) /\ v = SubSeq(s, n + 1, Len(s))
    OBVIOUS
  <1>2. u \in Seq(X) /\ Len(u) = n /\ \A j \in 1 .. n : u[j] = s[j]
    BY <1>1
  <1>3. v \in Seq(X) /\ Len(v) = Len(s) - n
    BY <1>1
  <1>4. \A j \in 1 .. Len(s) - n : v[j] = s[n + j]
    BY <1>1
  <1> QED
    BY <1>1, <1>2, <1>3, <1>4

LEMMA LineFacts ==
    ASSUME NEW A, Newline \notin A, NEW l \in LinesOf(A)
    PROVE  /\ l \in Seq(A \cup {Newline}) /\ Len(l) \in Nat \ {0}
           /\ l[Len(l)] = Newline
           /\ \A j \in 1 .. Len(l) - 1 : l[j] \in A /\ l[j] # Newline
  <1>1. PICK text \in Seq(A) : l = Append(text, Newline)
    BY DEF LinesOf
  <1>2. /\ Len(l) = Len(text) + 1 /\ Len(text) \in Nat
        /\ l[Len(text) + 1] = Newline
        /\ \A j \in 1 .. Len(text) : l[j] = text[j]
    BY <1>1
  <1>3. l \in Seq(A \cup {Newline})
    <2>1. text \in Seq(A \cup {Newline}) /\ Newline \in A \cup {Newline}
      OBVIOUS
    <2> QED
      BY <1>1, <2>1, AppendProperties
  <1>4. \A j \in 1 .. Len(text) : text[j] \in A
    OBVIOUS
  <1> QED
    BY <1>2, <1>3, <1>4

LEMMA Positions ==
    ASSUME NEW A, NEW bytes, NEW ls, NEW t, Typing(A, bytes, ls, t),
           NEW pos, LaidAt(pos, bytes, ls, t)
    PROVE  /\ Len(ls) \in Nat /\ Len(t) \in Nat /\ Len(bytes) \in Nat /\ pos[Len(ls)] \in Nat
           /\ \A k \in 1 .. Len(ls) :
                 /\ k - 1 \in 0 .. Len(ls) /\ k \in 0 .. Len(ls)
                 /\ pos[k - 1] \in Nat /\ pos[k] \in Nat /\ Len(ls[k]) \in Nat
                 /\ pos[k] <= pos[Len(ls)] /\ pos[k] <= Len(bytes)
  <1>1. Len(ls) \in Nat /\ Len(t) \in Nat /\ Len(bytes) \in Nat
    BY DEF Typing
  <1>2. Len(ls) \in 0 .. Len(ls)
    BY <1>1
  <1>3. pos[Len(ls)] \in Nat
    BY <1>2 DEF LaidAt
  <1>4. ASSUME NEW k \in 1 .. Len(ls)
        PROVE  /\ k - 1 \in 0 .. Len(ls) /\ k \in 0 .. Len(ls)
               /\ pos[k - 1] \in Nat /\ pos[k] \in Nat /\ Len(ls[k]) \in Nat
               /\ pos[k] <= pos[Len(ls)] /\ pos[k] <= Len(bytes)
    <2>1. k - 1 \in 0 .. Len(ls) /\ k \in 0 .. Len(ls) /\ k <= Len(ls)
      BY <1>1
    <2>2. pos[k - 1] \in Nat /\ pos[k] \in Nat
      BY <2>1 DEF LaidAt
    <2>3. pos[k] <= pos[Len(ls)]
      BY <1>2, <2>1 DEF LaidAt
    <2>4. Len(bytes) = pos[Len(ls)] + Len(t)
      BY DEF LaidAt
    <2>5. pos[k] <= Len(bytes)
      BY <1>1, <1>3, <2>2, <2>3, <2>4
    <2>6. ls[k] \in LinesOf(A)
      BY <1>1 DEF Typing
    <2>7. Len(ls[k]) \in Nat
      BY <2>6 DEF LinesOf
    <2> QED
      BY <2>1, <2>2, <2>3, <2>5, <2>7
  <1> QED
    BY <1>1, <1>3, <1>4

\* One byte more, of a line that goes on ...
LEMMA LaidLetter ==
    ASSUME NEW A, NEW bytes, NEW ls, NEW t, Typing(A, bytes, ls, t), Laid(bytes, ls, t), NEW x \in A
    PROVE  /\ Typing(A, Append(bytes, x), ls, Append(t, x))
           /\ Laid(Append(bytes, x), ls, Append(t, x))
  <1>1. bytes \in Seq(A \cup {Newline}) /\ ls \in Seq(LinesOf(A)) /\ t \in Seq(A)
    BY DEF Typing
  <1>2. PICK pos : LaidAt(pos, bytes, ls, t)
    BY DEF Laid
  <1>3. PICK b2, t2 : b2 = Append(bytes, x) /\ t2 = Append(t, x)
    OBVIOUS
  <1>4. /\ Len(b2) = Len(bytes) + 1 /\ b2[Len(bytes) + 1] = x /\ b2 \in Seq(A \cup {Newline})
        /\ \A j \in 1 .. Len(bytes) : b2[j] = bytes[j]
    BY <1>1, <1>3
  <1>5. /\ Len(t2) = Len(t) + 1 /\ t2[Len(t) + 1] = x /\ t2 \in Seq(A)
        /\ \A j \in 1 .. Len(t) : t2[j] = t[j]
    BY <1>1, <1>3
  <1>6. /\ Len(ls) \in Nat /\ Len(t) \in Nat /\ Len(bytes) \in Nat /\ pos[Len(ls)] \in Nat
        /\ Len(bytes) = pos[Len(ls)] + Len(t)
    BY <1>2, Positions DEF LaidAt
  <1>7. ASSUME NEW k \in 1 .. Len(ls), NEW j \in 1 .. Len(ls[k])
        PROVE  b2[pos[k - 1] + j] = ls[k][j]
    <2>1. pos[k - 1] \in Nat /\ pos[k] \in Nat /\ Len(ls[k]) \in Nat /\ pos[k] <= Len(bytes)
      BY <1>2, Positions
    <2>2. pos[k] = pos[k - 1] + Len(ls[k]) /\ bytes[pos[k - 1] + j] = ls[k][j]
      BY <1>2 DEF LaidAt
    <2>3. pos[k - 1] + j \in 1 .. Len(bytes)
      <3>1. pos[k] = pos[k - 1] + Len(ls[k]) /\ Len(bytes) \in Nat
        BY <1>6, <2>2
      <3> QED
        BY <2>1, <3>1, Within
    <2> QED
      BY <1>4, <2>2, <2>3
  <1>8. ASSUME NEW j \in 1 .. Len(t2) PROVE b2[pos[Len(ls)] + j] = t2[j]
    <2>1. CASE j = Len(t) + 1
      <3>1. pos[Len(ls)] + j = Len(bytes) + 1
        BY <1>6, <2>1
      <3> QED
        BY <1>4, <1>5, <2>1, <3>1
    <2>2. CASE j # Len(t) + 1
      <3>1. j \in 1 .. Len(t) /\ pos[Len(ls)] + j \in 1 .. Len(bytes)
        BY <1>5, <1>6, <2>2
      <3>2. bytes[pos[Len(ls)] + j] = t[j]
        BY <1>2, <3>1 DEF LaidAt
      <3> QED
        BY <1>4, <1>5, <3>1, <3>2
    <2> QED
      BY <2>1, <2>2
  <1>9. Len(b2) = pos[Len(ls)] + Len(t2)
    <2>1. Len(b2) = Len(bytes) + 1 /\ Len(t2) = Len(t) + 1
      BY <1>4, <1>5
    <2> QED
      BY <1>6, <2>1, OneMore
  <1>10. LaidAt(pos, b2, ls, t2)
    BY <1>2, <1>7, <1>8, <1>9 DEF LaidAt
  <1> QED
    BY <1>1, <1>3, <1>4, <1>5, <1>10 DEF Typing, Laid

\* ... or the end of a line.
LEMMA LaidNewline ==
    ASSUME NEW A, NEW bytes, NEW ls, NEW t, Typing(A, bytes, ls, t), Laid(bytes, ls, t)
    PROVE  /\ Typing(A, Append(bytes, Newline), Append(ls, Append(t, Newline)), <<>>)
           /\ Laid(Append(bytes, Newline), Append(ls, Append(t, Newline)), <<>>)
  <1>1. bytes \in Seq(A \cup {Newline}) /\ ls \in Seq(LinesOf(A)) /\ t \in Seq(A)
    BY DEF Typing
  <1>2. PICK pos : LaidAt(pos, bytes, ls, t)
    BY DEF Laid
  <1>3. PICK b2, l, ls2 : b2 = Append(bytes, Newline) /\ l = Append(t, Newline) /\ ls2 = Append(ls, l)
    OBVIOUS
  <1>4. /\ Len(b2) = Len(bytes) + 1 /\ b2[Len(bytes) + 1] = Newline /\ b2 \in Seq(A \cup {Newline})
        /\ \A j \in 1 .. Len(bytes) : b2[j] = bytes[j]
    BY <1>1, <1>3
  <1>5. /\ Len(l) = Len(t) + 1 /\ l[Len(t) + 1] = Newline /\ l \in LinesOf(A)
        /\ \A j \in 1 .. Len(t) : l[j] = t[j]
    BY <1>1, <1>3 DEF LinesOf
  <1>6. /\ Len(ls) \in Nat /\ Len(t) \in Nat /\ Len(bytes) \in Nat /\ pos[Len(ls)] \in Nat
        /\ Len(bytes) = pos[Len(ls)] + Len(t)
    BY <1>2, Positions DEF LaidAt
  <1>7. /\ Len(ls2) = Len(ls) + 1 /\ ls2[Len(ls) + 1] = l /\ ls2 \in Seq(LinesOf(A))
        /\ \A k \in 1 .. Len(ls) : ls2[k] = ls[k]
    BY <1>1, <1>3, <1>5
  <1>8. PICK pos2 : pos2 = [k \in 0 .. Len(ls2) |-> IF k <= Len(ls) THEN pos[k] ELSE Len(b2)]
    OBVIOUS
  <1>9. /\ \A k \in 0 .. Len(ls) : pos2[k] = pos[k] /\ pos[k] \in Nat /\ pos[k] <= Len(b2)
        /\ pos2[Len(ls) + 1] = Len(b2) /\ pos2[Len(ls)] = pos[Len(ls)] /\ Len(b2) \in Nat
    <2>1. ASSUME NEW k \in 0 .. Len(ls) PROVE pos2[k] = pos[k] /\ pos[k] \in Nat /\ pos[k] <= Len(b2)
      <3>1. k \in 0 .. Len(ls2) /\ k <= Len(ls) /\ Len(ls) \in 0 .. Len(ls)
        BY <1>6, <1>7
      <3>2. pos[k] \in Nat /\ pos[k] <= pos[Len(ls)]
        BY <1>2, <3>1 DEF LaidAt
      <3> QED
        BY <1>4, <1>6, <1>8, <3>1, <3>2
    <2>2. Len(ls) + 1 \in 0 .. Len(ls2) /\ ~(Len(ls) + 1 <= Len(ls)) /\ Len(ls) \in 0 .. Len(ls)
      BY <1>6, <1>7
    <2>3. pos2[Len(ls) + 1] = Len(b2) /\ pos2[Len(ls)] = pos[Len(ls)]
      BY <1>8, <2>1, <2>2
    <2>4. Len(b2) = Len(bytes) + 1
      BY <1>4
    <2> QED
      BY <1>6, <2>1, <2>3, <2>4
  <1>10. pos2 \in [0 .. Len(ls2) -> Nat] /\ pos2[0] = 0
    <2>1. \A k \in 0 .. Len(ls2) : k <= Len(ls) => k \in 0 .. Len(ls)
      BY <1>6, <1>7
    <2>2. 0 \in 0 .. Len(ls)
      BY <1>6
    <2> QED
      BY <1>2, <1>8, <1>9, <2>1, <2>2 DEF LaidAt
  <1>11. ASSUME NEW k \in 0 .. Len(ls2), NEW m \in 0 .. Len(ls2), k <= m PROVE pos2[k] <= pos2[m]
    <2>1. CASE m <= Len(ls)
      <3>1. k \in 0 .. Len(ls) /\ m \in 0 .. Len(ls)
        BY <1>6, <1>11, <2>1
      <3> QED
        BY <1>2, <1>9, <1>11, <3>1 DEF LaidAt
    <2>2. CASE ~(m <= Len(ls))
      <3>1. m = Len(ls) + 1
        BY <1>6, <1>7, <2>2
      <3>2. k \in 0 .. Len(ls) \/ k = Len(ls) + 1
        BY <1>6, <1>7
      <3> QED
        BY <1>9, <3>1, <3>2
    <2> QED
      BY <2>1, <2>2
  <1>12. ASSUME NEW k \in 1 .. Len(ls2)
         PROVE  /\ pos2[k] = pos2[k - 1] + Len(ls2[k])
                /\ \A j \in 1 .. Len(ls2[k]) : b2[pos2[k - 1] + j] = ls2[k][j]
    <2>1. CASE k <= Len(ls)
      <3>1. k \in 1 .. Len(ls) /\ k \in 0 .. Len(ls) /\ k - 1 \in 0 .. Len(ls)
        BY <1>6, <2>1
      <3>2. /\ pos2[k] = pos[k] /\ pos2[k - 1] = pos[k - 1] /\ ls2[k] = ls[k]
            /\ pos[k] = pos[k - 1] + Len(ls[k])
        BY <1>2, <1>7, <1>9, <3>1 DEF LaidAt
      <3>3. pos[k - 1] \in Nat /\ pos[k] \in Nat /\ Len(ls[k]) \in Nat /\ pos[k] <= Len(bytes)
        BY <1>2, <3>1, Positions
      <3>4. ASSUME NEW j \in 1 .. Len(ls[k]) PROVE b2[pos[k - 1] + j] = ls[k][j]
        <4>1. pos[k - 1] + j \in 1 .. Len(bytes)
          <5>1. pos[k] = pos[k - 1] + Len(ls[k]) /\ Len(bytes) \in Nat
            BY <1>6, <3>2
          <5> QED
            BY <3>3, <5>1, Within
        <4>2. bytes[pos[k - 1] + j] = ls[k][j]
          BY <1>2, <3>1 DEF LaidAt
        <4> QED
          BY <1>4, <4>1, <4>2
      <3>5. \A j \in 1 .. Len(ls2[k]) : b2[pos2[k - 1] + j] = ls2[k][j]
        BY <3>2, <3>4
      <3> QED
        BY <3>2, <3>5
    <2>2. CASE ~(k <= Len(ls))
      <3>1. k = Len(ls) + 1 /\ k - 1 = Len(ls)
        BY <1>6, <1>7, <2>2
      <3>2. pos2[k] = Len(b2) /\ pos2[k - 1] = pos[Len(ls)] /\ ls2[k] = l
        BY <1>7, <1>9, <3>1
      <3>3. ASSUME NEW j \in 1 .. Len(l) PROVE b2[pos[Len(ls)] + j] = l[j]
        <4>1. CASE j = Len(t) + 1
          <5>1. pos[Len(ls)] + j = Len(bytes) + 1
            BY <1>6, <4>1
          <5> QED
            BY <1>4, <1>5, <4>1, <5>1
        <4>2. CASE j # Len(t) + 1
          <5>1. j \in 1 .. Len(t) /\ pos[Len(ls)] + j \in 1 .. Len(bytes)
            BY <1>5, <1>6, <4>2
          <5>2. bytes[pos[Len(ls)] + j] = t[j]
            BY <1>2, <5>1 DEF LaidAt
          <5> QED
            BY <1>4, <1>5, <5>1, <5>2
        <4> QED
          BY <4>1, <4>2
      <3>4. Len(b2) = pos[Len(ls)] + Len(l)
        <4>1. Len(b2) = Len(bytes) + 1 /\ Len(l) = Len(t) + 1
          BY <1>4, <1>5
        <4> QED
          BY <1>6, <4>1, OneMore
      <3> QED
        BY <3>2, <3>3, <3>4
    <2> QED
      BY <2>1, <2>2
  <1>13. LaidAt(pos2, b2, ls2, <<>>)
    <2>1. Len(b2) = pos2[Len(ls2)] + 0 /\ Len(<<>>) = 0
      BY <1>7, <1>9
    <2> QED
      BY <1>10, <1>11, <1>12, <2>1 DEF LaidAt
  <1>14. <<>> \in Seq(A)
    OBVIOUS
  <1> QED
    BY <1>3, <1>4, <1>7, <1>13, <1>14 DEF Typing, Laid

\* Without a newline there is no line among the bytes.
LEMMA NoLine ==
    ASSUME NEW A, Newline \notin A, NEW bytes, NEW ls, NEW t, Typing(A, bytes, ls, t), Laid(bytes, ls, t),
           \A j \in 1 .. Len(bytes) : bytes[j] # Newline
    PROVE  ls = <<>>
  <1>1. PICK pos : LaidAt(pos, bytes, ls, t)
    BY DEF Laid
  <1>2. SUFFICES ASSUME ls # <<>> PROVE FALSE
    OBVIOUS
  <1>3. 1 \in 1 .. Len(ls) /\ ls[1] \in LinesOf(A)
    BY <1>2 DEF Typing
  <1>4. Len(ls[1]) \in Nat \ {0} /\ ls[1][Len(ls[1])] = Newline
    BY <1>3, LineFacts
  <1>5. pos[1] = pos[0] + Len(ls[1]) /\ pos[0] = 0 /\ bytes[pos[0] + Len(ls[1])] = ls[1][Len(ls[1])]
    <2>1. Len(ls[1]) \in 1 .. Len(ls[1]) /\ 1 - 1 = 0
      BY <1>4
    <2> QED
      BY <1>1, <1>3, <2>1 DEF LaidAt
  <1>6. pos[1] \in Nat /\ pos[1] <= Len(bytes) /\ Len(bytes) \in Nat
    BY <1>1, <1>3, Positions
  <1>7. Len(ls[1]) \in 1 .. Len(bytes)
    BY <1>4, <1>5, <1>6
  <1> QED
    BY <1>4, <1>5, <1>7

\* The bytes up to the first newline are the first line.
LEMMA FirstLaid ==
    ASSUME NEW A, Newline \notin A, NEW bytes, NEW ls, NEW t, Typing(A, bytes, ls, t), Laid(bytes, ls, t),
           NEW n \in 1 .. Len(bytes), bytes[n] = Newline, \A j \in 1 .. n - 1 : bytes[j] # Newline
    PROVE  /\ ls # <<>> /\ Head(ls) = SubSeq(bytes, 1, n)
           /\ Typing(A, SubSeq(bytes, n + 1, Len(bytes)), Tail(ls), t)
           /\ Laid(SubSeq(bytes, n + 1, Len(bytes)), Tail(ls), t)
  <1>1. PICK pos : LaidAt(pos, bytes, ls, t)
    BY DEF Laid
  <1>2. bytes \in Seq(A \cup {Newline}) /\ ls \in Seq(LinesOf(A)) /\ t \in Seq(A)
    BY DEF Typing
  <1>3. /\ Len(ls) \in Nat /\ Len(t) \in Nat /\ Len(bytes) \in Nat /\ pos[Len(ls)] \in Nat
        /\ Len(bytes) = pos[Len(ls)] + Len(t) /\ pos[0] = 0
    BY <1>1, Positions DEF LaidAt
  <1>4. ls # <<>>
    <2>1. SUFFICES ASSUME ls = <<>> PROVE FALSE
      OBVIOUS
    <2>2. Len(ls) = 0 /\ pos[Len(ls)] + n = n /\ n \in 1 .. Len(t)
      BY <1>3, <2>1
    <2>3. bytes[n] = t[n]
      BY <1>1, <2>2 DEF LaidAt
    <2> QED
      BY <1>2, <2>2, <2>3
  <1>5. PICK l : l = ls[1]
    OBVIOUS
  <1>6. 1 \in 1 .. Len(ls) /\ l \in LinesOf(A)
    BY <1>2, <1>4, <1>5
  <1>7. /\ l \in Seq(A \cup {Newline}) /\ Len(l) \in Nat \ {0}
        /\ l[Len(l)] = Newline
        /\ \A j \in 1 .. Len(l) - 1 : l[j] # Newline
    BY <1>6, LineFacts
  <1>8. /\ pos[1] = Len(l) /\ pos[1] <= Len(bytes)
        /\ \A j \in 1 .. Len(l) : bytes[j] = l[j]
    <2>1. pos[1] = pos[1 - 1] + Len(l) /\ \A j \in 1 .. Len(l) : bytes[pos[1 - 1] + j] = l[j]
      BY <1>1, <1>5, <1>6 DEF LaidAt
    <2>2. pos[1] <= Len(bytes)
      BY <1>1, <1>6, Positions
    <2>3. pos[1 - 1] = 0 /\ \A j \in 1 .. Len(l) : 0 + j = j
      BY <1>3
    <2> QED
      BY <1>7, <2>1, <2>2, <2>3
  <1>9. n = Len(l)
    <2>1. ~(Len(l) < n)
      BY <1>7, <1>8
    <2>2. ~(n < Len(l))
      BY <1>7, <1>8
    <2> QED
      BY <1>7, <2>1, <2>2
  <1>10. Head(ls) = SubSeq(bytes, 1, n)
    <2>1. /\ SubSeq(bytes, 1, n) \in Seq(A \cup {Newline}) /\ Len(SubSeq(bytes, 1, n)) = n
          /\ \A j \in 1 .. n : SubSeq(bytes, 1, n)[j] = bytes[j]
      BY <1>2
    <2>2. SubSeq(bytes, 1, n) = l
      BY <1>7, <1>8, <1>9, <2>1, SeqEqual
    <2> QED
      BY <1>2, <1>4, <1>5, <2>2
  <1>11. PICK b2, ls2 : b2 = SubSeq(bytes, n + 1, Len(bytes)) /\ ls2 = Tail(ls)
    OBVIOUS
  <1>12. /\ b2 \in Seq(A \cup {Newline}) /\ Len(b2) = Len(bytes) - n
         /\ \A j \in 1 .. Len(bytes) - n : b2[j] = bytes[n + j]
    <2>1. bytes \in Seq(A \cup {Newline}) /\ n \in 0 .. Len(bytes) /\ b2 = SubSeq(bytes, n + 1, Len(bytes))
      BY <1>2, <1>11
    <2> QED
      BY <2>1, CutAt
  <1>13. /\ ls2 \in Seq(LinesOf(A)) /\ Len(ls2) = Len(ls) - 1
         /\ \A k \in 1 .. Len(ls) - 1 : ls2[k] = ls[k + 1]
    BY <1>2, <1>4, <1>11
  <1>14. Len(ls2) \in Nat /\ \A k \in 0 .. Len(ls2) : k + 1 \in 0 .. Len(ls) /\ k + 1 \in 1 .. Len(ls)
    BY <1>3, <1>6, <1>13
  <1>15. \A k \in 0 .. Len(ls2) : pos[k + 1] \in Nat /\ n <= pos[k + 1]
    <2>1. ASSUME NEW k \in 0 .. Len(ls2) PROVE pos[k + 1] \in Nat /\ n <= pos[k + 1]
      <3>1. k + 1 \in 0 .. Len(ls) /\ k + 1 \in 1 .. Len(ls) /\ 1 \in 0 .. Len(ls) /\ 1 <= k + 1
        BY <1>6, <1>14
      <3>2. pos[k + 1] \in Nat /\ pos[1] <= pos[k + 1]
        BY <1>1, <3>1 DEF LaidAt
      <3> QED
        BY <1>8, <1>9, <3>2
    <2> QED
      BY <2>1
  <1>16. PICK pos2 : pos2 = [k \in 0 .. Len(ls2) |-> pos[k + 1] - n]
    OBVIOUS
  <1>17. pos2 \in [0 .. Len(ls2) -> Nat]
    <2>1. \A k \in 0 .. Len(ls2) : pos[k + 1] - n \in Nat
      BY <1>15
    <2> QED
      BY <1>16, <2>1
  <1>18. pos2[0] = 0
    <2>1. 0 \in 0 .. Len(ls2) /\ 0 + 1 = 1
      BY <1>14
    <2> QED
      BY <1>7, <1>8, <1>9, <1>16, <2>1
  <1>19. ASSUME NEW k \in 0 .. Len(ls2), NEW m \in 0 .. Len(ls2), k <= m PROVE pos2[k] <= pos2[m]
    <2>1. k + 1 \in 0 .. Len(ls) /\ m + 1 \in 0 .. Len(ls) /\ k + 1 <= m + 1
      BY <1>14, <1>19
    <2>2. pos[k + 1] <= pos[m + 1]
      BY <1>1, <2>1 DEF LaidAt
    <2>3. pos2[k] = pos[k + 1] - n /\ pos2[m] = pos[m + 1] - n
      BY <1>16
    <2> QED
      BY <1>15, <2>2, <2>3
  <1>20. pos2[Len(ls2)] = pos[Len(ls)] - n
    <2>1. Len(ls2) \in 0 .. Len(ls2) /\ Len(ls2) + 1 = Len(ls)
      BY <1>3, <1>13, <1>14
    <2> QED
      BY <1>16, <2>1
  <1>21. Len(b2) = pos2[Len(ls2)] + Len(t)
    BY <1>3, <1>12, <1>20
  <1>22. ASSUME NEW k \in 1 .. Len(ls2)
         PROVE  /\ pos2[k] = pos2[k - 1] + Len(ls2[k])
                /\ \A j \in 1 .. Len(ls2[k]) : b2[pos2[k - 1] + j] = ls2[k][j]
    <2>1. /\ k \in 0 .. Len(ls2) /\ k - 1 \in 0 .. Len(ls2) /\ (k - 1) + 1 = k /\ (k + 1) - 1 = k
          /\ k + 1 \in 1 .. Len(ls) /\ k \in 1 .. Len(ls) - 1
      BY <1>3, <1>13, <1>14
    <2>2. pos2[k] = pos[k + 1] - n /\ pos2[k - 1] = pos[k] - n /\ ls2[k] = ls[k + 1]
      BY <1>13, <1>16, <2>1
    <2>3. /\ pos[k + 1] \in Nat /\ pos[k] \in Nat /\ n <= pos[k]
          /\ pos[k + 1] <= Len(bytes) /\ Len(ls[k + 1]) \in Nat
      BY <1>1, <1>15, <2>1, Positions
    <2>4. /\ pos[k + 1] = pos[k] + Len(ls[k + 1])
          /\ \A j \in 1 .. Len(ls[k + 1]) : bytes[pos[k] + j] = ls[k + 1][j]
      <3>1. PICK m : m = k + 1
        OBVIOUS
      <3>2. m \in 1 .. Len(ls) /\ m - 1 = k
        BY <2>1, <3>1
      <3>3. pos[m] = pos[k] + Len(ls[m]) /\ \A j \in 1 .. Len(ls[m]) : bytes[pos[k] + j] = ls[m][j]
        BY <1>1, <3>2 DEF LaidAt
      <3> QED
        BY <3>1, <3>3
    <2>7. PICK q, r, len : q = pos[k] /\ r = pos[k + 1] /\ len = Len(ls[k + 1])
      OBVIOUS
    <2>8. q \in Nat /\ r \in Nat /\ len \in Nat /\ n <= q /\ r <= Len(bytes) /\ r = q + len
      BY <2>3, <2>4, <2>7
    <2>5. ASSUME NEW j \in 1 .. Len(ls[k + 1]) PROVE b2[pos2[k - 1] + j] = ls[k + 1][j]
      <3>1. pos2[k - 1] + j \in 1 .. Len(bytes) - n /\ n + (pos2[k - 1] + j) = pos[k] + j
        <4>1. n \in Nat /\ Len(bytes) \in Nat /\ q + len <= Len(bytes) /\ j \in 1 .. len
          BY <1>3, <2>7, <2>8
        <4>2. (q - n) + j \in 1 .. Len(bytes) - n /\ n + ((q - n) + j) = q + j
          BY <2>8, <4>1, Behind
        <4> QED
          BY <2>2, <2>7, <4>2
      <3> QED
        BY <1>12, <2>4, <3>1
    <2>6. pos[k + 1] - n = (pos[k] - n) + Len(ls[k + 1])
      <3>1. r - n = (q - n) + len
        BY <2>8
      <3> QED
        BY <2>7, <3>1
    <2> QED
      BY <2>2, <2>5, <2>6
  <1>23. ASSUME NEW j \in 1 .. Len(t) PROVE b2[pos2[Len(ls2)] + j] = t[j]
    <2>1. pos[Len(ls)] \in Nat /\ n <= pos[Len(ls)]
      <3>1. Len(ls2) \in 0 .. Len(ls2) /\ Len(ls2) + 1 = Len(ls)
        BY <1>3, <1>13, <1>14
      <3> QED
        BY <1>15, <3>1
    <2>2. pos2[Len(ls2)] + j \in 1 .. Len(bytes) - n /\ n + (pos2[Len(ls2)] + j) = pos[Len(ls)] + j
      <3>1. n \in Nat /\ Len(bytes) \in Nat /\ Len(t) \in Nat /\ pos[Len(ls)] + Len(t) <= Len(bytes)
        BY <1>3
      <3> QED
        BY <1>20, <2>1, <3>1, Behind, SMTT(20)
    <2>3. bytes[pos[Len(ls)] + j] = t[j]
      BY <1>1 DEF LaidAt
    <2> QED
      BY <1>12, <2>2, <2>3
  <1>24. LaidAt(pos2, b2, ls2, t)
    BY <1>17, <1>18, <1>19, <1>21, <1>22, <1>23 DEF LaidAt
  <1> QED
    BY <1>2, <1>4, <1>10, <1>11, <1>12, <1>13, <1>24 DEF Typing, Laid

-----------------------------------------------------------------------------
\* Buffer and stream.

\* The line at the front of the buffer is the first one.
LEMMA HeldLine ==
    ASSUME NEW A, Newline \notin A, NEW bytes, NEW ls, NEW t, Typing(A, bytes, ls, t), Laid(bytes, ls, t),
           NEW d \in Seq(A \cup {Newline}), NEW s \in Seq(A \cup {Newline}), NEW c, Holds(bytes, c, d, s),
           NEW e \in c + 1 .. Len(d), d[e] = Newline, \A j \in c + 1 .. e - 1 : d[j] # Newline
    PROVE  /\ ls # <<>> /\ Head(ls) = SubSeq(d, c + 1, e)
           /\ \E b2 : /\ Typing(A, b2, Tail(ls), t) /\ Laid(b2, Tail(ls), t)
                      /\ Holds(b2, e, d, s)
  <1>1. /\ bytes \in Seq(A \cup {Newline}) /\ c \in 0 .. Len(d) /\ Len(bytes) = Len(d) - c + Len(s)
        /\ \A j \in 1 .. Len(d) - c : bytes[j] = d[c + j]
        /\ \A j \in 1 .. Len(s) : bytes[Len(d) - c + j] = s[j]
    BY DEF Typing, Holds
  <1>2. PICK n, ld, k : n = e - c /\ ld = Len(d) /\ k = Len(s)
    OBVIOUS
  <1>3. ld \in Nat /\ k \in Nat /\ c \in Nat /\ c <= ld
    BY <1>1, <1>2
  <1>4. e \in Int /\ c + 1 <= e /\ e <= ld
    BY <1>2, <1>3
  <1>5. n \in Nat \ {0} /\ e = c + n /\ n <= ld - c
    BY <1>2, <1>3, <1>4
  <1>6. Len(bytes) = (ld - c) + k
    BY <1>1, <1>2
  <1>7. n \in 1 .. Len(bytes) /\ n \in 0 .. Len(bytes) /\ n \in 1 .. ld - c
    BY <1>3, <1>5, <1>6
  <1>8. bytes[n] = Newline
    BY <1>1, <1>2, <1>5, <1>7
  <1>9. \A j \in 1 .. n - 1 : bytes[j] # Newline
    <2>1. ASSUME NEW j \in 1 .. n - 1 PROVE bytes[j] # Newline
      <3>1. j \in 1 .. ld - c /\ c + j \in c + 1 .. e - 1
        BY <1>3, <1>5
      <3> QED
        BY <1>1, <1>2, <3>1
    <2> QED
      BY <2>1
  <1>10. PICK b2 : b2 = SubSeq(bytes, n + 1, Len(bytes))
    OBVIOUS
  <1>11. /\ ls # <<>> /\ Head(ls) = SubSeq(bytes, 1, n)
         /\ Typing(A, b2, Tail(ls), t) /\ Laid(b2, Tail(ls), t)
    BY <1>7, <1>8, <1>9, <1>10, FirstLaid
  <1>12. /\ SubSeq(bytes, 1, n) \in Seq(A \cup {Newline}) /\ Len(SubSeq(bytes, 1, n)) = n
         /\ \A j \in 1 .. n : SubSeq(bytes, 1, n)[j] = bytes[j]
         /\ Len(b2) = Len(bytes) - n
         /\ \A j \in 1 .. Len(bytes) - n : b2[j] = bytes[n + j]
    <2>1. bytes \in Seq(A \cup {Newline}) /\ n \in 0 .. Len(bytes)
      BY <1>1, <1>7
    <2> QED
      BY <1>10, <2>1, CutAt
  <1>13. SubSeq(bytes, 1, n) = SubSeq(d, c + 1, e)
    <2>1. PICK u : u = SubSeq(d, c + 1, e)
      OBVIOUS
    <2>2. u \in Seq(A \cup {Newline}) /\ Len(u) = e - c /\ \A j \in 1 .. e - c : u[j] = d[c + j]
      BY <1>2, <1>3, <1>4, <2>1
    <2>3. \A j \in 1 .. n : j \in 1 .. ld - c
      BY <1>3, <1>5
    <2>4. \A j \in 1 .. n : u[j] = SubSeq(bytes, 1, n)[j]
      BY <1>1, <1>2, <1>12, <2>2, <2>3
    <2>5. Len(u) = n
      BY <1>2, <2>2
    <2>6. PICK v : v = SubSeq(bytes, 1, n)
      OBVIOUS
    <2>7. /\ v \in Seq(A \cup {Newline}) /\ u \in Seq(A \cup {Newline}) /\ Len(u) = Len(v)
          /\ \A j \in 1 .. Len(v) : u[j] = v[j]
      BY <1>12, <2>2, <2>4, <2>5, <2>6
    <2>8. u = v
      BY <2>7, SeqEqual
    <2> QED
      BY <2>1, <2>6, <2>8
  <1>14. Holds(b2, e, d, s)
    <2>1. e \in 0 .. Len(d) /\ Len(b2) = Len(d) - e + Len(s)
      <3>1. Len(b2) = ((ld - c) + k) - n
        BY <1>6, <1>12
      <3>2. ((ld - c) + k) - n = ld - e + k /\ e \in 0 .. ld
        BY <1>3, <1>4, <1>5
      <3> QED
        BY <1>2, <3>1, <3>2
    <2>2. ASSUME NEW j \in 1 .. Len(d) - e PROVE b2[j] = d[e + j]
      <3>1. n + j \in 1 .. ld - c /\ j \in 1 .. Len(bytes) - n /\ c + (n + j) = e + j
        BY <1>2, <1>3, <1>5, <1>6
      <3> QED
        BY <1>1, <1>2, <1>12, <3>1
    <2>3. ASSUME NEW j \in 1 .. Len(s) PROVE b2[Len(d) - e + j] = s[j]
      <3>1. Len(d) - e + j \in 1 .. Len(bytes) - n /\ n + (Len(d) - e + j) = Len(d) - c + j
        BY <1>2, <1>3, <1>4, <1>5, <1>6
      <3> QED
        BY <1>1, <1>12, <3>1
    <2> QED
      BY <2>1, <2>2, <2>3 DEF Holds
  <1> QED
    BY <1>11, <1>13, <1>14

\* What the buffer held before c is dropped.
LEMMA HeldMoved ==
    ASSUME NEW X, NEW bytes, NEW c, NEW d \in Seq(X), NEW s \in Seq(X), Holds(bytes, c, d, s)
    PROVE  Holds(bytes, 0, SubSeq(d, c + 1, Len(d)), s)
  <1>1. PICK v : v = SubSeq(d, c + 1, Len(d))
    OBVIOUS
  <1>2. c \in 0 .. Len(d)
    BY DEF Holds
  <1>3. Len(v) = Len(d) - c /\ \A j \in 1 .. Len(d) - c : v[j] = d[c + j]
    BY <1>1, <1>2, CutAt
  <1>4. Len(v) \in Nat /\ Len(v) - 0 = Len(v)
    BY <1>2, <1>3
  <1>5. /\ Len(bytes) = Len(v) + Len(s)
        /\ \A j \in 1 .. Len(v) : bytes[j] = v[j]
        /\ \A j \in 1 .. Len(s) : bytes[Len(v) + j] = s[j]
    BY <1>3 DEF Holds
  <1>6. 0 \in 0 .. Len(v) /\ \A j \in 1 .. Len(v) - 0 : 0 + j = j
    BY <1>4
  <1>7. Holds(bytes, 0, v, s)
    BY <1>4, <1>5, <1>6 DEF Holds
  <1> QED
    BY <1>1, <1>7

\* n bytes come out of the stream into the buffer.
LEMMA HeldReceived ==
    ASSUME NEW X, NEW bytes, NEW d \in Seq(X), NEW s \in Seq(X), Holds(bytes, 0, d, s), NEW n \in 0 .. Len(s)
    PROVE  Holds(bytes, 0, d \o SubSeq(s, 1, n), SubSeq(s, n + 1, Len(s)))
  <1>1. PICK u, v : u = SubSeq(s, 1, n) /\ v = SubSeq(s, n + 1, Len(s))
    OBVIOUS
  <1>2. /\ u \in Seq(X) /\ Len(u) = n /\ \A j \in 1 .. n : u[j] = s[j]
        /\ v \in Seq(X) /\ Len(v) = Len(s) - n /\ \A j \in 1 .. Len(s) - n : v[j] = s[n + j]
    BY <1>1, CutAt
  <1>3. PICK ld, k : ld = Len(d) /\ k = Len(s)
    OBVIOUS
  <1>4. ld \in Nat /\ k \in Nat /\ n \in Nat /\ n <= k /\ ld - 0 = ld
    BY <1>3
  <1>5. /\ Len(bytes) = ld + k
        /\ \A j \in 1 .. ld : bytes[j] = d[j]
        /\ \A j \in 1 .. k : bytes[ld + j] = s[j]
    <2>1. \A j \in 1 .. ld : 0 + j = j
      OBVIOUS
    <2> QED
      BY <1>3, <1>4, <2>1 DEF Holds
  <1>6. PICK w : w = d \o u
    OBVIOUS
  <1>7. /\ Len(w) = ld + n
        /\ \A j \in 1 .. ld : w[j] = d[j]
        /\ \A j \in 1 .. n : w[ld + j] = u[j]
    <2>1. u \in Seq(X) /\ Len(u) = n
      BY <1>2
    <2>2. /\ Len(w) = Len(d) + Len(u)
          /\ \A i \in 1 .. Len(d) + Len(u) : w[i] = IF i <= Len(d) THEN d[i] ELSE u[i - Len(d)]
      BY <1>6, <2>1, ConcatProperties
    <2>3. /\ Len(w) = ld + n
          /\ \A i \in 1 .. ld + n : w[i] = IF i <= ld THEN d[i] ELSE u[i - ld]
      BY <1>3, <2>1, <2>2
    <2>4. ASSUME NEW j \in 1 .. ld PROVE w[j] = d[j]
      <3>1. j \in 1 .. ld + n /\ j <= ld
        BY <1>4
      <3> QED
        BY <2>3, <3>1
    <2>5. ASSUME NEW j \in 1 .. n PROVE w[ld + j] = u[j]
      <3>1. PICK i : i = ld + j
        OBVIOUS
      <3>2. i \in 1 .. ld + n /\ ~(i <= ld) /\ i - ld = j
        BY <1>4, <3>1
      <3> QED
        BY <2>3, <3>1, <3>2
    <2> QED
      BY <2>3, <2>4, <2>5
  <1>8. ASSUME NEW j \in 1 .. ld + n PROVE bytes[j] = w[j]
    <2>1. CASE j <= ld
      <3>1. j \in 1 .. ld
        BY <1>4, <2>1
      <3> QED
        BY <1>5, <1>7, <3>1
    <2>2. CASE ~(j <= ld)
      <3>1. PICK m : m = j - ld
        OBVIOUS
      <3>2. m \in 1 .. n /\ j = ld + m /\ m \in 1 .. k
        BY <1>4, <2>2, <3>1
      <3> QED
        BY <1>2, <1>5, <1>7, <3>2
    <2> QED
      BY <2>1, <2>2
  <1>9. ASSUME NEW j \in 1 .. k - n PROVE bytes[ld + n + j] = v[j]
    <2>1. n + j \in 1 .. k /\ ld + n + j = ld + (n + j)
      BY <1>4
    <2> QED
      BY <1>2, <1>3, <1>5, <2>1
  <1>10. /\ Len(bytes) = Len(w) - 0 + Len(v) /\ 0 \in 0 .. Len(w) /\ Len(w) - 0 = ld + n
         /\ \A j \in 1 .. ld + n : 0 + j = j
    <2>1. Len(v) = k - n /\ Len(w) = ld + n /\ Len(bytes) = ld + k
      BY <1>2, <1>3, <1>5, <1>7
    <2> QED
      BY <1>4, <2>1
  <1>11. Holds(bytes, 0, w, v)
    <2>1. \A j \in 1 .. Len(w) - 0 : bytes[j] = w[0 + j]
      BY <1>8, <1>10
    <2>2. \A j \in 1 .. Len(v) : bytes[Len(w) - 0 + j] = v[j]
      BY <1>2, <1>3, <1>9, <1>10
    <2> QED
      BY <1>10, <2>1, <2>2 DEF Holds
  <1> QED
    BY <1>1, <1>6, <1>11

\* A byte is sent.
LEMMA HeldSent ==
    ASSUME NEW X, NEW bytes \in Seq(X), NEW c, NEW d \in Seq(X), NEW s \in Seq(X), Holds(bytes, c, d, s),
           NEW x \in X
    PROVE  Holds(Append(bytes, x), c, d, Append(s, x))
  <1>1. PICK b2, s2 : b2 = Append(bytes, x) /\ s2 = Append(s, x)
    OBVIOUS
  <1>2. /\ Len(b2) = Len(bytes) + 1 /\ b2[Len(bytes) + 1] = x
        /\ \A j \in 1 .. Len(bytes) : b2[j] = bytes[j]
    BY <1>1
  <1>3. /\ Len(s2) = Len(s) + 1 /\ s2[Len(s) + 1] = x
        /\ \A j \in 1 .. Len(s) : s2[j] = s[j]
    BY <1>1
  <1>4. PICK m, k : m = Len(d) - c /\ k = Len(s)
    OBVIOUS
  <1>5. /\ c \in 0 .. Len(d) /\ m \in Nat /\ k \in Nat /\ Len(bytes) = m + k
        /\ \A j \in 1 .. m : bytes[j] = d[c + j]
        /\ \A j \in 1 .. k : bytes[m + j] = s[j]
    BY <1>4 DEF Holds
  <1>6. Len(b2) = m + Len(s2)
    BY <1>2, <1>3, <1>4, <1>5
  <1>7. ASSUME NEW j \in 1 .. m PROVE b2[j] = d[c + j]
    <2>1. j \in 1 .. Len(bytes)
      BY <1>5
    <2> QED
      BY <1>2, <1>5, <2>1
  <1>8. ASSUME NEW j \in 1 .. Len(s2) PROVE b2[m + j] = s2[j]
    <2>1. CASE j = k + 1
      <3>1. m + j = Len(bytes) + 1
        BY <1>5, <2>1
      <3> QED
        BY <1>2, <1>3, <1>4, <2>1, <3>1
    <2>2. CASE j # k + 1
      <3>1. j \in 1 .. k /\ m + j \in 1 .. Len(bytes)
        BY <1>3, <1>4, <1>5, <2>2
      <3> QED
        BY <1>2, <1>3, <1>4, <1>5, <3>1
    <2> QED
      BY <2>1, <2>2
  <1> QED
    BY <1>1, <1>4, <1>5, <1>6, <1>7, <1>8 DEF Holds

-----------------------------------------------------------------------------
\* The server.

Char == Letters \cup {Newline}

\* How many bytes of the buffer belong to lines handed out before.
Served == IF L!HadLine(buf) THEN buf.end ELSE 0

BufferType ==
    /\ buf \in [data : Seq(Char), start : Nat, end : Nat, capacity : Nat]
    /\ buf.end <= Len(buf.data) /\ Len(buf.data) <= buf.capacity
    /\ lStream \in Seq(Char)

\* Only recvline itself, after a line, may find another one in the buffer, and a
\* client that this line has closed may leave one.  In all other places all of the
\* buffer has been searched, and it is not full.
Searched ==
    /\ \A j \in 1 .. Len(buf.data) : buf.data[j] # Newline
    /\ buf.start = 0 /\ buf.end = Len(buf.data) /\ Len(buf.data) < buf.capacity

Looking == (lPc \in {"call", "closed"} /\ L!HadLine(buf)) \/ Searched

Closing == lPc = "closed" => \/ lEnded /\ lStream = <<>> /\ Searched
                             \/ handed \in Exits \/ lReset \/ lJunk

Counting == lCount \in 0 .. MaxBytes /\ lTyped \in Seq(Letters) /\ Len(lTyped) <= lCount

\* The bytes behind the buffer: those in the stream, or what a reset has lost.
Unread(rest) == /\ rest \in Seq(Char)
                /\ rest = lStream \/ (lReset /\ lEnded /\ lStream = <<>>)

ToCome == \E bytes, rest : /\ Typing(Letters, bytes, lLines, lTyped) /\ Laid(bytes, lLines, lTyped)
                           /\ Holds(bytes, Served, buf.data, rest) /\ Unread(rest)

ServerInv == BufferType /\ Looking /\ Closing /\ Counting /\ ToCome

LEMMA LineEndFacts ==
    ASSUME NEW b, Len(b.data) \in Nat, NEW from \in Nat
    PROVE  LET e == L!LineEnd(b, from)
           IN \/ e = 0 /\ \A j \in from + 1 .. Len(b.data) : b.data[j] # Newline
              \/ /\ e \in from + 1 .. Len(b.data) /\ e > 0 /\ b.data[e] = Newline
                 /\ \A j \in from + 1 .. e - 1 : b.data[j] # Newline
  <1>1. PICK e, I : e = L!LineEnd(b, from) /\ I = {i \in from + 1 .. Len(b.data) : b.data[i] = Newline}
    OBVIOUS
  <1>2. e = IF I # {} THEN L!Min(I) ELSE 0
    BY <1>1 DEF L!LineEnd, L!SelectInSubSeq, L!finished
  <1>3. CASE I = {}
    BY <1>1, <1>2, <1>3
  <1>4. CASE I # {}
    <2>1. I \subseteq Nat
      BY <1>1
    <2>2. \E i \in I : \A j \in I : i <= j
      BY <1>4, <2>1, SmallestNat
    <2>3. e = CHOOSE i \in I : \A j \in I : i <= j
      BY <1>2, <1>4 DEF L!Min
    <2>4. e \in I /\ \A j \in I : e <= j
      BY <2>2, <2>3
    <2>5. e \in from + 1 .. Len(b.data) /\ e > 0 /\ b.data[e] = Newline
      BY <1>1, <2>4
    <2>6. ASSUME NEW j \in from + 1 .. e - 1 PROVE b.data[j] # Newline
      <3>1. j \in from + 1 .. Len(b.data) /\ ~(e <= j)
        BY <2>5
      <3> QED
        BY <1>1, <2>4, <3>1
    <2> QED
      BY <1>1, <2>5, <2>6
  <1> QED
    BY <1>3, <1>4

LEMMA RestIsTail ==
    ASSUME NEW X, NEW s \in Seq(X), s # <<>>
    PROVE  SubSeq(s, 2, Len(s)) = Tail(s)
  <1>1. PICK u, v : u = SubSeq(s, 1 + 1, Len(s)) /\ v = Tail(s)
    OBVIOUS
  <1>2. 1 \in 0 .. Len(s) /\ 1 + 1 = 2
    OBVIOUS
  <1>3. u \in Seq(X) /\ Len(u) = Len(s) - 1 /\ \A j \in 1 .. Len(s) - 1 : u[j] = s[1 + j]
    BY <1>1, <1>2, CutAt
  <1>4. v \in Seq(X) /\ Len(v) = Len(s) - 1 /\ \A j \in 1 .. Len(s) - 1 : v[j] = s[1 + j]
    BY <1>1
  <1>5. u = v
    BY <1>3, <1>4, SeqEqual
  <1> QED
    BY <1>1, <1>2, <1>5

LEMMA ServerStart ==
    ASSUME L!Init
    PROVE  ServerInv
  <1>1. buf = [data |-> <<>>, start |-> 0, end |-> 0, capacity |-> InitialCapacity]
    BY DEF L!Init, L!NewBuffer
  <1>2. /\ buf.data = <<>> /\ buf.start = 0 /\ buf.end = 0 /\ buf.capacity = InitialCapacity
        /\ InitialCapacity \in Nat /\ 0 < InitialCapacity
    BY <1>1, FramingAssumption DEF FramingAssumption
  <1>3. Len(<<>>) = 0 /\ <<>> \in Seq(Char)
    OBVIOUS
  <1>4. buf \in [data : Seq(Char), start : Nat, end : Nat, capacity : Nat]
    BY <1>1, <1>2, <1>3
  <1>5. BufferType /\ Looking /\ Closing
    BY <1>2, <1>3, <1>4 DEF BufferType, Looking, Searched, Closing, L!Init
  <1>6. Counting
    BY FramingAssumption DEF Counting, L!Init, FramingAssumption
  <1>7. Served = 0
    BY <1>2 DEF Served
  <1>8. Typing(Letters, <<>>, <<>>, <<>>)
    BY DEF Typing
  <1>9. LaidAt([k \in {0} |-> 0], <<>>, <<>>, <<>>)
    <2>1. PICK pos : pos = [k \in {0} |-> 0]
      OBVIOUS
    <2>2. pos[0] = 0 /\ 0 .. 0 = {0} /\ pos \in [{0} -> Nat]
      BY <2>1
    <2> QED
      BY <1>3, <2>1, <2>2 DEF LaidAt
  <1>10. Holds(<<>>, 0, <<>>, <<>>)
    BY <1>3 DEF Holds
  <1>11. ToCome
    <2>1. lLines = <<>> /\ lTyped = <<>> /\ lStream = <<>>
      BY DEF L!Init
    <2> QED
      BY <1>2, <1>3, <1>7, <1>8, <1>9, <1>10, <2>1 DEF ToCome, Unread, Laid
  <1> QED
    BY <1>5, <1>6, <1>11 DEF ServerInv

\* What holds wherever all of the buffer has been searched.
LEMMA ServedNone ==
    ASSUME BufferType, Searched
    PROVE  ~L!HadLine(buf) /\ Served = 0
  <1>1. Len(buf.data) \in Nat
    BY DEF BufferType
  <1>2. ~L!HadLine(buf)
    <2>1. SUFFICES ASSUME buf.end > 0 PROVE buf.data[buf.end] # Newline
      BY DEF L!HadLine
    <2>2. buf.end \in 1 .. Len(buf.data)
      BY <1>1, <2>1 DEF Searched
    <2> QED
      BY <2>2 DEF Searched
  <1> QED
    BY <1>2 DEF Served

\* A line found in the buffer is the next one (HeldLine, for the server).
LEMMA NextHeld ==
    ASSUME NEW d \in Seq(Char), NEW s \in Seq(Char), NEW c, NEW bytes,
           Typing(Letters, bytes, lLines, lTyped), Laid(bytes, lLines, lTyped), Holds(bytes, c, d, s),
           NEW e \in c + 1 .. Len(d), d[e] = Newline, \A j \in c + 1 .. e - 1 : d[j] # Newline
    PROVE  \E b2 : /\ lLines # <<>> /\ Head(lLines) = SubSeq(d, c + 1, e)
                   /\ Typing(Letters, b2, Tail(lLines), lTyped) /\ Laid(b2, Tail(lLines), lTyped)
                   /\ Holds(b2, e, d, s)
  <1>1. Newline \notin Letters
    BY FramingAssumption DEF FramingAssumption
  <1> QED
    BY <1>1, HeldLine DEF Char

\* processClient goes on after a line, or the line has closed the client.
GoesOn == lPc' = "call" \/ (lPc' = "closed" /\ (handed' \in Exits \/ lReset))

\* A line is handed out: it is the next one, and the rest is to come.
LEMMA HandedOut ==
    ASSUME ServerInv, NEW d \in Seq(Char), NEW s \in Seq(Char), NEW c, NEW bytes,
           Typing(Letters, bytes, lLines, lTyped), Laid(bytes, lLines, lTyped), Holds(bytes, c, d, s), Unread(s)',
           NEW e \in c + 1 .. Len(d), d[e] = Newline, \A j \in c + 1 .. e - 1 : d[j] # Newline,
           handed' = SubSeq(d, c + 1, e), lLines' = SubSeq(lLines, 2, Len(lLines)),
           buf' \in [data : Seq(Char), start : Nat, end : Nat, capacity : Nat],
           buf'.data = d, buf'.end = e, Len(d) <= buf'.capacity, lStream' \in Seq(Char), GoesOn,
           UNCHANGED <<lEnded, lReset, lJunk, lTyped, lCount>>
    PROVE  ServerInv' /\ [L!Reader!Next]_<<lLines, handed>>
  <1>1. PICK b2 : /\ lLines # <<>> /\ Head(lLines) = SubSeq(d, c + 1, e)
                  /\ Typing(Letters, b2, Tail(lLines), lTyped) /\ Laid(b2, Tail(lLines), lTyped)
                  /\ Holds(b2, e, d, s)
    BY NextHeld
  <1>2. lLines' = Tail(lLines)
    <2>1. lLines \in Seq(LinesOf(Letters))
      BY DEF Typing
    <2> QED
      BY <1>1, <2>1, RestIsTail
  <1>3. L!Reader!Next
    BY <1>1, <1>2 DEF L!Reader!Next, L!Reader!Pop
  <1>4. c \in Nat /\ Len(d) \in Nat
    BY DEF Holds
  <1>5. e \in Nat /\ e > 0 /\ e <= Len(d)
    BY <1>4
  <1>6. L!HadLine(buf')
    BY <1>5 DEF L!HadLine
  <1>7. BufferType' /\ Looking' /\ Closing' /\ Counting'
    <2>1. BufferType'
      BY <1>5 DEF BufferType
    <2>2. Looking'
      BY <1>6 DEF Looking, L!HadLine, GoesOn
    <2>3. Closing' /\ Counting'
      BY DEF Closing, Counting, ServerInv, GoesOn
    <2> QED
      BY <2>1, <2>2, <2>3
  <1>8. ToCome'
    <2>1. Served' = e
      BY <1>6 DEF Served, L!HadLine
    <2> QED
      BY <1>1, <1>2, <2>1 DEF ToCome
  <1> QED
    BY <1>3, <1>7, <1>8 DEF ServerInv

LEMMA ServerNextLine ==
    ASSUME ServerInv, L!NextLine
    PROVE  ServerInv' /\ [L!Reader!Next]_<<lLines, handed>>
  <1>1. PICK d, st, en, cap : d = buf.data /\ st = buf.start /\ en = buf.end /\ cap = buf.capacity
    OBVIOUS
  <1>2. /\ d \in Seq(Char) /\ st \in Nat /\ en \in Nat /\ cap \in Nat
        /\ buf = [data |-> d, start |-> st, end |-> en, capacity |-> cap]
        /\ en <= Len(d) /\ Len(d) <= cap /\ lStream \in Seq(Char) /\ Len(d) \in Nat
    BY <1>1 DEF ServerInv, BufferType
  <1>3. /\ lPc = "call" /\ UNCHANGED <<lStream, lEnded, lReset, lJunk, lTyped, lCount>>
    BY DEF L!NextLine
  <1>4. PICK bytes, rest : /\ Typing(Letters, bytes, lLines, lTyped) /\ Laid(bytes, lLines, lTyped)
                           /\ Holds(bytes, Served, d, rest) /\ Unread(rest)
    BY <1>1 DEF ServerInv, ToCome
  <1>5. PICK e : e = L!LineEnd(buf, en)
    OBVIOUS
  <1>6. \/ e = 0 /\ \A j \in en + 1 .. Len(d) : d[j] # Newline
        \/ /\ e \in en + 1 .. Len(d) /\ e > 0 /\ d[e] = Newline
           /\ \A j \in en + 1 .. e - 1 : d[j] # Newline
    BY <1>1, <1>2, <1>5, LineEndFacts
  <1>7. CASE L!HadLine(buf) /\ e > 0
    <2>1. L!Hand([[buf EXCEPT !.start = buf.end] EXCEPT !.end = e], e - [buf EXCEPT !.start = buf.end].start)
      BY <1>1, <1>5, <1>7 DEF L!NextLine
    <2>2. [buf EXCEPT !.start = buf.end] = [data |-> d, start |-> en, end |-> en, capacity |-> cap]
      BY <1>1, <1>2
    <2>3. [[buf EXCEPT !.start = buf.end] EXCEPT !.end = e] = [data |-> d, start |-> en, end |-> e, capacity |-> cap]
      <3>1. PICK r : r = [data |-> d, start |-> en, end |-> en, capacity |-> cap]
        OBVIOUS
      <3>2. [r EXCEPT !.end = e] = [data |-> d, start |-> en, end |-> e, capacity |-> cap]
        BY <3>1
      <3> QED
        BY <2>2, <3>1, <3>2
    <2>4. PICK b : b = [data |-> d, start |-> en, end |-> e, capacity |-> cap]
      OBVIOUS
    <2>5. L!Hand(b, e - en)
      BY <2>1, <2>2, <2>3, <2>4
    <2>6. b.data = d /\ b.start = en /\ b.end = e /\ b.capacity = cap
      BY <2>4
    <2>7. /\ e \in en + 1 .. Len(d) /\ d[e] = Newline /\ \A j \in en + 1 .. e - 1 : d[j] # Newline
          /\ e \in Nat /\ en + (e - en) = e
      BY <1>2, <1>6, <1>7
    <2>8. /\ buf' = b /\ handed' = SubSeq(d, en + 1, e)
          /\ lLines' = SubSeq(lLines, 2, Len(lLines))
          /\ GoesOn
      BY <2>5, <2>6, <2>7 DEF L!Hand, L!AfterLine, GoesOn
    <2>9. b \in [data : Seq(Char), start : Nat, end : Nat, capacity : Nat]
      BY <1>2, <2>4, <2>7
    <2>10. Served = en
      BY <1>1, <1>7 DEF Served
    <2>11. /\ Holds(bytes, en, d, rest) /\ rest \in Seq(Char) /\ Unread(rest)'
           /\ buf' \in [data : Seq(Char), start : Nat, end : Nat, capacity : Nat]
           /\ buf'.data = d /\ buf'.end = e /\ Len(d) <= buf'.capacity /\ lStream' \in Seq(Char)
      BY <1>2, <1>3, <1>4, <2>6, <2>8, <2>9, <2>10 DEF Unread
    <2> QED
      BY <1>2, <1>3, <1>4, <2>7, <2>8, <2>11, HandedOut
  <1>8. CASE ~(L!HadLine(buf) /\ e > 0)
    <2>1. /\ buf' = (IF L!HadLine(buf) THEN L!Moved([buf EXCEPT !.start = buf.end]) ELSE buf)
          /\ lPc' = "recv" /\ UNCHANGED <<lLines, handed>>
      BY <1>1, <1>5, <1>8 DEF L!NextLine
    <2>2. Closing' /\ Counting'
      BY <1>3, <2>1 DEF Closing, Counting, ServerInv
    <2>3. BufferType' /\ Searched' /\ ToCome'
      <3>1. CASE L!HadLine(buf)
        <4>1. [buf EXCEPT !.start = buf.end] = [data |-> d, start |-> en, end |-> en, capacity |-> cap]
          BY <1>1, <1>2
        <4>2. PICK v : v = SubSeq(d, en + 1, Len(d))
          OBVIOUS
        <4>3. buf' = [data |-> v, start |-> 0, end |-> Len(d) - en, capacity |-> cap]
          BY <2>1, <3>1, <4>1, <4>2 DEF L!Moved, L!finished
        <4>4. buf'.data = v /\ buf'.start = 0 /\ buf'.end = Len(d) - en /\ buf'.capacity = cap
          BY <4>3
        <4>5. /\ v \in Seq(Char) /\ Len(v) = Len(d) - en
              /\ \A j \in 1 .. Len(d) - en : v[j] = d[en + j]
          BY <1>2, <4>2, CutAt
        <4>6. en > 0 /\ \A j \in en + 1 .. Len(d) : d[j] # Newline
          BY <1>1, <1>6, <1>8, <3>1 DEF L!HadLine
        <4>7. Len(d) - en \in Nat /\ Len(d) - en < cap /\ \A j \in 1 .. Len(d) - en : en + j \in en + 1 .. Len(d)
          BY <1>2, <4>6
        <4>8. BufferType'
          <5>1. buf' \in [data : Seq(Char), start : Nat, end : Nat, capacity : Nat]
            BY <1>2, <4>3, <4>5, <4>7
          <5> QED
            BY <1>2, <1>3, <4>4, <4>5, <4>7, <5>1 DEF BufferType
        <4>9. Searched'
          BY <4>4, <4>5, <4>6, <4>7 DEF Searched
        <4>10. Served' = 0
          <5>1. (BufferType /\ Searched => Served = 0)'
            BY ServedNone, PTL
          <5> QED
            BY <4>8, <4>9, <5>1
        <4>11. Holds(bytes, 0, v, rest)
          <5>1. Served = en
            BY <1>1, <3>1 DEF Served
          <5>2. Holds(bytes, en, d, rest) /\ d \in Seq(Char) /\ rest \in Seq(Char)
            BY <1>2, <1>4, <5>1 DEF Unread
          <5> QED
            BY <4>2, <5>2, HeldMoved
        <4>12. ToCome'
          BY <1>3, <1>4, <2>1, <4>4, <4>10, <4>11 DEF ToCome, Unread
        <4> QED
          BY <4>8, <4>9, <4>12
      <3>2. CASE ~L!HadLine(buf)
        <4>1. buf' = buf /\ Searched
          BY <2>1, <3>2 DEF ServerInv, Looking
        <4>2. BufferType' /\ Searched'
          BY <1>3, <4>1 DEF ServerInv, BufferType, Searched
        <4>3. Served' = Served
          BY <4>1 DEF Served, L!HadLine
        <4> QED
          BY <1>3, <2>1, <4>1, <4>2, <4>3 DEF ServerInv, ToCome, Unread
      <3> QED
        BY <3>1, <3>2
    <2> QED
      BY <2>1, <2>2, <2>3 DEF ServerInv, Looking
  <1> QED
    BY <1>7, <1>8

LEMMA ServerReceived ==
    ASSUME ServerInv, NEW n \in 1 .. MaxBytes, L!Received(n)
    PROVE  ServerInv' /\ [L!Reader!Next]_<<lLines, handed>>
  <1>1. PICK d, cap : d = buf.data /\ cap = buf.capacity
    OBVIOUS
  <1>2. MaxBytes \in Nat /\ n \in Nat /\ n > 0 /\ Newline \notin Letters
    BY FramingAssumption DEF FramingAssumption
  <1>3. /\ lPc = "recv" /\ n <= Len(lStream) /\ n <= cap - Len(d)
        /\ lStream' = SubSeq(lStream, n + 1, Len(lStream))
        /\ UNCHANGED <<lEnded, lReset, lJunk, lTyped, lCount>>
    BY <1>1 DEF L!Received, L!finished
  <1>4. Searched
    BY <1>3 DEF ServerInv, Looking
  <1>5. /\ d \in Seq(Char) /\ cap \in Nat /\ lStream \in Seq(Char) /\ Len(d) \in Nat /\ Len(d) < cap
        /\ buf = [data |-> d, start |-> 0, end |-> Len(d), capacity |-> cap]
        /\ \A j \in 1 .. Len(d) : d[j] # Newline
    BY <1>1, <1>4 DEF ServerInv, BufferType, Searched
  <1>6. PICK u, w, s : u = SubSeq(lStream, 1, n) /\ w = d \o u /\ s = SubSeq(lStream, n + 1, Len(lStream))
    OBVIOUS
  <1>7. n \in 0 .. Len(lStream)
    BY <1>2, <1>3, <1>5
  <1>8. u \in Seq(Char) /\ Len(u) = n /\ s \in Seq(Char)
    BY <1>5, <1>6, <1>7, CutAt
  <1>9. /\ w \in Seq(Char) /\ Len(w) = Len(d) + n
        /\ \A i \in 1 .. Len(d) + n : w[i] = IF i <= Len(d) THEN d[i] ELSE u[i - Len(d)]
    <2>1. /\ w \in Seq(Char) /\ Len(w) = Len(d) + Len(u)
          /\ \A i \in 1 .. Len(d) + Len(u) : w[i] = IF i <= Len(d) THEN d[i] ELSE u[i - Len(d)]
      BY <1>5, <1>6, <1>8, ConcatProperties
    <2> QED
      BY <1>8, <2>1
  <1>10. \A j \in 1 .. Len(d) : w[j] # Newline
    <2>1. ASSUME NEW j \in 1 .. Len(d) PROVE w[j] # Newline
      <3>1. j \in 1 .. Len(d) + n /\ j <= Len(d)
        BY <1>2, <1>5
      <3> QED
        BY <1>5, <1>9, <3>1
    <2> QED
      BY <2>1
  <1>11. PICK bytes : /\ Typing(Letters, bytes, lLines, lTyped) /\ Laid(bytes, lLines, lTyped)
                      /\ Holds(bytes, 0, w, s)
    <2>1. PICK bytes : /\ Typing(Letters, bytes, lLines, lTyped) /\ Laid(bytes, lLines, lTyped)
                       /\ Holds(bytes, Served, d, lStream)
      <3>1. PICK bytes, rest : /\ Typing(Letters, bytes, lLines, lTyped) /\ Laid(bytes, lLines, lTyped)
                               /\ Holds(bytes, Served, d, rest) /\ Unread(rest)
        BY <1>1 DEF ServerInv, ToCome
      <3>2. rest = lStream
        <4>1. lStream # <<>>
          BY <1>2, <1>3
        <4> QED
          BY <3>1, <4>1 DEF Unread
      <3> QED
        BY <3>1, <3>2
    <2>2. Served = 0
      BY <1>4, ServedNone DEF ServerInv
    <2>3. Holds(bytes, 0, d, lStream) /\ d \in Seq(Char) /\ lStream \in Seq(Char)
      BY <1>5, <2>1, <2>2
    <2>4. Holds(bytes, 0, w, s)
      BY <1>6, <1>7, <2>3, HeldReceived
    <2> QED
      BY <2>1, <2>4
  <1>12. PICK b : b = [data |-> w, start |-> 0, end |-> Len(d), capacity |-> cap]
    OBVIOUS
  <1>13. [buf EXCEPT !.data = buf.data \o SubSeq(lStream, 1, n)] = b
    <2>1. buf.data \o SubSeq(lStream, 1, n) = w
      BY <1>1, <1>6
    <2>2. [buf EXCEPT !.data = w] = b
      BY <1>5, <1>12
    <2> QED
      BY <2>1, <2>2
  <1>14. b.data = w /\ b.start = 0 /\ b.end = Len(d) /\ b.capacity = cap
    BY <1>12
  <1>15. PICK e : e = L!LineEnd(b, Len(d))
    OBVIOUS
  <1>16. \/ e = 0 /\ \A j \in Len(d) + 1 .. Len(w) : w[j] # Newline
         \/ /\ e \in Len(d) + 1 .. Len(w) /\ e > 0 /\ w[e] = Newline
            /\ \A j \in Len(d) + 1 .. e - 1 : w[j] # Newline
    <2>1. Len(b.data) \in Nat
      BY <1>5, <1>2, <1>9, <1>14
    <2> QED
      BY <1>5, <1>14, <1>15, <2>1, LineEndFacts
  <1>17. \/ e > 0 /\ L!Hand([b EXCEPT !.end = e], e)
         \/ /\ e = 0
            /\ buf' = L!Grown([b EXCEPT !.end = Len(w)])
            /\ lPc' = (IF Len(w) >= cap THEN "recv" ELSE "poll")
            /\ UNCHANGED <<lLines, handed>>
    BY <1>13, <1>14, <1>15 DEF L!Received, L!finished
  <1>18. CASE e > 0
    <2>1. /\ e \in 1 .. Len(w) /\ w[e] = Newline /\ e \in Nat
          /\ \A j \in 1 .. e - 1 : w[j] # Newline
      <3>1. /\ e \in Len(d) + 1 .. Len(w) /\ w[e] = Newline
            /\ \A j \in Len(d) + 1 .. e - 1 : w[j] # Newline
        BY <1>16, <1>18
      <3>2. e \in 1 .. Len(w) /\ e \in Nat
        BY <1>5, <3>1
      <3>3. ASSUME NEW j \in 1 .. e - 1 PROVE j \in 1 .. Len(d) \/ j \in Len(d) + 1 .. e - 1
        BY <1>5
      <3> QED
        BY <1>10, <3>1, <3>2, <3>3
    <2>2. L!Hand([b EXCEPT !.end = e], e)
      BY <1>17, <1>18
    <2>3. PICK r : r = [data |-> w, start |-> 0, end |-> e, capacity |-> cap]
      OBVIOUS
    <2>4. [b EXCEPT !.end = e] = r
      BY <1>12, <2>3
    <2>5. r.data = w /\ r.start = 0 /\ r.end = e /\ r.capacity = cap
      BY <2>3
    <2>6. 0 + e = e
      BY <2>1
    <2>7. /\ buf' = r /\ handed' = SubSeq(w, 0 + 1, e)
          /\ lLines' = SubSeq(lLines, 2, Len(lLines))
          /\ GoesOn
      BY <2>2, <2>4, <2>5, <2>6 DEF L!Hand, L!AfterLine, GoesOn
    <2>8. r \in [data : Seq(Char), start : Nat, end : Nat, capacity : Nat]
      BY <1>5, <1>9, <2>1, <2>3
    <2>9. Len(w) <= cap
      BY <1>2, <1>3, <1>5, <1>9
    <2>10. /\ buf' \in [data : Seq(Char), start : Nat, end : Nat, capacity : Nat]
           /\ buf'.data = w /\ buf'.end = e /\ Len(w) <= buf'.capacity
           /\ lStream' \in Seq(Char) /\ Unread(s)'
      BY <1>3, <1>6, <1>8, <2>5, <2>7, <2>8, <2>9 DEF Unread
    <2>11. e \in 0 + 1 .. Len(w) /\ \A j \in 0 + 1 .. e - 1 : w[j] # Newline
      BY <2>1
    <2> QED
      BY <1>3, <1>8, <1>9, <1>11, <2>1, <2>7, <2>10, <2>11, HandedOut
  <1>19. CASE ~(e > 0)
    <2>1. /\ e = 0 /\ \A j \in Len(d) + 1 .. Len(w) : w[j] # Newline
          /\ buf' = L!Grown([b EXCEPT !.end = Len(w)])
          /\ lPc' = (IF Len(w) >= cap THEN "recv" ELSE "poll")
          /\ UNCHANGED <<lLines, handed>>
      BY <1>16, <1>17, <1>19
    <2>2. PICK r : r = [data |-> w, start |-> 0, end |-> Len(w), capacity |-> cap]
      OBVIOUS
    <2>3. [b EXCEPT !.end = Len(w)] = r /\ Len(r.data) = Len(w) /\ r.capacity = cap
      BY <1>12, <2>2
    <2>4. PICK cap2 : /\ buf' = [data |-> w, start |-> 0, end |-> Len(w), capacity |-> cap2]
                      /\ cap2 \in Nat /\ Len(w) < cap2
      <3>1. buf' = IF Len(w) >= cap THEN [r EXCEPT !.capacity = 2 * cap] ELSE r
        BY <2>1, <2>3 DEF L!Grown, L!finished
      <3>2. [r EXCEPT !.capacity = 2 * cap] = [data |-> w, start |-> 0, end |-> Len(w), capacity |-> 2 * cap]
        BY <2>2
      <3>3. Len(w) \in Nat /\ Len(w) <= cap /\ 2 * cap \in Nat /\ Len(w) < 2 * cap
        BY <1>2, <1>3, <1>5, <1>9
      <3> QED
        BY <1>5, <2>2, <3>1, <3>2, <3>3, SMTT(20)
    <2>5. buf'.data = w /\ buf'.start = 0 /\ buf'.end = Len(w) /\ buf'.capacity = cap2
      BY <2>4
    <2>6. ASSUME NEW j \in 1 .. Len(w) PROVE w[j] # Newline
      <3>1. j \in 1 .. Len(d) \/ j \in Len(d) + 1 .. Len(w)
        BY <1>5
      <3> QED
        BY <1>10, <2>1, <3>1
    <2>7. BufferType'
      <3>1. Len(w) \in Nat
        BY <1>2, <1>5, <1>9
      <3>2. buf' \in [data : Seq(Char), start : Nat, end : Nat, capacity : Nat]
        BY <1>9, <2>4, <3>1
      <3> QED
        BY <1>3, <1>6, <1>8, <2>4, <2>5, <3>1, <3>2 DEF BufferType
    <2>8. Searched'
      BY <2>4, <2>5, <2>6 DEF Searched
    <2>9. Served' = 0
      <3>1. (BufferType /\ Searched => Served = 0)'
        BY ServedNone, PTL
      <3> QED
        BY <2>7, <2>8, <3>1
    <2>10. ToCome'
      <3>1. Unread(s)'
        BY <1>3, <1>6, <1>8 DEF Unread
      <3> QED
        BY <1>3, <1>11, <2>1, <2>5, <2>9, <3>1 DEF ToCome
    <2>11. Closing' /\ Counting'
      BY <1>3, <2>1 DEF Closing, Counting, ServerInv
    <2> QED
      BY <2>1, <2>7, <2>8, <2>10, <2>11 DEF ServerInv, Looking
  <1> QED
    BY <1>18, <1>19

\* Poll, recv when it has nothing, and a send that closes: only pc and junk change.
LEMMA ServerWaits ==
    ASSUME ServerInv, L!ReceivedNothing \/ L!Readable \/ L!Dropped
    PROVE  ServerInv' /\ [L!Reader!Next]_<<lLines, handed>>
  <1>1. UNCHANGED <<buf, lStream, lEnded, lReset, lTyped, lLines, handed, lCount>>
    BY DEF L!ReceivedNothing, L!Readable, L!Dropped
  <1>2. Searched
    BY DEF L!ReceivedNothing, L!Readable, L!Dropped, ServerInv, Looking
  <1>3. Searched' /\ BufferType' /\ Counting'
    BY <1>1, <1>2 DEF ServerInv, Searched, BufferType, Counting
  <1>4. ToCome'
    <2>1. Served' = Served
      BY <1>1 DEF Served, L!HadLine
    <2> QED
      BY <1>1, <2>1 DEF ServerInv, ToCome, Unread
  <1>5. Closing'
    <2>1. CASE L!Readable
      BY <2>1 DEF L!Readable, Closing
    <2>2. CASE L!ReceivedNothing
      <3>1. buf.capacity # Len(buf.data)
        BY <1>2 DEF Searched, ServerInv, BufferType
      <3> QED
        BY <1>1, <1>3, <2>2, <3>1 DEF L!ReceivedNothing, L!finished, Closing
    <2>3. CASE L!Dropped
      BY <2>3 DEF L!Dropped, Closing
    <2> QED
      BY <2>1, <2>2, <2>3
  <1> QED
    BY <1>1, <1>3, <1>4, <1>5 DEF ServerInv, Looking

\* A line that is complete is short enough to be one of Lines.
LEMMA IsLine ==
    ASSUME NEW A, NEW text \in Seq(A), Len(text) <= MaxBytes - 1
    PROVE  text \in L!BoundedSeq(A, MaxBytes - 1)
  <1>1. Len(text) \in 0 .. MaxBytes - 1 /\ text \in [1 .. Len(text) -> A]
    BY FramingAssumption DEF FramingAssumption
  <1> QED
    BY <1>1 DEF L!BoundedSeq, L!SeqOf

LEMMA ServerGetsMore ==
    ASSUME ServerInv, NEW x \in Letters \cup {Newline}, L!ClientSends(x)
    PROVE  ServerInv' /\ [L!Reader!Next]_<<lLines, handed>>
  <1>1. /\ ~lEnded /\ lCount < MaxBytes /\ lCount' = lCount + 1
        /\ lStream' = Append(lStream, x)
        /\ UNCHANGED <<lPc, buf, lEnded, lReset, lJunk, handed>>
    BY DEF L!ClientSends
  <1>2. Newline \notin Letters /\ MaxBytes \in Nat
    BY FramingAssumption DEF FramingAssumption
  <1>3. PICK bytes : /\ Typing(Letters, bytes, lLines, lTyped) /\ Laid(bytes, lLines, lTyped)
                     /\ Holds(bytes, Served, buf.data, lStream)
    BY <1>1 DEF ServerInv, ToCome, Unread
  <1>4. lStream \in Seq(Char) /\ buf.data \in Seq(Char) /\ bytes \in Seq(Char) /\ x \in Char
    BY <1>3 DEF ServerInv, BufferType, Typing, Char
  <1>5. lStream' \in Seq(Char)
    BY <1>1, <1>4
  <1>6. BufferType' /\ Looking' /\ Closing'
    BY <1>1, <1>5 DEF ServerInv, BufferType, Looking, Searched, L!HadLine, Closing
  <1>7. Holds(Append(bytes, x), Served', buf'.data, lStream')
    <2>1. Served' = Served
      BY <1>1 DEF Served, L!HadLine
    <2>2. Holds(Append(bytes, x), Served, buf.data, Append(lStream, x))
      BY <1>3, <1>4, HeldSent
    <2> QED
      BY <1>1, <2>1, <2>2
  <1>8. /\ lCount \in 0 .. MaxBytes /\ lTyped \in Seq(Letters) /\ Len(lTyped) <= lCount /\ Len(lTyped) \in Nat
        /\ lCount' \in 0 .. MaxBytes
    BY <1>1, <1>2 DEF ServerInv, Counting
  <1>9. CASE x = Newline
    <2>1. lLines' = Append(lLines, Append(lTyped, Newline)) /\ lTyped' = <<>>
      BY <1>9 DEF L!ClientSends
    <2>2. ToCome'
      <3>1. /\ Typing(Letters, Append(bytes, x), lLines', lTyped')
            /\ Laid(Append(bytes, x), lLines', lTyped')
        BY <1>3, <1>9, <2>1, LaidNewline
      <3> QED
        BY <1>5, <1>7, <3>1 DEF ToCome, Unread
    <2>3. Counting'
      BY <1>1, <1>8, <2>1 DEF Counting
    <2>4. L!Reader!Next
      <3>1. Len(lTyped) <= MaxBytes - 1
        BY <1>1, <1>2, <1>8
      <3>2. lTyped \in L!BoundedSeq(Letters, MaxBytes - 1)
        BY <1>8, <3>1, IsLine
      <3>3. Append(lTyped, Newline) \in L!Lines
        BY <3>2 DEF L!Lines
      <3> QED
        BY <1>1, <2>1, <3>3 DEF L!Reader!Next, L!Reader!Push
    <2> QED
      BY <1>6, <2>2, <2>3, <2>4 DEF ServerInv
  <1>10. CASE x # Newline
    <2>1. x \in Letters /\ lLines' = lLines /\ lTyped' = Append(lTyped, x)
      BY <1>10 DEF L!ClientSends
    <2>2. ToCome'
      <3>1. /\ Typing(Letters, Append(bytes, x), lLines', lTyped')
            /\ Laid(Append(bytes, x), lLines', lTyped')
        BY <1>3, <2>1, LaidLetter
      <3> QED
        BY <1>5, <1>7, <3>1 DEF ToCome, Unread
    <2>3. Counting'
      <3>1. Len(lTyped') = Len(lTyped) + 1 /\ lTyped' \in Seq(Letters)
        BY <1>8, <2>1
      <3> QED
        BY <1>1, <1>8, <3>1 DEF Counting
    <2> QED
      BY <1>1, <1>6, <2>1, <2>2, <2>3 DEF ServerInv
  <1> QED
    BY <1>9, <1>10

LEMMA ServerStep ==
    ASSUME ServerInv, [L!Next]_L!vars
    PROVE  ServerInv' /\ [L!Reader!Next]_<<lLines, handed>>
  <1>1. ASSUME NEW n \in 1 .. MaxBytes, L!Received(n)
        PROVE  ServerInv' /\ [L!Reader!Next]_<<lLines, handed>>
    BY <1>1, ServerReceived
  <1>2. ASSUME NEW x \in Letters \cup {Newline}, L!ClientSends(x)
        PROVE  ServerInv' /\ [L!Reader!Next]_<<lLines, handed>>
    BY <1>2, ServerGetsMore
  <1>3. CASE L!Ends
    <2>1. UNCHANGED <<lPc, buf, lStream, lReset, lJunk, lTyped, lLines, handed, lCount>> /\ lEnded'
      BY <1>3 DEF L!Ends
    <2>2. Served' = Served
      BY <2>1 DEF Served, L!HadLine
    <2>3. BufferType' /\ Looking' /\ Closing' /\ Counting' /\ ToCome'
      <3>1. BufferType' /\ Looking'
        BY <2>1 DEF ServerInv, BufferType, Looking, Searched, L!HadLine
      <3>2. Closing' /\ Counting'
        BY <2>1 DEF ServerInv, Closing, Searched, Counting
      <3>3. ToCome'
        BY <2>1, <2>2 DEF ServerInv, ToCome, Unread
      <3> QED
        BY <3>1, <3>2, <3>3
    <2> QED
      BY <2>1, <2>3 DEF ServerInv
  <1>4. CASE UNCHANGED L!vars
    <2>1. UNCHANGED <<lPc, buf, lStream, lEnded, lReset, lJunk, lTyped, lLines, handed, lCount>>
      BY <1>4 DEF L!vars
    <2>2. Served' = Served
      BY <2>1 DEF Served, L!HadLine
    <2>3. BufferType' /\ Looking' /\ Closing' /\ Counting' /\ ToCome'
      <3>1. BufferType' /\ Looking'
        BY <2>1 DEF ServerInv, BufferType, Looking, Searched, L!HadLine
      <3>2. Closing' /\ Counting'
        BY <2>1 DEF ServerInv, Closing, Searched, Counting
      <3>3. ToCome'
        BY <2>1, <2>2 DEF ServerInv, ToCome, Unread
      <3> QED
        BY <3>1, <3>2, <3>3
    <2> QED
      BY <2>1, <2>3 DEF ServerInv
  <1>5. CASE L!Resets
    <2>1. /\ lReset' /\ lEnded' /\ lStream' \in {lStream, <<>>}
          /\ UNCHANGED <<lPc, buf, lJunk, lTyped, lLines, handed, lCount>>
      BY <1>5 DEF L!Resets
    <2>2. Served' = Served
      BY <2>1 DEF Served, L!HadLine
    <2>3. BufferType' /\ Looking' /\ Closing' /\ Counting' /\ ToCome'
      <3>1. BufferType' /\ Looking'
        <4>1. <<>> \in Seq(Char)
          OBVIOUS
        <4>2. lStream' \in Seq(Char)
          BY <2>1, <4>1 DEF ServerInv, BufferType
        <4>3. BufferType'
          BY <2>1, <4>2 DEF ServerInv, BufferType
        <4>4. Looking'
          BY <2>1 DEF ServerInv, Looking, Searched, L!HadLine
        <4> QED
          BY <4>3, <4>4
      <3>2. Closing' /\ Counting'
        BY <2>1 DEF ServerInv, Closing, Counting
      <3>3. ToCome'
        <4>1. ASSUME NEW rest, Unread(rest) PROVE Unread(rest)'
          BY <2>1, <4>1 DEF Unread
        <4> QED
          BY <2>1, <2>2, <4>1 DEF ServerInv, ToCome
      <3> QED
        BY <3>1, <3>2, <3>3
    <2> QED
      BY <2>1, <2>3 DEF ServerInv
  <1> QED
    BY <1>1, <1>2, <1>3, <1>4, <1>5, ServerNextLine, ServerWaits DEF L!Next

LEMMA ServerIsAttentive ==
    ASSUME ServerInv
    PROVE  ServerAttentive
  <1>1. PICK bytes, rest : /\ Typing(Letters, bytes, lLines, lTyped) /\ Laid(bytes, lLines, lTyped)
                           /\ Holds(bytes, Served, buf.data, rest) /\ Unread(rest)
    BY DEF ServerInv, ToCome
  <1>2. ASSUME Searched, lStream = <<>>, ~lReset PROVE lLines = <<>>
    <2>1. Served = 0
      BY <1>2, ServedNone DEF ServerInv
    <2>2. Len(buf.data) \in Nat /\ rest = <<>> /\ Len(rest) = 0
      BY <1>1, <1>2 DEF ServerInv, BufferType, Unread
    <2>3. /\ Len(bytes) = Len(buf.data) - 0 + Len(rest)
          /\ \A j \in 1 .. Len(buf.data) - 0 : bytes[j] = buf.data[0 + j]
      BY <1>1, <2>1 DEF Holds
    <2>4. \A j \in 1 .. Len(bytes) : bytes[j] # Newline
      BY <1>2, <2>2, <2>3 DEF Searched
    <2>5. Newline \notin Letters
      BY FramingAssumption DEF FramingAssumption
    <2> QED
      BY <1>1, <2>4, <2>5, NoLine
  <1> QED
    BY <1>2 DEF ServerAttentive, L!Attentive, ServerInv, Looking, Closing

\* LineBuffer!Attentive: the server never sleeps in poll with a complete line in
\* its buffer.  It gives up the connection when it has read every line and the
\* client has closed its side, or for one of the three reasons to do so earlier.
THEOREM ServerReadsOn == L!Spec => []ServerAttentive
  <1>1. ServerInv /\ [L!Next]_L!vars => ServerInv'
    BY ServerStep
  <1> QED
    BY <1>1, ServerStart, ServerIsAttentive, PTL DEF L!Spec

\* LineBuffer!LinesInOrder: recvline and processClient implement a queue of lines.
THEOREM ServerKeepsLines == L!Spec => ServerLines
  <1>1. ServerInv /\ [L!Next]_L!vars => ServerInv' /\ [L!Reader!Next]_<<lLines, handed>>
    BY ServerStep
  <1>2. L!Init => L!Reader!Init
    BY DEF L!Init, L!Reader!Init
  <1>3. L!Spec => L!Reader!Spec
    BY <1>1, <1>2, ServerStart, PTL DEF L!Spec, L!Reader!Spec
  <1> QED
    BY <1>3 DEF ServerLines, L!LinesInOrder

-----------------------------------------------------------------------------
\* The client.

ShownChar == ClientLetters \cup {Newline}

ClientBytes ==
    /\ servbuf \in Seq(ShownChar) /\ cStream \in Seq(ShownChar)
    /\ \A j \in 1 .. Len(servbuf) : servbuf[j] # Newline

ClientCounting == cCount \in 0 .. MaxBytes /\ cTyped \in Seq(ClientLetters) /\ Len(cTyped) <= cCount

ToShow == \E bytes : /\ Typing(ClientLetters, bytes, cLines, cTyped) /\ Laid(bytes, cLines, cTyped)
                     /\ Holds(bytes, 0, servbuf, cStream)

\* After a reset of the connection nothing is to come any more.
ClientInv == ClientBytes /\ ClientCounting /\ ((cEnded /\ cStream = <<>>) \/ ToShow)

LEMMA ClientStart ==
    ASSUME C!Init
    PROVE  ClientInv
  <1>1. servbuf = <<>> /\ cStream = <<>> /\ cTyped = <<>> /\ cLines = <<>> /\ cCount = 0
    BY DEF C!Init
  <1>2. Len(<<>>) = 0 /\ <<>> \in Seq(ShownChar)
    OBVIOUS
  <1>3. ClientBytes /\ ClientCounting
    BY <1>1, <1>2, FramingAssumption DEF ClientBytes, ClientCounting, FramingAssumption
  <1>4. Typing(ClientLetters, <<>>, <<>>, <<>>)
    BY DEF Typing
  <1>5. LaidAt([k \in {0} |-> 0], <<>>, <<>>, <<>>)
    <2>1. PICK pos : pos = [k \in {0} |-> 0]
      OBVIOUS
    <2>2. pos[0] = 0 /\ 0 .. 0 = {0} /\ pos \in [{0} -> Nat]
      BY <2>1
    <2> QED
      BY <1>2, <2>1, <2>2 DEF LaidAt
  <1>6. Holds(<<>>, 0, <<>>, <<>>)
    BY <1>2 DEF Holds
  <1> QED
    BY <1>1, <1>3, <1>4, <1>5, <1>6 DEF ClientInv, ToShow, Laid

LEMMA ClientReceives ==
    ASSUME ClientInv, C!Response
    PROVE  ClientInv' /\ [C!Screen!Next]_<<cLines, shown>>
  <1>1. PICK x, b, s : x = Head(cStream) /\ b = Append(servbuf, x) /\ s = Tail(cStream)
    OBVIOUS
  <1>2. /\ cStream # <<>> /\ cStream' = s /\ UNCHANGED <<cEnded, cTyped, cCount>>
        /\ \/ /\ x = Newline /\ shown' = b /\ cLines' = SubSeq(cLines, 2, Len(cLines))
              /\ servbuf' = <<>>
           \/ x # Newline /\ servbuf' = b /\ UNCHANGED <<shown, cLines>>
    BY <1>1 DEF C!Response, C!Shown
  <1>3. /\ servbuf \in Seq(ShownChar) /\ cStream \in Seq(ShownChar) /\ Len(servbuf) \in Nat
        /\ \A j \in 1 .. Len(servbuf) : servbuf[j] # Newline
    BY DEF ClientInv, ClientBytes
  <1>4. x \in ShownChar /\ s \in Seq(ShownChar)
    BY <1>1, <1>2, <1>3
  <1>5. /\ b \in Seq(ShownChar) /\ Len(b) = Len(servbuf) + 1 /\ b[Len(servbuf) + 1] = x
        /\ \A j \in 1 .. Len(servbuf) : b[j] = servbuf[j]
    BY <1>1, <1>3, <1>4
  <1>6. PICK bytes : /\ Typing(ClientLetters, bytes, cLines, cTyped) /\ Laid(bytes, cLines, cTyped)
                     /\ Holds(bytes, 0, servbuf, cStream)
    BY <1>2 DEF ClientInv, ToShow
  <1>7. Holds(bytes, 0, b, s)
    <2>1. 1 \in 0 .. Len(cStream)
      BY <1>2, <1>3
    <2>2. Holds(bytes, 0, servbuf \o SubSeq(cStream, 1, 1), SubSeq(cStream, 1 + 1, Len(cStream)))
      BY <1>3, <1>6, <2>1, HeldReceived
    <2>3. SubSeq(cStream, 1 + 1, Len(cStream)) = s
      <3>1. 1 + 1 = 2
        OBVIOUS
      <3> QED
        BY <1>1, <1>2, <1>3, <3>1, RestIsTail
    <2>4. servbuf \o SubSeq(cStream, 1, 1) = b
      <3>1. PICK u, w : u = SubSeq(cStream, 1, 1) /\ w = servbuf \o u
        OBVIOUS
      <3>2. u \in Seq(ShownChar) /\ Len(u) = 1 /\ \A j \in 1 .. 1 : u[j] = cStream[j]
        BY <1>3, <2>1, <3>1, CutAt
      <3>3. u[1] = x
        BY <1>1, <1>2, <1>3, <3>2
      <3>4. /\ w \in Seq(ShownChar) /\ Len(w) = Len(servbuf) + Len(u)
            /\ \A i \in 1 .. Len(servbuf) + Len(u) :
                  w[i] = IF i <= Len(servbuf) THEN servbuf[i] ELSE u[i - Len(servbuf)]
        BY <1>3, <3>1, <3>2, ConcatProperties
      <3>5. /\ Len(w) = Len(servbuf) + 1
            /\ \A i \in 1 .. Len(servbuf) + 1 :
                  w[i] = IF i <= Len(servbuf) THEN servbuf[i] ELSE u[i - Len(servbuf)]
        BY <3>2, <3>4
      <3>6. ASSUME NEW i \in 1 .. Len(servbuf) + 1 PROVE w[i] = b[i]
        <4>1. CASE i <= Len(servbuf)
          <5>1. i \in 1 .. Len(servbuf)
            BY <1>3, <4>1
          <5> QED
            BY <1>5, <3>5, <4>1, <5>1
        <4>2. CASE ~(i <= Len(servbuf))
          <5>1. i = Len(servbuf) + 1 /\ i - Len(servbuf) = 1
            BY <1>3, <4>2
          <5> QED
            BY <1>5, <3>3, <3>5, <4>2, <5>1
        <4> QED
          BY <4>1, <4>2
      <3>7. w = b
        BY <1>5, <3>4, <3>5, <3>6, SeqEqual
      <3> QED
        BY <3>1, <3>7
    <2> QED
      BY <2>2, <2>3, <2>4
  <1>8. ClientCounting'
    BY <1>2 DEF ClientInv, ClientCounting
  <1>9. CASE x = Newline
    <2>1. /\ shown' = b /\ cLines' = SubSeq(cLines, 2, Len(cLines)) /\ servbuf' = <<>>
      BY <1>2, <1>9
    <2>2. PICK e : e = Len(b)
      OBVIOUS
    <2>3. /\ e \in 0 + 1 .. Len(b) /\ b[e] = Newline
          /\ \A j \in 0 + 1 .. e - 1 : b[j] # Newline
      <3>1. e = Len(servbuf) + 1 /\ b[e] = Newline
        BY <1>5, <1>9, <2>2
      <3>2. e \in 0 + 1 .. Len(b) /\ \A j \in 0 + 1 .. e - 1 : j \in 1 .. Len(servbuf)
        BY <1>3, <2>2, <3>1
      <3> QED
        BY <1>3, <1>5, <3>1, <3>2
    <2>4. Newline \notin ClientLetters
      BY FramingAssumption DEF FramingAssumption
    <2>5. PICK b2 : /\ cLines # <<>> /\ Head(cLines) = SubSeq(b, 0 + 1, e)
                    /\ Typing(ClientLetters, b2, Tail(cLines), cTyped)
                    /\ Laid(b2, Tail(cLines), cTyped) /\ Holds(b2, e, b, s)
      <3>1. /\ Newline \notin ClientLetters /\ Typing(ClientLetters, bytes, cLines, cTyped)
            /\ Laid(bytes, cLines, cTyped)
            /\ b \in Seq(ClientLetters \cup {Newline}) /\ s \in Seq(ClientLetters \cup {Newline})
            /\ Holds(bytes, 0, b, s)
        BY <1>4, <1>5, <1>6, <1>7, <2>4 DEF ShownChar
      <3>2. /\ cLines # <<>> /\ Head(cLines) = SubSeq(b, 0 + 1, e)
            /\ \E b2 : /\ Typing(ClientLetters, b2, Tail(cLines), cTyped)
                       /\ Laid(b2, Tail(cLines), cTyped) /\ Holds(b2, e, b, s)
        BY <2>3, <3>1, HeldLine
      <3> QED
        BY <3>2
    <2>6. SubSeq(b, 0 + 1, e) = b
      <3>1. PICK u : u = SubSeq(b, 1, e)
        OBVIOUS
      <3>2. e \in 0 .. Len(b)
        BY <2>3
      <3>3. u \in Seq(ShownChar) /\ Len(u) = e /\ \A j \in 1 .. e : u[j] = b[j]
        BY <1>5, <3>1, <3>2, CutAt
      <3>4. u = b
        BY <1>5, <2>2, <3>3, SeqEqual
      <3>5. 0 + 1 = 1
        OBVIOUS
      <3> QED
        BY <3>1, <3>4, <3>5
    <2>7. cLines' = Tail(cLines)
      <3>1. cLines \in Seq(LinesOf(ClientLetters))
        BY <1>6 DEF Typing
      <3> QED
        BY <2>1, <2>5, <3>1, RestIsTail
    <2>8. C!Screen!Next
      BY <2>1, <2>5, <2>6, <2>7 DEF C!Screen!Next, C!Screen!Pop
    <2>9. Holds(b2, 0, <<>>, s)
      <3>1. Holds(b2, 0, SubSeq(b, e + 1, Len(b)), s)
        BY <1>4, <1>5, <2>5, HeldMoved
      <3>2. SubSeq(b, e + 1, Len(b)) = <<>>
        BY <1>3, <1>5, <2>2
      <3> QED
        BY <3>1, <3>2
    <2>10. ToShow'
      BY <1>2, <2>1, <2>5, <2>7, <2>9 DEF ToShow
    <2>11. ClientBytes'
      BY <1>2, <1>4, <2>1 DEF ClientBytes
    <2> QED
      BY <1>8, <2>8, <2>10, <2>11 DEF ClientInv
  <1>10. CASE x # Newline
    <2>1. servbuf' = b /\ UNCHANGED <<shown, cLines>>
      BY <1>2, <1>10
    <2>2. ASSUME NEW j \in 1 .. Len(b) PROVE b[j] # Newline
      <3>1. j \in 1 .. Len(servbuf) \/ j = Len(servbuf) + 1
        BY <1>3, <1>5
      <3> QED
        BY <1>3, <1>5, <1>10, <3>1
    <2>3. ClientBytes'
      BY <1>2, <1>4, <1>5, <2>1, <2>2 DEF ClientBytes
    <2>4. ToShow'
      BY <1>2, <1>6, <1>7, <2>1 DEF ToShow
    <2> QED
      BY <1>8, <2>1, <2>3, <2>4 DEF ClientInv
  <1> QED
    BY <1>9, <1>10

LEMMA ClientGetsMore ==
    ASSUME ClientInv, NEW x \in ClientLetters \cup {Newline}, C!ServerSends(x)
    PROVE  ClientInv' /\ [C!Screen!Next]_<<cLines, shown>>
  <1>1. /\ ~cEnded /\ cCount < MaxBytes /\ cCount' = cCount + 1
        /\ cStream' = Append(cStream, x)
        /\ UNCHANGED <<servbuf, shown, cEnded>>
    BY DEF C!ServerSends
  <1>2. Newline \notin ClientLetters /\ MaxBytes \in Nat
    BY FramingAssumption DEF FramingAssumption
  <1>3. PICK bytes : /\ Typing(ClientLetters, bytes, cLines, cTyped) /\ Laid(bytes, cLines, cTyped)
                     /\ Holds(bytes, 0, servbuf, cStream)
    BY <1>1 DEF ClientInv, ToShow
  <1>4. cStream \in Seq(ShownChar) /\ servbuf \in Seq(ShownChar) /\ bytes \in Seq(ShownChar) /\ x \in ShownChar
    BY <1>3 DEF ClientInv, ClientBytes, Typing, ShownChar
  <1>5. cStream' \in Seq(ShownChar)
    BY <1>1, <1>4
  <1>6. ClientBytes'
    BY <1>1, <1>5 DEF ClientInv, ClientBytes
  <1>7. Holds(Append(bytes, x), 0, servbuf', cStream')
    <2>1. Holds(Append(bytes, x), 0, servbuf, Append(cStream, x))
      BY <1>3, <1>4, HeldSent
    <2> QED
      BY <1>1, <2>1
  <1>8. /\ cCount \in 0 .. MaxBytes /\ cTyped \in Seq(ClientLetters) /\ Len(cTyped) <= cCount
        /\ Len(cTyped) \in Nat /\ cCount' \in 0 .. MaxBytes
    BY <1>1, <1>2 DEF ClientInv, ClientCounting
  <1>9. CASE x = Newline
    <2>1. cLines' = Append(cLines, Append(cTyped, Newline)) /\ cTyped' = <<>>
      BY <1>9 DEF C!ServerSends
    <2>2. ToShow'
      <3>1. /\ Typing(ClientLetters, Append(bytes, x), cLines', cTyped')
            /\ Laid(Append(bytes, x), cLines', cTyped')
        BY <1>3, <1>9, <2>1, LaidNewline
      <3> QED
        BY <1>7, <3>1 DEF ToShow
    <2>3. ClientCounting'
      BY <1>1, <1>8, <2>1 DEF ClientCounting
    <2>4. C!Screen!Next
      <3>1. Len(cTyped) <= MaxBytes - 1
        BY <1>1, <1>2, <1>8
      <3>2. cTyped \in L!BoundedSeq(ClientLetters, MaxBytes - 1)
        BY <1>8, <3>1, IsLine
      <3>3. cTyped \in C!BoundedSeq(ClientLetters, MaxBytes - 1)
        BY <3>2 DEF L!BoundedSeq, L!SeqOf, C!BoundedSeq, C!SeqOf
      <3>4. Append(cTyped, Newline) \in C!Lines
        BY <3>3 DEF C!Lines
      <3> QED
        BY <1>1, <2>1, <3>4 DEF C!Screen!Next, C!Screen!Push
    <2> QED
      BY <1>6, <2>2, <2>3, <2>4 DEF ClientInv
  <1>10. CASE x # Newline
    <2>1. x \in ClientLetters /\ cLines' = cLines /\ cTyped' = Append(cTyped, x)
      BY <1>10 DEF C!ServerSends
    <2>2. ToShow'
      <3>1. /\ Typing(ClientLetters, Append(bytes, x), cLines', cTyped')
            /\ Laid(Append(bytes, x), cLines', cTyped')
        BY <1>3, <2>1, LaidLetter
      <3> QED
        BY <1>7, <3>1 DEF ToShow
    <2>3. ClientCounting'
      <3>1. Len(cTyped') = Len(cTyped) + 1 /\ cTyped' \in Seq(ClientLetters)
        BY <1>8, <2>1
      <3> QED
        BY <1>1, <1>8, <3>1 DEF ClientCounting
    <2> QED
      BY <1>1, <1>6, <2>1, <2>2, <2>3 DEF ClientInv
  <1> QED
    BY <1>9, <1>10

LEMMA ClientStep ==
    ASSUME ClientInv, [C!Next]_C!vars
    PROVE  ClientInv' /\ [C!Screen!Next]_<<cLines, shown>>
  <1>1. ASSUME NEW x \in ClientLetters \cup {Newline}, C!ServerSends(x)
        PROVE  ClientInv' /\ [C!Screen!Next]_<<cLines, shown>>
    BY <1>1, ClientGetsMore
  <1>2. ASSUME UNCHANGED <<servbuf, cStream, cEnded, cTyped, cLines, shown, cCount>>
        PROVE  ClientInv' /\ [C!Screen!Next]_<<cLines, shown>>
    <2>1. ClientBytes' /\ ClientCounting' /\ ((cEnded /\ cStream = <<>>) \/ ToShow)'
      BY <1>2 DEF ClientInv, ClientBytes, ClientCounting, ToShow
    <2> QED
      BY <1>2, <2>1 DEF ClientInv
  <1>3. CASE C!ServerCloses
    <2>1. /\ UNCHANGED <<servbuf, cTyped, cLines, shown, cCount>>
          /\ cEnded' = TRUE /\ ~cEnded /\ cStream' \in {cStream, <<>>}
      BY <1>3 DEF C!ServerCloses
    <2>2. cStream' \in Seq(ShownChar)
      <3>1. cStream \in Seq(ShownChar) /\ <<>> \in Seq(ShownChar)
        BY DEF ClientInv, ClientBytes
      <3> QED
        BY <2>1, <3>1
    <2>3. ClientBytes' /\ ClientCounting'
      BY <2>1, <2>2 DEF ClientInv, ClientBytes, ClientCounting
    <2>4. ((cEnded /\ cStream = <<>>) \/ ToShow)'
      <3>1. CASE cStream' = <<>>
        BY <2>1, <3>1
      <3>2. CASE cStream' = cStream
        BY <2>1, <3>2 DEF ClientInv, ToShow
      <3> QED
        BY <2>1, <3>1, <3>2
    <2> QED
      BY <2>1, <2>3, <2>4 DEF ClientInv
  <1>4. C!Select \/ C!Input \/ C!ResponseNothing \/ C!Leave \/ C!UserTypes \/ UNCHANGED C!vars
        => UNCHANGED <<servbuf, cStream, cEnded, cTyped, cLines, shown, cCount>>
    BY DEF C!Select, C!Input, C!ResponseNothing, C!Leave, C!UserTypes, C!vars, C!net, C!user
  <1> QED
    BY <1>1, <1>2, <1>3, <1>4, ClientReceives DEF C!Next

\* ChatClient!ShownInOrder: the loop around select implements a queue of lines.
THEOREM ClientShowsLines == C!Spec => ClientLines
  <1>1. ClientInv /\ [C!Next]_C!vars => ClientInv' /\ [C!Screen!Next]_<<cLines, shown>>
    BY ClientStep
  <1>2. C!Init => C!Screen!Init
    BY DEF C!Init, C!Screen!Init
  <1>3. C!Spec => C!Screen!Spec
    BY <1>1, <1>2, ClientStart, PTL DEF C!Spec, C!Screen!Spec
  <1> QED
    BY <1>3 DEF ClientLines, C!ShownInOrder
=============================================================================
