------------------------ MODULE WindowTransferProofs ------------------------
(***************************************************************************)
(* The invariant of WindowTransfer is inductive, and what follows from it: *)
(* TypeOK, FilePrefix, ResendsOriginal, ListTilesWindow, AckPointIsFirst   *)
(* and PacketTableSuffices hold for every file, every window and every     *)
(* first sequence number, whatever the network does. With one session it   *)
(* also implements FileCopy.                                               *)
(***************************************************************************)
EXTENDS WindowInvariant, SequenceTheorems, TLAPS

-----------------------------------------------------------------------------
(* Sequence numbers and rings, for every SNSpace and BufSize.  A position  *)
(* n (an integer, the offset in the file) has the sequence number          *)
(* Plus(base, n); the lemmas say what the operators of SeqRing do with     *)
(* positions, so that the later proofs never meet a modulus.               *)

LEMMA Division ==
    ASSUME NEW M \in Nat \ {0}, NEW x \in Int
    PROVE  x = (x \div M) * M + (x % M) /\ x \div M \in Int /\ x % M \in 0 .. M - 1
  BY SMT

LEMMA DivisionUnique ==
    ASSUME NEW M \in Nat \ {0}, NEW x \in Int, NEW q \in Int, NEW r \in 0 .. M - 1,
           x = q * M + r
    PROVE  x % M = r
  BY SMT

LEMMA Distribute ==
    ASSUME NEW a \in Int, NEW b \in Int, NEW c \in Int
    PROVE  (a + b) * c = a * c + b * c /\ a * c \in Int
  BY SMT

LEMMA ModSmall ==
    ASSUME NEW M \in Nat \ {0}, NEW x \in Int
    PROVE  /\ 0 <= x /\ x < M => x % M = x
           /\ -M <= x /\ x < 0 => x % M = x + M
           /\ M <= x /\ x < 2 * M => x % M = x - M
  <1>1. ASSUME 0 <= x, x < M PROVE x % M = x
    <2>1. x = 0 * M + x OBVIOUS
    <2>2. QED BY <1>1, <2>1, DivisionUnique
  <1>2. ASSUME -M <= x, x < 0 PROVE x % M = x + M
    <2>1. x = (-1) * M + (x + M) OBVIOUS
    <2>2. QED BY <1>2, <2>1, DivisionUnique
  <1>3. ASSUME M <= x, x < 2 * M PROVE x % M = x - M
    <2>1. x = 1 * M + (x - M) OBVIOUS
    <2>2. QED BY <1>3, <2>1, DivisionUnique
  <1>4. QED BY <1>1, <1>2, <1>3

LEMMA ModShift ==
    ASSUME NEW M \in Nat \ {0}, NEW x \in Int, NEW k \in Int
    PROVE  (x + k * M) % M = x % M
  <1> DEFINE q == x \div M
             r == x % M
  <1>1. x = q * M + r /\ q \in Int /\ r \in 0 .. M - 1 BY Division
  <1>2. x + k * M = (q + k) * M + r
    <2>1. (q + k) * M = q * M + k * M /\ q * M \in Int /\ k * M \in Int
      BY <1>1, Distribute
    <2> HIDE DEF q, r
    <2>2. QED BY <1>1, <2>1
  <1> HIDE DEF q, r
  <1>3. x + k * M \in Int /\ q + k \in Int BY <1>1
  <1>4. (x + k * M) % M = r BY <1>1, <1>2, <1>3, DivisionUnique
  <1>5. QED BY <1>4 DEF r

LEMMA ModMod ==
    ASSUME NEW M \in Nat \ {0}, NEW x \in Int, NEW y \in Int
    PROVE  /\ ((x % M) + y) % M = (x + y) % M
           /\ (y - (x % M)) % M = (y - x) % M
  <1> DEFINE q == x \div M
             r == x % M
  <1>1. x = q * M + r /\ q \in Int /\ r \in 0 .. M - 1 BY Division
  <1>2. q * M \in Int /\ (-q) * M = -(q * M) BY <1>1, SMT
  <1> HIDE DEF q, r
  <1>3. r + y = (x + y) + (-q) * M /\ y - r = (y - x) + q * M BY <1>1, <1>2
  <1>4. -q \in Int /\ x + y \in Int /\ y - x \in Int BY <1>1
  <1>5. ((x + y) + (-q) * M) % M = (x + y) % M BY <1>4, ModShift
  <1>6. ((y - x) + q * M) % M = (y - x) % M BY <1>1, <1>4, ModShift
  <1>7. QED BY <1>3, <1>5, <1>6 DEF r

\* Two numbers with the same remainder that are less than M apart are equal.
LEMMA ModInjective ==
    ASSUME NEW M \in Nat \ {0}, NEW x \in Int, NEW y \in Int,
           x % M = y % M, x - y < M, y - x < M
    PROVE  x = y
  <1>1. (y - (x % M)) % M = (y - x) % M /\ (y - (y % M)) % M = (y - y) % M
    BY ModMod
  <1>2. (y - x) % M = 0 BY <1>1, ModSmall
  <1>3. CASE y - x < 0 BY <1>2, <1>3, ModSmall
  <1>4. CASE y - x >= 0 BY <1>2, <1>4, ModSmall
  <1>5. QED BY <1>3, <1>4

LEMMA Associate ==
    ASSUME NEW a \in Int, NEW b \in Int, NEW c \in Int
    PROVE  (a * b) * c = a * (b * c) /\ a * b \in Int
  BY SMT

LEMMA ModDivides ==
    ASSUME NEW M \in Nat \ {0}, NEW B \in Nat \ {0}, NEW k \in Nat, M = k * B,
           NEW x \in Int
    PROVE  (x % M) % B = x % B
  <1> DEFINE q == x \div M
             r == x % M
  <1>1. x = q * M + r /\ q \in Int /\ r \in 0 .. M - 1 BY Division
  <1> HIDE DEF q, r
  <1>2. q * M = (q * k) * B /\ q * k \in Int
    <2>1. (q * k) * B = q * (k * B) /\ q * k \in Int BY <1>1, Associate
    <2>2. QED BY <2>1
  <1>3. (q * k) * B \in Int BY <1>2, Associate
  <1>4. r \in Int BY <1>1
  <1>5. x = r + (q * k) * B BY <1>1, <1>2, <1>3, <1>4
  <1>6. (r + (q * k) * B) % B = r % B BY <1>2, <1>4, ModShift
  <1>7. QED BY <1>5, <1>6 DEF r

-----------------------------------------------------------------------------
(* Positions and their sequence numbers.                                   *)

LEMMA RingSizes ==
    /\ SNSpace \in Nat \ {0} /\ BufSize \in Nat \ {0}
    /\ BufSize < SNSpace
  <1>1. SNSpace \in Nat \ {0} /\ BufSize \in Nat \ {0} BY SNAssumption
  <1>2. PICK k \in 2 .. SNSpace : SNSpace = k * BufSize BY SNAssumption
  <1>3. k * BufSize = 2 * BufSize + (k - 2) * BufSize /\ (k - 2) * BufSize \in Int
    BY <1>1, Distribute
  <1>4. (k - 2) * BufSize >= 0 BY <1>1, <1>2, SMT
  <1>5. QED BY <1>1, <1>2, <1>3, <1>4

\* The slot of a number is the same before and after it wraps.
LEMMA SlotModulus ==
    ASSUME NEW x \in Int PROVE (x % SNSpace) % BufSize = x % BufSize
  <1>1. PICK k \in 2 .. SNSpace : SNSpace = k * BufSize BY SNAssumption
  <1>2. k \in Nat BY RingSizes
  <1>3. QED BY <1>1, <1>2, ModDivides, RingSizes

\* Sequence numbers and slots stay in their range.
LEMMA ModTypes ==
    /\ \A a, n \in Int : Plus(a, n) \in SN /\ Minus(a, n) \in SN
    /\ \A a \in Int : Slot(a) \in Slots
    /\ \A s, a \in Int : RingDist(s, a) \in Slots
    /\ SN \subseteq Int /\ Slots \subseteq Int
  <1>1. ASSUME NEW M \in Nat \ {0}, NEW x \in Int PROVE x % M \in 0 .. M - 1
    BY Division
  <1>2. ASSUME NEW a \in Int, NEW n \in Int
        PROVE  Plus(a, n) \in SN /\ Minus(a, n) \in SN
    <2>1. a + n \in Int /\ a - n \in Int OBVIOUS
    <2>2. (a + n) % SNSpace \in 0 .. SNSpace - 1 BY <1>1, <2>1, RingSizes
    <2>3. (a - n) % SNSpace \in 0 .. SNSpace - 1 BY <1>1, <2>1, RingSizes
    <2>4. QED BY <2>2, <2>3 DEF Plus, Minus, SN
  <1>3. ASSUME NEW a \in Int PROVE Slot(a) \in Slots
    BY <1>1, RingSizes DEF Slot, Slots
  <1>4. SN \subseteq Int /\ Slots \subseteq Int BY RingSizes DEF SN, Slots
  <1>5. ASSUME NEW s \in Int, NEW a \in Int PROVE RingDist(s, a) \in Slots
    <2>1. Slot(a) \in Int BY <1>3, <1>4
    <2>2. s - Slot(a) \in Int BY <2>1
    <2>3. QED BY <1>1, <2>2, RingSizes DEF RingDist, Slots
  <1>6. QED BY <1>2, <1>3, <1>4, <1>5

\* Adding to a sequence number is adding to its position.
LEMMA PlusPlus ==
    ASSUME NEW b \in Int, NEW n \in Int, NEW k \in Int
    PROVE  /\ Plus(Plus(b, n), k) = Plus(b, n + k)
           /\ Minus(Plus(b, n), k) = Plus(b, n - k)
  <1>1. (((b + n) % SNSpace) + k) % SNSpace = ((b + n) + k) % SNSpace
    BY RingSizes, ModMod, b + n \in Int
  <1>2. (((b + n) % SNSpace) + (-k)) % SNSpace = ((b + n) + (-k)) % SNSpace
    BY RingSizes, ModMod, b + n \in Int, -k \in Int
  <1>3. (b + n) % SNSpace \in Int BY RingSizes, Division, b + n \in Int
  <1>4. /\ ((b + n) % SNSpace) + (-k) = ((b + n) % SNSpace) - k
        /\ (b + n) + (-k) = b + (n - k) /\ (b + n) + k = b + (n + k)
    BY <1>3
  <1>5. QED BY <1>1, <1>2, <1>4 DEF Plus, Minus

\* The difference of two sequence numbers, for positions that are less than
\* SNSpace apart.
LEMMA MinusPlus ==
    ASSUME NEW b \in Int, NEW m \in Int, NEW n \in Int
    PROVE  /\ n <= m /\ m - n < SNSpace => Minus(Plus(b, m), Plus(b, n)) = m - n
           /\ m < n /\ n - m <= SNSpace => Minus(Plus(b, m), Plus(b, n)) = m - n + SNSpace
  <1> DEFINE x == b + m
             y == b + n
             u == x % SNSpace
  <1>1. x \in Int /\ y \in Int /\ x - y = m - n OBVIOUS
  <1>2. u \in Int /\ (u - y) \in Int BY <1>1, RingSizes, Division
  <1> HIDE DEF x, y
  <1>3. (u - (y % SNSpace)) % SNSpace = (u - y) % SNSpace
    BY <1>1, <1>2, RingSizes, ModMod
  <1>4. ((x % SNSpace) + (-y)) % SNSpace = (x + (-y)) % SNSpace
    BY <1>1, RingSizes, ModMod, -y \in Int
  <1>5. (x % SNSpace) + (-y) = u - y /\ x + (-y) = m - n BY <1>1, <1>2
  <1>6. Minus(Plus(b, m), Plus(b, n)) = (m - n) % SNSpace
    BY <1>3, <1>4, <1>5 DEF Plus, Minus, x, y
  <1> DEFINE d == m - n
  <1>7. d \in Int /\ SNSpace \in Nat \ {0} BY RingSizes
  <1> HIDE DEF d
  <1>8. /\ 0 <= d /\ d < SNSpace => d % SNSpace = d
        /\ -SNSpace <= d /\ d < 0 => d % SNSpace = d + SNSpace
    BY <1>7, ModSmall
  <1> DEFINE e == d % SNSpace
  <1>9. Minus(Plus(b, m), Plus(b, n)) = e BY <1>6 DEF d
  <1>10. /\ 0 <= d /\ d < SNSpace => e = d
         /\ -SNSpace <= d /\ d < 0 => e = d + SNSpace
    BY <1>8
  <1> HIDE DEF e
  <1>11. QED BY <1>7, <1>9, <1>10 DEF d

\* Every sequence number has a position, its distance from the base.
LEMMA PlusMinus ==
    ASSUME NEW b \in SN, NEW sn \in SN
    PROVE  /\ Plus(b, Minus(sn, b)) = sn
           /\ Minus(sn, b) \in Nat /\ Minus(sn, b) < SNSpace
           /\ Plus(b, 0) = b
  <1>1. b \in Int /\ sn \in Int /\ sn - b \in Int /\ SNSpace \in Nat \ {0}
    BY RingSizes, ModTypes
  <1>2. (((sn - b) % SNSpace) + b) % SNSpace = ((sn - b) + b) % SNSpace
    BY <1>1, ModMod
  <1>3. (sn - b) % SNSpace \in Int BY <1>1, Division
  <1>4. ((sn - b) % SNSpace) + b = b + ((sn - b) % SNSpace) /\ (sn - b) + b = sn
    BY <1>1, <1>3
  <1>5. sn % SNSpace = sn /\ (b + 0) % SNSpace = b
    BY <1>1, ModSmall, b + 0 = b DEF SN
  <1>6. Minus(sn, b) \in SN BY <1>1, ModTypes
  <1>7. QED BY <1>1, <1>2, <1>4, <1>5, <1>6 DEF Plus, Minus, SN

LEMMA OffsetOfPlus ==
    ASSUME NEW b \in SN, NEW n \in Int, 0 <= n, n < SNSpace
    PROVE  Minus(Plus(b, n), b) = n
  <1>1. b \in Int BY ModTypes
  <1>2. Plus(b, 0) = b BY PlusMinus
  <1>3. Minus(Plus(b, n), Plus(b, 0)) = n - 0 BY <1>1, MinusPlus, RingSizes
  <1>4. QED BY <1>2, <1>3

\* The receiver's range test is the comparison of positions.
LEMMA InsideRangeIsInterval ==
    ASSUME NEW base \in Int, NEW x \in Int, NEW a \in Int, NEW b \in Int,
           a <= b, b - a < SNSpace, x - a < SNSpace, b - x <= SNSpace
    PROVE  InsideRange(Plus(base, x), Plus(base, a), Plus(base, b)) <=> a <= x /\ x < b
  <1>1. Minus(Plus(base, b), Plus(base, a)) = b - a BY MinusPlus, RingSizes
  <1>2. CASE a <= x /\ x < b
    <2>1. Minus(Plus(base, x), Plus(base, a)) = x - a BY <1>2, MinusPlus, RingSizes
    <2>2. Minus(Plus(base, b), Plus(base, x)) = b - x BY <1>2, MinusPlus, RingSizes
    <2>3. QED BY <1>1, <1>2, <2>1, <2>2 DEF InsideRange
  <1>3. CASE b <= x
    <2>1. Minus(Plus(base, x), Plus(base, a)) = x - a BY <1>3, MinusPlus, RingSizes
    <2>2. QED BY <1>1, <1>3, <2>1 DEF InsideRange
  <1>4. CASE x < a
    <2>1. Minus(Plus(base, x), Plus(base, a)) = x - a + SNSpace
      BY <1>4, MinusPlus, RingSizes
    <2>2. QED BY <1>1, <1>4, <2>1, RingSizes DEF InsideRange
  <1>5. QED BY <1>2, <1>3, <1>4

-----------------------------------------------------------------------------
(* Positions and slots of a ring.                                          *)

LEMMA SlotOfPlus ==
    ASSUME NEW b \in Int, NEW n \in Int
    PROVE  Slot(Plus(b, n)) = (b + n) % BufSize
  <1>1. b + n \in Int OBVIOUS
  <1>2. ((b + n) % SNSpace) % BufSize = (b + n) % BufSize BY <1>1, SlotModulus
  <1>3. QED BY <1>2 DEF Slot, Plus

\* Positions less than BufSize apart have different slots, positions
\* BufSize apart have the same.
LEMMA SlotInjective ==
    ASSUME NEW b \in Int, NEW m \in Int, NEW n \in Int,
           m - n < BufSize, n - m < BufSize, Slot(Plus(b, m)) = Slot(Plus(b, n))
    PROVE  m = n
  <1>1. b + m \in Int /\ b + n \in Int /\ (b + m) - (b + n) < BufSize
        /\ (b + n) - (b + m) < BufSize OBVIOUS
  <1>2. b + m = b + n BY <1>1, SlotOfPlus, ModInjective, RingSizes
  <1>3. QED BY <1>2

LEMMA SlotPeriodic ==
    ASSUME NEW b \in Int, NEW n \in Int
    PROVE  Slot(Plus(b, n + BufSize)) = Slot(Plus(b, n))
  <1>1. ((b + n) + 1 * BufSize) % BufSize = (b + n) % BufSize
    <2>1. b + n \in Int /\ 1 \in Int OBVIOUS
    <2>2. QED BY <2>1, ModShift, RingSizes
  <1>2. (b + n) + 1 * BufSize = b + (n + BufSize) /\ n + BufSize \in Int BY RingSizes
  <1>3. Slot(Plus(b, n + BufSize)) = (b + (n + BufSize)) % BufSize BY <1>2, SlotOfPlus
  <1>4. Slot(Plus(b, n)) = (b + n) % BufSize BY SlotOfPlus
  <1>5. QED BY <1>1, <1>2, <1>3, <1>4

LEMMA RingDistOfPlus ==
    ASSUME NEW b \in Int, NEW m \in Int, NEW n \in Int
    PROVE  /\ n <= m /\ m - n < BufSize => RingDist(Slot(Plus(b, m)), Plus(b, n)) = m - n
           /\ m < n /\ n - m <= BufSize =>
                 RingDist(Slot(Plus(b, m)), Plus(b, n)) = m - n + BufSize
  <1> DEFINE x == b + m
             y == b + n
             u == x % BufSize
  <1>1. x \in Int /\ y \in Int /\ x - y = m - n OBVIOUS
  <1>2. u \in Int /\ (u - y) \in Int BY <1>1, RingSizes, Division
  <1> HIDE DEF x, y
  <1>3. (u - (y % BufSize)) % BufSize = (u - y) % BufSize
    BY <1>1, <1>2, RingSizes, ModMod
  <1>4. ((x % BufSize) + (-y)) % BufSize = (x + (-y)) % BufSize
    BY <1>1, RingSizes, ModMod, -y \in Int
  <1>5. (x % BufSize) + (-y) = u - y /\ x + (-y) = m - n BY <1>1, <1>2
  <1>6. RingDist(Slot(Plus(b, m)), Plus(b, n)) = (m - n) % BufSize
    BY <1>3, <1>4, <1>5, SlotOfPlus DEF RingDist, x, y
  <1> DEFINE d == m - n
  <1>7. d \in Int /\ BufSize \in Nat \ {0} BY RingSizes
  <1> HIDE DEF d
  <1>8. /\ 0 <= d /\ d < BufSize => d % BufSize = d
        /\ -BufSize <= d /\ d < 0 => d % BufSize = d + BufSize
    BY <1>7, ModSmall
  <1> DEFINE e == d % BufSize
  <1>9. RingDist(Slot(Plus(b, m)), Plus(b, n)) = e BY <1>6 DEF d
  <1>10. /\ 0 <= d /\ d < BufSize => e = d
         /\ -BufSize <= d /\ d < 0 => e = d + BufSize
    BY <1>8
  <1> HIDE DEF e
  <1>11. QED BY <1>7, <1>9, <1>10 DEF d

LEMMA RingTypes ==
    ASSUME NEW S, NEW ring \in [Slots -> S], NEW sn \in Int
    PROVE  /\ \A d \in Seq(S) : RingWrite(ring, sn, d) \in [Slots -> S]
           /\ \A n \in Nat, v \in S : RingFill(ring, sn, n, v) \in [Slots -> S]
           /\ \A n \in Nat : RingRead(ring, sn, n) \in Seq(S)
                             /\ Len(RingRead(ring, sn, n)) = n
  <1>1. ASSUME NEW d \in Seq(S), NEW s \in Slots, RingDist(s, sn) < Len(d)
        PROVE  d[RingDist(s, sn) + 1] \in S
    <2>1. s \in Int /\ RingDist(s, sn) \in Slots /\ Len(d) \in Nat
      BY ModTypes, LenProperties
    <2>2. RingDist(s, sn) + 1 \in 1 .. Len(d) BY <1>1, <2>1, RingSizes DEF Slots
    <2>3. QED BY <2>2, ElementOfSeq
  <1>2. ASSUME NEW d \in Seq(S) PROVE RingWrite(ring, sn, d) \in [Slots -> S]
    BY <1>1 DEF RingWrite
  <1>3. ASSUME NEW n \in Nat, NEW v \in S PROVE RingFill(ring, sn, n, v) \in [Slots -> S]
    BY DEF RingFill
  <1>4. ASSUME NEW n \in Nat
        PROVE  RingRead(ring, sn, n) \in Seq(S) /\ Len(RingRead(ring, sn, n)) = n
    <2>1. ASSUME NEW i \in 1 .. n PROVE ring[Slot(Plus(sn, i - 1))] \in S
      <3>1. Plus(sn, i - 1) \in Int BY ModTypes, i - 1 \in Int
      <3>2. QED BY <3>1, ModTypes
    <2>2. RingRead(ring, sn, n) \in [1 .. n -> S] BY <2>1 DEF RingRead
    <2>3. QED BY <2>2
  <1>5. QED BY <1>2, <1>3, <1>4

-----------------------------------------------------------------------------
(* The constants.                                                          *)

LEMMA Sizes ==
    /\ FileLen \in Nat /\ MaxData \in Nat \ {0} /\ WindowSize \in Nat \ {0}
    /\ WindowSize = BufSize - 1 /\ MaxData <= WindowSize
    /\ BufSize \in Nat /\ SNSpace \in Nat /\ FileLen + 2 * BufSize < SNSpace
    /\ MaxPackets \in Nat /\ MaxPackets >= Packs(WindowSize) + 2
    /\ InitSNs \subseteq SN
  BY TransferAssumption, RingSizes DEF Packs

LEMMA MulLess ==
    ASSUME NEW M \in Nat \ {0}, NEW a \in Int, NEW b \in Int, a * M < b * M
    PROVE  a < b
  <1>1. SUFFICES ASSUME a >= b PROVE FALSE OBVIOUS
  <1>2. a * M = b * M + (a - b) * M /\ a * M \in Int /\ b * M \in Int
        /\ (a - b) * M \in Int
    BY Distribute
  <1>3. (a - b) * M >= 0 BY <1>1, SMT
  <1>4. QED BY <1>2, <1>3

\* The number of packets that cover a window.
LEMMA PacksBounds ==
    ASSUME NEW w \in {MaxData, WindowSize}
    PROVE  /\ Packs(w) \in Nat /\ Packs(w) * MaxData \in Int
           /\ w <= Packs(w) * MaxData /\ Packs(w) * MaxData < w + MaxData
           /\ Packs(w) + 2 <= MaxPackets
  <1>1. ASSUME NEW v \in {MaxData, WindowSize}
        PROVE  /\ Packs(v) \in Nat /\ Packs(v) * MaxData \in Int
               /\ v <= Packs(v) * MaxData /\ Packs(v) * MaxData < v + MaxData
    <2> DEFINE x == v + MaxData - 1
               c == x \div MaxData
               r == x % MaxData
    <2>1. x \in Int /\ x >= 0 /\ v \in Int BY Sizes
    <2> HIDE DEF x
    <2>2. x = c * MaxData + r /\ c \in Int /\ r \in 0 .. MaxData - 1
      BY <2>1, Division, Sizes
    <2>3. Packs(v) = c BY DEF Packs, CeilDiv, x
    <2> HIDE DEF c, r
    <2>4. c * MaxData \in Int BY <2>2, Distribute, Sizes
    <2>5. v <= c * MaxData /\ c * MaxData < v + MaxData BY <2>1, <2>2, <2>4, Sizes DEF x
    <2>6. v > 0 BY Sizes
    <2>7. 0 * MaxData < c * MaxData BY <2>1, <2>4, <2>5, <2>6, Sizes
    <2>8. c > 0 BY <2>2, <2>7, MulLess, Sizes
    <2>9. QED BY <2>2, <2>3, <2>4, <2>5, <2>8
  <1> DEFINE c == Packs(w)
             d == Packs(WindowSize)
  <1>2. c \in Nat /\ c * MaxData \in Int /\ c * MaxData < w + MaxData
        /\ d \in Nat /\ d * MaxData \in Int /\ WindowSize <= d * MaxData
    BY <1>1
  <1> HIDE DEF c, d
  <1>3. c * MaxData = (c - 1) * MaxData + 1 * MaxData /\ (c - 1) * MaxData \in Int
    BY <1>2, Distribute, Sizes
  <1>4. w <= WindowSize BY Sizes
  <1>5. (c - 1) * MaxData < d * MaxData BY <1>2, <1>3, <1>4, Sizes
  <1>6. c - 1 < d BY <1>2, <1>5, MulLess, Sizes
  <1>7. c + 2 <= MaxPackets BY <1>2, <1>6, Sizes DEF d
  <1>8. QED BY <1>1, <1>7 DEF c

-----------------------------------------------------------------------------
(* Positions in the file.                                                  *)

LEMMA Offsets ==
    ASSUME initSN \in SN
    PROVE  /\ \A n \in Int : At(n) \in SN
           /\ \A n \in 0 .. FileLen + 2 * BufSize : Off(At(n)) = n
           /\ \A sn \in SN : Off(sn) \in Nat /\ Off(sn) < SNSpace /\ At(Off(sn)) = sn
           /\ At(0) = initSN /\ initSN \in Int
  <1>1. initSN \in Int BY ModTypes
  <1>2. \A n \in Int : At(n) \in SN BY <1>1, ModTypes DEF At
  <1>3. ASSUME NEW n \in 0 .. FileLen + 2 * BufSize PROVE Off(At(n)) = n
    BY OffsetOfPlus, Sizes DEF Off, At
  <1>4. ASSUME NEW sn \in SN
        PROVE  Off(sn) \in Nat /\ Off(sn) < SNSpace /\ At(Off(sn)) = sn
    BY PlusMinus DEF Off, At
  <1>5. At(0) = initSN BY PlusMinus DEF At
  <1>6. QED BY <1>1, <1>2, <1>3, <1>4, <1>5

LEMMA Shift ==
    ASSUME initSN \in SN, NEW n \in Int, NEW k \in Int
    PROVE  Plus(At(n), k) = At(n + k) /\ Minus(At(n), k) = At(n - k)
  <1>1. initSN \in Int BY ModTypes
  <1>2. QED BY <1>1, PlusPlus DEF At

LEMMA Distance ==
    ASSUME initSN \in SN, NEW m \in Int, NEW n \in Int, n <= m, m - n < SNSpace
    PROVE  Minus(At(m), At(n)) = m - n
  <1>1. initSN \in Int BY ModTypes
  <1>2. QED BY <1>1, MinusPlus DEF At

\* What RingWrite and RingFill leave at the slot of a position, for positions
\* that are not more than a turn of the ring away.
LEMMA RingDistAt ==
    ASSUME initSN \in SN, NEW m \in Int, NEW p \in Int
    PROVE  /\ Slot(At(m)) \in Slots
           /\ p <= m /\ m - p < BufSize => RingDist(Slot(At(m)), At(p)) = m - p
           /\ m < p /\ p - m <= BufSize =>
                 RingDist(Slot(At(m)), At(p)) = m - p + BufSize
  <1>1. initSN \in Int BY ModTypes
  <1>2. QED BY <1>1, ModTypes, RingDistOfPlus DEF At

LEMMA WriteAt ==
    ASSUME initSN \in SN, NEW ring, NEW p \in Int, NEW d, NEW m \in Int,
           Len(d) \in Nat, p + Len(d) - BufSize <= m, m < p + BufSize
    PROVE  RingWrite(ring, At(p), d)[Slot(At(m))] =
             IF p <= m /\ m < p + Len(d) THEN d[m - p + 1] ELSE ring[Slot(At(m))]
  <1> DEFINE s == Slot(At(m))
             dist == RingDist(s, At(p))
  <1>1. s \in Slots BY RingDistAt
  <1>2. RingWrite(ring, At(p), d)[s] = IF dist < Len(d) THEN d[dist + 1] ELSE ring[s]
    BY <1>1 DEF RingWrite
  <1> HIDE DEF s
  <1>3. CASE p <= m
    <2>1. dist = m - p BY <1>3, RingDistAt, RingSizes DEF s
    <2> HIDE DEF dist
    <2>2. dist < Len(d) <=> m < p + Len(d) BY <2>1
    <2>3. QED BY <1>2, <1>3, <2>1, <2>2 DEF s
  <1>4. CASE m < p
    <2>1. dist = m - p + BufSize BY <1>4, RingDistAt, RingSizes DEF s
    <2> HIDE DEF dist
    <2>2. ~(dist < Len(d)) BY <2>1, RingSizes
    <2>3. QED BY <1>2, <1>4, <2>2 DEF s
  <1>5. QED BY <1>3, <1>4

LEMMA FillAt ==
    ASSUME initSN \in SN, NEW ring, NEW p \in Int, NEW n \in Nat, NEW v, NEW m \in Int,
           p + n - BufSize <= m, m < p + BufSize
    PROVE  RingFill(ring, At(p), n, v)[Slot(At(m))] =
             IF p <= m /\ m < p + n THEN v ELSE ring[Slot(At(m))]
  <1> DEFINE s == Slot(At(m))
             dist == RingDist(s, At(p))
  <1>1. s \in Slots BY RingDistAt
  <1>2. RingFill(ring, At(p), n, v)[s] = IF dist < n THEN v ELSE ring[s]
    BY <1>1 DEF RingFill
  <1> HIDE DEF s
  <1>3. CASE p <= m
    <2>1. dist = m - p BY <1>3, RingDistAt, RingSizes DEF s
    <2> HIDE DEF dist
    <2>2. dist < n <=> m < p + n BY <2>1
    <2>3. QED BY <1>2, <1>3, <2>2 DEF s
  <1>4. CASE m < p
    <2>1. dist = m - p + BufSize BY <1>4, RingDistAt, RingSizes DEF s
    <2> HIDE DEF dist
    <2>2. ~(dist < n) BY <2>1, RingSizes
    <2>3. QED BY <1>2, <1>4, <2>2 DEF s
  <1>5. QED BY <1>3, <1>4

LEMMA Inside ==
    ASSUME initSN \in SN, NEW x \in Int, NEW a \in Int, NEW b \in Int,
           a <= b, b - a < SNSpace, x - a < SNSpace, b - x <= SNSpace
    PROVE  InsideRange(At(x), At(a), At(b)) <=> a <= x /\ x < b
  <1>1. initSN \in Int BY ModTypes
  <1>2. QED BY <1>1, InsideRangeIsInterval DEF At

LEMMA Entries ==
    ASSUME SndTypeOK
    PROVE  /\ \A id \in Ids : /\ End(id) \in Nat /\ End(id) < SNSpace /\ Beg(id) \in Int
                              /\ sendpack[id].sn = At(End(id))
                              /\ sendpack[id].size \in 0 .. MaxData
                              /\ StartOf(id) = At(Beg(id))
           /\ Acked \in Nat /\ Acked < SNSpace /\ ackedSN = At(Acked)
           /\ Len(unacked) \in Nat /\ \A i \in 1 .. Len(unacked) : unacked[i] \in Ids
           /\ DOMAIN unacked = 1 .. Len(unacked)
  <1>1. initSN \in SN /\ ackedSN \in SN BY DEF SndTypeOK
  <1>2. Acked \in Nat /\ Acked < SNSpace /\ ackedSN = At(Acked)
    BY <1>1, Offsets DEF Acked
  <1>3. ASSUME NEW id \in Ids
        PROVE  /\ End(id) \in Nat /\ End(id) < SNSpace /\ Beg(id) \in Int
               /\ sendpack[id].sn = At(End(id))
               /\ sendpack[id].size \in 0 .. MaxData
               /\ StartOf(id) = At(Beg(id))
    <2>1. sendpack[id].sn \in SN /\ sendpack[id].size \in 0 .. MaxData BY DEF SndTypeOK
    <2>2. End(id) \in Nat /\ End(id) < SNSpace /\ sendpack[id].sn = At(End(id))
      BY <1>1, <2>1, Offsets DEF End
    <2>3. sendpack[id].size \in Int BY <2>1, Sizes
    <2>4. Minus(At(End(id)), sendpack[id].size) = At(End(id) - sendpack[id].size)
      <3>1. End(id) \in Int BY <2>2
      <3>2. QED BY <1>1, <2>3, <3>1, Shift, ZenonT(30)
    <2>5. Beg(id) = End(id) - sendpack[id].size BY DEF Beg
    <2>6. StartOf(id) = Minus(At(End(id)), sendpack[id].size) BY <2>2 DEF StartOf
    <2>7. StartOf(id) = At(Beg(id)) BY <2>4, <2>5, <2>6
    <2>8. Beg(id) \in Int BY <2>2, <2>3, <2>5
    <2>9. QED BY <2>1, <2>2, <2>7, <2>8
  <1>4. unacked \in Seq(Ids) BY DEF SndTypeOK
  <1>5. /\ Len(unacked) \in Nat /\ \A i \in 1 .. Len(unacked) : unacked[i] \in Ids
        /\ DOMAIN unacked = 1 .. Len(unacked)
    <2>1. Len(unacked) \in Nat /\ DOMAIN unacked = 1 .. Len(unacked)
      BY <1>4, LenProperties
    <2>2. ASSUME NEW i \in 1 .. Len(unacked) PROVE unacked[i] \in Ids
      BY <1>4, ElementOfSeq
    <2>3. QED BY <2>1, <2>2
  <1>6. QED BY <1>2, <1>3, <1>5

LEMMA BackSeparates ==
    ASSUME NEW p \in Ids, NEW k \in 1 .. MaxPackets - 1, NEW l \in 1 .. MaxPackets - 1,
           Back(p, k) = Back(p, l)
    PROVE  k = l
  BY Sizes DEF Back, Ids

\* No two packets on the list have the same id.
LEMMA BackInjective ==
    ASSUME SndTypeOK, IdInv, NEW i \in 1 .. Len(unacked), NEW j \in 1 .. Len(unacked),
           unacked[i] = unacked[j]
    PROVE  i = j
  <1>1. windowSize \in {MaxData, WindowSize} /\ packetId \in Ids BY DEF SndTypeOK
  <1>2. Len(unacked) \in Nat /\ Len(unacked) < MaxPackets
    <2>1. Len(unacked) \in Nat /\ Len(unacked) <= Packs(windowSize) + 1
      BY Entries DEF IdInv
    <2>2. Packs(windowSize) \in Nat /\ Packs(windowSize) + 2 <= MaxPackets
      BY <1>1, PacksBounds
    <2>3. QED BY <2>1, <2>2, Sizes
  <1>3. /\ unacked[i] = Back(packetId, Len(unacked) + 1 - i)
        /\ unacked[j] = Back(packetId, Len(unacked) + 1 - j)
    BY DEF IdInv
  <1>4. /\ Len(unacked) + 1 - i \in 1 .. MaxPackets - 1
        /\ Len(unacked) + 1 - j \in 1 .. MaxPackets - 1
    BY <1>2, Sizes
  <1>5. Len(unacked) + 1 - i = Len(unacked) + 1 - j
    BY <1>1, <1>3, <1>4, BackSeparates
  <1>6. QED BY <1>2, <1>5

-----------------------------------------------------------------------------
(* Acknowledgements.                                                       *)

\* The mark at ackedSN is that of the first packet on the list.
LEMMA MarkLeadsToFirst ==
    ASSUME SndTypeOK, ListInv, unacked # <<>>
    PROVE  AckPoint = unacked[1] /\ 1 \in 1 .. Len(unacked)
  <1>1. 1 \in 1 .. Len(unacked) BY EmptySeq DEF SndTypeOK
  <1>2. Beg(unacked[1]) = Acked /\ checkbuf[Slot(At(Beg(unacked[1])))] = unacked[1]
    BY <1>1 DEF ListInv
  <1>3. QED BY <1>1, <1>2, Entries DEF AckPoint

\* recvAck drops a number of packets from the front of the list.
LEMMA AckDropsPrefix ==
    ASSUME SndTypeOK, WindowInv, ListInv, IdInv, NEW to, RecvAck(to)
    PROVE  \E q \in 0 .. Len(unacked) :
             /\ \A i \in 1 .. q : Covered(unacked[i], to)
             /\ unacked' = SubSeq(unacked, q + 1, Len(unacked))
             /\ q = 0 => ackedSN' = ackedSN /\ nackedBytes' = nackedBytes
             /\ q > 0 => /\ ackedSN' = sendpack[unacked[q]].sn
                         /\ nackedBytes' = nackedBytes - (End(unacked[q]) - Acked)
  <1> DEFINE p == IF AckPoint \in Live
                  THEN CHOOSE i \in DOMAIN unacked : unacked[i] = AckPoint
                  ELSE Len(unacked) + 1
  <1>1. p = 1
    <2>1. CASE unacked = <<>>
      <3>1. DOMAIN unacked = {} /\ Len(unacked) = 0 BY <2>1, Entries
      <3>2. QED BY <3>1 DEF Live
    <2>2. CASE unacked # <<>>
      <3>1. AckPoint = unacked[1] /\ 1 \in DOMAIN unacked BY <2>2, MarkLeadsToFirst, Entries
      <3>2. AckPoint \in Live BY <3>1 DEF Live
      <3>3. \A i \in DOMAIN unacked : unacked[i] = AckPoint => i = 1
        BY <3>1, BackInjective, Entries
      <3>4. QED BY <3>1, <3>2, <3>3
    <2>3. QED BY <2>1, <2>2
  <1>2. PICK q \in p - 1 .. Len(unacked) :
             /\ \A i \in p .. q : Covered(unacked[i], to)
             /\ unacked' = SubSeq(unacked, 1, p - 1) \o SubSeq(unacked, q + 1, Len(unacked))
             /\ IF q >= p /\ StartOf(unacked[p]) = ackedSN
                THEN ackedSN' = sendpack[unacked[q]].sn
                ELSE UNCHANGED ackedSN
             /\ nackedBytes' = IF q < p THEN nackedBytes
                               ELSE nackedBytes - Minus(sendpack[unacked[q]].sn,
                                                        StartOf(unacked[p]))
    BY Zenon DEF RecvAck
  <1> HIDE DEF p
  <1>3. q \in 0 .. Len(unacked) /\ Len(unacked) \in Nat /\ q \in Int BY <1>1, <1>2, Entries
  <1>4. unacked' = SubSeq(unacked, q + 1, Len(unacked))
    <2>1. SubSeq(unacked, 1, p - 1) = <<>> BY <1>1, SubSeqEmpty
    <2>2. \A i \in q + 1 .. Len(unacked) : unacked[i] \in Ids BY <1>3, Entries
    <2>3. SubSeq(unacked, q + 1, Len(unacked)) \in Seq(Ids)
      BY <1>3, <2>2, SubSeqProperties
    <2>4. QED BY <1>2, <2>1, <2>3, ConcatEmptySeq
  <1>5. ASSUME q > 0
        PROVE  /\ ackedSN' = sendpack[unacked[q]].sn
               /\ nackedBytes' = nackedBytes - (End(unacked[q]) - Acked)
    <2>1. 1 \in 1 .. Len(unacked) /\ q \in 1 .. Len(unacked) BY <1>3, <1>5
    <2>2. Beg(unacked[1]) = Acked BY <2>1 DEF ListInv
    <2>3. StartOf(unacked[1]) = ackedSN /\ ackedSN = At(Acked)
      BY <2>1, <2>2, Entries
    <2>4. sendpack[unacked[q]].sn = At(End(unacked[q])) /\ End(unacked[q]) \in Nat
          /\ End(unacked[q]) < SNSpace /\ Acked \in Nat
      BY <2>1, Entries
    <2>5. Acked <= End(unacked[q])
      <3>1. Acked <= Beg(unacked[q]) BY <2>1 DEF ListInv
      <3>2. Beg(unacked[q]) <= End(unacked[q])
        BY <2>1, <2>4, Entries, Sizes DEF Beg
      <3>3. Beg(unacked[q]) \in Int BY <2>1, Entries
      <3>4. QED BY <2>4, <3>1, <3>2, <3>3
    <2>6. initSN \in SN BY DEF SndTypeOK
    <2>7. Minus(At(End(unacked[q])), At(Acked)) = End(unacked[q]) - Acked
      BY <2>4, <2>5, <2>6, Distance, Sizes
    <2>8. QED BY <1>1, <1>2, <1>5, <2>3, <2>4, <2>7
  <1>6. q = 0 => ackedSN' = ackedSN /\ nackedBytes' = nackedBytes BY <1>1, <1>2
  <1>7. \A i \in 1 .. q : Covered(unacked[i], to) BY <1>1, <1>2
  <1>8. QED BY <1>3, <1>4, <1>5, <1>6, <1>7

LEMMA Closer ==
    ASSUME NEW f \in Int, NEW a \in Int, NEW b \in Int, a <= b, b <= f
    PROVE  f - b <= f - a /\ f - b \in Nat
  OBVIOUS

\* Dropping a prefix keeps the window, the list and the ids consistent.
LEMMA AckKeepsInv ==
    ASSUME SndTypeOK, WindowInv, ListInv, IdInv, NEW to, RecvAck(to),
           UNCHANGED <<initSN, windowSize, ringVars>>
    PROVE  /\ ackedSN' \in SN /\ nackedBytes' \in 0 .. WindowSize /\ unacked' \in Seq(Ids)
           /\ WindowInv' /\ ListInv' /\ IdInv'
           /\ \A i \in 1 .. Len(unacked') : unacked'[i] \in Live
  <1> USE DEF ringVars
  <1>1. PICK q \in 0 .. Len(unacked) :
             /\ unacked' = SubSeq(unacked, q + 1, Len(unacked))
             /\ q = 0 => ackedSN' = ackedSN /\ nackedBytes' = nackedBytes
             /\ q > 0 => /\ ackedSN' = sendpack[unacked[q]].sn
                         /\ nackedBytes' = nackedBytes - (End(unacked[q]) - Acked)
    BY AckDropsPrefix
  <1> DEFINE n == Len(unacked)
  <1>2. n \in Nat /\ q \in Nat /\ q <= n BY <1>1, Entries
  <1>3. \A id \in Ids : End(id)' = End(id) /\ Beg(id)' = Beg(id) BY DEF End, Beg, Off
  <1>4. \A i \in 1 .. n : /\ unacked[i] \in Ids /\ Beg(unacked[i]) \in Int
                          /\ End(unacked[i]) \in Nat
    BY Entries
  <1>5. /\ unacked' \in Seq(Ids) /\ Len(unacked') = n - q
        /\ \A i \in 1 .. n - q : unacked'[i] = unacked[q + i]
    <2>1. \A i \in q + 1 .. n : unacked[i] \in Ids BY <1>2, <1>4
    <2>2. q + 1 \in Int /\ n \in Int BY <1>2
    <2>3. /\ SubSeq(unacked, q + 1, n) \in Seq(Ids)
          /\ Len(SubSeq(unacked, q + 1, n)) = IF q + 1 <= n THEN n - (q + 1) + 1 ELSE 0
          /\ \A i \in 1 .. n - (q + 1) + 1 : SubSeq(unacked, q + 1, n)[i] = unacked[(q + 1) + i - 1]
      BY <2>1, <2>2, SubSeqProperties
    <2>4. Len(unacked') = n - q
      <3>1. Len(unacked') = IF q + 1 <= n THEN n - (q + 1) + 1 ELSE 0 BY <1>1, <2>3
      <3>2. QED BY <1>2, <3>1
    <2>5. ASSUME NEW i \in 1 .. n - q PROVE unacked'[i] = unacked[q + i]
      <3>1. i \in 1 .. n - (q + 1) + 1 /\ (q + 1) + i - 1 = q + i BY <1>2
      <3>2. SubSeq(unacked, q + 1, n)[i] = unacked[(q + 1) + i - 1] BY <2>3, <3>1
      <3>3. QED BY <1>1, <3>1, <3>2
    <2>6. QED BY <1>1, <2>3, <2>4, <2>5
  <1>6. Acked' = IF q = 0 THEN Acked ELSE End(unacked[q])
    BY <1>1 DEF Acked, End, Off
  <1>7. /\ Acked \in Nat /\ filePos \in 0 .. FileLen /\ nackedBytes \in 0 .. WindowSize
        /\ windowSize \in {MaxData, WindowSize} /\ initSN \in SN
        /\ sendpack \in [Ids -> [sn : SN, size : 0 .. MaxData]]
    BY Entries DEF SndTypeOK
  <1>8. Acked' \in Nat /\ Acked <= Acked' /\ Acked' <= filePos
    <2>1. CASE q = 0 BY <1>6, <1>7, <2>1 DEF WindowInv
    <2>2. CASE q > 0
      <3>1. q \in 1 .. n BY <1>2, <2>2
      <3>2. Acked <= Beg(unacked[q]) /\ End(unacked[q]) <= filePos BY <3>1 DEF ListInv
      <3>3. Beg(unacked[q]) <= End(unacked[q])
        BY <1>4, <3>1, Entries, Sizes DEF Beg
      <3>4. QED BY <1>2, <1>4, <1>6, <1>7, <3>1, <3>2, <3>3
    <2>3. QED BY <1>2, <2>1, <2>2
  <1>9. nackedBytes' = filePos - Acked'
    <2>1. nackedBytes = filePos - Acked BY DEF WindowInv
    <2>2. CASE q = 0 BY <1>1, <1>6, <2>1, <2>2
    <2>3. CASE q > 0
      <3>1. End(unacked[q]) \in Nat BY <1>2, <1>4, <2>3
      <3>2. QED BY <1>1, <1>2, <1>6, <1>7, <2>1, <2>3, <3>1, Sizes
    <2>4. QED BY <1>2, <2>2, <2>3
  <1>10. ackedSN' \in SN
    <2>1. CASE q = 0 BY <1>1, <2>1 DEF SndTypeOK
    <2>2. CASE q > 0
      <3>1. unacked[q] \in Ids BY <1>2, <1>4, <2>2
      <3>2. sendpack[unacked[q]].sn \in SN BY <1>7, <3>1
      <3>3. QED BY <1>1, <2>2, <3>2
    <2>3. QED BY <1>2, <2>1, <2>2
  <1>11. WindowInv'
    <2>1. nackedBytes' <= windowSize /\ (fileEnds => filePos = FileLen)
      <3>1. /\ nackedBytes = filePos - Acked /\ nackedBytes <= windowSize
            /\ fileEnds => filePos = FileLen
        BY DEF WindowInv
      <3>2. windowSize \in Int /\ filePos \in Int BY <1>7, Sizes
      <3>3. Acked \in Int /\ Acked' \in Int BY <1>7, <1>8
      <3>4. nackedBytes' <= nackedBytes /\ nackedBytes' \in Nat
        BY <1>8, <1>9, <3>1, <3>2, <3>3, Closer
      <3>5. QED BY <1>7, <3>1, <3>2, <3>4
    <2>2. \A i \in Acked' .. filePos - 1 : filebuf[Slot(At(i))] = i
      BY <1>7, <1>8 DEF WindowInv
    <2>3. \A i : At(i)' = At(i) BY DEF At
    <2>4. QED BY <1>8, <1>9, <2>1, <2>2, <2>3 DEF WindowInv
  <1>12. ListInv'
    <2>1. unacked' = <<>> => Acked' = filePos
      <3>1. SUFFICES ASSUME unacked' = <<>> PROVE Acked' = filePos OBVIOUS
      <3>2. n = q BY <1>2, <1>5, <3>1
      <3>3. CASE q = 0
        <4>1. unacked = <<>> BY <3>2, <3>3, EmptySeq DEF SndTypeOK
        <4>2. QED BY <1>6, <3>3, <4>1 DEF ListInv
      <3>4. CASE q > 0 BY <1>2, <1>6, <3>2, <3>4 DEF ListInv
      <3>5. QED BY <1>2, <3>3, <3>4
    <2>2. ASSUME NEW i \in 1 .. n - q
          PROVE  LET id == unacked[q + i]
                 IN /\ Beg(id) = IF i = 1 THEN Acked' ELSE End(unacked[q + i - 1])
                    /\ Acked' <= Beg(id) /\ End(id) <= filePos
                    /\ i = n - q => End(id) = filePos
                    /\ sendpack[id].size = 0 => i = n - q /\ fileEnds
                    /\ checkbuf[Slot(At(Beg(id)))] = id
      <3>1. q + i \in 1 .. n BY <1>2
      <3>2. /\ Beg(unacked[q + i]) = IF q + i = 1 THEN Acked ELSE End(unacked[q + i - 1])
            /\ Acked <= Beg(unacked[q + i]) /\ End(unacked[q + i]) <= filePos
            /\ q + i = n => End(unacked[q + i]) = filePos
            /\ sendpack[unacked[q + i]].size = 0 => q + i = n /\ fileEnds
            /\ checkbuf[Slot(At(Beg(unacked[q + i])))] = unacked[q + i]
        BY <3>1 DEF ListInv
      <3>3. Acked' <= Beg(unacked[q + i])
        <4>1. CASE q = 0 BY <1>6, <3>2, <4>1
        <4>2. CASE q > 0
          <5>1. q \in 1 .. n /\ q < q + i BY <1>2, <4>2
          <5>2. End(unacked[q]) <= Beg(unacked[q + i]) BY <3>1, <5>1 DEF ListInv
          <5>3. QED BY <1>6, <4>2, <5>2
        <4>3. QED BY <1>2, <4>1, <4>2
      <3>4. i = 1 => Beg(unacked[q + i]) = Acked'
        <4>1. CASE q = 0 BY <1>6, <3>2, <4>1
        <4>2. CASE q > 0
          <5>1. i = 1 => q + i # 1 /\ q + i - 1 = q BY <1>2, <4>2
          <5>2. QED BY <1>6, <3>2, <4>2, <5>1
        <4>3. QED BY <1>2, <4>1, <4>2
      <3>5. i # 1 => Beg(unacked[q + i]) = End(unacked[q + i - 1])
        <4>1. i # 1 => q + i # 1 BY <1>2
        <4>2. QED BY <3>2, <4>1
      <3>6. (i = n - q) <=> (q + i = n) BY <1>2
      <3>7. QED BY <3>2, <3>3, <3>4, <3>5, <3>6
    <2>3. ASSUME NEW i \in 1 .. n - q, NEW j \in 1 .. n - q, i < j
          PROVE  End(unacked[q + i]) <= Beg(unacked[q + j])
      <3>1. q + i \in 1 .. n /\ q + j \in 1 .. n /\ q + i < q + j BY <1>2, <2>3
      <3>2. QED BY <3>1 DEF ListInv
    <2>4. ASSUME NEW i \in 1 .. Len(unacked')
          PROVE  /\ i \in 1 .. n - q /\ unacked'[i] = unacked[q + i]
                 /\ unacked[q + i] \in Ids
                 /\ i # 1 => /\ unacked'[i - 1] = unacked[q + i - 1]
                             /\ unacked[q + i - 1] \in Ids
      <3>1. i \in 1 .. n - q /\ q + i \in 1 .. n BY <1>2, <1>5
      <3>2. i # 1 => /\ i - 1 \in 1 .. n - q /\ q + i - 1 \in 1 .. n
                     /\ q + (i - 1) = q + i - 1
        BY <1>2, <3>1
      <3>3. QED BY <1>4, <1>5, <3>1, <3>2
    <2>5. ASSUME NEW i \in 1 .. Len(unacked')
          PROVE  (/\ Beg(unacked[i]) = IF i = 1 THEN Acked ELSE End(unacked[i - 1])
                  /\ Acked <= Beg(unacked[i]) /\ End(unacked[i]) <= filePos
                  /\ i = Len(unacked) => End(unacked[i]) = filePos
                  /\ sendpack[unacked[i]].size = 0 => i = Len(unacked) /\ fileEnds
                  /\ checkbuf[Slot(At(Beg(unacked[i])))] = unacked[i])'
      <3>1. /\ Beg(unacked[i])' = Beg(unacked[q + i])
            /\ End(unacked[i])' = End(unacked[q + i])
            /\ i # 1 => End(unacked[i - 1])' = End(unacked[q + i - 1])
        BY <2>4 DEF Beg, End, Off
      <3>2. i \in 1 .. n - q /\ unacked'[i] = unacked[q + i] BY <2>4
      <3>3. At(Beg(unacked[i]))' = At(Beg(unacked[q + i])) BY <3>1 DEF At
      <3>4. QED BY <1>5, <2>2, <3>1, <3>2, <3>3
    <2>6. ASSUME NEW i \in 1 .. Len(unacked'), NEW j \in 1 .. Len(unacked'), i < j
          PROVE  End(unacked[i])' <= Beg(unacked[j])'
      <3>1. End(unacked[i])' = End(unacked[q + i]) /\ Beg(unacked[j])' = Beg(unacked[q + j])
        BY <2>4 DEF Beg, End, Off
      <3>2. i \in 1 .. n - q /\ j \in 1 .. n - q BY <2>4
      <3>3. QED BY <2>3, <2>6, <3>1, <3>2
    <2>7. QED BY <2>1, <2>5, <2>6 DEF ListInv
  <1>13. IdInv'
    <2>1. Packs(windowSize)' = Packs(windowSize) /\ Spare' = Spare
      BY DEF Packs, Spare
    <2>2. Packs(windowSize) \in Nat /\ Packs(windowSize) * MaxData \in Int BY <1>7, PacksBounds
    <2>3. Spare \in Int BY <1>7, <2>2, Sizes DEF Spare
    <2>4. Len(unacked') <= Packs(windowSize) + 1
      <3>1. n <= Packs(windowSize) + 1 BY DEF IdInv
      <3>2. QED BY <1>2, <1>5, <2>2, <3>1
    <2>5. ASSUME NEW i \in 1 .. n - q
          PROVE  unacked[q + i] = Back(packetId, (n - q) + 1 - i)
      <3>1. q + i \in 1 .. n /\ n + 1 - (q + i) = (n - q) + 1 - i BY <1>2
      <3>2. QED BY <3>1 DEF IdInv
    <2>6. ASSUME NEW i \in 1 .. n - q, NEW j \in 1 .. n - q, i <= j
          PROVE  End(unacked[q + j]) - Beg(unacked[q + i]) <= (j - i + 1) * MaxData
      <3>1. /\ q + i \in 1 .. n /\ q + j \in 1 .. n /\ q + i <= q + j
            /\ (q + j) - (q + i) + 1 = j - i + 1
        BY <1>2, <2>6
      <3>2. QED BY <3>1 DEF IdInv
    <2>7. (n - q) * MaxData <= nackedBytes' + Spare
                                 + (IF filePos = FileLen THEN MaxData ELSE 0)
                                 + (IF fileEnds THEN MaxData ELSE 0)
      <3>1. n * MaxData <= nackedBytes + Spare
                                 + (IF filePos = FileLen THEN MaxData ELSE 0)
                                 + (IF fileEnds THEN MaxData ELSE 0)
        BY DEF IdInv
      <3>2. CASE q = 0 BY <1>1, <1>2, <3>1, <3>2
      <3>3. CASE q > 0
        <4>1. 1 \in 1 .. n /\ q \in 1 .. n /\ q - 1 + 1 = q BY <1>2, <3>3
        <4>2. End(unacked[q]) - Beg(unacked[1]) <= q * MaxData BY <4>1, <3>3 DEF IdInv
        <4>3. Beg(unacked[1]) = Acked /\ End(unacked[q]) \in Nat BY <1>4, <4>1 DEF ListInv
        <4>4. n * MaxData = (n - q) * MaxData + q * MaxData
          <5>1. n - q \in Int /\ q \in Int /\ (n - q) + q = n /\ MaxData \in Int
            BY <1>2, Sizes
          <5>2. QED BY <5>1, Distribute
        <4>5. n * MaxData \in Int /\ q * MaxData \in Int /\ (n - q) * MaxData \in Int
          <5>1. n \in Int /\ q \in Int /\ n - q \in Int /\ MaxData \in Int BY <1>2, Sizes
          <5>2. QED BY <5>1, Distribute
        <4>6. nackedBytes' = nackedBytes - (End(unacked[q]) - Acked) BY <1>1, <3>3
        <4> DEFINE u == n * MaxData
                   v == q * MaxData
                   w == (n - q) * MaxData
                   e == (IF filePos = FileLen THEN MaxData ELSE 0)
                   f == (IF fileEnds THEN MaxData ELSE 0)
        <4>7. u <= nackedBytes + Spare + e + f /\ u = w + v /\ e \in Int /\ f \in Int
              /\ End(unacked[q]) - Acked <= v /\ u \in Int /\ v \in Int /\ w \in Int
          BY <3>1, <4>2, <4>3, <4>4, <4>5, Sizes
        <4> HIDE DEF u, v, w, e, f
        <4>8. w <= nackedBytes' + Spare + e + f
          <5>1. PICK d, N, s : /\ d = End(unacked[q]) - Acked /\ N = nackedBytes
                               /\ s = Spare
            OBVIOUS
          <5>2. d \in Int /\ N \in Int /\ s \in Int BY <1>7, <2>3, <4>3, <5>1
          <5>3. w + v <= N + s + e + f /\ d <= v BY <4>7, <5>1
          <5>4. w <= (N - d) + s + e + f BY <4>7, <5>2, <5>3
          <5>5. QED BY <4>6, <5>1, <5>4
        <4>9. QED BY <4>8 DEF w, e, f
      <3>4. QED BY <1>2, <3>2, <3>3
    <2>8. \A i \in 1 .. n - q : End(unacked[i])' = End(unacked[q + i])
                                /\ Beg(unacked[i])' = Beg(unacked[q + i])
      BY <1>5 DEF Beg, End, Off
    <2>9. \A i, k : Back(packetId, k)' = Back(packetId, k) BY DEF Back
    <2>10. QED BY <1>5, <2>1, <2>4, <2>5, <2>6, <2>7, <2>8, <2>9 DEF IdInv
  <1>14. nackedBytes' \in 0 .. WindowSize
    <2>1. nackedBytes = filePos - Acked BY DEF WindowInv
    <2>2. Acked \in Int /\ Acked' \in Int /\ filePos \in Int BY <1>7, <1>8
    <2>3. nackedBytes' <= nackedBytes /\ nackedBytes' \in Nat
      BY <1>8, <1>9, <2>1, <2>2, Closer
    <2>4. QED BY <1>7, <2>3, Sizes
  <1>15. ASSUME NEW i \in 1 .. Len(unacked') PROVE unacked'[i] \in Live
    <2>1. q + i \in 1 .. n /\ unacked'[i] = unacked[q + i] BY <1>2, <1>5
    <2>2. q + i \in DOMAIN unacked BY <2>1, Entries
    <2>3. QED BY <2>1, <2>2 DEF Live
  <1>16. QED BY <1>5, <1>10, <1>11, <1>12, <1>13, <1>14, <1>15

-----------------------------------------------------------------------------
(* A new packet.                                                           *)

LEMMA MulMono ==
    ASSUME NEW M \in Nat, NEW a \in Int, NEW b \in Int, a <= b
    PROVE  a * M <= b * M
  <1>1. b * M = a * M + (b - a) * M /\ a * M \in Int /\ (b - a) * M \in Int
    BY Distribute
  <1>2. (b - a) * M >= 0 BY SMT
  <1>3. QED BY <1>1, <1>2

\* A packet whose bytes are read from a ring that is right on their positions
\* carries a part of the file.
PartOfFile(m) == m \in Packets({"SEND", "OLDSEND"}) /\ Original(m)

LEMMA RingOriginal ==
    ASSUME initSN \in SN, NEW ring \in [Slots -> Bytes], NEW p \in Nat, NEW n \in Nat,
           p + n <= FileLen, \A k \in p .. p + n - 1 : ring[Slot(At(k))] = k
    PROVE  PartOfFile(DataPacket(At(p), n, ring))
  <1> DEFINE m == DataPacket(At(p), n, ring)
  <1>1. m.sn = At(p) /\ m.data = [i \in 1 .. n |-> ring[Slot(Plus(At(p), i - 1))]]
    BY DEF DataPacket, ToReceiver, RingRead
  <1>2. Off(m.sn) = p
    <2>1. p \in 0 .. FileLen + 2 * BufSize BY Sizes
    <2>2. QED BY <1>1, <2>1, Offsets
  <1>3. Len(m.data) = n BY <1>1
  <1>4. ASSUME NEW i \in 1 .. n PROVE m.data[i] = p + i - 1
    <2>1. Plus(At(p), i - 1) = At(p + (i - 1)) BY Shift
    <2>2. p + (i - 1) \in p .. p + n - 1 /\ p + (i - 1) = p + i - 1 OBVIOUS
    <2>3. QED BY <1>1, <2>1, <2>2
  <1>5. m \in Packets({"SEND", "OLDSEND"})
    <2>1. At(p) \in SN BY Offsets
    <2>2. At(p) \in Int BY <2>1, ModTypes
    <2>3. RingRead(ring, At(p), n) \in Seq(Bytes) BY <2>2, RingTypes
    <2>4. QED BY <2>1, <2>3 DEF DataPacket, ToReceiver, Packets
  <1> HIDE DEF m
  <1>6. Original(m) BY <1>2, <1>3, <1>4 DEF Original
  <1>7. QED BY <1>5, <1>6 DEF PartOfFile, m

\* How much sendNewFilePart reads.
LEMMA NewSize ==
    ASSUME SndTypeOK, currentSN = At(filePos), WindowInv, CanSend,
           NEW n, n = MinOf(Can, FileLen - filePos)
    PROVE  /\ n \in 0 .. MaxData /\ filePos + n <= FileLen
           /\ nackedBytes + n <= windowSize
           /\ n = 0 <=> filePos = FileLen
           /\ \/ n = MaxData \/ n = 0 \/ filePos + n = FileLen
              \/ n > 0 /\ nackedBytes + n = windowSize
  <1>1. /\ nackedBytes \in 0 .. WindowSize /\ windowSize \in {MaxData, WindowSize}
        /\ filePos \in 0 .. FileLen /\ initSN \in SN
    BY DEF SndTypeOK
  <1>2. Acked \in Nat /\ ackedSN = At(Acked) /\ Acked <= filePos
        /\ nackedBytes = filePos - Acked
    BY Entries DEF WindowInv
  <1>3. Unacked = nackedBytes
    <2>1. filePos \in Int /\ Acked \in Int /\ filePos - Acked < SNSpace BY <1>1, <1>2, Sizes
    <2>2. Minus(At(filePos), At(Acked)) = filePos - Acked BY <1>1, <1>2, <2>1, Distance
    <2>3. QED BY <1>2, <2>2 DEF Unacked
  <1>4. nackedBytes < windowSize - 1 BY DEF CanSend
  <1> DEFINE w == windowSize - nackedBytes
  <1>5. w \in Nat /\ w > 0 /\ w <= BufSize - nackedBytes /\ BufSize - nackedBytes \in Int
        /\ windowSize \in Int /\ nackedBytes \in Int
    BY <1>1, <1>4, Sizes
  <1>6. Can = IF MaxData < w THEN MaxData ELSE w
    BY <1>3, <1>5, Sizes DEF Can, MinOf
  <1>7. w = windowSize - nackedBytes OBVIOUS
  <1> HIDE DEF w
  <1>8. QED BY <1>1, <1>5, <1>6, <1>7, Sizes DEF MinOf

\* The next id is the one the oldest packet would have had.
LEMMA BackNext ==
    ASSUME packetId \in Ids, packetId' = NextId
    PROVE  /\ Back(packetId', 1) = packetId
           /\ \A k \in 1 .. MaxPackets - 2 : /\ Back(packetId', k + 1) = Back(packetId, k)
                                             /\ Back(packetId, k) # packetId
  <1>1. MaxPackets \in Nat BY Sizes
  <1>2. QED BY <1>1 DEF Back, Ids, NextId

\* What sendNewFilePart puts into the two rings: the bytes of the packet and
\* its mark, and nothing that is still needed is overwritten.
NewData(n) == [i \in 1 .. n |-> filePos + i - 1]

LEMMA NewRings ==
    ASSUME SndTypeOK, currentSN = At(filePos), WindowInv,
           NEW n \in Nat, n <= MaxData, filePos + n <= FileLen,
           nackedBytes + n <= windowSize
    PROVE  /\ \A k \in Acked .. filePos + n - 1 :
                RingWrite(filebuf, currentSN, NewData(n))[Slot(At(k))] = k
           /\ \A k \in Acked .. filePos - 1 :
                NewMarks(n)[Slot(At(k))] = checkbuf[Slot(At(k))]
           /\ NewMarks(n)[Slot(At(filePos))] = packetId
           /\ RingWrite(filebuf, currentSN, NewData(n)) \in [Slots -> Bytes]
           /\ NewMarks(n) \in [Slots -> {0} \cup Ids]
  <1>1. /\ nackedBytes \in 0 .. WindowSize /\ windowSize \in {MaxData, WindowSize}
        /\ filePos \in 0 .. FileLen /\ initSN \in SN /\ currentSN \in SN
        /\ filebuf \in [Slots -> Bytes] /\ checkbuf \in [Slots -> {0} \cup Ids]
        /\ packetId \in Ids
    BY DEF SndTypeOK
  <1>2. Acked \in Nat /\ Acked <= filePos /\ nackedBytes = filePos - Acked
    BY Entries DEF WindowInv
  <1>3. initSN \in Int /\ currentSN \in Int /\ Slot(currentSN) \in Slots
    BY <1>1, ModTypes
  <1>4. n \in Nat /\ n \in Int /\ filePos \in Nat /\ filePos + n - Acked < BufSize
    BY <1>1, <1>2, Sizes
  <1>5. NewData(n) \in Seq(Bytes) /\ Len(NewData(n)) = n
    <2>1. ASSUME NEW i \in 1 .. n PROVE filePos + i - 1 \in Bytes
      BY <1>4, Sizes DEF Bytes
    <2>2. NewData(n) \in [1 .. n -> Bytes] BY <2>1 DEF NewData
    <2>3. QED BY <1>4, <2>2
  <1>6. ASSUME NEW k \in Int, Acked <= k, k < filePos + n
        PROVE  RingWrite(filebuf, currentSN, NewData(n))[Slot(At(k))] = k
    <2>1. filePos + n - BufSize <= k /\ k < filePos + BufSize
          /\ k < filePos + n /\ filePos \in Int
      BY <1>2, <1>4, <1>6, Sizes
    <2>2. RingWrite(filebuf, At(filePos), NewData(n))[Slot(At(k))] =
            IF filePos <= k /\ k < filePos + n THEN NewData(n)[k - filePos + 1]
                                               ELSE filebuf[Slot(At(k))]
      <3>1. filePos + Len(NewData(n)) - BufSize <= k BY <1>5, <2>1
      <3>2. RingWrite(filebuf, At(filePos), NewData(n))[Slot(At(k))] =
              IF filePos <= k /\ k < filePos + Len(NewData(n))
              THEN NewData(n)[k - filePos + 1] ELSE filebuf[Slot(At(k))]
        BY <1>1, <1>5, <2>1, <3>1, WriteAt
      <3>3. QED BY <1>5, <3>2
    <2>3. CASE filePos <= k
      <3>1. k - filePos + 1 \in 1 .. n BY <1>4, <2>1, <2>3
      <3>2. NewData(n)[k - filePos + 1] = filePos + (k - filePos + 1) - 1
        BY <3>1 DEF NewData
      <3>3. filePos + (k - filePos + 1) - 1 = k BY <1>4, <2>1
      <3>4. QED BY <2>1, <2>2, <2>3, <3>2, <3>3
    <2>4. CASE k < filePos
      <3>1. k \in Acked .. filePos - 1 BY <1>2, <1>4, <1>6, <2>4
      <3>2. filebuf[Slot(At(k))] = k BY <3>1 DEF WindowInv
      <3>3. ~(filePos <= k) BY <1>4, <2>1, <2>4
      <3>4. QED BY <2>2, <3>2, <3>3
    <2>5. QED BY <1>4, <2>1, <2>3, <2>4
  <1> DEFINE fill == RingFill(checkbuf, currentSN, n, 0)
  <1>7. fill \in [Slots -> {0} \cup Ids] BY <1>1, <1>3, <1>4, RingTypes
  <1>8. NewMarks(n) = [fill EXCEPT ![Slot(currentSN)] = packetId] BY DEF NewMarks
  <1>9. ASSUME NEW k \in Int, Acked <= k, k < filePos
        PROVE  fill[Slot(At(k))] = checkbuf[Slot(At(k))]
    <2>1. filePos + n - BufSize <= k /\ k < filePos + BufSize
          /\ ~(filePos <= k) /\ filePos \in Int
      BY <1>2, <1>4, <1>9, Sizes
    <2>2. RingFill(checkbuf, At(filePos), n, 0)[Slot(At(k))] =
            IF filePos <= k /\ k < filePos + n THEN 0 ELSE checkbuf[Slot(At(k))]
      BY <1>1, <1>4, <2>1, FillAt
    <2>3. QED BY <2>1, <2>2
  <1> HIDE DEF fill
  <1>10. ASSUME NEW k \in Int, Acked <= k, k < filePos
         PROVE  NewMarks(n)[Slot(At(k))] = checkbuf[Slot(At(k))]
    <2>1. filePos \in Int /\ k - filePos < BufSize /\ filePos - k < BufSize
          /\ k # filePos
      BY <1>2, <1>4, <1>10, Sizes
    <2>2. Slot(At(k)) # Slot(At(filePos)) BY <1>3, <2>1, SlotInjective DEF At
    <2>3. Slot(At(k)) \in Slots BY <1>1, <2>1, Offsets, ModTypes
    <2>4. QED BY <1>7, <1>8, <1>9, <1>10, <2>2, <2>3
  <1>11. NewMarks(n)[Slot(At(filePos))] = packetId BY <1>3, <1>7, <1>8
  <1>12. NewMarks(n) \in [Slots -> {0} \cup Ids] BY <1>1, <1>3, <1>7, <1>8
  <1>13. RingWrite(filebuf, currentSN, NewData(n)) \in [Slots -> Bytes]
    BY <1>1, <1>3, <1>5, RingTypes
  <1>14. \A k \in Acked .. filePos + n - 1 : k \in Int /\ Acked <= k /\ k < filePos + n
    BY <1>2, <1>4
  <1>15. \A k \in Acked .. filePos - 1 : k \in Int /\ Acked <= k /\ k < filePos
    BY <1>2, <1>4
  <1>16. QED BY <1>6, <1>10, <1>11, <1>12, <1>13, <1>14, <1>15

LEMMA NewPartKeepsInv ==
    ASSUME SndTypeOK, currentSN = At(filePos), WindowInv, ListInv, IdInv, SndNewPart
    PROVE  /\ SndTypeOK' /\ currentSN' = At(filePos)'
           /\ WindowInv' /\ ListInv' /\ IdInv'
           /\ \A m \in toR' : m \in toR \/ PartOfFile(m)
  <1> PICK n : n = MinOf(Can, FileLen - filePos) OBVIOUS
  <1> PICK L : L = Len(unacked) OBVIOUS
  <1>1. /\ CanSend
        /\ filePos' = filePos + n
        /\ fileEnds' = (n = 0)
        /\ filebuf' = RingWrite(filebuf, currentSN, NewData(n))
        /\ checkbuf' = NewMarks(n)
        /\ sendpack' = [sendpack EXCEPT ![packetId] = NewEntry(n)]
        /\ unacked' = Append(unacked, packetId)
        /\ currentSN' = Plus(currentSN, n)
        /\ nackedBytes' = nackedBytes + n
        /\ toR' = Send(toR, DataPacket(currentSN, n, filebuf'))
        /\ packetId' = NextId
        /\ UNCHANGED <<sPc, initSN, rcvrVersion, windowSize, ackedSN, resentPtr,
                       dupAck, tries, sAlarm>>
    BY DEF SndNewPart, NewData, connVars
  <1>2. /\ nackedBytes \in 0 .. WindowSize /\ windowSize \in {MaxData, WindowSize}
        /\ filePos \in 0 .. FileLen /\ initSN \in SN /\ currentSN \in SN
        /\ packetId \in Ids /\ unacked \in Seq(Ids)
        /\ sendpack \in [Ids -> [sn : SN, size : 0 .. MaxData]]
    BY DEF SndTypeOK
  <1>3. /\ n \in 0 .. MaxData /\ filePos + n <= FileLen
        /\ nackedBytes + n <= windowSize
        /\ n = 0 <=> filePos = FileLen
        /\ \/ n = MaxData \/ n = 0 \/ filePos + n = FileLen
           \/ n > 0 /\ nackedBytes + n = windowSize
    BY <1>1, NewSize
  <1>4. ~fileEnds /\ nackedBytes < windowSize - 1 BY <1>1 DEF CanSend
  <1>5. n \in Nat /\ n <= MaxData /\ L \in Nat /\ filePos \in Nat /\ nackedBytes \in Nat
        /\ MaxData \in Nat \ {0} /\ windowSize \in Nat
    BY <1>2, <1>3, Entries, Sizes
  <1>6. Acked \in Nat /\ Acked <= filePos /\ nackedBytes = filePos - Acked
    BY Entries DEF WindowInv
  <1>7. /\ \A k \in Acked .. filePos + n - 1 : filebuf'[Slot(At(k))] = k
        /\ \A k \in Acked .. filePos - 1 : checkbuf'[Slot(At(k))] = checkbuf[Slot(At(k))]
        /\ checkbuf'[Slot(At(filePos))] = packetId
        /\ filebuf' \in [Slots -> Bytes] /\ checkbuf' \in [Slots -> {0} \cup Ids]
    BY <1>1, <1>3, <1>5, NewRings
  <1>8. /\ \A k \in Int : At(k)' = At(k)
        /\ Acked' = Acked
        /\ \A sn : Off(sn)' = Off(sn)
    BY <1>1 DEF At, Acked, Off
  <1>9. currentSN' = At(filePos + n) /\ currentSN' \in SN
    <2>1. Plus(At(filePos), n) = At(filePos + n) BY <1>2, <1>5, Shift
    <2>2. QED BY <1>1, <1>2, <1>5, <2>1, Offsets
  <1>10. currentSN' = At(filePos)' BY <1>1, <1>9 DEF At
  <1>11. nackedBytes' = filePos' - Acked' /\ nackedBytes' <= windowSize'
    BY <1>1, <1>3, <1>5, <1>6, <1>8
  <1>12. WindowInv'
    <2>1. Acked' <= filePos' BY <1>1, <1>5, <1>6, <1>8
    <2>2. fileEnds' => filePos' = FileLen
      <3>1. fileEnds' => n = 0 BY <1>1, Zenon
      <3>2. n = 0 => filePos + n = FileLen BY <1>3, <1>5
      <3>3. QED BY <1>1, <3>1, <3>2
    <2>3. \A k \in Acked' .. filePos' - 1 : filebuf'[Slot(At(k)')] = k
      <3>1. Acked' = Acked /\ filePos' = filePos + n /\ \A k \in Int : At(k)' = At(k)
        BY <1>1, <1>5, <1>8
      <3>2. Acked' .. filePos' - 1 \subseteq Int BY <1>5, <1>6, <3>1
      <3>3. TAKE k \in Acked' .. filePos' - 1
      <3>4. k \in Int BY <3>2
      <3>5. At(k)' = At(k) BY <3>1, <3>4, Zenon
      <3>6. k \in Acked .. filePos + n - 1 BY <3>1, <1>5, <1>6
      <3>7. QED BY <1>7, <3>5, <3>6
    <2>4. QED BY <1>11, <2>1, <2>2, <2>3 DEF WindowInv
  \* The list and the ids.
  <1>13. /\ unacked' \in Seq(Ids) /\ Len(unacked') = L + 1
         /\ \A i \in 1 .. L : unacked'[i] = unacked[i]
         /\ unacked'[L + 1] = packetId
    BY <1>1, <1>2, AppendProperties
  <1>14. /\ Packs(windowSize) \in Nat /\ Packs(windowSize) * MaxData \in Int
         /\ Packs(windowSize) + 2 <= MaxPackets
         /\ windowSize <= Packs(windowSize) * MaxData
    BY <1>2, PacksBounds
  <1>15. L * MaxData \in Int /\ (L + 1) * MaxData = L * MaxData + MaxData
    <2>1. (L + 1) * MaxData = L * MaxData + 1 * MaxData /\ L * MaxData \in Int
      BY <1>5, Distribute
    <2>2. QED BY <1>5, <2>1
  <1>16. L * MaxData <= nackedBytes + Spare + (IF filePos = FileLen THEN MaxData ELSE 0)
    <2>1. L * MaxData <= nackedBytes + Spare + (IF filePos = FileLen THEN MaxData ELSE 0)
                         + (IF fileEnds THEN MaxData ELSE 0)
      BY DEF IdInv
    <2>2. Spare \in Int BY <1>5, <1>14 DEF Spare
    <2>3. QED BY <1>4, <1>5, <1>15, <2>1, <2>2
  <1>17. /\ L <= Packs(windowSize)
         /\ filePos # FileLen => L + 1 <= Packs(windowSize)
    <2> DEFINE c == Packs(windowSize)
               u == L * MaxData
               v == c * MaxData
    <2>1. u \in Int /\ v \in Int /\ c \in Nat /\ v - windowSize = Spare
      BY <1>14, <1>15 DEF Spare
    <2>2. (c + 1) * MaxData = v + MaxData
      <3>1. c \in Int /\ MaxData \in Int BY <1>5, <1>14
      <3>2. (c + 1) * MaxData = v + 1 * MaxData BY <3>1, Distribute
      <3>3. QED BY <1>5, <3>2
    <2>3. u <= nackedBytes + Spare + (IF filePos = FileLen THEN MaxData ELSE 0) BY <1>16
    <2>4. c = Packs(windowSize) /\ u = L * MaxData /\ v = c * MaxData OBVIOUS
    <2> HIDE DEF c, u, v
    <2>5. u < v + MaxData /\ (filePos # FileLen => u < v)
      <3>1. nackedBytes + Spare < v BY <1>4, <1>5, <2>1
      <3>2. nackedBytes + Spare \in Int BY <1>5, <2>1
      <3>3. filePos # FileLen => u <= nackedBytes + Spare BY <2>1, <2>3, <3>2
      <3>4. u <= nackedBytes + Spare + MaxData BY <1>5, <2>1, <2>3, <3>2
      <3>5. QED BY <1>5, <2>1, <3>1, <3>2, <3>3, <3>4
    <2>6. L < c + 1
      <3>1. L * MaxData < (c + 1) * MaxData BY <2>2, <2>5, <2>4
      <3>2. QED BY <1>5, <2>1, <3>1, MulLess
    <2>7. filePos # FileLen => L < c
      <3>1. filePos # FileLen => L * MaxData < c * MaxData BY <2>5, <2>4
      <3>2. QED BY <1>5, <2>1, <3>1, MulLess
    <2>8. L <= c /\ (filePos # FileLen => L + 1 <= c) BY <1>5, <2>1, <2>6, <2>7
    <2>9. QED BY <2>4, <2>8
  <1>18. \A i \in 1 .. L : /\ unacked[i] \in Ids /\ unacked[i] # packetId
                           /\ unacked[i] = Back(packetId', L + 2 - i)
    <2>1. ASSUME NEW i \in 1 .. L
          PROVE  /\ unacked[i] \in Ids /\ unacked[i] # packetId
                 /\ unacked[i] = Back(packetId', L + 2 - i)
      <3>1. L + 1 - i \in 1 .. MaxPackets - 2 /\ (L + 1 - i) + 1 = L + 2 - i
        <4>1. L \in Nat /\ i \in 1 .. L BY <1>5
        <4>2. L <= MaxPackets - 2 /\ MaxPackets \in Nat
          <5>1. PICK c : c = Packs(windowSize) OBVIOUS
          <5>2. c \in Int /\ c + 2 <= MaxPackets /\ MaxPackets \in Nat BY <1>14, <5>1, Sizes
          <5>3. L <= c BY <1>17, <5>1
          <5>4. QED BY <1>5, <5>2, <5>3
        <4>3. QED BY <4>1, <4>2
      <3>2. unacked[i] = Back(packetId, L + 1 - i) BY DEF IdInv
      <3>3. /\ Back(packetId', (L + 1 - i) + 1) = Back(packetId, L + 1 - i)
            /\ Back(packetId, L + 1 - i) # packetId
        BY <1>1, <1>2, <3>1, BackNext
      <3>4. QED BY <3>1, <3>2, <3>3, Entries
    <2>2. QED BY <2>1
  <1>19. packetId = Back(packetId', 1) BY <1>1, <1>2, BackNext
  <1>20. packetId' \in Ids BY <1>1, <1>2, Sizes DEF NextId, Ids
  <1>21. NewEntry(n) = [sn |-> At(filePos + n), size |-> n] BY <1>1, <1>9 DEF NewEntry
  <1>22. sendpack' \in [Ids -> [sn : SN, size : 0 .. MaxData]]
    BY <1>1, <1>2, <1>3, <1>9, <1>21
  <1>23. \A i \in 1 .. L : /\ End(unacked[i])' = End(unacked[i])
                           /\ Beg(unacked[i])' = Beg(unacked[i])
                           /\ sendpack'[unacked'[i]] = sendpack[unacked[i]]
    <2>1. ASSUME NEW i \in 1 .. L PROVE sendpack'[unacked'[i]] = sendpack[unacked[i]]
      <3>1. unacked'[i] = unacked[i] BY <1>13
      <3>2. unacked[i] \in Ids /\ unacked[i] # packetId BY <1>18
      <3>3. QED BY <1>1, <1>2, <3>1, <3>2
    <2>2. QED BY <1>8, <2>1 DEF End, Beg
  <1>24. /\ sendpack'[unacked'[L + 1]] = [sn |-> At(filePos + n), size |-> n]
         /\ End(unacked[L + 1])' = filePos + n
         /\ Beg(unacked[L + 1])' = filePos
    <2>1. sendpack'[unacked'[L + 1]] = [sn |-> At(filePos + n), size |-> n]
      BY <1>1, <1>2, <1>13, <1>21
    <2>2. filePos + n \in 0 .. FileLen + 2 * BufSize
      <3>1. filePos + n \in Nat /\ filePos + n <= FileLen BY <1>3, <1>5
      <3>2. QED BY <3>1, Sizes
    <2>3. Off(At(filePos + n)) = filePos + n BY <1>2, <2>2, Offsets
    <2>4. End(unacked[L + 1])' = filePos + n BY <1>8, <2>1, <2>3 DEF End
    <2>5. Beg(unacked[L + 1])' = (filePos + n) - n BY <2>1, <2>4 DEF Beg
    <2>6. QED BY <1>5, <2>1, <2>4, <2>5
  <1>25. ListInv'
    <2>1. ASSUME NEW i \in 1 .. L
          PROVE  /\ Beg(unacked[i]) = IF i = 1 THEN Acked ELSE End(unacked[i - 1])
                 /\ Acked <= Beg(unacked[i]) /\ End(unacked[i]) <= filePos
                 /\ i = L => End(unacked[i]) = filePos
                 /\ sendpack[unacked[i]].size # 0
                 /\ checkbuf[Slot(At(Beg(unacked[i])))] = unacked[i]
                 /\ Beg(unacked[i]) \in Acked .. filePos - 1
                 /\ End(unacked[i]) \in Int
      <3>1. /\ Beg(unacked[i]) = IF i = 1 THEN Acked ELSE End(unacked[i - 1])
            /\ Acked <= Beg(unacked[i]) /\ End(unacked[i]) <= filePos
            /\ i = L => End(unacked[i]) = filePos
            /\ sendpack[unacked[i]].size # 0
            /\ checkbuf[Slot(At(Beg(unacked[i])))] = unacked[i]
        BY <1>4 DEF ListInv
      <3>2. /\ End(unacked[i]) \in Int /\ Beg(unacked[i]) \in Int
            /\ sendpack[unacked[i]].size \in 0 .. MaxData
        BY <1>18, Entries
      <3>3. Beg(unacked[i]) = End(unacked[i]) - sendpack[unacked[i]].size BY DEF Beg
      <3>4. Beg(unacked[i]) \in Acked .. filePos - 1
        BY <1>5, <1>6, <3>1, <3>2, <3>3
      <3>5. QED BY <3>1, <3>2, <3>4
    <2>2. ASSUME NEW i \in 1 .. L
          PROVE  (/\ Beg(unacked[i]) = IF i = 1 THEN Acked ELSE End(unacked[i - 1])
                  /\ Acked <= Beg(unacked[i]) /\ End(unacked[i]) <= filePos
                  /\ i = Len(unacked) => End(unacked[i]) = filePos
                  /\ sendpack[unacked[i]].size = 0 => i = Len(unacked) /\ fileEnds
                  /\ checkbuf[Slot(At(Beg(unacked[i])))] = unacked[i])'
      <3>1. /\ Beg(unacked[i])' = Beg(unacked[i]) /\ End(unacked[i])' = End(unacked[i])
            /\ sendpack'[unacked'[i]] = sendpack[unacked[i]]
            /\ i # 1 => End(unacked[i - 1])' = End(unacked[i - 1])
        <4>1. i # 1 => i - 1 \in 1 .. L BY <1>5
        <4>2. QED BY <1>23, <4>1
      <3>2. Beg(unacked[i])' = IF i = 1 THEN Acked' ELSE End(unacked[i - 1])'
        BY <1>8, <2>1, <3>1
      <3>3. Acked' <= Beg(unacked[i])' BY <1>8, <2>1, <3>1
      <3>4. End(unacked[i])' <= filePos'
        <4>1. End(unacked[i]) <= filePos /\ End(unacked[i]) \in Int BY <2>1
        <4>2. QED BY <1>1, <1>5, <3>1, <4>1
      <3>5. i # Len(unacked') BY <1>5, <1>13
      <3>6. sendpack'[unacked'[i]].size # 0 BY <2>1, <3>1
      <3>7. checkbuf'[Slot(At(Beg(unacked[i]))')] = unacked'[i]
        <4>1. At(Beg(unacked[i]))' = At(Beg(unacked[i])) BY <1>1, <3>1 DEF At
        <4>2. QED BY <1>7, <1>13, <2>1, <4>1
      <3>8. QED BY <3>2, <3>3, <3>4, <3>5, <3>6, <3>7
    <2>3. (/\ Beg(unacked[L + 1]) = IF L + 1 = 1 THEN Acked ELSE End(unacked[L + 1 - 1])
           /\ Acked <= Beg(unacked[L + 1]) /\ End(unacked[L + 1]) <= filePos
           /\ L + 1 = Len(unacked) => End(unacked[L + 1]) = filePos
           /\ sendpack[unacked[L + 1]].size = 0 => L + 1 = Len(unacked) /\ fileEnds
           /\ checkbuf[Slot(At(Beg(unacked[L + 1])))] = unacked[L + 1])'
      <3>1. Beg(unacked[L + 1])' = IF L + 1 = 1 THEN Acked' ELSE End(unacked[L + 1 - 1])'
        <4>1. CASE L = 0
          <5>1. unacked = <<>> BY <1>2, <4>1, EmptySeq
          <5>2. Acked = filePos BY <5>1 DEF ListInv
          <5>3. L + 1 = 1 BY <4>1
          <5>4. QED BY <1>8, <1>24, <5>2, <5>3
        <4>2. CASE L # 0
          <5>1. L \in 1 .. L /\ L + 1 # 1 /\ L + 1 - 1 = L BY <1>5, <4>2
          <5>2. End(unacked[L]) = filePos BY <2>1, <5>1
          <5>3. End(unacked[L])' = End(unacked[L]) BY <1>23, <5>1
          <5>4. QED BY <1>24, <5>1, <5>2, <5>3
        <4>3. QED BY <4>1, <4>2
      <3>2. Acked' <= Beg(unacked[L + 1])' BY <1>6, <1>8, <1>24
      <3>3. End(unacked[L + 1])' = filePos' /\ filePos' \in Int BY <1>1, <1>5, <1>24
      <3>4. sendpack'[unacked'[L + 1]].size = 0 => fileEnds'
        <4>1. sendpack'[unacked'[L + 1]].size = n BY <1>24
        <4>2. QED BY <1>1, <4>1, Zenon
      <3>5. checkbuf'[Slot(At(Beg(unacked[L + 1]))')] = unacked'[L + 1]
        <4>1. At(Beg(unacked[L + 1]))' = At(filePos) BY <1>1, <1>24 DEF At
        <4>2. QED BY <1>7, <1>13, <4>1
      <3>6. QED BY <1>13, <3>1, <3>2, <3>3, <3>4, <3>5
    <2>4. ASSUME NEW i \in 1 .. L + 1, NEW j \in 1 .. L + 1, i < j
          PROVE  End(unacked[i])' <= Beg(unacked[j])'
      <3>1. i \in 1 .. L BY <1>5, <2>4
      <3>2. End(unacked[i])' = End(unacked[i]) /\ End(unacked[i]) <= filePos
        BY <1>23, <2>1, <3>1
      <3>3. CASE j = L + 1 BY <1>24, <3>2, <3>3
      <3>4. CASE j # L + 1
        <4>1. j \in 1 .. L BY <1>5, <3>4
        <4>2. End(unacked[i]) <= Beg(unacked[j]) BY <2>4, <3>1, <4>1 DEF ListInv
        <4>3. QED BY <1>23, <3>2, <4>1, <4>2
      <3>5. QED BY <3>3, <3>4
    <2>5. unacked' # <<>> BY <1>5, <1>13
    <2>6. \A i \in 1 .. Len(unacked') : i \in 1 .. L \/ i = L + 1 BY <1>5, <1>13
    <2>7. QED BY <1>13, <2>2, <2>3, <2>4, <2>5, <2>6 DEF ListInv
  <1>26. IdInv'
    <2>1. Packs(windowSize)' = Packs(windowSize) /\ Spare' = Spare
      BY <1>1 DEF Packs, Spare
    <2>2. Len(unacked') <= Packs(windowSize) + 1 BY <1>5, <1>13, <1>14, <1>17
    <2>3. ASSUME NEW i \in 1 .. L + 1
          PROVE  unacked'[i] = Back(packetId', L + 1 + 1 - i)
      <3>1. CASE i \in 1 .. L
        <4>1. L + 1 + 1 - i = L + 2 - i BY <1>5
        <4>2. QED BY <1>13, <1>18, <3>1, <4>1
      <3>2. CASE i = L + 1
        <4>1. L + 1 + 1 - i = 1 BY <1>5, <3>2
        <4>2. QED BY <1>13, <1>19, <3>2, <4>1
      <3>3. QED BY <1>5, <3>1, <3>2
    <2>4. ASSUME NEW i \in 1 .. L + 1, NEW j \in 1 .. L + 1, i <= j
          PROVE  End(unacked[j])' - Beg(unacked[i])' <= (j - i + 1) * MaxData
      <3>1. CASE j \in 1 .. L
        <4>1. i \in 1 .. L BY <1>5, <2>4, <3>1
        <4>2. QED BY <1>23, <2>4, <3>1, <4>1 DEF IdInv
      <3>2. CASE j = L + 1 /\ i = L + 1
        <4>1. j - i + 1 = 1 /\ 1 * MaxData = MaxData BY <1>5, <3>2
        <4>2. QED BY <1>5, <1>24, <3>2, <4>1
      <3>3. CASE j = L + 1 /\ i \in 1 .. L
        <4>1. L \in 1 .. L /\ i <= L BY <1>5, <3>3
        <4>2. End(unacked[L]) - Beg(unacked[i]) <= (L - i + 1) * MaxData
          <5>1. \A k, l \in 1 .. L : k <= l =>
                  End(unacked[l]) - Beg(unacked[k]) <= (l - k + 1) * MaxData
            BY DEF IdInv
          <5>2. QED BY <3>3, <4>1, <5>1
        <4>3. End(unacked[L]) = filePos BY <4>1 DEF ListInv
        <4>4. /\ (j - i + 1) * MaxData = (L - i + 1) * MaxData + MaxData
              /\ (L - i + 1) * MaxData \in Int
          <5>1. j - i + 1 = (L - i + 1) + 1 /\ L - i + 1 \in Int BY <1>5, <3>3
          <5>2. ((L - i + 1) + 1) * MaxData = (L - i + 1) * MaxData + 1 * MaxData
                /\ (L - i + 1) * MaxData \in Int
            BY <1>5, <5>1, Distribute
          <5>3. 1 * MaxData = MaxData BY <1>5
          <5>4. QED BY <5>1, <5>2, <5>3
        <4>5. Beg(unacked[i])' = Beg(unacked[i]) /\ Beg(unacked[i]) \in Int
          BY <1>18, <1>23, <3>3, Entries
        <4> DEFINE e == (L - i + 1) * MaxData
        <4>6. e \in Int /\ filePos - Beg(unacked[i]) <= e /\ (j - i + 1) * MaxData = e + MaxData
          BY <4>2, <4>3, <4>4
        <4> HIDE DEF e
        <4>7. (filePos + n) - Beg(unacked[i]) <= e + MaxData
          <5>1. PICK b, p : b = Beg(unacked[i]) /\ p = filePos OBVIOUS
          <5>2. b \in Int /\ p \in Int /\ p - b <= e /\ e \in Int BY <1>5, <4>5, <4>6, <5>1
          <5>3. n \in Int /\ n <= MaxData /\ MaxData \in Int BY <1>5
          <5>4. (p + n) - b <= e + MaxData BY <5>2, <5>3
          <5>5. QED BY <5>1, <5>4
        <4>8. End(unacked[j])' = filePos + n BY <1>24, <3>3
        <4>9. Beg(unacked[i])' = Beg(unacked[i]) BY <4>5
        <4>10. End(unacked[j])' - Beg(unacked[i])' <= e + MaxData
          BY <4>7, <4>8, <4>9
        <4>11. QED BY <4>6, <4>10
      <3>4. QED BY <1>5, <3>1, <3>2, <3>3
    <2>5. (L + 1) * MaxData <= nackedBytes' + Spare
                                 + (IF filePos' = FileLen THEN MaxData ELSE 0)
                                 + (IF fileEnds' THEN MaxData ELSE 0)
      <3>1. PICK u, e, f, g, c :
              /\ u = L * MaxData /\ g = (L + 1) * MaxData
              /\ c = Packs(windowSize) * MaxData
              /\ e = (IF filePos' = FileLen THEN MaxData ELSE 0)
              /\ f = (IF fileEnds' THEN MaxData ELSE 0)
        OBVIOUS
      <3>2. u \in Int /\ g = u + MaxData /\ c \in Int /\ c = windowSize + Spare
            /\ Spare \in Int /\ e \in {0, MaxData} /\ f \in {0, MaxData}
        <4>1. u \in Int /\ g = u + MaxData BY <1>15, <3>1
        <4>2. c \in Int /\ Spare = c - windowSize BY <1>14, <3>1 DEF Spare
        <4>3. Spare \in Int /\ c = windowSize + Spare BY <1>5, <4>2
        <4>4. e \in {0, MaxData} /\ f \in {0, MaxData} BY <3>1
        <4>5. QED BY <4>1, <4>2, <4>3, <4>4
      <3>3. u <= nackedBytes + Spare + (IF filePos = FileLen THEN MaxData ELSE 0)
        BY <1>16, <3>1
      <3>4. g <= nackedBytes + n + Spare + e + f
        <4>1. CASE n = MaxData
          <5>1. filePos # FileLen BY <1>3, <1>5, <4>1
          <5>2. u <= nackedBytes + Spare BY <1>5, <3>2, <3>3, <5>1
          <5>3. e >= 0 /\ f >= 0 /\ e \in Int /\ f \in Int BY <1>5, <3>2
          <5>4. g <= nackedBytes + n + Spare BY <1>5, <3>2, <4>1, <5>2
          <5>5. g \in Int /\ nackedBytes + n + Spare \in Int BY <1>5, <3>2
          <5>6. QED BY <5>3, <5>4, <5>5
        <4>2. CASE n = 0
          <5>1. f = MaxData BY <1>1, <3>1, <4>2
          <5>2. filePos' = filePos BY <1>1, <1>5, <4>2
          <5>3. e = (IF filePos = FileLen THEN MaxData ELSE 0) BY <3>1, <5>2
          <5>4. u <= nackedBytes + Spare + e BY <3>3, <5>3
          <5>5. QED BY <1>5, <3>2, <4>2, <5>1, <5>4
        <4>3. CASE n # 0 /\ filePos + n = FileLen
          <5>1. filePos # FileLen BY <1>3, <4>3
          <5>2. e = MaxData BY <1>1, <3>1, <4>3
          <5>3. u <= nackedBytes + Spare BY <1>5, <3>2, <3>3, <5>1
          <5>4. u + MaxData <= nackedBytes + n + Spare + MaxData BY <1>5, <3>2, <4>3, <5>3
          <5>5. g = u + MaxData /\ f \in Nat BY <1>5, <3>2
          <5>6. QED BY <1>5, <3>2, <5>2, <5>4, <5>5
        <4>4. CASE n > 0 /\ nackedBytes + n = windowSize
          <5>1. filePos # FileLen BY <1>3, <1>5, <4>4
          <5>2. L + 1 <= Packs(windowSize) BY <1>17, <5>1
          <5>3. L + 1 \in Int /\ Packs(windowSize) \in Int /\ MaxData \in Nat
            BY <1>5, <1>14
          <5>4. (L + 1) * MaxData <= Packs(windowSize) * MaxData
            BY <5>2, <5>3, MulMono
          <5>5. g <= c BY <3>1, <5>4
          <5>6. c = nackedBytes + n + Spare BY <3>2, <4>4
          <5>7. e >= 0 /\ f >= 0 /\ e \in Int /\ f \in Int /\ c \in Int /\ g \in Int
            BY <1>5, <3>2
          <5>8. c <= c + e + f BY <5>7
          <5>9. g <= c + e + f BY <5>5, <5>7, <5>8
          <5>10. QED BY <5>6, <5>9
        <4>5. QED BY <1>3, <4>1, <4>2, <4>3, <4>4
      <3>5. QED BY <1>1, <3>1, <3>4
    <2>6. QED BY <1>13, <2>1, <2>2, <2>3, <2>4, <2>5 DEF IdInv
  <1>27. \A m \in toR' : m \in toR \/ PartOfFile(m)
    <2>1. \A k \in filePos .. filePos + n - 1 : filebuf'[Slot(At(k))] = k BY <1>5, <1>6, <1>7
    <2>2. PartOfFile(DataPacket(At(filePos), n, filebuf'))
      BY <1>2, <1>3, <1>5, <1>7, <2>1, RingOriginal
    <2>3. QED BY <1>1, <2>2 DEF Send
  <1>28. SndTypeOK'
    <2>1. nackedBytes' \in 0 .. WindowSize
      <3>1. windowSize <= WindowSize /\ WindowSize \in Nat BY <1>2, Sizes
      <3>2. nackedBytes' = nackedBytes + n /\ nackedBytes + n <= windowSize BY <1>1, <1>3
      <3>3. nackedBytes + n \in Nat BY <1>5
      <3>4. nackedBytes + n <= WindowSize
        <4>1. windowSize \in Int BY <1>2, Sizes
        <4>2. QED BY <3>1, <3>2, <3>3, <4>1
      <3>5. QED BY <3>2, <3>3, <3>4
    <2>2. filePos' \in 0 .. FileLen
      <3>1. filePos' = filePos + n BY <1>1
      <3>2. filePos + n <= FileLen BY <1>3
      <3>3. filePos + n \in Nat BY <1>5
      <3>4. QED BY <3>1, <3>2, <3>3, Sizes
    <2>3. fileEnds' \in BOOLEAN BY <1>1
    <2>4. QED BY <1>1, <1>7, <1>9, <1>13, <1>20, <1>22, <2>1, <2>2, <2>3 DEF SndTypeOK
  <1>29. QED BY <1>10, <1>12, <1>25, <1>26, <1>27, <1>28

-----------------------------------------------------------------------------
(* The receiver: its ring, its marks and what it has written.              *)

\* storeFile takes packets that lie in the window behind what is written.
LEMMA StorableIsInWindow ==
    ASSUME initSN \in SN, NEW D \in Nat, D <= FileLen, rAckedSN = At(D),
           NEW m, m.type # "INIT", m.sn \in SN, Len(m.data) \in Nat, Original(m)
    PROVE  /\ EndOf(m) = At(Off(m.sn) + Len(m.data))
           /\ Storable(m) <=> /\ D <= Off(m.sn)
                              /\ Off(m.sn) + Len(m.data) < D + WindowSize
                              /\ Off(m.sn) < D + WindowSize
  <1>pos. PICK P, l : P = Off(m.sn) /\ l = Len(m.data) OBVIOUS
  <1>1. P \in Nat /\ l \in Nat /\ m.sn = At(P) /\ P + l <= FileLen
    BY <1>pos, Offsets DEF Original
  <1>2. EndOf(m) = At(P + l)
    <2>1. P \in Int /\ l \in Int BY <1>1
    <2>2. Plus(At(P), l) = At(P + l) BY <2>1, Shift
    <2>3. QED BY <1>1, <2>2, <1>pos DEF EndOf, DataLen
  <1>3. Plus(rAckedSN, WindowSize) = At(D + WindowSize) BY Shift, Sizes
  <1>4. /\ D \in Int /\ D + WindowSize \in Int /\ D <= D + WindowSize
        /\ (D + WindowSize) - D < SNSpace
        /\ P \in Int /\ P - D < SNSpace /\ (D + WindowSize) - P <= SNSpace
        /\ P + l \in Int /\ (P + l) - D < SNSpace
        /\ (D + WindowSize) - (P + l) <= SNSpace
    <2>1. /\ WindowSize \in Nat /\ FileLen \in Nat /\ SNSpace \in Nat
          /\ FileLen + WindowSize < SNSpace
      BY Sizes
    <2>2. P \in Nat /\ l \in Nat /\ P + l <= FileLen BY <1>1
    <2>3. D \in Int /\ D + WindowSize \in Int /\ D <= D + WindowSize
          /\ (D + WindowSize) - D < SNSpace
      BY <2>1
    <2>4. P \in Int /\ P - D < SNSpace /\ (D + WindowSize) - P <= SNSpace
      BY <2>1, <2>2
    <2>5. P + l \in Int /\ (P + l) - D < SNSpace
      BY <2>1, <2>2
    <2>6. (D + WindowSize) - (P + l) <= SNSpace
      BY <2>1, <2>2
    <2>7. QED BY <2>3, <2>4, <2>5, <2>6
  <1>5. InsideRange(At(P), At(D), At(D + WindowSize)) <=> D <= P /\ P < D + WindowSize
    BY <1>4, Inside
  <1>6. InsideRange(At(P + l), At(D), At(D + WindowSize))
           <=> D <= P + l /\ P + l < D + WindowSize
    BY <1>4, Inside
  <1>7. D <= P => D <= P + l BY <1>1
  <1>8. QED BY <1>1, <1>2, <1>3, <1>5, <1>6, <1>7, <1>pos DEF Storable

LEMMA StoreKeepsInv ==
    ASSUME RcvTypeOK, initSN \in SN, ReceiverInv, rPc # "idle",
           NEW m, m \in Packets({"SEND", "OLDSEND"}), Original(m),
           Storable(m), StoreFile(m), initSN' = initSN
    PROVE  /\ rCurrentSN' \in SN /\ rAckedSN' \in SN
           /\ rFilebuf' \in [Slots -> Bytes] /\ rCheckbuf' \in [Slots -> BOOLEAN]
           /\ written' \in Seq(Bytes) /\ Len(written) <= Len(written')
           /\ ReceiverInv'
  <1>pos. PICK D, C, P, l : /\ D = Done /\ C = Off(rCurrentSN)
                        /\ P = Off(m.sn) /\ l = Len(m.data)
    OBVIOUS
  <1>1. /\ m.type # "INIT" /\ m.sn \in SN /\ m.data \in Seq(Bytes) /\ l \in Nat
    BY <1>pos, LenProperties DEF Packets
  <1>2. /\ rCurrentSN \in SN /\ rFilebuf \in [Slots -> Bytes]
        /\ rCheckbuf \in [Slots -> BOOLEAN] /\ written \in Seq(Bytes)
    BY DEF RcvTypeOK
  <1>3. /\ P \in Nat /\ m.sn = At(P) /\ P + l <= FileLen
        /\ \A i \in 1 .. l : m.data[i] = P + i - 1
        /\ C \in Nat /\ rCurrentSN = At(C)
    BY <1>1, <1>2, <1>pos, Offsets DEF Original
  <1>4. /\ D \in Nat /\ D <= FileLen /\ D = Len(written)
        /\ \A i \in 1 .. D : written[i] = i - 1
        /\ rAckedSN = At(D) /\ D <= C /\ C <= FileLen /\ C - D <= WindowSize
    BY <1>2, <1>pos, LenProperties DEF ReceiverInv, FilePrefix, Done
  <1>5. \A k \in 0 .. BufSize - 1 :
           rCheckbuf[Slot(At(D + k))] => D + k < C /\ rFilebuf[Slot(At(D + k))] = D + k
    BY <1>pos DEF ReceiverInv
  <1>6. EndOf(m) = At(P + l) /\ D <= P /\ P + l < D + WindowSize
    BY <1>1, <1>4, <1>pos, StorableIsInWindow
  \* The arithmetic facts on their own.
  <1>7. /\ D <= C /\ C <= FileLen /\ C - D <= WindowSize /\ P + l <= FileLen
        /\ D <= P /\ P + l < D + WindowSize /\ 0 <= D /\ 0 <= l
        /\ D + WindowSize \in Int /\ C \in Int /\ D \in Int /\ P \in Int /\ l \in Int
        /\ WindowSize = BufSize - 1 /\ BufSize \in Nat /\ WindowSize \in Nat
        /\ FileLen \in Nat /\ FileLen + 2 * BufSize < SNSpace /\ SNSpace \in Nat
    <2>1. /\ D <= C /\ C <= FileLen /\ C - D <= WindowSize /\ P + l <= FileLen
          /\ D <= P /\ P + l < D + WindowSize /\ D \in Nat /\ C \in Nat /\ P \in Nat
          /\ l \in Nat
      BY <1>1, <1>3, <1>4, <1>6
    <2>2. QED BY <2>1, Sizes
  <1>mark. PICK marked : marked = RingFill(rCheckbuf, m.sn, l, TRUE) OBVIOUS
  <1>8. PICK n :
          /\ n \in 0 .. BufSize
          /\ \A i \in 0 .. n - 1 : marked[Slot(Plus(rAckedSN, i))]
          /\ n < BufSize => ~marked[Slot(Plus(rAckedSN, n))]
          /\ rFilebuf' = RingWrite(rFilebuf, m.sn, m.data)
          /\ rCheckbuf' = RingFill(marked, rAckedSN, n, FALSE)
          /\ rAckedSN' = Plus(rAckedSN, n)
          /\ rCurrentSN' = IF InsideRange(EndOf(m), rAckedSN, rCurrentSN)
                           THEN rCurrentSN ELSE EndOf(m)
          /\ written' = written \o RingRead(rFilebuf', rAckedSN, n)
    BY <1>pos, <1>mark DEF StoreFile
  <1>9. n \in Nat /\ n \in Int /\ n <= BufSize BY <1>7, <1>8
  \* The new mark of what has been received up to.
  <1>top. PICK E : E = IF P + l < C THEN C ELSE P + l OBVIOUS
  <1>10. /\ E \in Nat /\ C <= E /\ P + l <= E /\ E <= FileLen
         /\ D <= E /\ E - D <= WindowSize
    BY <1>7, <1>top
  <1>11. rCurrentSN' = At(E)
    <2>1. P + l \in Int /\ (P + l) - D < SNSpace /\ C - (P + l) <= SNSpace
          /\ C - D < SNSpace
      BY <1>7
    <2>2. InsideRange(At(P + l), At(D), At(C)) <=> D <= P + l /\ P + l < C
      BY <1>4, <1>7, <2>1, Inside
    <2>3. D <= P + l BY <1>1, <1>3, <1>6, <1>7
    <2>4. QED BY <1>3, <1>4, <1>6, <1>8, <1>top, <2>2, <2>3
  <1>12. rAckedSN' = At(D + n) BY <1>4, <1>7, <1>8, <1>9, Shift
  \* The rings within a turn from what had been written.
  <1>13. ASSUME NEW k \in Int, 0 <= k, k < BufSize
         PROVE  /\ marked[Slot(At(D + k))] =
                      IF P <= D + k /\ D + k < P + l THEN TRUE ELSE rCheckbuf[Slot(At(D + k))]
                /\ rFilebuf'[Slot(At(D + k))] =
                      IF P <= D + k /\ D + k < P + l THEN m.data[(D + k) - P + 1]
                                                    ELSE rFilebuf[Slot(At(D + k))]
    <2>x. PICK x : x = D + k OBVIOUS
    <2>1. x \in Int /\ P + l - BufSize <= x /\ x < P + BufSize
      BY <1>7, <1>13, <2>x
    <2>2. RingFill(rCheckbuf, At(P), l, TRUE)[Slot(At(x))] =
            IF P <= x /\ x < P + l THEN TRUE ELSE rCheckbuf[Slot(At(x))]
      <3>1. l \in Nat /\ P \in Int BY <1>1, <1>7
      <3>2. PICK v : v = TRUE OBVIOUS
      <3>3. RingFill(rCheckbuf, At(P), l, v)[Slot(At(x))] =
              IF P <= x /\ x < P + l THEN v ELSE rCheckbuf[Slot(At(x))]
        BY <2>1, <3>1, FillAt
      <3>4. QED BY <3>2, <3>3
    <2>3. RingWrite(rFilebuf, At(P), m.data)[Slot(At(x))] =
            IF P <= x /\ x < P + Len(m.data) THEN m.data[x - P + 1]
                                             ELSE rFilebuf[Slot(At(x))]
      <3>1. P + Len(m.data) - BufSize <= x BY <1>pos, <2>1
      <3>2. Len(m.data) \in Nat BY <1>1, LenProperties
      <3>3. P \in Int /\ x \in Int /\ x < P + BufSize /\ initSN \in SN
        BY <1>1, <1>7, <2>1 DEF RcvTypeOK
      <3>4. QED BY <3>1, <3>2, <3>3, WriteAt, ZenonT(30)
    <2>4. QED BY <1>3, <1>8, <1>pos, <1>mark, <2>x, <2>2, <2>3
  <1>14. ASSUME NEW k \in Int, 0 <= k, k < BufSize, marked[Slot(At(D + k))]
         PROVE  D + k < E /\ rFilebuf'[Slot(At(D + k))] = D + k
    <2>1. CASE P <= D + k /\ D + k < P + l
      <3>1. (D + k) - P + 1 \in 1 .. l BY <1>7, <1>14, <2>1
      <3>2. m.data[(D + k) - P + 1] = P + ((D + k) - P + 1) - 1 BY <1>3, <3>1
      <3>3. P + ((D + k) - P + 1) - 1 = D + k BY <1>7
      <3>4. D + k < E BY <1>7, <1>10, <2>1
      <3>5. QED BY <1>13, <1>14, <2>1, <3>2, <3>3, <3>4
    <2>2. CASE ~(P <= D + k /\ D + k < P + l)
      <3>1. rCheckbuf[Slot(At(D + k))] BY <1>13, <1>14, <2>2
      <3>2. k \in 0 .. BufSize - 1 BY <1>7, <1>14
      <3>3. D + k < C /\ rFilebuf[Slot(At(D + k))] = D + k BY <1>5, <3>1, <3>2
      <3>4. D + k < E BY <1>7, <1>10, <3>3
      <3>5. QED BY <1>13, <1>14, <2>2, <3>3, <3>4
    <2>3. QED BY <2>1, <2>2
  <1>15. \A k \in 0 .. n - 1 : /\ k \in Int /\ 0 <= k /\ k < BufSize
                               /\ marked[Slot(At(D + k))]
    <2>1. ASSUME NEW k \in 0 .. n - 1
          PROVE  /\ k \in Int /\ 0 <= k /\ k < BufSize
                 /\ marked[Slot(At(D + k))]
      <3>1. k \in Int /\ 0 <= k /\ k < BufSize BY <1>7, <1>9
      <3>2. Plus(At(D), k) = At(D + k) BY <1>7, <3>1, Shift
      <3>3. QED BY <1>4, <1>8, <3>1, <3>2
    <2>2. QED BY <2>1
  \* Not the whole ring is contiguous, and no more than has been received.
  <1>16. D + n <= E
    <2>1. CASE n = 0 BY <1>4, <1>7, <1>10, <2>1
    <2>2. CASE n # 0
      <3>1. n - 1 \in 0 .. n - 1 BY <1>9, <2>2
      <3>2. D + (n - 1) < E BY <1>14, <1>15, <3>1
      <3>3. QED BY <1>7, <1>9, <1>10, <3>2
    <2>3. QED BY <2>1, <2>2
  <1>17. n < BufSize BY <1>7, <1>9, <1>10, <1>16
  \* What is written.
  <1>18. /\ written' \in Seq(Bytes) /\ Len(written') = D + n
         /\ \A i \in 1 .. D + n : written'[i] = i - 1
    <2>out. PICK out : out = RingRead(rFilebuf', rAckedSN, n) OBVIOUS
    <2>1. rFilebuf' \in [Slots -> Bytes] /\ rAckedSN \in Int
      <3>1. m.sn \in Int /\ rAckedSN \in Int BY <1>1, <1>4, <1>7, Offsets, ModTypes
      <3>2. QED BY <1>1, <1>2, <1>8, <3>1, RingTypes
    <2>2. out \in Seq(Bytes) /\ Len(out) = n
      <3>1. /\ RingRead(rFilebuf', rAckedSN, n) \in Seq(Bytes)
            /\ Len(RingRead(rFilebuf', rAckedSN, n)) = n
        <4>1. n \in Nat BY <1>9
        <4>2. ASSUME NEW ring \in [Slots -> Bytes], NEW sn \in Int
              PROVE  /\ RingRead(ring, sn, n) \in Seq(Bytes)
                     /\ Len(RingRead(ring, sn, n)) = n
          BY <4>1, RingTypes
        <4>3. QED BY <2>1, <4>2
      <3>2. QED BY <2>out, <3>1
    <2>3. ASSUME NEW i \in 1 .. n PROVE out[i] = D + i - 1
      <3>1. i - 1 \in 0 .. n - 1 /\ i - 1 \in Int /\ D + (i - 1) = D + i - 1
        BY <1>7, <1>9
      <3>2. Plus(At(D), i - 1) = At(D + (i - 1)) BY <1>7, <3>1, Shift
      <3>3. rFilebuf'[Slot(At(D + (i - 1)))] = D + (i - 1) BY <1>14, <1>15, <3>1
      <3>4. out[i] = rFilebuf'[Slot(Plus(At(D), i - 1))] BY <1>4, <2>out DEF RingRead
      <3>5. QED BY <3>1, <3>2, <3>3, <3>4
    <2>4. written' = written \o out BY <1>8, <2>out
    <2>5. /\ written' \in Seq(Bytes) /\ Len(written') = Len(written) + Len(out)
          /\ \A i \in 1 .. Len(written) + Len(out) :
               written'[i] = IF i <= Len(written) THEN written[i] ELSE out[i - Len(written)]
      BY <1>2, <2>2, <2>4, ConcatProperties
    <2>6. ASSUME NEW i \in 1 .. D + n PROVE written'[i] = i - 1
      <3>1. written'[i] = IF i <= D THEN written[i] ELSE out[i - D] BY <1>4, <2>2, <2>5
      <3>2. CASE i <= D
        <4>1. i \in 1 .. D BY <1>7, <3>2
        <4>2. QED BY <1>4, <3>1, <3>2, <4>1
      <3>3. CASE i > D
        <4>1. i - D \in 1 .. n /\ ~(i <= D) BY <1>7, <1>9, <3>3
        <4>2. out[i - D] = D + (i - D) - 1 BY <2>3, <4>1
        <4>3. D + (i - D) - 1 = i - 1 BY <1>7
        <4>4. QED BY <3>1, <4>1, <4>2, <4>3
      <3>4. QED BY <1>7, <3>2, <3>3
    <2>7. QED BY <1>4, <2>2, <2>5, <2>6
  <1>19. ASSUME NEW k \in Int, 0 <= k, k < BufSize, rCheckbuf'[Slot(At((D + n) + k))]
         PROVE  /\ (D + n) + k < E
                /\ rFilebuf'[Slot(At((D + n) + k))] = (D + n) + k
    <2>1. ASSUME NEW j \in Int, 0 <= j, j < BufSize
          PROVE  rCheckbuf'[Slot(At(D + j))] = IF j < n THEN FALSE ELSE marked[Slot(At(D + j))]
      <3>1. PICK v, x : v = FALSE /\ x = D + j OBVIOUS
      <3>2. x \in Int /\ D + n - BufSize <= x /\ x < D + BufSize
            /\ (D <= x /\ x < D + n <=> j < n)
        BY <1>7, <1>9, <2>1, <3>1
      <3>3. RingFill(marked, At(D), n, v)[Slot(At(x))] =
              IF D <= x /\ x < D + n THEN v ELSE marked[Slot(At(x))]
        <4>1. D \in Int /\ n \in Nat BY <1>7, <1>9
        <4>2. QED BY <3>2, <4>1, FillAt
      <3>4. QED BY <1>4, <1>8, <3>1, <3>2, <3>3
    <2>2. CASE n + k < BufSize
      <3>1. PICK j : j = n + k OBVIOUS
      <3>2. j \in Int /\ 0 <= j /\ j < BufSize /\ ~(j < n) /\ (D + n) + k = D + j
        BY <1>7, <1>9, <1>19, <2>2, <3>1
      <3>3. marked[Slot(At(D + j))] BY <1>19, <2>1, <3>2
      <3>4. QED BY <1>14, <3>2, <3>3
    <2>3. CASE n + k >= BufSize
      <3>1. PICK j : j = n + k - BufSize OBVIOUS
      <3>2. j \in Int /\ 0 <= j /\ j < BufSize /\ j < n /\ (D + n) + k = (D + j) + BufSize
        BY <1>7, <1>9, <1>17, <1>19, <2>3, <3>1
      <3>3. Slot(At((D + j) + BufSize)) = Slot(At(D + j))
        <4>1. initSN \in Int /\ D + j \in Int BY <1>7, <3>2, ModTypes
        <4>2. QED BY <4>1, SlotPeriodic DEF At
      <3>4. ~rCheckbuf'[Slot(At(D + j))] BY <2>1, <3>2
      <3>5. QED BY <1>19, <3>2, <3>3, <3>4
    <2>4. QED BY <1>7, <1>9, <1>19, <2>2, <2>3
  <1>20. /\ rFilebuf' \in [Slots -> Bytes] /\ rCheckbuf' \in [Slots -> BOOLEAN]
         /\ rCurrentSN' \in SN /\ rAckedSN' \in SN
    <2>1. m.sn \in Int /\ rAckedSN \in Int BY <1>1, <1>4, <1>7, Offsets, ModTypes
    <2>2. rFilebuf' \in [Slots -> Bytes] BY <1>1, <1>2, <1>8, <2>1, RingTypes
    <2>3. TRUE \in BOOLEAN /\ FALSE \in BOOLEAN OBVIOUS
    <2>4. marked \in [Slots -> BOOLEAN] BY <1>1, <1>2, <1>mark, <2>1, <2>3, RingTypes
    <2>5. rCheckbuf' \in [Slots -> BOOLEAN] BY <1>8, <1>9, <2>1, <2>3, <2>4, RingTypes
    <2>6. D + n \in Int /\ E \in Int BY <1>7, <1>9, <1>10
    <2>7. QED BY <1>11, <1>12, <2>2, <2>5, <2>6, Offsets
  <1>21. ReceiverInv'
    <2>1. Done' = D + n BY <1>18 DEF Done
    <2>2. FilePrefix' BY <1>7, <1>9, <1>10, <1>16, <1>18 DEF FilePrefix
    <2>3. Off(rCurrentSN)' = E
      <3>1. E \in 0 .. FileLen + 2 * BufSize BY <1>7, <1>10
      <3>2. QED BY <1>11, <3>1, Offsets DEF Off
    <2>4. \A x : At(x)' = At(x) BY DEF At
    <2>5. D + n <= E /\ E <= FileLen /\ E - (D + n) <= WindowSize
      BY <1>7, <1>9, <1>10, <1>16
    <2>6. \A k \in 0 .. BufSize - 1 : k \in Int /\ 0 <= k /\ k < BufSize BY <1>7
    <2>7. QED BY <1>12, <1>19, <2>1, <2>2, <2>3, <2>4, <2>5, <2>6 DEF ReceiverInv
  <1>22. Len(written) <= Len(written') BY <1>4, <1>9, <1>18
  <1>23. QED BY <1>18, <1>20, <1>21, <1>22

-----------------------------------------------------------------------------
(* Facts about single parts of the state.                                  *)

\* A packet on the list is resent with the bytes of the file.
LEMMA ResentIsOriginal ==
    ASSUME SndTypeOK, WindowInv, ListInv, NEW id, id \in Live
    PROVE  /\ id \in Ids /\ PartOfFile(Resent(id))
           /\ Resent(id).data = FileData(StartOf(id), sendpack[id].size)
  <1>1. PICK i : i \in 1 .. Len(unacked) /\ id = unacked[i] BY Entries DEF Live
  <1>2. /\ id \in Ids /\ End(id) \in Nat /\ Beg(id) \in Int
        /\ sendpack[id].size \in 0 .. MaxData /\ StartOf(id) = At(Beg(id))
        /\ Acked \in Nat
    BY <1>1, Entries
  <1>3. Acked <= Beg(id) /\ End(id) <= filePos /\ Beg(id) = End(id) - sendpack[id].size
    BY <1>1 DEF ListInv, Beg
  <1>4. filePos \in 0 .. FileLen /\ initSN \in SN /\ filebuf \in [Slots -> Bytes]
    BY DEF SndTypeOK
  <1>5. PICK p, n : p = Beg(id) /\ n = sendpack[id].size OBVIOUS
  <1>6. /\ p \in Nat /\ n \in Nat /\ p + n <= filePos /\ Acked <= p
        /\ filePos <= FileLen /\ filePos \in Nat
    <2>1. MaxData \in Nat /\ FileLen \in Nat BY Sizes
    <2>2. n \in Nat /\ p \in Int BY <1>2, <1>5, <2>1
    <2>3. p + n = End(id) BY <1>2, <1>3, <1>5, <2>2
    <2>4. p + n <= filePos /\ Acked <= p BY <1>3, <1>5, <2>3
    <2>5. QED BY <1>2, <1>4, <2>1, <2>2, <2>4
  <1>7. \A k \in p .. p + n - 1 : filebuf[Slot(At(k))] = k
    <2>1. \A k \in p .. p + n - 1 : k \in Acked .. filePos - 1 BY <1>2, <1>6
    <2>2. QED BY <2>1 DEF WindowInv
  <1>8. p + n <= FileLen
    <2>1. FileLen \in Nat BY Sizes
    <2>2. QED BY <1>6, <2>1
  <1>9. Resent(id) = DataPacket(At(p), n, filebuf) BY <1>2, <1>5 DEF Resent
  <1>10. PartOfFile(Resent(id)) BY <1>4, <1>6, <1>7, <1>8, <1>9, RingOriginal
  <1>11. Resent(id).data = FileData(At(p), n)
    <2>1. Resent(id).data = [k \in 1 .. n |-> filebuf[Slot(Plus(At(p), k - 1))]]
          /\ Resent(id).sn = At(p)
      BY <1>9 DEF DataPacket, ToReceiver, RingRead
    <2>2. Len(Resent(id).data) = n BY <1>6, <2>1
    <2>3. \A k \in 1 .. n : Resent(id).data[k] = Off(At(p)) + k - 1
      BY <1>10, <2>1, <2>2 DEF PartOfFile, Original
    <2>4. QED BY <2>1, <2>3 DEF FileData
  <1>12. QED BY <1>2, <1>5, <1>10, <1>11

\* A list of ids gives ids, or the sentinel.
LEMMA ListElements ==
    ASSUME NEW list, list \in Seq(Ids)
    PROVE  /\ First(list) \in {0} \cup Ids
           /\ First(list) # 0 => \E i \in 1 .. Len(list) : First(list) = list[i]
           /\ \A id : After(list, id) \in {0} \cup Ids
  <1>1. Len(list) \in Nat /\ \A i \in 1 .. Len(list) : list[i] \in Ids
    BY LenProperties, ElementOfSeq
  <1>2. list # <<>> => 1 \in 1 .. Len(list) BY EmptySeq, <1>1
  <1>3. ASSUME NEW id PROVE After(list, id) \in {0} \cup Ids
    <2>1. CASE \E i \in 1 .. Len(list) - 1 : list[i] = id
      <3>1. PICK i : i = CHOOSE j \in 1 .. Len(list) - 1 : list[j] = id OBVIOUS
      <3>2. i \in 1 .. Len(list) - 1 BY <2>1, <3>1
      <3>3. i + 1 \in 1 .. Len(list) BY <1>1, <3>2
      <3>4. After(list, id) = list[i + 1] BY <2>1, <3>1 DEF After
      <3>5. QED BY <1>1, <3>3, <3>4
    <2>2. CASE ~ \E i \in 1 .. Len(list) - 1 : list[i] = id
      BY <2>2 DEF After
    <2>3. QED BY <2>1, <2>2
  <1>4. QED BY <1>1, <1>2, <1>3 DEF First

\* A step that leaves the sender's window alone.
LEMMA WindowSame ==
    ASSUME UNCHANGED <<initSN, windowSize, ringVars, ackVars>>
    PROVE  /\ WindowInv => WindowInv'
           /\ ListInv => ListInv'
           /\ IdInv => IdInv'
           /\ Fresh => Fresh'
           /\ currentSN = At(filePos) => currentSN' = At(filePos)'
  BY DEF ringVars, ackVars, WindowInv, ListInv, IdInv, Fresh, At, Acked, End, Beg, Off,
         Back, Packs, Spare

\* What may be in flight.
GoodPacket(m) ==
    /\ m \in Packets({"INIT", "SEND", "OLDSEND", "STOP", "STOP_ACK"})
    /\ m.type = "INIT" => m.sn = initSN
    /\ m.type \in {"SEND", "OLDSEND"} => Original(m)
Answers == [type : {"INIT_ACK", "ACK", "STOP_ACK"}, sn : SN, magic : BOOLEAN]

LEMMA NetKeepsInv ==
    ASSUME NetTypeOK, NetInv, initSN' = initSN,
           \A m \in toR' : m \in toR \/ GoodPacket(m),
           \A m \in toS' : m \in toS \/ m \in Answers
    PROVE  NetTypeOK' /\ NetInv'
  <1>1. ASSUME NEW m PROVE Original(m)' <=> Original(m) BY DEF Original, Off
  <1>2. \A m \in toR : GoodPacket(m) BY DEF NetTypeOK, NetInv, GoodPacket
  <1>3. \A m \in toR' : GoodPacket(m) BY <1>2
  <1>4. toR' \subseteq Packets({"INIT", "SEND", "OLDSEND", "STOP", "STOP_ACK"})
    BY <1>3 DEF GoodPacket
  <1>5. toS' \subseteq Answers BY DEF NetTypeOK, Answers
  <1>6. NetTypeOK' BY <1>4, <1>5 DEF NetTypeOK, Answers, Packets
  <1>7. NetInv' BY <1>1, <1>3 DEF NetInv, GoodPacket
  <1>8. QED BY <1>6, <1>7

\* Packets that are sent, and packets that are not data.
LEMMA GoodData ==
    ASSUME NEW m, PartOfFile(m)
    PROVE  GoodPacket(m)
  <1>1. m \in Packets({"SEND", "OLDSEND"}) /\ Original(m) BY DEF PartOfFile
  <1>2. m \in Packets({"INIT", "SEND", "OLDSEND", "STOP", "STOP_ACK"}) /\ m.type # "INIT"
    BY <1>1 DEF Packets
  <1>3. QED BY <1>1, <1>2 DEF GoodPacket

LEMMA GoodControl ==
    ASSUME NEW type \in {"INIT", "STOP", "STOP_ACK"}, NEW sn \in SN,
           type = "INIT" => sn = initSN
    PROVE  GoodPacket(ToReceiver(type, sn, <<>>))
  <1>1. <<>> \in Seq(Bytes) OBVIOUS
  <1>2. PICK m : m = ToReceiver(type, sn, <<>>) OBVIOUS
  <1>3. m = [type |-> type, sn |-> sn, data |-> <<>>] BY <1>2 DEF ToReceiver
  <1>4. m \in Packets({"INIT", "SEND", "OLDSEND", "STOP", "STOP_ACK"})
    BY <1>1, <1>3 DEF Packets
  <1>5. m.type = type /\ m.sn = sn BY <1>3
  <1>6. GoodPacket(m) BY <1>4, <1>5 DEF GoodPacket
  <1>7. QED BY <1>2, <1>6

LEMMA Sent ==
    ASSUME NEW net, NEW m, NEW p, p \in Send(net, m)
    PROVE  p \in net \/ p = m
  BY DEF Send

LEMMA TakenShrinks ==
    ASSUME NEW net, NEW m, NEW rest, rest \in Taken(net, m)
    PROVE  rest \subseteq net
  BY DEF Taken

-----------------------------------------------------------------------------
(* The steps of the sender.                                                *)

\* What a step of the sender does to the rest.
Aside == /\ UNCHANGED <<recvVars, initSN>>
         /\ toS' \subseteq toS
         /\ \A m \in toR' : m \in toR \/ GoodPacket(m)

LEMMA StepInit ==
    ASSUME SndTypeOK, SenderInv, SndInit
    PROVE  SndTypeOK' /\ SenderInv' /\ Aside
  <1>1. /\ UNCHANGED <<initSN, windowSize, rcvrVersion, ringVars, ackVars, resentPtr, dupAck,
                       recvVars, toS>>
        /\ sPc' \in {"failed", "initwait"} /\ tries' \in {tries, tries + 1}
        /\ sAlarm' \in BOOLEAN /\ sPc = "init"
        /\ toR' = toR \/ toR' = Send(toR, ToReceiver("INIT", currentSN, <<>>))
    <2>1. sAlarm \in BOOLEAN BY DEF SndTypeOK
    <2>2. QED BY <2>1 DEF SndInit, connVars
  <1>2. Fresh /\ currentSN = At(filePos) BY <1>1 DEF SenderInv
  <1>3. initSN \in SN /\ currentSN = initSN
    BY <1>2, Offsets DEF Fresh, SndTypeOK
  <1>4. tries' \in Nat BY <1>1 DEF SndTypeOK
  <1>5. SndTypeOK' BY <1>1, <1>4 DEF SndTypeOK, ringVars, ackVars
  <1>6. Fresh' /\ currentSN' = At(filePos)' BY <1>1, <1>2, WindowSame
  <1>7. ~Connected' BY <1>1, <1>6 DEF Connected, Fresh
  <1>8. SenderInv' BY <1>6, <1>7 DEF SenderInv
  <1>9. GoodPacket(ToReceiver("INIT", currentSN, <<>>)) BY <1>3, GoodControl
  <1>10. QED BY <1>1, <1>5, <1>8, <1>9, Sent DEF Aside

LEMMA StepInitRecv ==
    ASSUME SndTypeOK, SenderInv, NEW m, SndInitRecv(m)
    PROVE  SndTypeOK' /\ SenderInv' /\ Aside
  <1>1. /\ UNCHANGED <<initSN, ringVars, unacked, resentPtr, dupAck, recvVars, toR>>
        /\ toS' \in Taken(toS, m) /\ sPc = "initwait"
    BY DEF SndInitRecv
  <1>2. Fresh /\ currentSN = At(filePos) BY <1>1 DEF SenderInv
  <1>3. Aside BY <1>1, TakenShrinks DEF Aside
  <1>4. CASE m.type = "INIT_ACK" /\ m.sn = currentSN
    <2>1. /\ sPc' = "send" /\ tries' = 0 /\ sAlarm' = TRUE
          /\ ackedSN' = currentSN /\ nackedBytes' = 0
          /\ rcvrVersion' \in {rcvrVersion, 2} /\ windowSize' \in {windowSize, WindowSize}
      BY <1>4 DEF SndInitRecv
    <2>2. windowSize' \in {MaxData, WindowSize} /\ rcvrVersion' \in {1, 2}
          /\ 0 \in 0 .. WindowSize /\ currentSN \in SN /\ initSN \in SN
      BY <2>1, Sizes DEF SndTypeOK
    <2>3. SndTypeOK' BY <1>1, <2>1, <2>2 DEF SndTypeOK, ringVars
    <2>4. /\ filePos' = 0 /\ unacked' = <<>> /\ ~fileEnds' /\ currentSN' = At(filePos)'
          /\ currentSN = initSN
      BY <1>1, <1>2, <2>2, Offsets DEF Fresh, At, ringVars
    <2>5. Acked' = 0
      <3>1. 0 \in 0 .. FileLen + 2 * BufSize BY Sizes
      <3>2. Off(At(0)) = 0 /\ At(0) = initSN BY <2>2, <3>1, Offsets
      <3>3. QED BY <1>1, <2>1, <2>4, <3>2 DEF Acked, Off
    <2>6. windowSize' \in Nat /\ MaxData \in Nat BY <2>2, Sizes
    <2>7. WindowInv' BY <2>1, <2>4, <2>5, <2>6 DEF WindowInv
    <2>8. Len(unacked') = 0 /\ 1 .. 0 = {} BY <2>4
    <2>9. ListInv' BY <2>4, <2>5, <2>8 DEF ListInv
    <2>10. IdInv'
      <3>1. /\ Packs(windowSize') \in Nat /\ Packs(windowSize') * MaxData \in Int
            /\ windowSize' <= Packs(windowSize') * MaxData
        BY <2>2, PacksBounds
      <3>2. Spare' \in Nat /\ Packs(windowSize)' = Packs(windowSize')
        BY <2>6, <3>1 DEF Spare, Packs
      <3>3. 0 * MaxData = 0 BY <2>6
      <3>4. 0 * MaxData <= nackedBytes' + Spare'
                                 + (IF filePos' = FileLen THEN MaxData ELSE 0)
                                 + (IF fileEnds' THEN MaxData ELSE 0)
        <4>1. PICK g, e, f :
                          /\ g = Spare'
                          /\ e = (IF filePos' = FileLen THEN MaxData ELSE 0)
                          /\ f = (IF fileEnds' THEN MaxData ELSE 0)
          OBVIOUS
        <4>2. g \in Nat /\ e \in Nat /\ f \in Nat BY <2>6, <3>2, <4>1
        <4>3. 0 <= 0 + g + e + f BY <4>2
        <4>4. QED BY <2>1, <3>3, <4>1, <4>3
      <3>5. QED BY <2>8, <3>1, <3>2, <3>4 DEF IdInv
    <2>11. SenderInv' BY <2>1, <2>4, <2>7, <2>9, <2>10 DEF SenderInv
    <2>12. QED BY <1>3, <2>3, <2>11
  <1>5. CASE ~(m.type = "INIT_ACK" /\ m.sn = currentSN)
    <2>1. UNCHANGED <<sPc, tries, sAlarm, ackedSN, nackedBytes, rcvrVersion, windowSize>>
      BY <1>5 DEF SndInitRecv
    <2>2. SndTypeOK' BY <1>1, <2>1 DEF SndTypeOK, ringVars
    <2>3. UNCHANGED <<initSN, windowSize, ringVars, ackVars>> BY <1>1, <2>1 DEF ackVars
    <2>4. Fresh' /\ currentSN' = At(filePos)' BY <1>2, <2>3, WindowSame
    <2>5. SenderInv' BY <1>1, <2>1, <2>4 DEF SenderInv, Connected
    <2>6. QED BY <1>3, <2>2, <2>5
  <1>6. QED BY <1>4, <1>5

\* Steps that only move the program counter, the timers and the counters, and
\* send packets without data.
LEMMA StepControl ==
    ASSUME SndTypeOK, SenderInv,
           SndInitTimeout \/ SndFinish \/ SndStop \/ SndClose \/ SndLoseAlarm
    PROVE  SndTypeOK' /\ SenderInv' /\ Aside
  <1>1. /\ UNCHANGED <<connVars, ringVars, ackVars, resentPtr, dupAck, recvVars, toS>>
        /\ tries' \in {tries, 0, tries + 1} /\ sAlarm' \in BOOLEAN
        /\ \/ sPc = "initwait" /\ sPc' = "init"
           \/ sPc' = sPc
           \/ /\ sPc \in {"send", "stop", "close"}
              /\ sPc' \in {"stop", "close", "stopwait", "done"}
        /\ \/ toR' = toR
           \/ toR' = Send(toR, ToReceiver("STOP", currentSN, <<>>))
           \/ toR' = Send(toR, ToReceiver("STOP_ACK", ackedSN, <<>>))
    <2>1. sAlarm \in BOOLEAN BY DEF SndTypeOK
    <2>2. CASE SndInitTimeout BY <2>1, <2>2 DEF SndInitTimeout
    <2>3. CASE SndFinish BY <2>1, <2>3 DEF SndFinish
    <2>4. CASE SndStop BY <2>1, <2>4 DEF SndStop
    <2>5. CASE SndClose BY <2>1, <2>5 DEF SndClose
    <2>6. CASE SndLoseAlarm BY <2>1, <2>6 DEF SndLoseAlarm
    <2>7. QED BY <2>2, <2>3, <2>4, <2>5, <2>6
  <1>2. UNCHANGED <<initSN, windowSize, rcvrVersion, ringVars, ackVars>> BY <1>1 DEF connVars
  <1>3. tries' \in Nat BY <1>1 DEF SndTypeOK
  <1>4. sPc' \in {"init", "initwait", "send", "stop", "stopwait", "close", "done", "failed"}
    BY <1>1 DEF SndTypeOK
  <1>5. SndTypeOK' BY <1>1, <1>2, <1>3, <1>4 DEF SndTypeOK, ringVars, ackVars
  <1>6. /\ sPc' \in {"init", "initwait"} => sPc \in {"init", "initwait"}
        /\ Connected' => Connected
    BY <1>1 DEF Connected, ackVars
  <1>7. SenderInv' BY <1>2, <1>6, WindowSame DEF SenderInv
  <1>8. currentSN \in SN /\ ackedSN \in SN BY DEF SndTypeOK
  <1>9. /\ GoodPacket(ToReceiver("STOP", currentSN, <<>>))
        /\ GoodPacket(ToReceiver("STOP_ACK", ackedSN, <<>>))
    BY <1>8, GoodControl
  <1>10. Aside BY <1>1, <1>2, <1>9, Sent DEF Aside
  <1>11. QED BY <1>5, <1>7, <1>10

LEMMA StepNewPart ==
    ASSUME SndTypeOK, SenderInv, SndNewPart
    PROVE  SndTypeOK' /\ SenderInv' /\ Aside
  <1>1. sPc = "send" /\ sPc' = sPc /\ UNCHANGED <<initSN, recvVars, toS>>
    BY DEF SndNewPart, connVars
  <1>2. WindowInv /\ ListInv /\ IdInv /\ currentSN = At(filePos)
    BY <1>1 DEF SenderInv, Connected
  <1>3. /\ SndTypeOK' /\ currentSN' = At(filePos)'
        /\ WindowInv' /\ ListInv' /\ IdInv'
        /\ \A m \in toR' : m \in toR \/ PartOfFile(m)
    BY <1>2, NewPartKeepsInv
  <1>4. SenderInv' BY <1>1, <1>3 DEF SenderInv
  <1>5. Aside BY <1>1, <1>3, GoodData DEF Aside
  <1>6. QED BY <1>3, <1>4, <1>5

\* An acknowledgement is used or ignored; resentPtr follows the list.
LEMMA AckPart ==
    ASSUME SndTypeOK, WindowInv, ListInv, IdInv, currentSN = At(filePos),
           UNCHANGED <<initSN, windowSize, ringVars>>,
           UNCHANGED ackVars \/ \E to : RecvAck(to)
    PROVE  /\ ackedSN' \in SN /\ nackedBytes' \in 0 .. WindowSize /\ unacked' \in Seq(Ids)
           /\ WindowInv' /\ ListInv' /\ IdInv' /\ currentSN' = At(filePos)'
           /\ \A i \in 1 .. Len(unacked') : unacked'[i] \in Live
           /\ ResentKept \in {0} \cup Ids
           /\ ResentKept # 0 => ResentKept \in Live
  <1>1. /\ ackedSN' \in SN /\ nackedBytes' \in 0 .. WindowSize /\ unacked' \in Seq(Ids)
        /\ WindowInv' /\ ListInv' /\ IdInv'
        /\ \A i \in 1 .. Len(unacked') : unacked'[i] \in Live
    <2>1. CASE UNCHANGED ackVars
      <3>1. WindowInv' /\ ListInv' /\ IdInv' BY <2>1, WindowSame
      <3>2. \A i \in 1 .. Len(unacked) : unacked[i] \in Live BY Entries DEF Live
      <3>3. QED BY <2>1, <3>1, <3>2 DEF ackVars, SndTypeOK
    <2>2. CASE \E to : RecvAck(to) BY <2>2, AckKeepsInv
    <2>3. QED BY <2>1, <2>2
  <1>2. currentSN' = At(filePos)' BY DEF ringVars, At
  <1>3. DOMAIN unacked' = 1 .. Len(unacked') BY <1>1, LenProperties
  <1>4. resentPtr \in {0} \cup Ids BY DEF SndTypeOK
  <1>5. /\ ResentKept \in {0} \cup Ids
        /\ ResentKept # 0 => ResentKept \in Live
    <2>1. CASE resentPtr \in {unacked'[i] : i \in DOMAIN unacked'}
      <3>1. ResentKept = resentPtr BY <2>1 DEF ResentKept
      <3>2. QED BY <1>1, <1>3, <1>4, <2>1, <3>1
    <2>2. CASE resentPtr \notin {unacked'[i] : i \in DOMAIN unacked'}
      <3>1. ResentKept = 0 \/ ResentKept = First(unacked') BY <2>2 DEF ResentKept
      <3>2. QED BY <1>1, <3>1, ListElements
    <2>3. QED BY <2>1, <2>2
  <1>6. QED BY <1>1, <1>2, <1>5

LEMMA StepRecv ==
    ASSUME SndTypeOK, SenderInv, NEW m, m \in Answers, SndRecv(m)
    PROVE  SndTypeOK' /\ SenderInv' /\ Aside
  <1>1. /\ sPc = "send" /\ UNCHANGED <<sPc, initSN, rcvrVersion, windowSize, ringVars, recvVars>>
        /\ toS' \in Taken(toS, m)
        /\ dupAck' = DupAfter(m) /\ tries' = 0 /\ sAlarm' = TRUE
        /\ UNCHANGED ackVars \/ \E to : RecvAck(to)
        /\ \/ UNCHANGED <<resentPtr, toR>>
           \/ ResendLater(unacked', 0)
           \/ ResendLater(unacked', ResentKept)
           \/ resentPtr' = ResentKept /\ UNCHANGED toR
    BY DEF SndRecv, connVars
  <1>2. WindowInv /\ ListInv /\ IdInv /\ currentSN = At(filePos)
    BY <1>1 DEF SenderInv, Connected
  <1>3. /\ ackedSN' \in SN /\ nackedBytes' \in 0 .. WindowSize /\ unacked' \in Seq(Ids)
        /\ WindowInv' /\ ListInv' /\ IdInv' /\ currentSN' = At(filePos)'
        /\ \A i \in 1 .. Len(unacked') : unacked'[i] \in Live
        /\ ResentKept \in {0} \cup Ids
        /\ ResentKept # 0 => ResentKept \in Live
    BY <1>1, <1>2, AckPart
  <1>4. dupAck' \in 0 .. DupCap
    <2>1. dupAck \in 0 .. 4 BY DEF SndTypeOK, DupCap
    <2>2. QED BY <1>1, <2>1 DEF DupAfter, DupCap
  <1>5. ASSUME NEW r, r \in {0, ResentKept}, ResendLater(unacked', r)
        PROVE  /\ resentPtr' \in {0} \cup Ids
               /\ \A p \in toR' : p \in toR \/ GoodPacket(p)
    <2>1. PICK id : id = IF r = 0 THEN First(unacked') ELSE r OBVIOUS
    <2>2. \/ resentPtr' = After(unacked', id) /\ UNCHANGED toR
          \/ id # 0 /\ resentPtr' = id /\ toR' = Send(toR, Resent(id))
      BY <1>5, <2>1 DEF ResendLater
    <2>3. id # 0 => id \in Live BY <1>3, <1>5, <2>1, ListElements
    <2>4. id # 0 => id \in Ids /\ GoodPacket(Resent(id))
      BY <1>2, <2>3, ResentIsOriginal, GoodData
    <2>5. CASE resentPtr' = After(unacked', id) /\ UNCHANGED toR
      BY <1>3, <2>5, ListElements
    <2>6. CASE id # 0 /\ resentPtr' = id /\ toR' = Send(toR, Resent(id))
      BY <2>4, <2>6, Sent
    <2>7. QED BY <2>2, <2>5, <2>6
  <1>6. /\ resentPtr' \in {0} \cup Ids
        /\ \A p \in toR' : p \in toR \/ GoodPacket(p)
    BY <1>1, <1>3, <1>5 DEF SndTypeOK
  <1>7. SndTypeOK' BY <1>1, <1>3, <1>4, <1>6 DEF SndTypeOK, ringVars
  <1>8. SenderInv' BY <1>1, <1>3 DEF SenderInv
  <1>9. Aside BY <1>1, <1>6, TakenShrinks DEF Aside
  <1>10. QED BY <1>7, <1>8, <1>9

LEMMA StepTimeout ==
    ASSUME SndTypeOK, SenderInv, SndTimeout
    PROVE  SndTypeOK' /\ SenderInv' /\ Aside
  <1>1. /\ UNCHANGED <<initSN, windowSize, rcvrVersion, ringVars, ackVars, dupAck, sAlarm,
                       recvVars, toS>>
        /\ sPc = "send" /\ sPc' \in {"send", "failed"} /\ tries' = tries + 1
        /\ \/ resentPtr' \in {resentPtr, 0} /\ UNCHANGED toR
           \/ /\ unacked # <<>>
              /\ resentPtr' \in {First(unacked), After(unacked, First(unacked))}
              /\ toR' = Send(toR, Resent(First(unacked)))
    BY DEF SndTimeout, connVars
  <1>2. WindowInv /\ ListInv /\ IdInv /\ currentSN = At(filePos)
    BY <1>1 DEF SenderInv, Connected
  <1>3. WindowInv' /\ ListInv' /\ IdInv' /\ currentSN' = At(filePos)'
    BY <1>1, <1>2, WindowSame
  <1>4. unacked \in Seq(Ids) /\ resentPtr \in {0} \cup Ids BY DEF SndTypeOK
  <1>5. resentPtr' \in {0} \cup Ids BY <1>1, <1>4, ListElements
  <1>6. ASSUME unacked # <<>> PROVE GoodPacket(Resent(First(unacked)))
    <2>1. 1 \in 1 .. Len(unacked) BY <1>2, <1>6, MarkLeadsToFirst
    <2>2. First(unacked) = unacked[1] /\ 1 \in DOMAIN unacked
      BY <1>6, <2>1, Entries DEF First
    <2>3. First(unacked) \in Live BY <2>2 DEF Live
    <2>4. QED BY <1>2, <2>3, ResentIsOriginal, GoodData
  <1>7. tries' \in Nat BY <1>1 DEF SndTypeOK
  <1>8. SndTypeOK' BY <1>1, <1>5, <1>7 DEF SndTypeOK, ringVars, ackVars
  <1>9. SenderInv' BY <1>1, <1>3 DEF SenderInv
  <1>10. Aside BY <1>1, <1>6, Sent DEF Aside
  <1>11. QED BY <1>8, <1>9, <1>10

LEMMA StepStopWait ==
    ASSUME SndTypeOK, SenderInv,
           SndStopTimeout \/ \E m \in toS : m \in Answers /\ SndStopRecv(m)
    PROVE  SndTypeOK' /\ SenderInv' /\ Aside
  <1>1. /\ UNCHANGED <<initSN, windowSize, rcvrVersion, ringVars, sAlarm, recvVars, toR>>
        /\ sPc = "stopwait" /\ sPc' \in {"stop", "close"} /\ tries' \in {tries, 0}
        /\ resentPtr' = ResentKept
        /\ UNCHANGED ackVars \/ \E to : RecvAck(to)
        /\ dupAck' = 1 \/ \E m : dupAck' = DupAfter(m)
        /\ toS' = toS \/ \E m : toS' \in Taken(toS, m)
    <2>1. CASE SndStopTimeout BY <2>1 DEF SndStopTimeout, connVars
    <2>2. CASE \E m \in toS : m \in Answers /\ SndStopRecv(m)
      BY <2>2 DEF SndStopRecv, connVars
    <2>3. QED BY <2>1, <2>2
  <1>2. WindowInv /\ ListInv /\ IdInv /\ currentSN = At(filePos)
    BY <1>1 DEF SenderInv, Connected
  <1>3. /\ ackedSN' \in SN /\ nackedBytes' \in 0 .. WindowSize /\ unacked' \in Seq(Ids)
        /\ WindowInv' /\ ListInv' /\ IdInv' /\ currentSN' = At(filePos)'
        /\ ResentKept \in {0} \cup Ids
    BY <1>1, <1>2, AckPart
  <1>4. dupAck' \in 0 .. DupCap
    <2>1. dupAck \in 0 .. 4 BY DEF SndTypeOK, DupCap
    <2>2. \A m : DupAfter(m) \in 0 .. 4 BY <2>1 DEF DupAfter, DupCap
    <2>3. QED BY <1>1, <2>2 DEF DupCap
  <1>5. SndTypeOK' BY <1>1, <1>3, <1>4 DEF SndTypeOK, ringVars
  <1>6. SenderInv' BY <1>1, <1>3 DEF SenderInv
  <1>7. toS' \subseteq toS BY <1>1, TakenShrinks
  <1>8. Aside BY <1>1, <1>7 DEF Aside
  <1>9. QED BY <1>5, <1>6, <1>8

LEMMA SenderSteps ==
    ASSUME SndTypeOK, SenderInv, \A m \in toS : m \in Answers, SndStep \/ SndLoseAlarm
    PROVE  SndTypeOK' /\ SenderInv' /\ Aside
  <1>1. CASE SndInit BY <1>1, StepInit
  <1>2. CASE SndNewPart BY <1>2, StepNewPart
  <1>3. CASE SndTimeout BY <1>3, StepTimeout
  <1>4. CASE SndInitTimeout \/ SndFinish \/ SndStop \/ SndClose \/ SndLoseAlarm
    BY <1>4, StepControl
  <1>5. CASE SndStopTimeout BY <1>5, StepStopWait
  <1>6. CASE \E m \in toS : SndInitRecv(m) BY <1>6, StepInitRecv
  <1>7. CASE \E m \in toS : SndRecv(m) BY <1>7, StepRecv
  <1>8. CASE \E m \in toS : SndStopRecv(m) BY <1>8, StepStopWait
  <1>9. QED BY <1>1, <1>2, <1>3, <1>4, <1>5, <1>6, <1>7, <1>8 DEF SndStep

-----------------------------------------------------------------------------
(* The steps of the receiver.                                              *)

\* What a step of the receiver does to the rest.
Apart == /\ UNCHANGED sendVars
         /\ toR' \subseteq toR
         /\ \A m \in toS' : m \in toS \/ m \in Answers

LEMMA GoodAnswer ==
    ASSUME NEW type \in {"INIT_ACK", "ACK", "STOP_ACK"}, NEW sn \in SN,
           NEW magic \in BOOLEAN, NEW p, p \in Send(toS, ToSender(type, sn, magic))
    PROVE  p \in toS \/ p \in Answers
  BY Sent DEF ToSender, Answers

LEMMA StoreSame ==
    ASSUME ReceiverInv, UNCHANGED <<initSN, storeVars>>, rPc' # "idle" => rPc # "idle"
    PROVE  ReceiverInv'
  <1>1. /\ \A x : At(x)' = At(x) /\ Off(x)' = Off(x)
        /\ Done' = Done /\ FilePrefix' = FilePrefix
    BY DEF At, Off, Done, FilePrefix, storeVars
  <1>2. QED BY <1>1 DEF ReceiverInv, storeVars

LEMMA StepOpen ==
    ASSUME RcvTypeOK, ReceiverInv, initSN \in SN,
           NEW m, GoodPacket(m), RcvOpen(m)
    PROVE  RcvTypeOK' /\ ReceiverInv' /\ Apart
  <1>1. /\ rPc = "idle" /\ toR' \in Taken(toR, m) /\ sessions' = sessions + 1
        /\ m.sn = initSN /\ rInitSN' = m.sn /\ rCurrentSN' = m.sn /\ rAckedSN' = m.sn
        /\ senderVersion' = 2 /\ rFilebuf' = rFilebuf /\ UNCHANGED sendVars
        /\ toS' = Send(toS, ToSender("INIT_ACK", m.sn, TRUE))
        /\ \/ UNCHANGED <<rPc, written, rCheckbuf, death, rAlarm>>
           \/ /\ rPc' = "recv" /\ written' = <<>> /\ death' = 0 /\ rAlarm' = TRUE
              /\ rCheckbuf' = [s \in Slots |-> FALSE]
    BY DEF RcvOpen, GoodPacket
  <1>2. initSN' = initSN /\ (At(0) = initSN)' BY <1>1, Offsets DEF sendVars, connVars, At
  <1>3. RcvTypeOK'
    <2>1. sessions' \in Nat /\ m.sn \in SN /\ <<>> \in Seq(Bytes)
          /\ [s \in Slots |-> FALSE] \in [Slots -> BOOLEAN]
      BY <1>1 DEF RcvTypeOK
    <2>2. CASE UNCHANGED <<rPc, written, rCheckbuf, death, rAlarm>>
      BY <1>1, <2>1, <2>2 DEF RcvTypeOK
    <2>3. CASE /\ rPc' = "recv" /\ written' = <<>> /\ death' = 0 /\ rAlarm' = TRUE
               /\ rCheckbuf' = [s \in Slots |-> FALSE]
      <3>1. rCheckbuf' \in [Slots -> BOOLEAN] BY <2>1, <2>3
      <3>2. QED BY <1>1, <2>1, <2>3, <3>1 DEF RcvTypeOK
    <2>4. QED BY <1>1, <2>2, <2>3
  <1>4. Apart BY <1>1, TakenShrinks, GoodAnswer DEF Apart
  <1>5. ReceiverInv'
    <2>1. CASE UNCHANGED <<rPc, written, rCheckbuf, death, rAlarm>>
      BY <1>1, <1>2, <2>1 DEF ReceiverInv, FilePrefix
    <2>2. CASE /\ rPc' = "recv" /\ written' = <<>>
               /\ rCheckbuf' = [s \in Slots |-> FALSE]
      <3>1. Done' = 0 /\ FilePrefix' BY <2>2, Sizes DEF Done, FilePrefix
      <3>2. (rAckedSN = At(0))' BY <1>1, <1>2
      <3>3. Off(rCurrentSN)' = 0
        <4>1. 0 \in 0 .. FileLen + 2 * BufSize BY Sizes
        <4>2. Off(At(0)) = 0 /\ At(0) = initSN BY <4>1, Offsets
        <4>3. QED BY <1>1, <1>2, <4>2 DEF Off
      <3>4. ASSUME NEW k \in 0 .. BufSize - 1 PROVE ~rCheckbuf'[Slot(At(0 + k)')]
        <4>1. 0 + k \in Int BY Sizes
        <4>2. At(0 + k)' \in SN BY <1>2, <4>1, Offsets DEF At
        <4>3. Slot(At(0 + k)') \in Slots BY <4>2, ModTypes
        <4>4. QED BY <2>2, <4>3
      <3>5. FileLen \in Nat /\ WindowSize \in Nat BY Sizes
      <3>6. QED BY <3>1, <3>2, <3>3, <3>4, <3>5 DEF ReceiverInv
    <2>3. QED BY <1>1, <2>1, <2>2
  <1>6. QED BY <1>3, <1>4, <1>5

LEMMA StepData ==
    ASSUME RcvTypeOK, ReceiverInv, initSN \in SN,
           NEW m, GoodPacket(m), RcvData(m)
    PROVE  RcvTypeOK' /\ ReceiverInv' /\ Apart
  <1>1. /\ rPc = "recv" /\ toR' \in Taken(toR, m) /\ IsData(m)
        /\ IF Storable(m) THEN StoreFile(m) ELSE UNCHANGED storeVars
        /\ toS' = Send(toS, ToSender("ACK", rAckedSN', FALSE))
        /\ death' = 0 /\ rAlarm' = TRUE
        /\ UNCHANGED <<sendVars, rPc, openVars>>
    BY DEF RcvData, Alive
  <1>2. initSN' = initSN BY <1>1 DEF sendVars, connVars
  <1>3. m \in Packets({"SEND", "OLDSEND"}) /\ Original(m)
    BY <1>1 DEF GoodPacket, Packets, IsData
  <1>4. /\ rCurrentSN' \in SN /\ rAckedSN' \in SN
        /\ rFilebuf' \in [Slots -> Bytes] /\ rCheckbuf' \in [Slots -> BOOLEAN]
        /\ written' \in Seq(Bytes) /\ ReceiverInv'
    <2>1. CASE Storable(m) BY <1>1, <1>2, <1>3, <2>1, StoreKeepsInv
    <2>2. CASE ~Storable(m)
      <3>1. UNCHANGED storeVars BY <1>1, <2>2
      <3>2. ReceiverInv' BY <1>1, <1>2, <3>1, StoreSame
      <3>3. QED BY <3>1, <3>2 DEF storeVars, RcvTypeOK
    <2>3. QED BY <2>1, <2>2
  <1>5. RcvTypeOK' BY <1>1, <1>4 DEF RcvTypeOK, openVars
  <1>6. Apart BY <1>1, <1>4, TakenShrinks, GoodAnswer DEF Apart
  <1>7. QED BY <1>4, <1>5, <1>6

\* Steps that store nothing.
LEMMA StepAnswer ==
    ASSUME RcvTypeOK, ReceiverInv,
           \/ RcvTimeout \/ RcvStopAck \/ RcvStopWait \/ RcvLoseAlarm
           \/ \E m \in toR : RcvIdle(m) \/ RcvInitAgain(m) \/ RcvStop(m) \/ RcvIgnore(m)
    PROVE  RcvTypeOK' /\ ReceiverInv' /\ Apart
  <1>1. /\ UNCHANGED <<sendVars, openVars, storeVars>>
        /\ rPc' \in {"idle", "recv", "stop", "stopwait"} /\ (rPc' # "idle" => rPc # "idle")
        /\ death' \in {death, 0, death + 1} /\ rAlarm' \in BOOLEAN
        /\ toR' = toR \/ \E m : toR' \in Taken(toR, m)
        /\ \/ toS' = toS
           \/ \E type \in {"INIT_ACK", "ACK", "STOP_ACK"} :
                 toS' = Send(toS, ToSender(type, rAckedSN, FALSE))
    <2> USE DEF recvVars, Alive
    <2>1. rAlarm \in BOOLEAN /\ rPc \in {"idle", "recv", "stop", "stopwait"} BY DEF RcvTypeOK
    <2>2. CASE RcvTimeout BY <2>1, <2>2 DEF RcvTimeout
    <2>3. CASE RcvStopAck BY <2>1, <2>3 DEF RcvStopAck
    <2>4. CASE RcvStopWait BY <2>1, <2>4 DEF RcvStopWait
    <2>5. CASE RcvLoseAlarm BY <2>1, <2>5 DEF RcvLoseAlarm
    <2>6. CASE \E m \in toR : RcvIdle(m) BY <2>1, <2>6 DEF RcvIdle
    <2>7. CASE \E m \in toR : RcvInitAgain(m) BY <2>1, <2>7 DEF RcvInitAgain
    <2>8. CASE \E m \in toR : RcvStop(m) BY <2>1, <2>8 DEF RcvStop
    <2>9. CASE \E m \in toR : RcvIgnore(m) BY <2>1, <2>9 DEF RcvIgnore
    <2>10. QED BY <2>2, <2>3, <2>4, <2>5, <2>6, <2>7, <2>8, <2>9
  <1>2. death' \in Nat BY <1>1 DEF RcvTypeOK
  <1>3. RcvTypeOK' BY <1>1, <1>2 DEF RcvTypeOK, openVars, storeVars
  <1>4. ReceiverInv' BY <1>1, StoreSame DEF sendVars, connVars
  <1>5. rAckedSN \in SN /\ FALSE \in BOOLEAN BY DEF RcvTypeOK
  <1>6. Apart BY <1>1, <1>5, TakenShrinks, GoodAnswer DEF Apart
  <1>7. QED BY <1>3, <1>4, <1>6

LEMMA ReceiverSteps ==
    ASSUME RcvTypeOK, ReceiverInv, initSN \in SN, \A m \in toR : GoodPacket(m),
           RcvStep \/ RcvLoseAlarm
    PROVE  RcvTypeOK' /\ ReceiverInv' /\ Apart
  <1>1. CASE \E m \in toR : RcvOpen(m) BY <1>1, StepOpen
  <1>2. CASE \E m \in toR : RcvData(m) BY <1>2, StepData
  <1>3. CASE \/ RcvTimeout \/ RcvStopAck \/ RcvStopWait \/ RcvLoseAlarm
             \/ \E m \in toR : RcvIdle(m) \/ RcvInitAgain(m) \/ RcvStop(m) \/ RcvIgnore(m)
    BY <1>3, StepAnswer
  <1>4. QED BY <1>1, <1>2, <1>3 DEF RcvStep

-----------------------------------------------------------------------------
(* The invariant.                                                          *)

LEMMA InitEstablishesInv == Init => IInv
  <1> SUFFICES ASSUME Init PROVE IInv OBVIOUS
  <1> USE DEF Init
  <1>1. initSN \in SN /\ 0 \in SN /\ NoByte \in Bytes /\ 1 \in Ids /\ 0 \in 0 .. MaxData
        /\ 0 \in 0 .. WindowSize
    <2>1. initSN \in SN BY Sizes
    <2>2. 0 \in SN BY Sizes DEF SN
    <2>3. NoByte \in Bytes /\ 0 \in 0 .. MaxData /\ 0 \in 0 .. WindowSize
      BY Sizes DEF NoByte, Bytes
    <2>4. Packs(WindowSize) \in Nat /\ Packs(WindowSize) + 2 <= MaxPackets
      BY PacksBounds
    <2>5. 1 \in Ids BY <2>4, Sizes DEF Ids
    <2>6. QED BY <2>1, <2>2, <2>3, <2>5
  <1>2. SndTypeOK
    <2>1. filebuf \in [Slots -> Bytes] /\ checkbuf \in [Slots -> {0} \cup Ids]
          /\ sendpack \in [Ids -> [sn : SN, size : 0 .. MaxData]]
      BY <1>1
    <2>2. dupAck \in 0 .. DupCap /\ filePos \in 0 .. FileLen BY Sizes DEF DupCap
    <2>3. /\ unacked \in Seq(Ids) /\ tries \in Nat /\ windowSize \in {MaxData, WindowSize}
          /\ rcvrVersion \in {1, 2} /\ resentPtr \in {0} \cup Ids
      OBVIOUS
    <2>4. fileEnds \in BOOLEAN /\ sAlarm \in BOOLEAN BY Zenon
    <2>5. {initSN, currentSN, ackedSN} \subseteq SN BY <1>1
    <2>6. packetId \in Ids /\ nackedBytes \in 0 .. WindowSize BY <1>1
    <2>7. sPc \in {"init", "initwait", "send", "stop", "stopwait", "close", "done", "failed"}
      OBVIOUS
    <2> HIDE DEF Init
    <2>8. QED BY <2>1, <2>2, <2>3, <2>4, <2>5, <2>6, <2>7 DEF SndTypeOK
  <1>3. RcvTypeOK
    <2>1. rFilebuf \in [Slots -> Bytes] /\ rCheckbuf \in [Slots -> BOOLEAN] BY <1>1
    <2>2. written \in Seq(Bytes) /\ death \in Nat /\ sessions \in Nat
          /\ senderVersion \in {1, 2}
      OBVIOUS
    <2>3. rAlarm \in BOOLEAN BY Zenon
    <2>4. {rInitSN, rCurrentSN, rAckedSN} \subseteq SN BY <1>1
    <2>5. rPc \in {"idle", "recv", "stop", "stopwait"} OBVIOUS
    <2> HIDE DEF Init
    <2>6. QED BY <2>1, <2>2, <2>3, <2>4, <2>5 DEF RcvTypeOK
  <1>4. NetTypeOK /\ NetInv BY DEF NetTypeOK, NetInv
  <1>5. SenderInv
    <2>1. currentSN = At(filePos) BY <1>1, Offsets
    <2>2. QED BY <2>1 DEF SenderInv, Fresh, Connected
  <1>6. ReceiverInv BY Sizes DEF ReceiverInv, FilePrefix
  <1>7. QED BY <1>2, <1>3, <1>4, <1>5, <1>6 DEF IInv, TypeOK

LEMMA NextKeepsInv == IInv /\ [Next]_vars => IInv'
  <1> SUFFICES ASSUME IInv, [Next]_vars PROVE IInv' OBVIOUS
  <1>1. SndTypeOK /\ RcvTypeOK /\ NetTypeOK /\ SenderInv /\ NetInv /\ ReceiverInv
    BY DEF IInv, TypeOK
  <1>2. initSN \in SN BY <1>1 DEF SndTypeOK
  <1>3. /\ \A m \in toR : GoodPacket(m)
        /\ \A m \in toS : m \in Answers
    BY <1>1 DEF NetTypeOK, NetInv, GoodPacket, Answers
  <1>4. CASE SndTypeOK' /\ SenderInv' /\ Aside
    <2>1. /\ initSN' = initSN /\ UNCHANGED recvVars
          /\ \A m \in toR' : m \in toR \/ GoodPacket(m)
          /\ \A m \in toS' : m \in toS \/ m \in Answers
      BY <1>4 DEF Aside
    <2>2. NetTypeOK' /\ NetInv'
      <3>1. initSN' = initSN BY <2>1
      <3>2. \A m \in toR' : m \in toR \/ GoodPacket(m) BY <2>1
      <3>3. \A m \in toS' : m \in toS \/ m \in Answers BY <1>4 DEF Aside
      <3>4. QED BY <1>1, <3>1, <3>2, <3>3, NetKeepsInv
    <2>3. RcvTypeOK' BY <1>1, <2>1 DEF RcvTypeOK, recvVars, openVars, storeVars
    <2>4. ReceiverInv' BY <1>1, <2>1, StoreSame DEF recvVars
    <2>5. QED BY <1>4, <2>2, <2>3, <2>4 DEF IInv, TypeOK
  <1>5. CASE RcvTypeOK' /\ ReceiverInv' /\ Apart
    <2>1. /\ UNCHANGED sendVars /\ initSN' = initSN
          /\ UNCHANGED <<initSN, windowSize, ringVars, ackVars, sPc>>
          /\ \A m \in toR' : m \in toR \/ GoodPacket(m)
          /\ \A m \in toS' : m \in toS \/ m \in Answers
      BY <1>5 DEF Apart, sendVars, connVars
    <2>2. NetTypeOK' /\ NetInv' BY <1>1, <2>1, NetKeepsInv
    <2>3. SndTypeOK' BY <1>1, <2>1 DEF SndTypeOK, sendVars, connVars, ringVars, ackVars
    <2>4. Connected' => Connected BY <2>1 DEF Connected, ackVars
    <2>5. SenderInv' BY <1>1, <2>1, <2>4, WindowSame DEF SenderInv
    <2>6. QED BY <1>5, <2>2, <2>3, <2>5 DEF IInv, TypeOK
  <1>6. CASE SndStep \/ SndLoseAlarm BY <1>1, <1>3, <1>4, <1>6, SenderSteps
  <1>7. CASE RcvStep \/ RcvLoseAlarm BY <1>1, <1>2, <1>3, <1>5, <1>7, ReceiverSteps
  <1>8. CASE Lose
    <2>1. UNCHANGED <<sendVars, recvVars>> /\ toR' \subseteq toR /\ toS' \subseteq toS
      BY <1>8 DEF Lose
    <2>2. Apart BY <2>1 DEF Apart
    <2>3. RcvTypeOK' BY <1>1, <2>1 DEF RcvTypeOK, recvVars, openVars, storeVars
    <2>4. ReceiverInv' BY <1>1, <2>1, StoreSame DEF recvVars, sendVars, connVars
    <2>5. QED BY <1>5, <2>2, <2>3, <2>4
  <1>9. CASE UNCHANGED vars
    <2>1. UNCHANGED <<sendVars, recvVars, toR, toS>> BY <1>9 DEF vars
    <2>2. Apart BY <2>1 DEF Apart
    <2>3. RcvTypeOK' BY <1>1, <2>1 DEF RcvTypeOK, recvVars, openVars, storeVars
    <2>4. ReceiverInv' BY <1>1, <2>1, StoreSame DEF recvVars, sendVars, connVars
    <2>5. QED BY <1>5, <2>2, <2>3, <2>4
  <1>10. QED BY <1>6, <1>7, <1>8, <1>9 DEF Next, Finished

\* IInv is inductive: it holds in every reachable state.
THEOREM InductiveInvariant == Spec => []IInv
  <1>1. IInv /\ [Next]_vars => IInv' BY NextKeepsInv
  <1>2. QED BY InitEstablishesInv, <1>1, PTL DEF Spec

-----------------------------------------------------------------------------
(* What follows.                                                           *)

\* Every variable stays in the range its C type and its use give it.
THEOREM Typed == Spec => []TypeOK
  <1>1. IInv => TypeOK BY DEF IInv
  <1>2. QED BY InductiveInvariant, <1>1, PTL

\* What the receiver has written is the beginning of the file being sent.
THEOREM WritesPrefix == Spec => []FilePrefix
  <1>1. IInv => FilePrefix BY DEF IInv, ReceiverInv
  <1>2. QED BY InductiveInvariant, <1>1, PTL

LEMMA ListNeedsConnection ==
    ASSUME IInv
    PROVE  SndTypeOK /\ (unacked # <<>> => Connected)
           /\ (Connected => WindowInv /\ ListInv /\ IdInv /\ currentSN = At(filePos))
  BY DEF IInv, TypeOK, SenderInv, Fresh, Connected

\* A retransmission carries the bytes of the first transmission.
THEOREM ResendsTheSame == Spec => []ResendsOriginal
  <1>1. ASSUME IInv PROVE ResendsOriginal
    <2>1. ASSUME NEW i \in DOMAIN unacked
          PROVE  Resent(unacked[i]).data
                   = FileData(StartOf(unacked[i]), sendpack[unacked[i]].size)
      <3>1. unacked # <<>> OBVIOUS
      <3>2. SndTypeOK /\ WindowInv /\ ListInv BY <1>1, <3>1, ListNeedsConnection
      <3>3. unacked[i] \in Live BY DEF Live
      <3>4. QED BY <3>2, <3>3, ResentIsOriginal
    <2>2. QED BY <2>1 DEF ResendsOriginal
  <1>2. IInv => ResendsOriginal BY <1>1
  <1>3. QED BY InductiveInvariant, <1>2, PTL

\* The packets on the list are the bytes between ackedSN and currentSN.
THEOREM TilesWindow == Spec => []ListTilesWindow
  <1>1. ASSUME IInv PROVE ListTilesWindow
    <2>1. SUFFICES ASSUME Connected
                   PROVE  /\ nackedBytes = Unacked
                          /\ \A i \in DOMAIN unacked :
                               /\ StartOf(unacked[i]) =
                                    IF i = 1 THEN ackedSN ELSE sendpack[unacked[i - 1]].sn
                               /\ i = Len(unacked) => sendpack[unacked[i]].sn = currentSN
                          /\ unacked = <<>> => ackedSN = currentSN
      BY DEF ListTilesWindow
    <2>2. SndTypeOK /\ WindowInv /\ ListInv /\ currentSN = At(filePos)
      BY <1>1, <2>1, ListNeedsConnection
    <2>3. /\ Acked \in Nat /\ ackedSN = At(Acked) /\ Len(unacked) \in Nat
          /\ DOMAIN unacked = 1 .. Len(unacked)
      BY <2>2, Entries
    <2>4. filePos \in 0 .. FileLen /\ initSN \in SN BY <2>2 DEF SndTypeOK
    <2>5. nackedBytes = filePos - Acked /\ Acked <= filePos BY <2>2 DEF WindowInv
    <2>6. Unacked = filePos - Acked
      <3>1. filePos \in Int /\ Acked \in Int /\ filePos - Acked < SNSpace
        BY <2>3, <2>4, Sizes
      <3>2. Minus(At(filePos), At(Acked)) = filePos - Acked
        BY <2>4, <2>5, <3>1, Distance
      <3>3. QED BY <2>2, <2>3, <3>2 DEF Unacked
    <2>7. ASSUME NEW i \in 1 .. Len(unacked)
          PROVE  /\ StartOf(unacked[i]) =
                      IF i = 1 THEN ackedSN ELSE sendpack[unacked[i - 1]].sn
                 /\ i = Len(unacked) => sendpack[unacked[i]].sn = currentSN
      <3>1. /\ Beg(unacked[i]) = IF i = 1 THEN Acked ELSE End(unacked[i - 1])
            /\ i = Len(unacked) => End(unacked[i]) = filePos
        BY <2>2 DEF ListInv
      <3>2. /\ StartOf(unacked[i]) = At(Beg(unacked[i]))
            /\ sendpack[unacked[i]].sn = At(End(unacked[i]))
        BY <2>2, Entries
      <3>3. i # 1 => sendpack[unacked[i - 1]].sn = At(End(unacked[i - 1]))
        <4>1. i # 1 => i - 1 \in 1 .. Len(unacked) BY <2>3
        <4>2. QED BY <2>2, <4>1, Entries
      <3>4. QED BY <2>2, <2>3, <3>1, <3>2, <3>3
    <2>8. unacked = <<>> => ackedSN = currentSN BY <2>2, <2>3 DEF ListInv
    <2>9. QED BY <2>3, <2>5, <2>6, <2>7, <2>8
  <1>2. IInv => ListTilesWindow BY <1>1
  <1>3. QED BY InductiveInvariant, <1>2, PTL

\* An acknowledgement always finds the first packet of the list.
THEOREM AckFindsFirst == Spec => []AckPointIsFirst
  <1>1. ASSUME IInv PROVE AckPointIsFirst
    <2>1. SUFFICES ASSUME unacked # <<>> PROVE AckPoint = unacked[1] BY DEF AckPointIsFirst
    <2>2. SndTypeOK /\ ListInv BY <1>1, <2>1, ListNeedsConnection
    <2>3. QED BY <2>1, <2>2, MarkLeadsToFirst
  <1>2. IInv => AckPointIsFirst BY <1>1
  <1>3. QED BY InductiveInvariant, <1>2, PTL

\* No entry of sendpack is taken while it is in use: MaxPackets = 8192 is far
\* more than the assumption asks for.
THEOREM TableSuffices == Spec => []PacketTableSuffices
  <1>1. ASSUME IInv PROVE PacketTableSuffices
    <2>1. SndTypeOK /\ DOMAIN unacked = 1 .. Len(unacked) /\ Len(unacked) \in Nat
      BY <1>1, ListNeedsConnection, Entries
    <2>2. Packs(windowSize) \in Nat BY <2>1, PacksBounds DEF SndTypeOK
    <2>3. CASE unacked = <<>>
      <3>1. Len(unacked) = 0 /\ DOMAIN unacked = {} BY <2>1, <2>3
      <3>2. 0 <= Packs(windowSize) + 1 BY <2>2
      <3>3. QED BY <3>1, <3>2 DEF PacketTableSuffices, Packs
    <2>4. CASE unacked # <<>>
      <3>1. IdInv BY <1>1, <2>4, ListNeedsConnection
      <3>2. Len(unacked) <= Packs(windowSize) + 1 BY <3>1 DEF IdInv
      <3>3. \A i, j \in 1 .. Len(unacked) : unacked[i] = unacked[j] => i = j
        BY <2>1, <3>1, BackInjective
      <3>4. QED BY <2>1, <3>2, <3>3 DEF PacketTableSuffices, Packs
    <2>5. QED BY <2>3, <2>4
  <1>2. IInv => PacketTableSuffices BY <1>1
  <1>3. QED BY InductiveInvariant, <1>2, PTL

-----------------------------------------------------------------------------
(* With one session, WindowTransfer implements FileCopy: what the sender   *)
(* takes as acknowledged has been written, and it reports success only for *)
(* a complete copy.                                                        *)

\* recvAck never moves past the position that is acknowledged.
LEMMA AckWithin ==
    ASSUME SndTypeOK, WindowInv, ListInv, IdInv,
           NEW to, to \in SN, NEW d \in Nat, d <= FileLen, Acked <= d, Off(to) <= d,
           RecvAck(to), UNCHANGED <<initSN, windowSize, ringVars>>
    PROVE  Acked' <= d /\ Acked <= Acked' /\ Acked' <= filePos
  <1>1. PICK q \in 0 .. Len(unacked) :
             /\ \A i \in 1 .. q : Covered(unacked[i], to)
             /\ q = 0 => ackedSN' = ackedSN
             /\ q > 0 => ackedSN' = sendpack[unacked[q]].sn
    BY AckDropsPrefix
  <1>2. Acked \in Nat /\ Acked <= filePos /\ Len(unacked) \in Nat /\ initSN \in SN
    BY Entries DEF WindowInv, SndTypeOK
  <1>3. CASE q = 0
    <2>1. Acked' = Acked BY <1>1, <1>3 DEF Acked, Off
    <2>2. QED BY <1>2, <2>1
  <1>4. CASE q # 0
    <2>1. q \in 1 .. Len(unacked) /\ q \in 1 .. q /\ q > 0 BY <1>2, <1>4
    <2>2. PICK e, t : e = End(unacked[q]) /\ t = Off(to) OBVIOUS
    <2>3. Acked' = e BY <1>1, <2>1, <2>2 DEF Acked, End, Off
    <2>4. /\ e \in Nat /\ e < SNSpace /\ sendpack[unacked[q]].sn = At(e)
          /\ Beg(unacked[q]) \in Int /\ sendpack[unacked[q]].size \in 0 .. MaxData
      BY <2>1, <2>2, Entries
    <2>5. Acked <= Beg(unacked[q]) /\ e <= filePos BY <2>1, <2>2 DEF ListInv
    <2>6. Beg(unacked[q]) <= e /\ Beg(unacked[q]) = e - sendpack[unacked[q]].size
      BY <2>2, <2>4, Sizes DEF Beg
    <2>7. t \in Nat /\ t <= d /\ to = At(t) BY <1>2, <2>2, Offsets
    <2>8. Minus(At(t), At(e)) < BufSize BY <1>1, <2>1, <2>4, <2>7 DEF Covered
    <2>9. e <= t
      <3>1. SUFFICES ASSUME t < e PROVE FALSE BY <2>4, <2>7
      <3>2. initSN \in Int /\ e \in Int /\ t \in Int BY <1>2, <2>4, <2>7, ModTypes
      <3>3. filePos \in 0 .. FileLen BY DEF SndTypeOK
      <3>4. e - t <= SNSpace /\ t - e + SNSpace >= BufSize
        <4>1. FileLen \in Nat /\ BufSize \in Nat /\ SNSpace \in Nat
              /\ FileLen + BufSize < SNSpace
          BY Sizes
        <4>2. e <= FileLen BY <2>4, <2>5, <3>3, <4>1
        <4>3. QED BY <2>4, <2>7, <4>1, <4>2
      <3>5. Minus(At(t), At(e)) = t - e + SNSpace
        BY <3>1, <3>2, <3>4, MinusPlus DEF At
      <3>6. QED BY <2>8, <3>4, <3>5, <3>2, Sizes
    <2>10. Acked <= e BY <1>2, <2>4, <2>5, <2>6
    <2>11. e <= d BY <2>4, <2>7, <2>9
    <2>12. QED BY <2>3, <2>5, <2>10, <2>11
  <1>5. QED BY <1>3, <1>4

\* How a step of the sender moves ackedSN and where it goes.
LEMMA SenderMoves ==
    ASSUME SndStep \/ SndLoseAlarm
    PROVE  /\ sPc \notin {"done", "failed"}
           /\ sPc' = "done" => sPc = "close"
           /\ sPc' \in {"init", "initwait"} \/ (sPc = "init" /\ sPc' = "failed" /\ unacked' = unacked)
              \/ (sPc = "initwait" /\ sPc' = "send" /\ ackedSN' = currentSN)
              \/ sPc \in {"send", "stop", "stopwait", "close"}
           /\ \/ sPc \in {"init", "initwait"}
              \/ ackedSN' = ackedSN
              \/ /\ UNCHANGED <<windowSize, ringVars>>
                 /\ RecvAck(ackedSN) \/ \E m \in toS : RecvAck(m.sn)
           /\ sPc' \in Closing =>
                 /\ UNCHANGED ringVars
                 /\ \/ sPc \in Closing
                    \/ fileEnds /\ currentSN = ackedSN /\ ackedSN' = ackedSN
  <1> USE DEF Closing, connVars
  <1>1. CASE SndInit BY <1>1 DEF SndInit, ackVars
  <1>2. CASE SndInitTimeout BY <1>2 DEF SndInitTimeout
  <1>3. CASE SndNewPart BY <1>3 DEF SndNewPart
  <1>4. CASE SndTimeout BY <1>4 DEF SndTimeout, ackVars
  <1>5. CASE SndFinish BY <1>5 DEF SndFinish, ackVars, Looping
  <1>6. CASE SndStop BY <1>6 DEF SndStop, ackVars
  <1>7. CASE SndStopTimeout BY <1>7 DEF SndStopTimeout, ackVars
  <1>8. CASE SndClose BY <1>8 DEF SndClose, ackVars
  <1>9. CASE \E m \in toS : SndInitRecv(m) BY <1>9 DEF SndInitRecv
  <1>10. CASE \E m \in toS : SndRecv(m) BY <1>10 DEF SndRecv, ackVars
  <1>11. CASE \E m \in toS : SndStopRecv(m) BY <1>11 DEF SndStopRecv, ackVars
  <1>12. CASE SndLoseAlarm BY <1>12 DEF SndLoseAlarm, ackVars
  <1>13. QED BY <1>1, <1>2, <1>3, <1>4, <1>5, <1>6, <1>7, <1>8, <1>9, <1>10, <1>11, <1>12
         DEF SndStep

\* What the sender counts as acknowledged has been written, also after a step.
LEMMA SenderKeepsSingle ==
    ASSUME SndTypeOK, SenderInv, FilePrefix, RcvTypeOK, SingleInv, SenderInv', SndTypeOK',
           \A m \in toS : m \in Answers, Aside, SndStep \/ SndLoseAlarm
    PROVE  SingleInv'
  <1>1. /\ UNCHANGED <<initSN, written, sessions, rPc>> /\ toS' \subseteq toS
    BY DEF Aside, recvVars, storeVars, openVars
  <1>2. Done \in Nat /\ Done <= FileLen /\ Done' = Done
    BY <1>1, LenProperties DEF Done, FilePrefix, RcvTypeOK
  <1>3. \A x : Off(x)' = Off(x') BY <1>1 DEF Off
  <1>4. \A m \in toS' : Off(m.sn)' <= Done'
    BY <1>1, <1>2 DEF SingleInv, Off
  <1>5. initSN \in SN /\ \A m \in toS : m.sn \in SN BY DEF SndTypeOK, Answers
  <1>6. /\ sPc' \in {"init", "initwait"} \/ (sPc = "init" /\ sPc' = "failed" /\ unacked' = unacked)
           \/ (sPc = "initwait" /\ sPc' = "send" /\ ackedSN' = currentSN)
           \/ sPc \in {"send", "stop", "stopwait", "close"}
        /\ \/ sPc \in {"init", "initwait"}
           \/ ackedSN' = ackedSN
           \/ /\ UNCHANGED <<windowSize, ringVars>>
              /\ RecvAck(ackedSN) \/ \E m \in toS : RecvAck(m.sn)
        /\ sPc' \in Closing =>
              /\ UNCHANGED ringVars
              /\ \/ sPc \in Closing
                 \/ fileEnds /\ currentSN = ackedSN /\ ackedSN' = ackedSN
    BY SenderMoves
  \* Once the connection is made, ackedSN stays between itself and Done.
  <1>7. ASSUME Connected
        PROVE  /\ Acked \in Nat /\ ackedSN = At(Acked) /\ Acked <= Done /\ Acked <= filePos
               /\ currentSN = At(filePos) /\ WindowInv /\ ListInv /\ IdInv
    BY <1>7, Entries DEF SingleInv, AckedIsWritten, SenderInv, WindowInv, Done, Acked
  <1>8. ASSUME sPc \in {"send", "stop", "stopwait", "close"}
        PROVE  /\ Connected /\ Acked' \in Nat /\ Acked' <= Done /\ Acked <= Acked'
               /\ Acked' <= filePos \/ ackedSN' = ackedSN
    <2>1. Connected BY <1>8 DEF Connected
    <2>2. CASE ackedSN' = ackedSN
      <3>1. Acked' = Acked BY <2>2, <1>1 DEF Acked, Off
      <3>2. QED BY <2>1, <2>2, <3>1, <1>7, <1>2
    <2>3. ASSUME NEW to, to \in SN, Off(to) <= Done, RecvAck(to),
                 UNCHANGED <<windowSize, ringVars>>
          PROVE  Acked' <= Done /\ Acked <= Acked' /\ Acked' <= filePos
      <3>1. UNCHANGED <<initSN, windowSize, ringVars>> BY <1>1, <2>3
      <3>2. WindowInv /\ ListInv /\ IdInv /\ Acked <= Done BY <1>7, <2>1
      <3>3. PICK d : d = Done OBVIOUS
      <3>4. d \in Nat /\ d <= FileLen /\ Acked <= d /\ Off(to) <= d
        BY <1>2, <2>3, <3>2, <3>3
      <3>5. Acked' <= d /\ Acked <= Acked' /\ Acked' <= filePos
        BY <2>3, <3>1, <3>2, <3>4, AckWithin
      <3>6. QED BY <3>3, <3>5
    <2>4. ackedSN \in SN /\ Off(ackedSN) <= Done
      BY <1>7, <2>1 DEF SndTypeOK, Acked
    <2>5. \A m \in toS : m.sn \in SN /\ Off(m.sn) <= Done BY <1>5 DEF SingleInv
    <2>6. CASE /\ UNCHANGED <<windowSize, ringVars>>
               /\ RecvAck(ackedSN) \/ \E m \in toS : RecvAck(m.sn)
      <3>1. Acked' <= Done /\ Acked <= Acked' /\ Acked' <= filePos BY <2>3, <2>4, <2>5, <2>6
      <3>2. Acked' \in Nat
        <4>1. ackedSN' \in SN BY DEF SndTypeOK
        <4>2. Acked' = Off(ackedSN') BY <1>1 DEF Acked, Off
        <4>3. QED BY <1>5, <4>1, <4>2, Offsets
      <3>3. QED BY <2>1, <3>1, <3>2
    <2>7. QED BY <1>6, <1>8, <2>2, <2>6
  <1>9. AckedIsWritten'
    <2>1. SUFFICES ASSUME Connected' PROVE Acked' <= Done
      BY <1>1, <1>2 DEF AckedIsWritten, Acked, Done
    <2>2. CASE sPc \in {"send", "stop", "stopwait", "close"} BY <1>8, <2>2
    <2>3. CASE sPc = "init" /\ sPc' = "failed" /\ unacked' = unacked
      BY <2>1, <2>3 DEF SenderInv, Fresh, Connected
    <2>4. CASE sPc = "initwait" /\ sPc' = "send" /\ ackedSN' = currentSN
      <3>1. currentSN = At(0) BY <2>4 DEF SenderInv, Fresh
      <3>2. 0 \in 0 .. FileLen + 2 * BufSize BY Sizes
      <3>3. Off(At(0)) = 0 BY <1>5, <3>2, Offsets
      <3>4. Acked' = 0 BY <1>1, <2>4, <3>1, <3>3 DEF Acked, Off
      <3>5. QED BY <1>2, <3>4
    <2>5. CASE sPc' \in {"init", "initwait"} BY <2>1, <2>5 DEF Connected
    <2>6. QED BY <1>6, <2>2, <2>3, <2>4, <2>5
  <1>10. ASSUME sPc' \in Closing PROVE fileEnds' /\ currentSN' = ackedSN'
    <2>1. UNCHANGED <<fileEnds, currentSN, filePos>> BY <1>6, <1>10 DEF ringVars
    <2>2. CASE fileEnds /\ currentSN = ackedSN /\ ackedSN' = ackedSN BY <2>1, <2>2
    <2>3. CASE sPc \in Closing
      <3>1. fileEnds /\ currentSN = ackedSN BY <2>3 DEF SingleInv, Closing
      <3>2. sPc \in {"send", "stop", "stopwait", "close"}
        BY <2>3, SenderMoves DEF Closing
      <3>3. CASE ackedSN' = ackedSN BY <2>1, <3>1, <3>3
      <3>4. CASE ackedSN' # ackedSN
        <4>1. Acked <= Acked' /\ Acked' <= filePos /\ Connected BY <1>8, <3>2, <3>4
        <4>2. Acked = filePos
          <5>1. filePos \in 0 .. FileLen + 2 * BufSize BY Sizes DEF SndTypeOK
          <5>2. Off(At(filePos)) = filePos BY <1>5, <5>1, Offsets
          <5>3. QED BY <1>7, <3>1, <4>1, <5>2 DEF Acked
        <4>3. filePos \in Int /\ Acked' \in Nat BY <1>8, <3>2, Sizes DEF SndTypeOK
        <4>4. Acked' = Acked BY <4>1, <4>2, <4>3
        <4>5. ackedSN' \in SN /\ ackedSN \in SN BY DEF SndTypeOK
        <4>6. At(Off(ackedSN')) = ackedSN' /\ At(Off(ackedSN)) = ackedSN
          BY <1>5, <4>5, Offsets
        <4>7. Off(ackedSN') = Off(ackedSN) BY <1>1, <4>4 DEF Acked, Off
        <4>8. QED BY <3>4, <4>6, <4>7
      <3>5. QED BY <3>3, <3>4
    <2>4. QED BY <1>6, <1>10, <2>2, <2>3
  <1>11. QED BY <1>1, <1>4, <1>9, <1>10 DEF SingleInv, Closing

\* How a step of the receiver answers, and what it does to the file.
LEMMA ReceiverMoves ==
    ASSUME RcvTypeOK, ReceiverInv, initSN \in SN, \A m \in toR : GoodPacket(m),
           RcvStep \/ RcvLoseAlarm
    PROVE  /\ \A m \in toS' : \/ m \in toS
                              \/ m.sn = rAckedSN' /\ rPc' # "idle"
                              \/ m.sn = rAckedSN /\ rPc # "idle" /\ written' = written
                              \/ m.sn = initSN
           /\ \/ /\ sessions' = sessions
                 /\ rPc = "idle" => rPc' = "idle" /\ written' = written
                 /\ Len(written) <= Len(written')
              \/ sessions < MaxSessions /\ sessions' = sessions + 1
                 /\ written' \in {written, <<>>}
  <1> USE DEF openVars, storeVars, recvVars, Alive, Send, ToSender
  <1>1. Len(written) <= Len(written) BY LenProperties DEF RcvTypeOK
  <1>2. ASSUME NEW m \in toR, RcvOpen(m)
        PROVE  /\ sessions < MaxSessions /\ sessions' = sessions + 1
               /\ written' \in {written, <<>>}
               /\ \A p \in toS' : p \in toS \/ p.sn = initSN
    BY <1>2 DEF RcvOpen, GoodPacket
  <1>3. ASSUME NEW m \in toR, RcvData(m)
        PROVE  /\ sessions' = sessions /\ Len(written) <= Len(written')
               /\ rPc = "recv" /\ rPc' = "recv"
               /\ \A p \in toS' : p \in toS \/ p.sn = rAckedSN'
    <2>1. /\ rPc = "recv" /\ rPc' = rPc /\ IsData(m) /\ sessions' = sessions
          /\ IF Storable(m) THEN StoreFile(m) ELSE UNCHANGED storeVars
          /\ toS' = Send(toS, ToSender("ACK", rAckedSN', FALSE))
          /\ initSN' = initSN
      BY <1>3 DEF RcvData, sendVars, connVars
    <2>2. m \in Packets({"SEND", "OLDSEND"}) /\ Original(m)
      BY <2>1 DEF GoodPacket, Packets, IsData
    <2>3. Len(written) <= Len(written')
      <3>1. CASE Storable(m) BY <2>1, <2>2, <3>1, StoreKeepsInv
      <3>2. CASE ~Storable(m) BY <1>1, <2>1, <3>2
      <3>3. QED BY <3>1, <3>2
    <2>4. QED BY <2>1, <2>3
  <1>4. ASSUME \/ RcvTimeout \/ RcvStopAck \/ RcvStopWait \/ RcvLoseAlarm
               \/ \E m \in toR : RcvIdle(m) \/ RcvInitAgain(m) \/ RcvStop(m) \/ RcvIgnore(m)
        PROVE  /\ sessions' = sessions /\ written' = written
               /\ rPc = "idle" => rPc' = "idle"
               /\ \A p \in toS' : p \in toS \/ (p.sn = rAckedSN /\ rPc # "idle")
    <2>1. CASE RcvTimeout BY <2>1 DEF RcvTimeout
    <2>2. CASE RcvStopAck BY <2>2 DEF RcvStopAck
    <2>3. CASE RcvStopWait BY <2>3 DEF RcvStopWait
    <2>4. CASE RcvLoseAlarm BY <2>4 DEF RcvLoseAlarm
    <2>5. CASE \E m \in toR : RcvIdle(m) BY <2>5 DEF RcvIdle
    <2>6. CASE \E m \in toR : RcvInitAgain(m) BY <2>6 DEF RcvInitAgain
    <2>7. CASE \E m \in toR : RcvStop(m) BY <2>7 DEF RcvStop
    <2>8. CASE \E m \in toR : RcvIgnore(m) BY <2>8 DEF RcvIgnore
    <2>9. QED BY <1>4, <2>1, <2>2, <2>3, <2>4, <2>5, <2>6, <2>7, <2>8
  <1> HIDE DEF Send, ToSender
  <1>5. CASE \E m \in toR : RcvOpen(m) BY <1>2, <1>5
  <1>6. CASE \E m \in toR : RcvData(m) BY <1>3, <1>6
  <1>7. CASE \/ RcvTimeout \/ RcvStopAck \/ RcvStopWait \/ RcvLoseAlarm
             \/ \E m \in toR : RcvIdle(m) \/ RcvInitAgain(m) \/ RcvStop(m) \/ RcvIgnore(m)
    BY <1>1, <1>4, <1>7
  <1>8. QED BY <1>5, <1>6, <1>7 DEF RcvStep

\* With one session, the file only grows and every answer stays true.
LEMMA ReceiverKeepsSingle ==
    ASSUME MaxSessions <= 1, SndTypeOK, RcvTypeOK, ReceiverInv, SingleInv,
           RcvTypeOK', ReceiverInv', Apart,
           \A m \in toR : GoodPacket(m), \A m \in toS : m \in Answers,
           RcvStep \/ RcvLoseAlarm
    PROVE  SingleInv' /\ Len(written) <= Len(written')
  <1>1. UNCHANGED <<initSN, sPc, unacked, ackedSN, fileEnds, currentSN>>
    BY DEF Apart, sendVars, connVars, ringVars, ackVars
  <1>2. initSN \in SN /\ sessions \in Nat /\ sessions' \in Nat /\ MaxSessions \in Nat
        /\ Len(written) \in Nat /\ Len(written') \in Nat
    BY TransferAssumption, LenProperties DEF SndTypeOK, RcvTypeOK
  <1>3. /\ \A m \in toS' : \/ m \in toS
                           \/ m.sn = rAckedSN' /\ rPc' # "idle"
                           \/ m.sn = rAckedSN /\ rPc # "idle" /\ written' = written
                           \/ m.sn = initSN
        /\ \/ /\ sessions' = sessions
              /\ rPc = "idle" => rPc' = "idle" /\ written' = written
              /\ Len(written) <= Len(written')
           \/ sessions < MaxSessions /\ sessions' = sessions + 1
              /\ written' \in {written, <<>>}
    BY <1>2, ReceiverMoves
  <1>4. sessions <= MaxSessions /\ (sessions = 0 => written = <<>> /\ rPc = "idle")
    BY DEF SingleInv
  <1>5. Len(written) <= Len(written')
    <2>1. CASE sessions' = sessions BY <1>3, <2>1, <1>2
    <2>2. CASE sessions' # sessions
      <3>1. sessions = 0 BY <1>2, <1>3, <2>2
      <3>2. written' = written BY <1>3, <1>4, <2>2, <3>1
      <3>3. QED BY <1>2, <3>2
    <2>3. QED BY <2>1, <2>2
  <1>6. sessions' <= MaxSessions BY <1>2, <1>3, <1>4
  <1>7. sessions' = 0 => written' = <<>> /\ rPc' = "idle" BY <1>2, <1>3, <1>4
  <1>8. \A x : Off(x)' = Off(x') BY <1>1 DEF Off
  <1>9. 0 \in 0 .. FileLen + 2 * BufSize BY Sizes
  <1>10. ASSUME NEW m \in toS' PROVE Off(m.sn) <= Len(written')
    <2>1. CASE m \in toS
      <3>1. Off(m.sn) <= Len(written) BY <2>1 DEF SingleInv, Done
      <3>2. m.sn \in SN BY <2>1 DEF Answers
      <3>3. Off(m.sn) \in Nat BY <1>2, <3>2, Offsets
      <3>4. QED BY <1>2, <1>5, <3>1, <3>3
    <2>2. ASSUME NEW d, d = Len(written'), d <= FileLen, m.sn = At(d) PROVE Off(m.sn) <= d
      <3>1. d \in Nat /\ d \in 0 .. FileLen + 2 * BufSize BY <1>2, <2>2, Sizes
      <3>2. Off(At(d)) = d BY <1>2, <3>1, Offsets
      <3>3. QED BY <2>2, <3>1, <3>2
    <2>3. Len(written) <= FileLen /\ Len(written') <= FileLen
      BY DEF ReceiverInv, FilePrefix
    <2>4. CASE m.sn = rAckedSN' /\ rPc' # "idle"
      <3>1. rAckedSN' = At(Len(written'))
        BY <1>1, <2>4 DEF ReceiverInv, Done, At
      <3>2. QED BY <2>2, <2>3, <2>4, <3>1
    <2>5. CASE m.sn = rAckedSN /\ rPc # "idle" /\ written' = written
      <3>1. rAckedSN = At(Len(written')) BY <2>5 DEF ReceiverInv, Done
      <3>2. QED BY <2>2, <2>3, <2>5, <3>1
    <2>6. CASE m.sn = initSN
      <3>1. Off(m.sn) = 0 BY <1>2, <1>9, <2>6, Offsets
      <3>2. QED BY <1>2, <3>1
    <2>7. QED BY <1>3, <2>1, <2>4, <2>5, <2>6
  <1>11. \A m \in toS' : Off(m.sn)' <= Done' BY <1>1, <1>10 DEF Off, Done
  <1>12. AckedIsWritten'
    <2>1. SUFFICES ASSUME Connected' PROVE Off(ackedSN) <= Len(written')
      BY <1>1 DEF AckedIsWritten, Off
    <2>2. Connected BY <1>1, <2>1 DEF Connected
    <2>3. Off(ackedSN) <= Len(written) BY <2>2 DEF SingleInv, AckedIsWritten
    <2>4. Off(ackedSN) \in Nat BY <1>2, Offsets DEF SndTypeOK
    <2>5. QED BY <1>2, <1>5, <2>3, <2>4
  <1>13. sPc' \in Closing => fileEnds' /\ currentSN' = ackedSN'
    BY <1>1 DEF SingleInv
  <1>14. QED BY <1>5, <1>6, <1>7, <1>11, <1>12, <1>13 DEF SingleInv

-----------------------------------------------------------------------------
(* The invariant of a single session, and the refinement.                  *)

LEMMA InitEstablishesSingle == Init => SingleInv
  <1> SUFFICES ASSUME Init PROVE SingleInv OBVIOUS
  <1>1. MaxSessions \in Nat BY TransferAssumption
  <1>2. /\ sessions = 0 /\ written = <<>> /\ rPc = "idle" /\ toS = {} /\ sPc = "init"
    BY DEF Init
  <1>3. AckedIsWritten BY <1>2 DEF AckedIsWritten, Connected
  <1>4. QED BY <1>1, <1>2, <1>3 DEF SingleInv, Closing

LEMMA StepsOfOne ==
    ASSUME [Next]_vars
    PROVE  \/ SndStep \/ SndLoseAlarm
           \/ RcvStep \/ RcvLoseAlarm
           \/ UNCHANGED <<sendVars, recvVars>> /\ toS' \subseteq toS
  BY DEF Next, Lose, Finished, vars

LEMMA NextKeepsSingle ==
    ASSUME MaxSessions <= 1, IInv, SingleInv, [Next]_vars
    PROVE  SingleInv'
  <1>1. IInv' BY NextKeepsInv
  <1>2. /\ SndTypeOK /\ RcvTypeOK /\ SenderInv /\ ReceiverInv /\ FilePrefix
        /\ SndTypeOK' /\ RcvTypeOK' /\ SenderInv' /\ ReceiverInv'
        /\ \A m \in toR : GoodPacket(m)
        /\ \A m \in toS : m \in Answers
    BY <1>1 DEF IInv, TypeOK, NetTypeOK, NetInv, ReceiverInv, GoodPacket, Answers
  <1>3. initSN \in SN BY <1>2 DEF SndTypeOK
  <1>4. CASE SndStep \/ SndLoseAlarm
    <2>1. Aside BY <1>2, <1>4, SenderSteps
    <2>2. QED BY <1>2, <1>4, <2>1, SenderKeepsSingle
  <1>5. CASE RcvStep \/ RcvLoseAlarm
    <2>1. Apart BY <1>2, <1>3, <1>5, ReceiverSteps
    <2>2. QED BY <1>2, <1>5, <2>1, ReceiverKeepsSingle
  <1>6. CASE UNCHANGED <<sendVars, recvVars>> /\ toS' \subseteq toS
    BY <1>6 DEF SingleInv, AckedIsWritten, Connected, Done, Off, sendVars, recvVars,
                connVars, ringVars, ackVars, storeVars, openVars
  <1>7. QED BY <1>4, <1>5, <1>6, StepsOfOne

\* A prefix of the file is determined by its length.
LEMMA PrefixOfFile ==
    ASSUME NEW w \in Seq(Bytes), Len(w) <= FileLen, \A i \in DOMAIN w : w[i] = i - 1
    PROVE  w = SubSeq(File, 1, Len(w)) /\ Len(File) = FileLen
  <1>1. FileLen \in Nat BY Sizes
  <1>2. PICK n : n = Len(w) OBVIOUS
  <1>3. n \in Nat /\ n <= FileLen BY <1>2, LenProperties
  <1>4. w = [i \in 1 .. n |-> w[i]] /\ DOMAIN w = 1 .. n BY <1>2, <1>3, LenProperties
  <1>5. \A i \in 1 .. n : w[i] = i - 1 BY <1>4
  <1>6. \A i \in 1 .. FileLen : i - 1 \in Bytes BY <1>1 DEF Bytes
  <1>7. File \in Seq(Bytes) /\ Len(File) = FileLen BY <1>1, <1>6 DEF File
  <1>8. SubSeq(File, 1, n) = [i \in 1 .. n |-> File[i]]
    BY <1>1, <1>3, <1>7
  <1>9. \A i \in 1 .. n : File[i] = i - 1 BY <1>1, <1>3 DEF File
  <1>10. QED BY <1>2, <1>4, <1>5, <1>7, <1>8, <1>9

\* The sender ends with success only after its last byte was written.
LEMMA EndsComplete ==
    ASSUME SndTypeOK, SenderInv, RcvTypeOK, FilePrefix, SingleInv, sPc = "close"
    PROVE  written = File
  <1>1. Connected /\ WindowInv /\ currentSN = At(filePos) BY DEF SenderInv, Connected
  <1>2. fileEnds /\ currentSN = ackedSN /\ Off(ackedSN) <= Len(written)
    BY <1>1 DEF SingleInv, AckedIsWritten, Closing
  <1>3. filePos = FileLen /\ Len(written) <= FileLen BY <1>1, <1>2 DEF WindowInv, FilePrefix
  <1>4. FileLen \in 0 .. FileLen + 2 * BufSize /\ initSN \in SN BY Sizes DEF SndTypeOK
  <1>5. Off(At(FileLen)) = FileLen BY <1>4, Offsets
  <1>6. Len(written) \in Nat /\ FileLen \in Nat BY Sizes, LenProperties DEF RcvTypeOK
  <1>7. Len(written) = FileLen
    <2>1. Off(ackedSN) = FileLen BY <1>1, <1>2, <1>3, <1>5
    <2>2. QED BY <1>2, <1>3, <1>6, <2>1
  <1>8. written = SubSeq(File, 1, FileLen) /\ Len(File) = FileLen
    BY <1>7, PrefixOfFile DEF RcvTypeOK, FilePrefix
  <1>9. SubSeq(File, 1, FileLen) = File
    <2>1. SubSeq(File, 1, FileLen) = [i \in 1 .. FileLen |-> File[i]]
      BY <1>6, <1>8 DEF File
    <2>2. QED BY <2>1 DEF File
  <1>10. QED BY <1>8, <1>9

LEMMA StepIsCopyStep ==
    ASSUME MaxSessions <= 1, IInv, SingleInv, [Next]_vars
    PROVE  [Copy!Next]_<<written, Outcome>>
  <1>1. IInv' BY NextKeepsInv
  <1>2. /\ SndTypeOK /\ RcvTypeOK /\ SenderInv /\ ReceiverInv /\ FilePrefix
        /\ SndTypeOK' /\ RcvTypeOK' /\ SenderInv' /\ ReceiverInv' /\ FilePrefix'
        /\ \A m \in toR : GoodPacket(m)
        /\ \A m \in toS : m \in Answers
    BY <1>1 DEF IInv, TypeOK, NetTypeOK, NetInv, ReceiverInv, GoodPacket, Answers
  <1>3. initSN \in SN BY <1>2 DEF SndTypeOK
  <1>4. CASE SndStep \/ SndLoseAlarm
    <2>1. Aside BY <1>2, <1>4, SenderSteps
    <2>2. written' = written BY <2>1 DEF Aside, recvVars, storeVars
    <2>3. Outcome = "running" /\ (sPc' = "done" => sPc = "close")
      BY <1>4, SenderMoves DEF Outcome
    <2>4. CASE sPc' = "done"
      <3>1. written = File BY <1>2, <2>3, <2>4, EndsComplete
      <3>2. Outcome' = "done" BY <2>4 DEF Outcome
      <3>3. Copy!Succeed BY <2>2, <2>3, <3>1, <3>2 DEF Copy!Succeed, Outcome
      <3>4. QED BY <3>3 DEF Copy!Next
    <2>5. CASE sPc' = "failed"
      <3>1. Outcome' = "failed" BY <2>5 DEF Outcome
      <3>2. Copy!Fail BY <2>2, <2>3, <3>1 DEF Copy!Fail, Outcome
      <3>3. QED BY <3>2 DEF Copy!Next
    <2>6. CASE sPc' \notin {"done", "failed"}
      <3>1. Outcome' = Outcome BY <2>3, <2>6 DEF Outcome
      <3>2. QED BY <2>2, <3>1
    <2>7. QED BY <2>4, <2>5, <2>6
  <1>5. CASE RcvStep \/ RcvLoseAlarm
    <2>1. Apart BY <1>2, <1>3, <1>5, ReceiverSteps
    <2>2. Outcome' = Outcome BY <2>1 DEF Apart, sendVars, Outcome
    <2>3. Len(written) <= Len(written') BY <1>2, <1>5, <2>1, ReceiverKeepsSingle
    <2>4. Len(written) \in Nat /\ Len(written') \in Nat /\ Len(written') <= FileLen
      BY <1>2, LenProperties DEF RcvTypeOK, FilePrefix
    <2>5. /\ written = SubSeq(File, 1, Len(written)) /\ Len(File) = FileLen
      BY <1>2, PrefixOfFile DEF RcvTypeOK, FilePrefix
    <2>6. written' \in Seq(Bytes) /\ \A i \in DOMAIN written' : written'[i] = i - 1
      BY <1>2 DEF RcvTypeOK, FilePrefix
    <2>7. written' = SubSeq(File, 1, Len(written')) BY <2>4, <2>6, PrefixOfFile
    <2>8. CASE Len(written') = Len(written)
      BY <2>2, <2>5, <2>7, <2>8
    <2>9. CASE Len(written') # Len(written)
      <3>1. Len(written') \in Len(written) + 1 .. Len(File)
        BY <2>3, <2>4, <2>5, <2>9, Sizes
      <3>2. Copy!Grow BY <2>2, <2>7, <3>1 DEF Copy!Grow, Copy!Prefix, Outcome
      <3>3. QED BY <3>2 DEF Copy!Next
    <2>10. QED BY <2>8, <2>9
  <1>6. CASE UNCHANGED <<sendVars, recvVars>>
    BY <1>6 DEF sendVars, recvVars, storeVars, Outcome
  <1>7. QED BY <1>4, <1>5, <1>6, StepsOfOne

\* With one session, nothing the sender takes as acknowledged is unwritten.
THEOREM AckedMeansWritten ==
    ASSUME MaxSessions <= 1
    PROVE  Spec => []AckedIsWritten
  <1>1. IInv /\ SingleInv /\ [Next]_vars => IInv' /\ SingleInv'
    BY NextKeepsInv, NextKeepsSingle
  <1>2. SingleInv => AckedIsWritten BY DEF SingleInv
  <1>3. QED BY InitEstablishesInv, InitEstablishesSingle, <1>1, <1>2, PTL DEF Spec

\* With one session the transfer implements FileCopy: the received file grows
\* as a prefix of the one sent, and success means that it is complete.
THEOREM ImplementsFileCopy ==
    ASSUME MaxSessions <= 1
    PROVE  Spec => CopySpec
  <1>1. IInv /\ SingleInv /\ [Next]_vars => IInv' /\ SingleInv'
    BY NextKeepsInv, NextKeepsSingle
  <1>2. IInv /\ SingleInv /\ [Next]_vars => [Copy!Next]_<<written, Outcome>>
    BY StepIsCopyStep
  <1>3. Init => Copy!Init BY DEF Init, Copy!Init, Outcome
  <1>4. QED BY InitEstablishesInv, InitEstablishesSingle, <1>1, <1>2, <1>3, PTL
        DEF Spec, CopySpec, Copy!Spec, Outcome
=============================================================================
