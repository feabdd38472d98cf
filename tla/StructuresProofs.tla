-------------------------- MODULE StructuresProofs --------------------------
(***************************************************************************)
(* The sequential parts, for every value of their constants.  The ring of  *)
(* 3/queue.c stays within its array, never hands out an unwritten cell,    *)
(* and is a FIFO.  The hash table of 3/MyHash.c (H) is a map, and its      *)
(* iterator meets every entry once.                                        *)
(* The splitting of 0/ (K) finds every first occurrence of its separator,  *)
(* with the failure function of the textbook.                              *)
(***************************************************************************)
EXTENDS MCStructures, FiniteSetTheorems, SequenceTheorems, Induction

-----------------------------------------------------------------------------
\* The ring.

IInv == TypeOK /\ NoGarbage

LEMMA CellInRange ==
    ASSUME TypeOK, NEW n \in 0 .. capacity - 1
    PROVE  Cell(n, capacity) \in 0 .. capacity - 1
  BY DEF TypeOK, Cell

\* Different places of the queue are different cells.
LEMMA CellInjective ==
    ASSUME TypeOK, NEW n \in 0 .. capacity - 1, NEW m \in 0 .. capacity - 1,
           Cell(n, capacity) = Cell(m, capacity)
    PROVE  n = m
  BY DEF TypeOK, Cell

LEMMA InitIInv == Init => IInv
  BY QueueAssumption DEF Init, IInv, TypeOK, NoGarbage

\* A push in place writes the one cell behind the queue and no other.
LEMMA PushInPlaceCells ==
    ASSUME TypeOK, NEW item \in Items, PushInPlace(item)
    PROVE  /\ TypeOK'
           /\ data'[Cell(size, capacity)] = item
           /\ \A n \in 0 .. size - 1 :
                data'[Cell(n, capacity)] = data[Cell(n, capacity)]
  <1>1. Cell(size, capacity) \in 0 .. capacity - 1
    BY CellInRange DEF PushInPlace, TypeOK
  <1>2. TypeOK'
    BY <1>1 DEF PushInPlace, TypeOK
  <1>3. data'[Cell(size, capacity)] = item
    BY <1>1 DEF PushInPlace, TypeOK
  <1>4. ASSUME NEW n \in 0 .. size - 1
        PROVE  data'[Cell(n, capacity)] = data[Cell(n, capacity)]
    <2>1. Cell(n, capacity) # Cell(size, capacity)
      BY CellInjective DEF PushInPlace, TypeOK
    <2>2. Cell(n, capacity) \in 0 .. capacity - 1
      BY CellInRange, SMTT(20) DEF PushInPlace, TypeOK
    <2>3. QED BY <1>1, <2>1, <2>2 DEF PushInPlace, TypeOK
  <1>5. QED BY <1>2, <1>3, <1>4

\* Growing moves every wrapped item to the cell that the larger array gives it.
LEMMA PushGrowingCells ==
    ASSUME TypeOK, NEW item \in Items, PushGrowing(item)
    PROVE  /\ TypeOK'
           /\ data'[Cell(size, capacity')] = item
           /\ \A n \in 0 .. size - 1 :
                data'[Cell(n, capacity')] = data[Cell(n, capacity)]
  <1>1. /\ size = capacity /\ capacity' = 2 * capacity
        /\ start \in 0 .. capacity - 1 /\ capacity \in Nat \ {0}
        /\ data \in [0 .. capacity - 1 -> Items \cup {Garbage}]
    BY DEF PushGrowing, TypeOK
  <1>2. \A n \in 0 .. size : Cell(n, capacity') = start + n
    BY <1>1 DEF Cell
  <1>3. Grown \in [0 .. 2 * capacity - 1 -> Items \cup {Garbage}]
    <2>1. ASSUME NEW n \in 0 .. 2 * capacity - 1, n >= capacity,
                 n - capacity < start + size - capacity
          PROVE  n - capacity \in 0 .. capacity - 1
      BY <1>1, <2>1
    <2>2. QED BY <1>1, <2>1 DEF Grown
  <1>4. data' = [Grown EXCEPT ![start + size] = item]
    <2>1. Cell(size, capacity') = start + size BY <1>1, <1>2
    <2>2. QED BY <2>1 DEF PushGrowing
  <1>5. start + size \in 0 .. 2 * capacity - 1
    BY <1>1
  <1>6. TypeOK'
    <2>1. data' \in [0 .. 2 * capacity - 1 -> Items \cup {Garbage}]
      BY <1>3, <1>4, <1>5
    <2>2. start' \in 0 .. capacity' - 1 /\ size' \in 0 .. capacity'
      BY <1>1 DEF PushGrowing
    <2>3. QED BY <1>1, <2>1, <2>2 DEF PushGrowing, TypeOK
  <1>7. data'[Cell(size, capacity')] = item
    BY <1>1, <1>2, <1>3, <1>4, <1>5
  <1>8. ASSUME NEW n \in 0 .. size - 1
        PROVE  data'[Cell(n, capacity')] = data[Cell(n, capacity)]
    <2>1. Cell(n, capacity') = start + n
      BY <1>1, <1>2
    <2>2. start + n \in 0 .. 2 * capacity - 1 /\ start + n # start + size
      BY <1>1
    <2>3. data'[start + n] = Grown[start + n]
      BY <1>3, <1>4, <2>2
    <2>4. Grown[start + n] = data[Cell(n, capacity)]
      <3>1. CASE start + n < capacity
        BY <1>1, <2>2, <3>1 DEF Grown, Cell
      <3>2. CASE start + n >= capacity
        <4>1. start + n - capacity < start + size - capacity
          BY <1>1
        <4>2. QED BY <1>1, <2>2, <3>2, <4>1 DEF Grown, Cell
      <3>3. QED BY <1>1, <3>1, <3>2
    <2>5. QED BY <2>1, <2>3, <2>4
  <1>9. QED BY <1>6, <1>7, <1>8

\* Taking the first item makes the second place the first.
LEMMA PopCells ==
    ASSUME TypeOK, PopFirst
    PROVE  /\ TypeOK'
           /\ Cell(0, capacity) = start
           /\ \A n \in 0 .. size' - 1 :
                Cell(n, capacity)' = Cell(n + 1, capacity)
  <1>1. TypeOK'
    <2>1. start \in DOMAIN data BY DEF TypeOK
    <2>2. QED BY <2>1 DEF PopFirst, NextStart, TypeOK
  <1>2. Cell(0, capacity) = start
    BY DEF TypeOK, Cell
  <1>3. \A n \in 0 .. size' - 1 : Cell(n, capacity)' = Cell(n + 1, capacity)
    BY DEF PopFirst, NextStart, TypeOK, Cell
  <1>4. QED BY <1>1, <1>2, <1>3

LEMMA NextIInv == IInv /\ [Next]_vars => IInv'
  <1> SUFFICES ASSUME IInv, [Next]_vars PROVE IInv'
    OBVIOUS
  <1> USE DEF IInv
  <1>1. ASSUME NEW item \in Items, PushInPlace(item) PROVE IInv'
    <2>1. TypeOK' /\ size' = size + 1 /\ start' = start /\ capacity' = capacity
      BY <1>1, PushInPlaceCells DEF PushInPlace
    <2>2. ASSUME NEW n \in 0 .. size PROVE data'[Cell(n, capacity)] # Garbage
      <3>1. CASE n = size
        BY <1>1, <3>1, PushInPlaceCells, QueueAssumption
      <3>2. CASE n # size
        <4>1. n \in 0 .. size - 1 BY <3>2 DEF TypeOK
        <4>2. QED BY <1>1, <4>1, PushInPlaceCells DEF NoGarbage
      <3>3. QED BY <3>1, <3>2
    <2>3. \A n \in 0 .. size' - 1 : data'[Cell(n, capacity)'] # Garbage
      <3>1. size' - 1 = size BY <2>1 DEF TypeOK
      <3>2. \A n \in 0 .. size : Cell(n, capacity)' = Cell(n, capacity) BY <2>1 DEF Cell
      <3>3. QED BY <2>2, <3>1, <3>2
    <2>4. QED BY <2>1, <2>3 DEF NoGarbage
  <1>2. ASSUME NEW item \in Items, PushGrowing(item) PROVE IInv'
    <2>1. TypeOK' /\ size' = size + 1 /\ start' = start
      BY <1>2, PushGrowingCells DEF PushGrowing
    <2>2. ASSUME NEW n \in 0 .. size PROVE data'[Cell(n, capacity')] # Garbage
      <3>1. CASE n = size
        BY <1>2, <3>1, PushGrowingCells, QueueAssumption
      <3>2. CASE n # size
        <4>1. n \in 0 .. size - 1 BY <3>2 DEF TypeOK
        <4>2. QED BY <1>2, <4>1, PushGrowingCells DEF NoGarbage
      <3>3. QED BY <3>1, <3>2
    <2>3. \A n \in 0 .. size' - 1 : data'[Cell(n, capacity)'] # Garbage
      <3>1. size' - 1 = size BY <2>1 DEF TypeOK
      <3>2. \A n \in 0 .. size : Cell(n, capacity)' = Cell(n, capacity') BY <2>1 DEF Cell
      <3>3. QED BY <2>2, <3>1, <3>2
    <2>4. QED BY <2>1, <2>3 DEF NoGarbage
  <1>3. ASSUME PopFirst PROVE IInv'
    <2>1. TypeOK' BY <1>3, PopCells
    <2>2. ASSUME NEW n \in 0 .. size' - 1 PROVE data'[Cell(n, capacity)'] # Garbage
      <3>1. n + 1 \in 0 .. size - 1 BY <1>3 DEF PopFirst, TypeOK
      <3>2. QED BY <1>3, <3>1, PopCells DEF PopFirst, NoGarbage
    <2>3. QED BY <2>1, <2>2 DEF NoGarbage
  <1>4. CASE UNCHANGED vars
    BY <1>4 DEF vars, TypeOK, NoGarbage, Cell
  <1>5. QED BY <1>1, <1>2, <1>3, <1>4 DEF Next, PushDropped

\* The ring stays within its array for every history of pushes and pops, every
\* capacity and every set of items.
THEOREM RingTyped == Spec => []TypeOK
  <1>1. IInv => TypeOK BY DEF IInv
  <1>2. QED BY <1>1, InitIInv, NextIInv, PTL DEF Spec

\* It never hands out an unwritten cell, wherever the queue starts and however
\* often the array has grown.
THEOREM RingSafe == Spec => []NoGarbage
  <1>1. IInv => NoGarbage BY DEF IInv
  <1>2. QED BY <1>1, InitIInv, NextIInv, PTL DEF Spec

-----------------------------------------------------------------------------

ContentsOK == Contents \in Seq(Items \cup {Garbage}) /\ Len(Contents) = size

LEMMA ContentsSeq == TypeOK => ContentsOK
  <1> SUFFICES ASSUME TypeOK PROVE ContentsOK OBVIOUS
  <1>1. ASSUME NEW n \in 1 .. size PROVE data[Cell(n - 1, capacity)] \in Items \cup {Garbage}
    <2>1. n - 1 \in 0 .. capacity - 1 BY DEF TypeOK
    <2>2. QED BY <2>1, CellInRange DEF TypeOK
  <1>2. QED BY <1>1 DEF ContentsOK, Contents, TypeOK

\* queuePush appends.
LEMMA PushAppends ==
    ASSUME TypeOK, NEW item \in Items, PushInPlace(item) \/ PushGrowing(item)
    PROVE  Contents' = Append(Contents, item)
  <1>1. TypeOK' /\ size' = size + 1 /\ start' = start
    BY PushInPlaceCells, PushGrowingCells DEF PushInPlace, PushGrowing
  <1>2. \A n \in 0 .. size - 1 : data'[Cell(n, capacity)'] = data[Cell(n, capacity)]
    BY PushInPlaceCells, PushGrowingCells DEF PushInPlace, PushGrowing, Cell
  <1>3. data'[Cell(size, capacity')] = item
    BY PushInPlaceCells, PushGrowingCells DEF PushInPlace, PushGrowing
  <1>4. ContentsOK /\ ContentsOK'
    BY <1>1, ContentsSeq, PTL
  <1>5. ASSUME NEW n \in 1 .. size + 1
        PROVE  Contents'[n] = Append(Contents, item)[n]
    <2>1. Contents'[n] = data'[Cell(n - 1, capacity)']
      BY <1>1 DEF Contents
    <2>2. CASE n = size + 1
      <3>1. n - 1 = size BY <2>2 DEF TypeOK
      <3>2. Contents'[n] = item BY <1>1, <1>3, <2>1, <3>1 DEF Cell
      <3>3. Append(Contents, item)[n] = item
        BY <1>4, <2>2, AppendProperties DEF ContentsOK
      <3>4. QED BY <3>2, <3>3
    <2>3. CASE n # size + 1
      <3>1. n \in 1 .. size /\ n - 1 \in 0 .. size - 1 BY <2>3 DEF TypeOK
      <3>2. Contents[n] = data[Cell(n - 1, capacity)] BY <3>1 DEF Contents
      <3>3. QED BY <1>1, <1>2, <1>4, <2>1, <3>1, <3>2, AppendProperties DEF ContentsOK, Cell
    <2>4. QED BY <2>2, <2>3
  <1>6. Contents' \in Seq(Items \cup {Garbage}) /\ Len(Contents') = size + 1
    BY <1>1, <1>4 DEF ContentsOK
  <1>7. /\ Append(Contents, item) \in Seq(Items \cup {Garbage})
        /\ Len(Append(Contents, item)) = size + 1
    BY <1>4, AppendProperties DEF ContentsOK
  <1>8. QED BY <1>5, <1>6, <1>7, SeqEqual

\* queueFirst and queuePop take the head.
LEMMA PopTakesHead ==
    ASSUME TypeOK, PopFirst
    PROVE  Contents # <<>> /\ taken' = Head(Contents) /\ Contents' = Tail(Contents)
  <1>1. size \in Nat \ {0} /\ size' = size - 1 /\ data' = data /\ TypeOK'
    BY PopCells DEF PopFirst, TypeOK
  <1>2. ContentsOK /\ ContentsOK'
    BY <1>1, ContentsSeq, PTL
  <1>3. Contents # <<>> /\ Head(Contents) = Contents[1]
    BY <1>2, <1>1 DEF ContentsOK
  <1>4. taken' = Head(Contents)
    BY <1>1, <1>3, PopCells DEF PopFirst, Contents
  <1>5. ASSUME NEW n \in 1 .. size - 1 PROVE Contents'[n] = Contents[n + 1]
    <2>1. n - 1 \in 0 .. size' - 1 /\ (n - 1) + 1 = (n + 1) - 1 BY <1>1
    <2>2. Cell(n - 1, capacity)' = Cell((n + 1) - 1, capacity)
      BY <2>1, PopCells
    <2>3. QED BY <1>1, <2>2 DEF Contents
  <1>6. Contents' = Tail(Contents)
    <2>1. Contents' \in Seq(Items \cup {Garbage}) /\ Len(Contents') = size - 1
      BY <1>2, <1>1 DEF ContentsOK
    <2>2. /\ Tail(Contents) \in Seq(Items \cup {Garbage})
          /\ Len(Tail(Contents)) = size - 1
          /\ \A n \in 1 .. size - 1 : Tail(Contents)[n] = Contents[n + 1]
      BY <1>2, <1>3, HeadTailProperties DEF ContentsOK
    <2>3. QED BY <1>5, <2>1, <2>2, SeqEqual
  <1>7. QED BY <1>3, <1>4, <1>6

\* queue.c implements a first-in first-out queue: every push appends to it, a
\* pop takes its head, and growing the array changes nothing.
THEOREM RingImplementsFifo == Spec => IsFifo
  <1>1. Init => Queue!Init
    <2>1. ASSUME Init PROVE Contents = <<>> BY <2>1 DEF Init, Contents
    <2>2. QED BY <2>1 DEF Init, Queue!Init
  <1>2. ASSUME TypeOK, [Next]_vars PROVE [Queue!Next]_<<Contents, taken>>
    <2>1. ASSUME NEW item \in Items, PushInPlace(item) \/ PushGrowing(item)
          PROVE  Queue!Push
      BY <1>2, <2>1, PushAppends DEF Queue!Push, PushInPlace, PushGrowing
    <2>2. ASSUME PopFirst PROVE Queue!Pop
      BY <1>2, <2>2, PopTakesHead DEF Queue!Pop
    <2>3. ASSUME UNCHANGED vars PROVE UNCHANGED <<Contents, taken>>
      BY <2>3 DEF vars, Contents, Cell
    <2>4. QED BY <1>2, <2>1, <2>2, <2>3 DEF Next, PushDropped, Queue!Next
  <1>3. QED BY <1>1, <1>2, RingTyped, PTL DEF Spec, IsFifo, Queue!Spec

-----------------------------------------------------------------------------
\* The hash table.

Pairs == Keys \X Values
Home(key, n) == HashOf[key] % n

\* An array of n chains: every entry is in the bucket of its hash, and no key is
\* there twice.
Table(bs, n) ==
    /\ bs \in [0 .. n - 1 -> Seq(Pairs)]
    /\ \A g \in 0 .. n - 1 : \A p \in 1 .. Len(bs[g]) : Home(bs[g][p][1], n) = g
    /\ \A g \in 0 .. n - 1 : \A p, q \in 1 .. Len(bs[g]) : bs[g][p][1] = bs[g][q][1] => p = q

Within(chain, e) == \E p \in 1 .. Len(chain) : chain[p] = e
Holds(bs, n, e)  == \E g \in 0 .. n - 1 : Within(bs[g], e)
HasKey(bs, n, key) == \E g \in 0 .. n - 1 : \E p \in 1 .. Len(bs[g]) : bs[g][p][1] = key

LEMMA HomeType ==
    ASSUME NEW n \in Nat \ {0}, NEW key \in Keys
    PROVE  Home(key, n) \in 0 .. n - 1
  <1>1. HashOf[key] \in Nat
    BY TableAssumption DEF TableAssumption
  <1> QED
    BY <1>1 DEF Home

\* A key is nowhere but in its own bucket.
LEMMA KeyAtHome ==
    ASSUME NEW n \in Nat \ {0}, NEW bs, Table(bs, n), NEW key \in Keys
    PROVE  /\ HasKey(bs, n, key) <=> \E p \in 1 .. Len(bs[Home(key, n)]) : bs[Home(key, n)][p][1] = key
           /\ \A v : Holds(bs, n, <<key, v>>) <=> Within(bs[Home(key, n)], <<key, v>>)
  <1>1. Home(key, n) \in 0 .. n - 1
    BY HomeType
  <1>2. ASSUME NEW g \in 0 .. n - 1, NEW p \in 1 .. Len(bs[g]), bs[g][p][1] = key
        PROVE  g = Home(key, n)
    BY <1>2 DEF Table
  <1>3. HasKey(bs, n, key) <=> \E p \in 1 .. Len(bs[Home(key, n)]) : bs[Home(key, n)][p][1] = key
    BY <1>1, <1>2 DEF HasKey
  <1>4. ASSUME NEW v PROVE Holds(bs, n, <<key, v>>) <=> Within(bs[Home(key, n)], <<key, v>>)
    <2>1. ASSUME NEW g \in 0 .. n - 1, NEW p \in 1 .. Len(bs[g]), bs[g][p] = <<key, v>>
          PROVE  g = Home(key, n)
      <3>1. bs[g][p][1] = key
        BY <2>1
      <3> QED
        BY <1>2, <3>1
    <2> QED
      BY <1>1, <2>1 DEF Holds, Within
  <1> QED
    BY <1>3, <1>4

\* An entry that is there has a key that is there, and no other value.
LEMMA KeyOfEntry ==
    ASSUME NEW n \in Nat \ {0}, NEW bs, Table(bs, n), NEW key \in Keys
    PROVE  /\ HasKey(bs, n, key) <=> \E v \in Values : Holds(bs, n, <<key, v>>)
           /\ \A v, w : Holds(bs, n, <<key, v>>) /\ Holds(bs, n, <<key, w>>) => v = w
           /\ \A v : Holds(bs, n, <<key, v>>) => v \in Values /\ HasKey(bs, n, key)
  <1>1. PICK c : c = bs[Home(key, n)]
    OBVIOUS
  <1>2. c \in Seq(Pairs) /\ \A p, q \in 1 .. Len(c) : c[p][1] = c[q][1] => p = q
    BY <1>1, HomeType DEF Table
  <1>3. /\ HasKey(bs, n, key) <=> \E p \in 1 .. Len(c) : c[p][1] = key
        /\ \A v : Holds(bs, n, <<key, v>>) <=> Within(c, <<key, v>>)
    BY <1>1, KeyAtHome
  <1>4. \A p \in 1 .. Len(c) : c[p] \in Pairs
    BY <1>2
  <1>5. ASSUME NEW p \in 1 .. Len(c), c[p][1] = key
        PROVE  \E v \in Values : Within(c, <<key, v>>)
    <2>1. c[p] = <<key, c[p][2]>> /\ c[p][2] \in Values
      BY <1>4, <1>5 DEF Pairs
    <2> QED
      BY <2>1 DEF Within
  <1>6. ASSUME NEW v, Within(c, <<key, v>>)
        PROVE  v \in Values /\ \E p \in 1 .. Len(c) : c[p][1] = key
    <2>1. PICK p \in 1 .. Len(c) : c[p] = <<key, v>>
      BY <1>6 DEF Within
    <2> QED
      BY <1>4, <2>1 DEF Pairs
  <1>7. ASSUME NEW v, NEW w, Within(c, <<key, v>>), Within(c, <<key, w>>)
        PROVE  v = w
    <2>1. PICK p \in 1 .. Len(c) : c[p] = <<key, v>>
      BY <1>7 DEF Within
    <2>2. PICK q \in 1 .. Len(c) : c[q] = <<key, w>>
      BY <1>7 DEF Within
    <2>3. p = q
      BY <1>2, <2>1, <2>2
    <2> QED
      BY <2>1, <2>2, <2>3
  <1> QED
    BY <1>3, <1>5, <1>6, <1>7

\* What MyHash_getBucket finds.
LEMMA PlaceFacts ==
    ASSUME NEW key \in Keys, _nb \in Nat \ {0}, Table(buckets, _nb)
    PROVE  LET c == buckets[Home(key, _nb)]
               p == H!Place(key)
           IN \/ p = 0 /\ \A q \in 1 .. Len(c) : c[q][1] # key
              \/ p # 0 /\ p \in 1 .. Len(c) /\ c[p][1] = key
  <1>1. PICK c, p, J : /\ c = buckets[Home(key, _nb)] /\ p = H!Place(key)
                       /\ J = {q \in 1 .. Len(c) : c[q][1] = key}
    OBVIOUS
  <1>2. p = IF J # {} THEN H!Min(J) ELSE 0
    BY <1>1 DEF H!Place, H!SelectInSeq, Home
  <1>3. CASE J = {}
    BY <1>1, <1>2, <1>3
  <1>4. CASE J # {}
    <2>1. J \subseteq Nat
      BY <1>1
    <2>2. \E x \in J : \A y \in J : x <= y
      BY <1>4, <2>1, SmallestNat
    <2>3. p = CHOOSE x \in J : \A y \in J : x <= y
      BY <1>2, <1>4 DEF H!Min
    <2>4. p \in J
      BY <2>2, <2>3
    <2> QED
      BY <1>1, <2>4
  <1> QED
    BY <1>3, <1>4

\* What MyHash_get returns.
LEMMA ValueFacts ==
    ASSUME NEW key \in Keys, _nb \in Nat \ {0}, Table(buckets, _nb)
    PROVE  /\ \A v : Holds(buckets, _nb, <<key, v>>) => H!ValueAt(key) = v
           /\ ~HasKey(buckets, _nb, key) => H!ValueAt(key) = Null
           /\ H!Place(key) # 0 <=> HasKey(buckets, _nb, key)
  <1>1. PICK c, p : c = buckets[Home(key, _nb)] /\ p = H!Place(key)
    OBVIOUS
  <1>2. \/ p = 0 /\ \A q \in 1 .. Len(c) : c[q][1] # key
        \/ p # 0 /\ p \in 1 .. Len(c) /\ c[p][1] = key
    BY <1>1, PlaceFacts
  <1>3. HasKey(buckets, _nb, key) <=> \E q \in 1 .. Len(c) : c[q][1] = key
    BY <1>1, KeyAtHome
  <1>4. H!ValueAt(key) = IF p = 0 THEN Null ELSE c[p][2]
    BY <1>1 DEF H!ValueAt, Home
  <1>5. ASSUME NEW v, Holds(buckets, _nb, <<key, v>>) PROVE H!ValueAt(key) = v
    <2>1. Within(c, <<key, v>>)
      BY <1>1, <1>5, KeyAtHome
    <2>2. PICK q \in 1 .. Len(c) : c[q] = <<key, v>>
      BY <2>1 DEF Within
    <2>3. p # 0 /\ p \in 1 .. Len(c) /\ c[p][1] = key
      BY <1>2, <2>2
    <2>4. p = q
      <3>1. c[q][1] = key
        BY <2>2
      <3>2. \A x, y \in 1 .. Len(c) : c[x][1] = c[y][1] => x = y
        BY <1>1, HomeType DEF Table
      <3> QED
        BY <2>3, <3>1, <3>2
    <2> QED
      BY <1>4, <2>2, <2>3, <2>4
  <1> QED
    BY <1>1, <1>2, <1>3, <1>4, <1>5

-----------------------------------------------------------------------------
\* MyHash_set and MyHash_resize: an entry goes to the front of its chain.

LEMMA Front ==
    ASSUME NEW X, NEW e \in X, NEW c \in Seq(X)
    PROVE  /\ <<e>> \o c \in Seq(X) /\ Len(<<e>> \o c) = Len(c) + 1
           /\ (<<e>> \o c)[1] = e
           /\ \A p \in 1 .. Len(c) : (<<e>> \o c)[p + 1] = c[p]
  <1>1. PICK d, u : u = <<e>> /\ d = u \o c
    OBVIOUS
  <1>2. u \in Seq(X) /\ Len(u) = 1 /\ u[1] = e
    BY <1>1
  <1>3. /\ d \in Seq(X) /\ Len(d) = Len(u) + Len(c)
        /\ \A p \in 1 .. Len(u) + Len(c) : d[p] = IF p <= Len(u) THEN u[p] ELSE c[p - Len(u)]
    BY <1>1, <1>2, ConcatProperties
  <1>4. /\ Len(d) = Len(c) + 1 /\ Len(c) \in Nat
        /\ \A p \in 1 .. Len(c) + 1 : d[p] = IF p <= 1 THEN u[p] ELSE c[p - 1]
    BY <1>2, <1>3
  <1>5. d[1] = e
    BY <1>2, <1>4
  <1>6. ASSUME NEW p \in 1 .. Len(c) PROVE d[p + 1] = c[p]
    <2>1. PICK q : q = p + 1
      OBVIOUS
    <2>2. q \in 1 .. Len(c) + 1 /\ ~(q <= 1) /\ q - 1 = p
      BY <1>4, <2>1
    <2> QED
      BY <1>4, <2>1, <2>2
  <1> QED
    BY <1>1, <1>3, <1>4, <1>5, <1>6

LEMMA LinkedFacts ==
    ASSUME NEW n \in Nat \ {0}, NEW bs, Table(bs, n), NEW e \in Pairs, ~HasKey(bs, n, e[1])
    PROVE  /\ Table(H!Linked(bs, n, e), n)
           /\ \A d : Holds(H!Linked(bs, n, e), n, d) <=> d = e \/ Holds(bs, n, d)
  <1>1. PICK h, c, bs2 : h = Home(e[1], n) /\ c = bs[h] /\ bs2 = H!Linked(bs, n, e)
    OBVIOUS
  <1>2. e[1] \in Keys /\ h \in 0 .. n - 1
    BY <1>1, HomeType DEF Pairs
  <1>3. bs \in [0 .. n - 1 -> Seq(Pairs)] /\ c \in Seq(Pairs)
    BY <1>1, <1>2 DEF Table
  <1>4. PICK d : d = <<e>> \o c
    OBVIOUS
  <1>5. /\ d \in Seq(Pairs) /\ Len(d) = Len(c) + 1 /\ Len(c) \in Nat
        /\ d[1] = e /\ \A p \in 1 .. Len(c) : d[p + 1] = c[p]
    BY <1>3, <1>4, Front
  <1>6. bs2 = [bs EXCEPT ![h] = d]
    BY <1>1, <1>4 DEF H!Linked, Home
  <1>7. bs2 \in [0 .. n - 1 -> Seq(Pairs)] /\ bs2[h] = d /\ \A g \in 0 .. n - 1 : g # h => bs2[g] = bs[g]
    BY <1>2, <1>3, <1>5, <1>6
  <1>8. ASSUME NEW p \in 1 .. Len(d) PROVE p = 1 \/ (p - 1 \in 1 .. Len(c) /\ d[p] = c[p - 1])
    <2>1. CASE p # 1
      <3>1. PICK q : q = p - 1
        OBVIOUS
      <3>2. q \in 1 .. Len(c) /\ q + 1 = p
        BY <1>5, <2>1, <3>1
      <3> QED
        BY <1>5, <3>1, <3>2
    <2> QED
      BY <2>1
  <1>9. \A p \in 1 .. Len(c) : c[p][1] # e[1]
    BY <1>1, <1>2 DEF HasKey
  <1>10. ASSUME NEW g \in 0 .. n - 1, NEW p \in 1 .. Len(bs2[g])
         PROVE  Home(bs2[g][p][1], n) = g
    <2>1. CASE g # h
      BY <1>7, <2>1 DEF Table
    <2>2. CASE g = h
      <3>1. p \in 1 .. Len(d) /\ bs2[g][p] = d[p]
        BY <1>7, <2>2
      <3>2. CASE p = 1
        BY <1>1, <1>5, <2>2, <3>1, <3>2
      <3>3. CASE p - 1 \in 1 .. Len(c) /\ d[p] = c[p - 1]
        <4>1. \A q \in 1 .. Len(c) : Home(c[q][1], n) = h
          BY <1>1, <1>2 DEF Table
        <4> QED
          BY <2>2, <3>1, <3>3, <4>1
      <3> QED
        BY <1>8, <3>1, <3>2, <3>3
    <2> QED
      BY <2>1, <2>2
  <1>11. ASSUME NEW g \in 0 .. n - 1, NEW p \in 1 .. Len(bs2[g]), NEW q \in 1 .. Len(bs2[g]),
                bs2[g][p][1] = bs2[g][q][1]
         PROVE  p = q
    <2>1. CASE g # h
      BY <1>7, <1>11, <2>1 DEF Table
    <2>2. CASE g = h
      <3>1. p \in 1 .. Len(d) /\ q \in 1 .. Len(d) /\ d[p][1] = d[q][1]
        BY <1>7, <1>11, <2>2
      <3>2. CASE p = 1
        BY <1>5, <1>8, <1>9, <3>1, <3>2
      <3>3. CASE q = 1
        BY <1>5, <1>8, <1>9, <3>1, <3>3
      <3>4. CASE p # 1 /\ q # 1
        <4>1. /\ p - 1 \in 1 .. Len(c) /\ d[p] = c[p - 1]
              /\ q - 1 \in 1 .. Len(c) /\ d[q] = c[q - 1]
          BY <1>8, <3>1, <3>4
        <4>2. p - 1 = q - 1
          <5>1. \A x, y \in 1 .. Len(c) : c[x][1] = c[y][1] => x = y
            BY <1>1, <1>2 DEF Table
          <5> QED
            BY <3>1, <4>1, <5>1
        <4> QED
          BY <3>1, <4>2
      <3> QED
        BY <3>2, <3>3, <3>4
    <2> QED
      BY <2>1, <2>2
  <1>12. Table(bs2, n)
    BY <1>7, <1>10, <1>11 DEF Table
  <1>13. ASSUME NEW x PROVE Within(d, x) <=> x = e \/ Within(c, x)
    <2>1. 1 \in 1 .. Len(d) /\ \A p \in 1 .. Len(c) : p + 1 \in 1 .. Len(d)
      BY <1>5
    <2>2. ASSUME Within(d, x) PROVE x = e \/ Within(c, x)
      <3>1. PICK p \in 1 .. Len(d) : d[p] = x
        BY <2>2 DEF Within
      <3> QED
        BY <1>5, <1>8, <3>1 DEF Within
    <2>3. ASSUME x = e \/ Within(c, x) PROVE Within(d, x)
      BY <1>5, <2>1, <2>3 DEF Within
    <2> QED
      BY <2>2, <2>3
  <1>14. ASSUME NEW x PROVE Holds(bs2, n, x) <=> x = e \/ Holds(bs, n, x)
    <2>1. Within(bs2[h], x) <=> x = e \/ Within(bs[h], x)
      BY <1>1, <1>7, <1>13
    <2>2. \A g \in 0 .. n - 1 : g # h => (Within(bs2[g], x) <=> Within(bs[g], x))
      BY <1>7
    <2> QED
      BY <1>2, <2>1, <2>2 DEF Holds
  <1> QED
    BY <1>1, <1>12, <1>14

\* Has nothing in common with the chain.
Apart(bs, n, chain) == \A p \in 1 .. Len(chain) : ~HasKey(bs, n, chain[p][1])

LEMMA KeyLinked ==
    ASSUME NEW n \in Nat \ {0}, NEW bs, NEW bs2, Table(bs, n), Table(bs2, n), NEW e \in Pairs,
           \A d : Holds(bs2, n, d) <=> d = e \/ Holds(bs, n, d), NEW key \in Keys
    PROVE  HasKey(bs2, n, key) <=> key = e[1] \/ HasKey(bs, n, key)
  <1>1. e = <<e[1], e[2]>> /\ e[2] \in Values
    BY DEF Pairs
  <1>2. HasKey(bs2, n, key) <=> \E v \in Values : Holds(bs2, n, <<key, v>>)
    BY KeyOfEntry
  <1>3. HasKey(bs, n, key) <=> \E v \in Values : Holds(bs, n, <<key, v>>)
    BY KeyOfEntry, SMTT(20)
  <1>4. \A v : <<key, v>> = e <=> key = e[1] /\ v = e[2]
    BY <1>1
  <1> QED
    BY <1>1, <1>2, <1>3, <1>4

Tables(n) == [0 .. n - 1 -> Seq(Pairs)]

LEMMA LinkedType ==
    ASSUME NEW n \in Nat \ {0}, NEW t \in Tables(n), NEW e \in Pairs
    PROVE  H!Linked(t, n, e) \in Tables(n)
  <1>1. PICK h, c : h = Home(e[1], n) /\ c = <<e>> \o t[h]
    OBVIOUS
  <1>2. h \in 0 .. n - 1
    BY <1>1, HomeType DEF Pairs
  <1>3. c \in Seq(Pairs)
    BY <1>1, <1>2, Front DEF Tables
  <1>4. H!Linked(t, n, e) = [t EXCEPT ![h] = c]
    BY <1>1 DEF H!Linked, Home
  <1> QED
    BY <1>2, <1>3, <1>4 DEF Tables

Entries(es, N)      == \A k \in 1 .. N : es[k] \in Pairs
LinkedInTurn(es, N, bs, n, f) ==
    f \in [0 .. N -> Tables(n)] /\ f[0] = bs /\ \A k \in 1 .. N : f[k] = H!Linked(f[k - 1], n, es[k])

LEMMA LinkedSteps ==
    ASSUME NEW n \in Nat \ {0}, NEW bs \in Tables(n), NEW N \in Nat, NEW es, Entries(es, N)
    PROVE  \E f : LinkedInTurn(es, N, bs, n, f)
  <1>1. PICK X, F : X = Tables(n) /\ F = [k \in 1 .. N |-> [t \in X |-> H!Linked(t, n, es[k])]]
    OBVIOUS
  <1>2. ASSUME NEW k \in 1 .. N, NEW t \in X PROVE H!Linked(t, n, es[k]) \in X
    <2>1. es[k] \in Pairs /\ t \in Tables(n)
      BY <1>1 DEF Entries
    <2> QED
      BY <1>1, <2>1, LinkedType
  <1>3. F \in [1 .. N -> [X -> X]]
    BY <1>1, <1>2
  <1>4. bs \in X
    BY <1>1
  <1>5. PICK f \in [0 .. N -> X] : f[0] = bs /\ \A k \in 1 .. N : f[k] = F[k][f[k - 1]]
    BY <1>3, <1>4, Recursion
  <1>6. ASSUME NEW k \in 1 .. N PROVE f[k] = H!Linked(f[k - 1], n, es[k])
    <2>1. k - 1 \in 0 .. N
      OBVIOUS
    <2>2. f[k - 1] \in X
      BY <1>5, <2>1
    <2>3. F[k][f[k - 1]] = H!Linked(f[k - 1], n, es[k])
      BY <1>1, <2>2
    <2>4. f[k] = F[k][f[k - 1]]
      BY <1>5
    <2> QED
      BY <2>3, <2>4
  <1>7. f \in [0 .. N -> Tables(n)]
    BY <1>1
  <1> QED
    BY <1>5, <1>6, <1>7 DEF LinkedInTurn

\* The inner loop of MyHash_resize.
LEMMA RelinkedLoop ==
    ASSUME NEW n \in Nat \ {0}, NEW bs \in Tables(n), NEW chain \in Seq(Pairs), NEW N, N = Len(chain)
    PROVE  \E m : /\ m = [k \in 0 .. N |-> IF k = 0 THEN bs ELSE H!Linked(m[k - 1], n, chain[k])]
                  /\ m[N] = H!Relinked(chain, bs, n) /\ m[N] \in Tables(n)
  <1>1. N \in Nat
    OBVIOUS
  <1>2. PICK X : X = Tables(n)
    OBVIOUS
  <1>3. \E f : f = [k \in 0 .. N |-> IF k = 0 THEN bs ELSE H!Linked(f[k - 1], n, chain[k])]
    <2>1. Entries(chain, N)
      BY DEF Entries
    <2>2. PICK f : LinkedInTurn(chain, N, bs, n, f)
      BY <1>1, <2>1, LinkedSteps
    <2>3. ASSUME NEW k \in 0 .. N
          PROVE  f[k] = IF k = 0 THEN bs ELSE H!Linked(f[k - 1], n, chain[k])
      <3>1. k = 0 \/ (k # 0 /\ k \in 1 .. N)
        BY <1>1
      <3> QED
        BY <2>2, <3>1 DEF LinkedInTurn
    <2>4. f = [k \in 0 .. N |-> IF k = 0 THEN bs ELSE H!Linked(f[k - 1], n, chain[k])]
      BY <2>2, <2>3 DEF LinkedInTurn
    <2> QED
      BY <2>4
  <1>4. PICK m : m = CHOOSE f : f = [k \in 0 .. N |-> IF k = 0 THEN bs ELSE H!Linked(f[k - 1], n, chain[k])]
    OBVIOUS
  <1>5. m = [k \in 0 .. N |-> IF k = 0 THEN bs ELSE H!Linked(m[k - 1], n, chain[k])]
    BY <1>3, <1>4
  <1>6. H!Relinked(chain, bs, n) = m[N]
    BY <1>1, <1>4 DEF H!Relinked
  <1>7. PICK T : T = {k \in Nat : k <= N => m[k] \in X}
    OBVIOUS
  <1>8. 0 \in T
    BY <1>1, <1>2, <1>5, <1>7
  <1>9. ASSUME NEW k \in Nat, k \in T PROVE k + 1 \in T
    <2>1. SUFFICES ASSUME k + 1 <= N PROVE m[k + 1] \in X
      BY <1>7
    <2>2. k <= N /\ k + 1 \in 1 .. N /\ k + 1 \in 0 .. N /\ k + 1 # 0 /\ (k + 1) - 1 = k
      BY <1>1, <2>1
    <2>3. m[k] \in X /\ chain[k + 1] \in Pairs
      BY <1>7, <1>9, <2>2
    <2>4. m[k + 1] = H!Linked(m[k], n, chain[k + 1])
      BY <1>5, <2>2
    <2> QED
      BY <1>2, <2>3, <2>4, LinkedType
  <1>10. N \in T
    BY <1>1, <1>8, <1>9, SetInduction
  <1> QED
    BY <1>1, <1>2, <1>5, <1>6, <1>7, <1>10

LEMMA RelinkedFacts ==
    ASSUME NEW n \in Nat \ {0}, NEW bs, Table(bs, n), NEW chain \in Seq(Pairs), Apart(bs, n, chain),
           \A p, q \in 1 .. Len(chain) : chain[p][1] = chain[q][1] => p = q
    PROVE  /\ Table(H!Relinked(chain, bs, n), n)
           /\ \A d : Holds(H!Relinked(chain, bs, n), n, d) <=> Within(chain, d) \/ Holds(bs, n, d)
  <1>1. PICK N : N = Len(chain) /\ N \in Nat
    OBVIOUS
  <1>2. bs \in Tables(n)
    BY DEF Table, Tables
  <1>5. PICK m : /\ m = [k \in 0 .. N |-> IF k = 0 THEN bs ELSE H!Linked(m[k - 1], n, chain[k])]
                 /\ m[N] = H!Relinked(chain, bs, n)
    BY <1>1, <1>2, RelinkedLoop
  <1>7. PICK T : T = {k \in Nat : k <= N =>
                        /\ Table(m[k], n)
                        /\ \A d : Holds(m[k], n, d) <=> (\E p \in 1 .. k : chain[p] = d) \/ Holds(bs, n, d)}
    OBVIOUS
  <1>8. 0 \in T
    <2>1. m[0] = bs
      BY <1>1, <1>5
    <2> QED
      BY <1>7, <2>1
  <1>9. ASSUME NEW k \in Nat, k \in T PROVE k + 1 \in T
    <2>1. SUFFICES ASSUME k + 1 <= N
                   PROVE  /\ Table(m[k + 1], n)
                          /\ \A d : Holds(m[k + 1], n, d) <=>
                                       (\E p \in 1 .. k + 1 : chain[p] = d) \/ Holds(bs, n, d)
      BY <1>7
    <2>2. k <= N /\ k + 1 \in 1 .. N /\ k + 1 \in 0 .. N /\ k + 1 # 0 /\ (k + 1) - 1 = k
      BY <1>1, <2>1
    <2>3. /\ Table(m[k], n)
          /\ \A d : Holds(m[k], n, d) <=> (\E p \in 1 .. k : chain[p] = d) \/ Holds(bs, n, d)
      BY <1>7, <1>9, <2>2
    <2>4. PICK e : e = chain[k + 1]
      OBVIOUS
    <2>5. e \in Pairs /\ e[1] \in Keys
      BY <1>1, <2>2, <2>4 DEF Pairs
    <2>6. m[k + 1] = H!Linked(m[k], n, e)
      BY <1>5, <2>2, <2>4
    <2>7. ~HasKey(m[k], n, e[1])
      <3>1. SUFFICES ASSUME NEW v \in Values, Holds(m[k], n, <<e[1], v>>) PROVE FALSE
        BY <2>3, <2>5, KeyOfEntry
      <3>2. CASE Holds(bs, n, <<e[1], v>>)
        <4>1. HasKey(bs, n, e[1])
          BY <2>5, <3>2, KeyOfEntry
        <4> QED
          BY <1>1, <2>2, <2>4, <4>1 DEF Apart
      <3>3. CASE \E p \in 1 .. k : chain[p] = <<e[1], v>>
        <4>1. PICK p \in 1 .. k : chain[p] = <<e[1], v>>
          BY <3>3
        <4>2. p \in 1 .. N /\ p # k + 1 /\ chain[p][1] = chain[k + 1][1]
          BY <1>1, <2>1, <2>4, <4>1
        <4> QED
          BY <1>1, <2>2, <4>2
      <3> QED
        BY <2>3, <3>1, <3>2, <3>3
    <2>8. /\ Table(m[k + 1], n)
          /\ \A d : Holds(m[k + 1], n, d) <=> d = e \/ Holds(m[k], n, d)
      BY <2>3, <2>5, <2>6, <2>7, LinkedFacts
    <2>9. ASSUME NEW d
          PROVE  (\E p \in 1 .. k + 1 : chain[p] = d) <=> d = e \/ \E p \in 1 .. k : chain[p] = d
      <3>1. \A p : p \in 1 .. k + 1 <=> p \in 1 .. k \/ p = k + 1
        OBVIOUS
      <3> QED
        BY <2>4, <3>1
    <2> QED
      BY <2>3, <2>8, <2>9
  <1>10. N \in T
    BY <1>1, <1>8, <1>9, SetInduction
  <1>11. /\ Table(m[N], n)
         /\ \A d : Holds(m[N], n, d) <=> (\E p \in 1 .. N : chain[p] = d) \/ Holds(bs, n, d)
    BY <1>1, <1>7, <1>10
  <1> QED
    BY <1>1, <1>5, <1>11 DEF Within

\* Growing the array moves entries, and loses, adds and changes none.
LEMMA ResizedFacts ==
    ASSUME NEW n \in Nat \ {0}, _nb \in Nat \ {0}, NEW bs, Table(bs, _nb)
    PROVE  /\ Table(H!Resized(bs, n), n)
           /\ \A d : Holds(H!Resized(bs, n), n, d) <=> Holds(bs, _nb, d)
  <1>1. PICK N : N = _nb /\ N \in Nat \ {0}
    OBVIOUS
  <1>2. PICK none : none = [x \in 0 .. n - 1 |-> <<>>]
    OBVIOUS
  <1>3. bs \in [0 .. N - 1 -> Seq(Pairs)]
    BY <1>1 DEF Table
  <1>4. Table(none, n) /\ none \in Tables(n) /\ \A d : ~Holds(none, n, d)
    <2>1. \A g \in 0 .. n - 1 : none[g] = <<>> /\ Len(none[g]) = 0
      BY <1>2
    <2>2. none \in [0 .. n - 1 -> Seq(Pairs)]
      BY <1>2
    <2> QED
      BY <2>1, <2>2 DEF Table, Tables, Holds, Within
  <1>5. \E f : f = [k \in 0 .. N |-> IF k = 0 THEN none ELSE H!Relinked(bs[k - 1], f[k - 1], n)]
    <2>1. PICK X, F : X = Tables(n) /\ F = [k \in 1 .. N |-> [t \in X |-> H!Relinked(bs[k - 1], t, n)]]
      OBVIOUS
    <2>2. ASSUME NEW k \in 1 .. N, NEW t \in X PROVE H!Relinked(bs[k - 1], t, n) \in X
      <3>1. PICK c : c = bs[k - 1] /\ c \in Seq(Pairs)
        BY <1>1, <1>3
      <3>2. H!Relinked(c, t, n) \in Tables(n)
        BY <2>1, <3>1, RelinkedLoop, SMTT(20)
      <3> QED
        BY <2>1, <3>1, <3>2
    <2>3. F \in [1 .. N -> [X -> X]]
      BY <2>1, <2>2
    <2>4. none \in X
      BY <1>4, <2>1
    <2>5. PICK f \in [0 .. N -> X] : f[0] = none /\ \A k \in 1 .. N : f[k] = F[k][f[k - 1]]
      <3>1. N \in Nat
        BY <1>1
      <3> QED
        BY <2>3, <2>4, <3>1, Recursion
    <2>6. ASSUME NEW k \in 0 .. N
          PROVE  f[k] = IF k = 0 THEN none ELSE H!Relinked(bs[k - 1], f[k - 1], n)
      <3>1. CASE k = 0
        BY <2>5, <3>1
      <3>2. CASE k # 0
        <4>1. k \in 1 .. N /\ k - 1 \in 0 .. N
          BY <1>1, <3>2
        <4>2. f[k - 1] \in X
          BY <2>5, <4>1
        <4>3. F[k][f[k - 1]] = H!Relinked(bs[k - 1], f[k - 1], n)
          BY <2>1, <4>1, <4>2
        <4>4. f[k] = F[k][f[k - 1]]
          BY <2>5, <4>1
        <4> QED
          BY <3>2, <4>3, <4>4
      <3> QED
        BY <3>1, <3>2
    <2>7. f = [k \in 0 .. N |-> IF k = 0 THEN none ELSE H!Relinked(bs[k - 1], f[k - 1], n)]
      BY <2>5, <2>6
    <2> QED
      BY <2>7
  <1>6. PICK m : m = CHOOSE f : f = [k \in 0 .. N |-> IF k = 0 THEN none ELSE H!Relinked(bs[k - 1], f[k - 1], n)]
    OBVIOUS
  <1>7. m = [k \in 0 .. N |-> IF k = 0 THEN none ELSE H!Relinked(bs[k - 1], m[k - 1], n)]
    BY <1>5, <1>6
  <1>8. H!Resized(bs, n) = m[N]
    BY <1>1, <1>2, <1>6 DEF H!Resized
  <1>9. PICK T : T = {k \in Nat : k <= N =>
                        /\ Table(m[k], n)
                        /\ \A d : Holds(m[k], n, d) <=> \E g \in 0 .. k - 1 : Within(bs[g], d)}
    OBVIOUS
  <1>10. 0 \in T
    <2>1. m[0] = none /\ 0 .. 0 - 1 = {}
      BY <1>1, <1>7
    <2> QED
      BY <1>4, <1>9, <2>1
  <1>11. ASSUME NEW k \in Nat, k \in T PROVE k + 1 \in T
    <2>1. SUFFICES ASSUME k + 1 <= N
                   PROVE  /\ Table(m[k + 1], n)
                          /\ \A d : Holds(m[k + 1], n, d) <=> \E g \in 0 .. (k + 1) - 1 : Within(bs[g], d)
      BY <1>9
    <2>2. k <= N /\ k \in 0 .. N - 1 /\ k + 1 \in 0 .. N /\ k + 1 # 0 /\ (k + 1) - 1 = k
      BY <1>1, <2>1
    <2>3. /\ Table(m[k], n)
          /\ \A d : Holds(m[k], n, d) <=> \E g \in 0 .. k - 1 : Within(bs[g], d)
      BY <1>9, <1>11, <2>2
    <2>4. PICK c : c = bs[k] /\ c \in Seq(Pairs)
      BY <1>3, <2>2
    <2>5. m[k + 1] = H!Relinked(c, m[k], n)
      BY <1>7, <2>2, <2>4
    <2>6. \A p, q \in 1 .. Len(c) : c[p][1] = c[q][1] => p = q
      BY <1>1, <2>2, <2>4 DEF Table
    <2>7. Apart(m[k], n, c)
      <3>1. SUFFICES ASSUME NEW p \in 1 .. Len(c), HasKey(m[k], n, c[p][1]) PROVE FALSE
        BY DEF Apart
      <3>2. PICK key : key = c[p][1] /\ key \in Keys
        BY <2>4 DEF Pairs
      <3>3. PICK v \in Values : Holds(m[k], n, <<key, v>>)
        <4>1. HasKey(m[k], n, key) /\ Table(m[k], n)
          BY <2>3, <3>1, <3>2
        <4> QED
          BY <3>2, <4>1, KeyOfEntry
      <3>4. PICK g \in 0 .. k - 1 : Within(bs[g], <<key, v>>)
        BY <2>3, <3>3
      <3>5. PICK q \in 1 .. Len(bs[g]) : bs[g][q] = <<key, v>>
        BY <3>4 DEF Within
      <3>6. g \in 0 .. N - 1 /\ g # k /\ bs[g][q][1] = key
        BY <1>1, <2>2, <3>5
      <3>7. Home(key, N) = g
        BY <1>1, <3>5, <3>6 DEF Table
      <3>8. Home(key, N) = k
        BY <1>1, <2>2, <2>4, <3>2 DEF Table
      <3> QED
        BY <3>6, <3>7, <3>8
    <2>8. /\ Table(m[k + 1], n)
          /\ \A d : Holds(m[k + 1], n, d) <=> Within(c, d) \/ Holds(m[k], n, d)
      BY <2>3, <2>4, <2>5, <2>6, <2>7, RelinkedFacts
    <2>9. \A g : g \in 0 .. (k + 1) - 1 <=> g \in 0 .. k - 1 \/ g = k
      OBVIOUS
    <2> QED
      BY <2>3, <2>4, <2>8, <2>9
  <1>12. N \in T
    BY <1>1, <1>10, <1>11, SetInduction
  <1>13. /\ Table(m[N], n)
         /\ \A d : Holds(m[N], n, d) <=> \E g \in 0 .. N - 1 : Within(bs[g], d)
    BY <1>1, <1>9, <1>12
  <1> QED
    BY <1>1, <1>8, <1>13 DEF Holds

-----------------------------------------------------------------------------
\* MyHash_set of a key that is there, and MyHash_delete.

Replaced(bs, n, key, p, v) == [bs EXCEPT ![Home(key, n)] = [bs[Home(key, n)] EXCEPT ![p] = <<key, v>>]]
Removed(bs, n, key, p)     == [bs EXCEPT ![Home(key, n)] = H!RemoveAt(@, p)]

\* The entries of bs2 are those of bs, and key has the value v.
Gives(bs2, n, bs, m, key, v) ==
    \A k \in Keys : \A w :
       Holds(bs2, n, <<k, w>>) <=> (k = key /\ w = v) \/ (k # key /\ Holds(bs, m, <<k, w>>))

LEMMA ReplacedFacts ==
    ASSUME NEW n \in Nat \ {0}, NEW bs, Table(bs, n), NEW key \in Keys, NEW v \in Values,
           NEW p \in 1 .. Len(bs[Home(key, n)]), bs[Home(key, n)][p][1] = key,
           NEW bs2, bs2 = Replaced(bs, n, key, p, v)
    PROVE  Table(bs2, n) /\ Gives(bs2, n, bs, n, key, v)
  <1>1. PICK h, c, e : h = Home(key, n) /\ c = bs[h] /\ e = <<key, v>>
    OBVIOUS
  <1>2. h \in 0 .. n - 1 /\ e \in Pairs /\ e[1] = key
    BY <1>1, HomeType DEF Pairs
  <1>3. bs \in [0 .. n - 1 -> Seq(Pairs)] /\ c \in Seq(Pairs) /\ p \in 1 .. Len(c) /\ c[p][1] = key
    BY <1>1, <1>2 DEF Table
  <1>4. PICK d : d = [c EXCEPT ![p] = e]
    OBVIOUS
  <1>5. /\ d \in Seq(Pairs) /\ Len(d) = Len(c)
        /\ d[p] = e /\ \A q \in 1 .. Len(c) : q # p => d[q] = c[q]
    BY <1>2, <1>3, <1>4
  <1>6. bs2 = [bs EXCEPT ![h] = d]
    BY <1>1, <1>4 DEF Replaced
  <1>7. bs2 \in [0 .. n - 1 -> Seq(Pairs)] /\ bs2[h] = d /\ \A g \in 0 .. n - 1 : g # h => bs2[g] = bs[g]
    BY <1>2, <1>3, <1>5, <1>6
  <1>8. \A q \in 1 .. Len(c) : d[q][1] = c[q][1]
    <2>1. ASSUME NEW q \in 1 .. Len(c) PROVE d[q][1] = c[q][1]
      <3>1. CASE q = p
        BY <1>2, <1>3, <1>5, <3>1
      <3>2. CASE q # p
        BY <1>5, <3>2
      <3> QED
        BY <3>1, <3>2
    <2> QED
      BY <2>1
  <1>9. ASSUME NEW g \in 0 .. n - 1
        PROVE  Len(bs2[g]) = Len(bs[g]) /\ \A q \in 1 .. Len(bs[g]) : bs2[g][q][1] = bs[g][q][1]
    <2>1. CASE g = h
      BY <1>1, <1>5, <1>7, <1>8, <2>1
    <2>2. CASE g # h
      BY <1>7, <2>2
    <2> QED
      BY <2>1, <2>2
  <1>10. Table(bs2, n)
    <2>1. \A g \in 0 .. n - 1 : \A q \in 1 .. Len(bs2[g]) : Home(bs2[g][q][1], n) = g
      BY <1>9 DEF Table
    <2>2. \A g \in 0 .. n - 1 : \A q, r \in 1 .. Len(bs2[g]) : bs2[g][q][1] = bs2[g][r][1] => q = r
      BY <1>9 DEF Table
    <2> QED
      BY <1>7, <2>1, <2>2 DEF Table
  <1>11. ASSUME NEW k \in Keys, NEW w
         PROVE  Holds(bs2, n, <<k, w>>) <=> (k = key /\ w = v) \/ (k # key /\ Holds(bs, n, <<k, w>>))
    <2>1. /\ Home(k, n) # h => (Holds(bs2, n, <<k, w>>) <=> Holds(bs, n, <<k, w>>))
          /\ Home(k, n) = h => /\ Holds(bs2, n, <<k, w>>) <=> Within(bs2[h], <<k, w>>)
                               /\ Holds(bs, n, <<k, w>>) <=> Within(bs[h], <<k, w>>)
      <3>1. Home(k, n) \in 0 .. n - 1
        BY HomeType
      <3>2. Holds(bs2, n, <<k, w>>) <=> Within(bs2[Home(k, n)], <<k, w>>)
        BY <1>10, KeyAtHome
      <3>3. Holds(bs, n, <<k, w>>) <=> Within(bs[Home(k, n)], <<k, w>>)
        BY KeyAtHome
      <3>4. Home(k, n) # h => bs2[Home(k, n)] = bs[Home(k, n)]
        BY <1>7, <3>1
      <3> QED
        BY <3>2, <3>3, <3>4
    <2>2. CASE Home(k, n) # h
      BY <1>1, <2>1, <2>2
    <2>3. CASE k = key
      <3>1. \A q \in 1 .. Len(d) : d[q] = <<k, w>> => q = p
        <4>1. ASSUME NEW q \in 1 .. Len(d), d[q] = <<k, w>> PROVE q = p
          <5>1. q \in 1 .. Len(c) /\ c[q][1] = c[p][1]
            BY <1>3, <1>5, <1>8, <2>3, <4>1
          <5> QED
            BY <1>1, <1>2, <1>3, <5>1 DEF Table
        <4> QED
          BY <4>1
      <3>2. Within(d, <<k, w>>) <=> d[p] = <<k, w>>
        BY <1>3, <1>5, <3>1 DEF Within
      <3>3. d[p] = <<k, w>> <=> w = v
        BY <1>1, <1>5, <2>3
      <3> QED
        BY <1>1, <1>7, <2>1, <2>3, <3>2, <3>3
    <2>4. CASE k # key /\ Home(k, n) = h
      <3>1. \A q \in 1 .. Len(c) : q = p => d[q] # <<k, w>> /\ c[q] # <<k, w>>
        BY <1>1, <1>3, <1>5, <2>4
      <3>2. Within(d, <<k, w>>) <=> Within(c, <<k, w>>)
        BY <1>5, <3>1 DEF Within
      <3> QED
        BY <1>1, <1>7, <2>1, <2>4, <3>2
    <2> QED
      BY <2>2, <2>3, <2>4
  <1> QED
    BY <1>10, <1>11 DEF Gives

LEMMA RemovedChain ==
    ASSUME NEW X, NEW c \in Seq(X), NEW p \in 1 .. Len(c)
    PROVE  LET d == H!RemoveAt(c, p)
           IN /\ d \in Seq(X) /\ Len(d) = Len(c) - 1
              /\ \A q \in 1 .. Len(c) - 1 : d[q] = IF q < p THEN c[q] ELSE c[q + 1]
  <1>1. PICK u, v, d : u = SubSeq(c, 1, p - 1) /\ v = SubSeq(c, p + 1, Len(c)) /\ d = u \o v
    OBVIOUS
  <1>2. PICK N : N = Len(c) /\ N \in Nat /\ p \in 1 .. N
    OBVIOUS
  <1>3. u \in Seq(X) /\ Len(u) = p - 1 /\ \A q \in 1 .. p - 1 : u[q] = c[q]
    BY <1>1, <1>2
  <1>4. v \in Seq(X) /\ Len(v) = N - p /\ \A q \in 1 .. N - p : v[q] = c[p + q]
    BY <1>1, <1>2
  <1>5. /\ d \in Seq(X) /\ Len(d) = Len(u) + Len(v)
        /\ \A q \in 1 .. Len(u) + Len(v) : d[q] = IF q <= Len(u) THEN u[q] ELSE v[q - Len(u)]
    <2>1. u \in Seq(X) /\ v \in Seq(X)
      BY <1>3, <1>4
    <2> QED
      BY <1>1, <2>1, ConcatProperties
  <1>6. Len(d) = N - 1 /\ \A q \in 1 .. N - 1 : d[q] = IF q <= p - 1 THEN u[q] ELSE v[q - (p - 1)]
    BY <1>2, <1>3, <1>4, <1>5, SMTT(20)
  <1>7. ASSUME NEW q \in 1 .. N - 1 PROVE d[q] = IF q < p THEN c[q] ELSE c[q + 1]
    <2>1. CASE q < p
      <3>1. q <= p - 1 /\ q \in 1 .. p - 1
        BY <1>2, <2>1
      <3> QED
        BY <1>3, <1>6, <2>1, <3>1
    <2>2. CASE ~(q < p)
      <3>1. PICK r : r = q - (p - 1)
        OBVIOUS
      <3>2. ~(q <= p - 1) /\ r \in 1 .. N - p /\ p + r = q + 1
        BY <1>2, <2>2, <3>1
      <3>3. d[q] = v[r]
        BY <1>6, <3>1, <3>2
      <3>4. v[r] = c[p + r]
        BY <1>4, <3>2
      <3> QED
        BY <2>2, <3>2, <3>3, <3>4
    <2> QED
      BY <2>1, <2>2
  <1>8. H!RemoveAt(c, p) = d
    BY <1>1 DEF H!RemoveAt
  <1> QED
    BY <1>2, <1>5, <1>6, <1>7, <1>8

LEMMA DeletedFacts ==
    ASSUME NEW n \in Nat \ {0}, NEW bs, Table(bs, n), NEW key \in Keys,
           NEW p \in 1 .. Len(bs[Home(key, n)]), bs[Home(key, n)][p][1] = key,
           NEW bs2, bs2 = Removed(bs, n, key, p)
    PROVE  /\ Table(bs2, n)
           /\ \A k \in Keys : \A w :
                 Holds(bs2, n, <<k, w>>) <=> k # key /\ Holds(bs, n, <<k, w>>)
  <1>1. PICK h, c, N : h = Home(key, n) /\ c = bs[h] /\ N = Len(c)
    OBVIOUS
  <1>2. h \in 0 .. n - 1
    BY <1>1, HomeType
  <1>3. bs \in [0 .. n - 1 -> Seq(Pairs)] /\ c \in Seq(Pairs) /\ p \in 1 .. N /\ c[p][1] = key /\ N \in Nat
    BY <1>1, <1>2 DEF Table
  <1>4. PICK d : d = H!RemoveAt(c, p)
    OBVIOUS
  <1>5. d \in Seq(Pairs) /\ Len(d) = N - 1 /\ \A q \in 1 .. N - 1 : d[q] = IF q < p THEN c[q] ELSE c[q + 1]
    <2>1. c \in Seq(Pairs) /\ p \in 1 .. Len(c)
      BY <1>1, <1>3
    <2>2. /\ d \in Seq(Pairs) /\ Len(d) = Len(c) - 1
          /\ \A q \in 1 .. Len(c) - 1 : d[q] = IF q < p THEN c[q] ELSE c[q + 1]
      BY <1>4, <2>1, RemovedChain
    <2> QED
      BY <1>1, <2>2
  <1>6. PICK pl : pl = [q \in 1 .. N - 1 |-> IF q < p THEN q ELSE q + 1]
    OBVIOUS
  <1>7. ASSUME NEW q \in 1 .. N - 1 PROVE pl[q] \in 1 .. N /\ pl[q] # p /\ d[q] = c[pl[q]]
    <2>1. pl[q] = IF q < p THEN q ELSE q + 1
      BY <1>6
    <2>2. q \in Nat /\ q >= 1 /\ q <= N - 1
      BY <1>3
    <2>3. pl[q] \in 1 .. N /\ pl[q] # p
      BY <1>3, <2>1, <2>2
    <2> QED
      BY <1>5, <2>1, <2>3
  <1>8. ASSUME NEW q \in 1 .. N - 1, NEW r \in 1 .. N - 1, pl[q] = pl[r] PROVE q = r
    <2>1. q \in Nat /\ r \in Nat /\ p \in Nat
      BY <1>3
    <2>2. (IF q < p THEN q ELSE q + 1) = (IF r < p THEN r ELSE r + 1)
      BY <1>6, <1>8
    <2> QED
      BY <2>1, <2>2
  <1>9. ASSUME NEW r \in 1 .. N, r # p PROVE \E q \in 1 .. N - 1 : pl[q] = r
    <2>1. CASE r < p
      <3>1. r \in 1 .. N - 1
        BY <1>3, <2>1
      <3> QED
        BY <1>6, <2>1, <3>1
    <2>2. CASE ~(r < p)
      <3>1. r - 1 \in 1 .. N - 1 /\ ~(r - 1 < p) /\ (r - 1) + 1 = r
        BY <1>3, <1>9, <2>2
      <3> QED
        BY <1>6, <3>1
    <2> QED
      BY <2>1, <2>2
  <1>10. bs2 = [bs EXCEPT ![h] = d]
    BY <1>1, <1>4 DEF Removed
  <1>11. bs2 \in [0 .. n - 1 -> Seq(Pairs)] /\ bs2[h] = d /\ \A g \in 0 .. n - 1 : g # h => bs2[g] = bs[g]
    BY <1>2, <1>3, <1>5, <1>10
  <1>12. \A q, r \in 1 .. N : c[q][1] = c[r][1] => q = r
    BY <1>1, <1>2 DEF Table
  <1>13. Table(bs2, n)
    <2>1. ASSUME NEW g \in 0 .. n - 1, NEW q \in 1 .. Len(bs2[g]) PROVE Home(bs2[g][q][1], n) = g
      <3>1. CASE g # h
        BY <1>11, <3>1 DEF Table
      <3>2. CASE g = h
        <4>1. q \in 1 .. N - 1 /\ bs2[g][q] = d[q]
          BY <1>5, <1>11, <3>2
        <4>2. d[q] = c[pl[q]] /\ pl[q] \in 1 .. N
          BY <1>7, <4>1
        <4>3. \A r \in 1 .. N : Home(c[r][1], n) = h
          BY <1>1, <1>2 DEF Table
        <4> QED
          BY <3>2, <4>1, <4>2, <4>3
      <3> QED
        BY <3>1, <3>2
    <2>2. ASSUME NEW g \in 0 .. n - 1, NEW q \in 1 .. Len(bs2[g]), NEW r \in 1 .. Len(bs2[g]),
                 bs2[g][q][1] = bs2[g][r][1]
          PROVE  q = r
      <3>1. CASE g # h
        BY <1>11, <2>2, <3>1, SMTT(20) DEF Table
      <3>2. CASE g = h
        <4>1. q \in 1 .. N - 1 /\ r \in 1 .. N - 1 /\ d[q][1] = d[r][1]
          BY <1>5, <1>11, <2>2, <3>2
        <4>2. d[q] = c[pl[q]] /\ pl[q] \in 1 .. N
          BY <1>7, <4>1
        <4>3. d[r] = c[pl[r]] /\ pl[r] \in 1 .. N
          BY <1>7, <4>1
        <4>4. pl[q] = pl[r]
          BY <1>12, <4>1, <4>2, <4>3
        <4> QED
          BY <1>8, <4>1, <4>4
      <3> QED
        BY <3>1, <3>2
    <2> QED
      BY <1>11, <2>1, <2>2 DEF Table
  <1>14. ASSUME NEW k \in Keys, NEW w
         PROVE  Holds(bs2, n, <<k, w>>) <=> k # key /\ Holds(bs, n, <<k, w>>)
    <2>1. /\ Home(k, n) # h => (Holds(bs2, n, <<k, w>>) <=> Holds(bs, n, <<k, w>>))
          /\ Home(k, n) = h => /\ Holds(bs2, n, <<k, w>>) <=> Within(bs2[h], <<k, w>>)
                               /\ Holds(bs, n, <<k, w>>) <=> Within(bs[h], <<k, w>>)
      <3>1. Home(k, n) \in 0 .. n - 1
        BY HomeType
      <3>2. Holds(bs2, n, <<k, w>>) <=> Within(bs2[Home(k, n)], <<k, w>>)
        BY <1>13, KeyAtHome
      <3>3. Holds(bs, n, <<k, w>>) <=> Within(bs[Home(k, n)], <<k, w>>)
        BY KeyAtHome
      <3>4. Home(k, n) # h => bs2[Home(k, n)] = bs[Home(k, n)]
        BY <1>11, <3>1
      <3> QED
        BY <3>2, <3>3, <3>4
    <2>2. CASE Home(k, n) # h
      BY <1>1, <2>1, <2>2
    <2>3. CASE Home(k, n) = h
      <3>1. ASSUME Within(d, <<k, w>>) PROVE k # key /\ Within(c, <<k, w>>)
        <4>1. PICK q \in 1 .. N - 1 : d[q] = <<k, w>>
          BY <1>5, <3>1 DEF Within
        <4>2. pl[q] \in 1 .. N /\ pl[q] # p /\ c[pl[q]] = <<k, w>>
          BY <1>7, <4>1
        <4>3. c[pl[q]][1] = k
          BY <4>2
        <4>4. k # key
          BY <1>3, <1>12, <4>2, <4>3
        <4> QED
          BY <1>1, <4>2, <4>4 DEF Within
      <3>2. ASSUME k # key, Within(c, <<k, w>>) PROVE Within(d, <<k, w>>)
        <4>1. PICK r \in 1 .. N : c[r] = <<k, w>>
          BY <1>1, <3>2 DEF Within
        <4>2. r # p
          BY <1>3, <3>2, <4>1
        <4>3. PICK q \in 1 .. N - 1 : pl[q] = r
          BY <1>9, <4>2
        <4>4. d[q] = <<k, w>>
          BY <1>7, <4>1, <4>3
        <4> QED
          BY <1>5, <4>4 DEF Within
      <3> QED
        BY <1>1, <1>11, <2>1, <2>3, <3>1, <3>2
    <2> QED
      BY <2>2, <2>3
  <1> QED
    BY <1>13, <1>14

-----------------------------------------------------------------------------
\* The invariant of the table.

Present == {key \in Keys : HasKey(buckets, _nb, key)}
Sound   == _nb \in Nat \ {0} /\ Table(buckets, _nb)
Counted == IsFiniteSet(Present) /\ _size = Cardinality(Present)

\* The map that the table stands for.
Map == [k \in Keys |-> H!ValueAt(k)]

LEMMA FreshTable ==
    ASSUME NEW n \in Nat \ {0}, NEW none, none = [x \in 0 .. n - 1 |-> <<>>]
    PROVE  Table(none, n) /\ \A key : ~HasKey(none, n, key)
  <1>1. \A g \in 0 .. n - 1 : none[g] = <<>> /\ Len(none[g]) = 0
    OBVIOUS
  <1>2. none \in [0 .. n - 1 -> Seq(Pairs)]
    OBVIOUS
  <1> QED
    BY <1>1, <1>2 DEF Table, HasKey

LEMMA HashInit == H!Init => Sound /\ Counted /\ H!Table!Init
  <1> SUFFICES ASSUME H!Init PROVE Sound /\ Counted /\ H!Table!Init
    OBVIOUS
  <1>1. _nb \in Nat \ {0} /\ buckets = [x \in 0 .. _nb - 1 |-> <<>>] /\ _size = 0 /\ ret = Null
    BY TableAssumption DEF TableAssumption, H!Init
  <1>2. Table(buckets, _nb) /\ \A key : ~HasKey(buckets, _nb, key)
    BY <1>1, FreshTable
  <1>3. Present = {}
    BY <1>2 DEF Present
  <1>4. Counted
    BY <1>1, <1>3, FS_EmptySet DEF Counted
  <1>5. Map = [k \in Keys |-> Null]
    BY <1>1, <1>2, ValueFacts DEF Map
  <1> QED
    BY <1>1, <1>2, <1>4, <1>5 DEF Sound, H!Table!Init, Map

\* What MyHash_get returns depends on the entries, not on where they are.
LEMMA ValueOfEntry ==
    ASSUME Sound, NEW key \in Keys
    PROVE  /\ \A v : Holds(buckets, _nb, <<key, v>>) => H!ValueAt(key) = v /\ key \in Present
           /\ (\A v : ~Holds(buckets, _nb, <<key, v>>)) => H!ValueAt(key) = Null /\ key \notin Present
           /\ H!Place(key) # 0 <=> key \in Present
           /\ key \in Present => Holds(buckets, _nb, <<key, H!ValueAt(key)>>)
  <1>1. _nb \in Nat \ {0} /\ Table(buckets, _nb)
    BY DEF Sound
  <1>2. /\ \A v : Holds(buckets, _nb, <<key, v>>) => H!ValueAt(key) = v
        /\ ~HasKey(buckets, _nb, key) => H!ValueAt(key) = Null
        /\ H!Place(key) # 0 <=> HasKey(buckets, _nb, key)
    BY <1>1, ValueFacts
  <1>3. HasKey(buckets, _nb, key) <=> \E v \in Values : Holds(buckets, _nb, <<key, v>>)
    BY <1>1, KeyOfEntry
  <1>4. \A v : Holds(buckets, _nb, <<key, v>>) => HasKey(buckets, _nb, key)
    BY <1>1, KeyOfEntry
  <1>5. key \in Present <=> HasKey(buckets, _nb, key)
    BY DEF Present
  <1> QED
    BY <1>2, <1>3, <1>4, <1>5

LEMMA SameValue ==
    ASSUME Sound, Sound', NEW key \in Keys,
           \A v : Holds(buckets', _nb', <<key, v>>) <=> Holds(buckets, _nb, <<key, v>>)
    PROVE  H!ValueAt(key)' = H!ValueAt(key) /\ (key \in Present' <=> key \in Present)
  <1>1. /\ \A v : Holds(buckets, _nb, <<key, v>>) => H!ValueAt(key) = v /\ key \in Present
        /\ (\A v : ~Holds(buckets, _nb, <<key, v>>)) => H!ValueAt(key) = Null /\ key \notin Present
    BY ValueOfEntry
  <1>2. /\ \A v : Holds(buckets', _nb', <<key, v>>) => H!ValueAt(key)' = v /\ key \in Present'
        /\ (\A v : ~Holds(buckets', _nb', <<key, v>>)) => H!ValueAt(key)' = Null /\ key \notin Present'
    <2>1. (Sound => /\ \A v : Holds(buckets, _nb, <<key, v>>) => H!ValueAt(key) = v /\ key \in Present
                    /\ (\A v : ~Holds(buckets, _nb, <<key, v>>)) =>
                         H!ValueAt(key) = Null /\ key \notin Present)'
      BY ValueOfEntry, PTL
    <2> QED
      BY <2>1
  <1> QED
    BY <1>1, <1>2

LEMMA NewValue ==
    ASSUME Sound', NEW key \in Keys
    PROVE  /\ \A v : Holds(buckets', _nb', <<key, v>>) => H!ValueAt(key)' = v /\ key \in Present'
           /\ (\A v : ~Holds(buckets', _nb', <<key, v>>)) => H!ValueAt(key)' = Null /\ key \notin Present'
  <1>1. (Sound => /\ \A v : Holds(buckets, _nb, <<key, v>>) => H!ValueAt(key) = v /\ key \in Present
                  /\ (\A v : ~Holds(buckets, _nb, <<key, v>>)) =>
                       H!ValueAt(key) = Null /\ key \notin Present)'
    BY ValueOfEntry, PTL
  <1> QED
    BY <1>1

\* MyHash_set and MyHash_delete are those of the map, and count.
LEMMA GivesValue ==
    ASSUME Sound, Counted, Sound', NEW key \in Keys, NEW v \in Values,
           Gives(buckets', _nb', buckets, _nb, key, v),
           _size' = IF key \in Present THEN _size ELSE _size + 1
    PROVE  Map' = [Map EXCEPT ![key] = v] /\ Counted'
  <1>1. H!ValueAt(key)' = v /\ key \in Present'
    <2>1. Holds(buckets', _nb', <<key, v>>)
      BY DEF Gives
    <2> QED
      BY <2>1, NewValue
  <1>2. ASSUME NEW k \in Keys, k # key
        PROVE  H!ValueAt(k)' = H!ValueAt(k) /\ (k \in Present' <=> k \in Present)
    <2>1. \A w : Holds(buckets', _nb', <<k, w>>) <=> Holds(buckets, _nb, <<k, w>>)
      BY <1>2 DEF Gives
    <2> QED
      BY <2>1, SameValue
  <1>3. Map' = [Map EXCEPT ![key] = v]
    BY <1>1, <1>2 DEF Map
  <1>4. Present' = Present \cup {key}
    BY <1>1, <1>2 DEF Present
  <1>5. Counted'
    BY <1>4, FS_AddElement DEF Counted
  <1> QED
    BY <1>3, <1>5

LEMMA TakesValue ==
    ASSUME Sound, Counted, Sound', NEW key \in Keys,
           \A k \in Keys : \A w :
              Holds(buckets', _nb', <<k, w>>) <=> k # key /\ Holds(buckets, _nb, <<k, w>>),
           _size' = IF key \in Present THEN _size - 1 ELSE _size
    PROVE  Map' = [Map EXCEPT ![key] = Null] /\ Counted'
  <1>1. H!ValueAt(key)' = Null /\ key \notin Present'
    <2>1. \A w : ~Holds(buckets', _nb', <<key, w>>)
      OBVIOUS
    <2> QED
      BY <2>1, NewValue
  <1>2. ASSUME NEW k \in Keys, k # key
        PROVE  H!ValueAt(k)' = H!ValueAt(k) /\ (k \in Present' <=> k \in Present)
    <2>1. \A w : Holds(buckets', _nb', <<k, w>>) <=> Holds(buckets, _nb, <<k, w>>)
      BY <1>2
    <2> QED
      BY <2>1, SameValue
  <1>3. Map' = [Map EXCEPT ![key] = Null]
    BY <1>1, <1>2 DEF Map
  <1>4. Present' = Present \ {key}
    BY <1>1, <1>2 DEF Present
  <1>5. Counted'
    BY <1>4, FS_RemoveElement DEF Counted
  <1> QED
    BY <1>3, <1>5

\* A step of the map.
MapStep == [H!Table!Get \/ H!Table!Set \/ H!Table!Delete]_<<Map, ret>>

LEMMA UnchangedStep ==
    ASSUME Sound, Counted, UNCHANGED <<_nb, _size, buckets>>
    PROVE  Sound' /\ Counted' /\ Map' = Map
  <1>1. Sound' /\ Counted'
    BY DEF Sound, Counted, Present
  <1>2. \A k \in Keys : H!ValueAt(k)' = H!ValueAt(k)
    BY <1>1, SameValue
  <1> QED
    BY <1>1, <1>2 DEF Map

LEMMA GetStep ==
    ASSUME Sound, Counted, NEW key \in Keys, H!Get(key)
    PROVE  Sound' /\ Counted' /\ MapStep
  <1>1. Sound' /\ Counted' /\ Map' = Map
    BY UnchangedStep DEF H!Get
  <1>2. ret' = Map[key]
    BY DEF H!Get, Map
  <1>3. H!Table!Get
    BY <1>1, <1>2 DEF H!Table!Get, Map
  <1> QED
    BY <1>1, <1>3 DEF MapStep

LEMMA SetOldStep ==
    ASSUME Sound, Counted, NEW key \in Keys, NEW v \in Values, H!SetOld(key, v)
    PROVE  Sound' /\ Counted' /\ MapStep
  <1>1. _nb \in Nat \ {0} /\ Table(buckets, _nb)
    BY DEF Sound
  <1>2. PICK h, p : h = Home(key, _nb) /\ p = H!Place(key)
    OBVIOUS
  <1>3. p # 0 /\ p \in 1 .. Len(buckets[h]) /\ buckets[h][p][1] = key
    BY <1>1, <1>2, PlaceFacts DEF H!SetOld
  <1>4. buckets' = [buckets EXCEPT ![h] = [buckets[h] EXCEPT ![p] = <<key, v>>]]
    BY <1>2 DEF H!SetOld, Home
  <1>5. _nb' = _nb /\ _size' = _size /\ ret' = H!ValueAt(key)
    BY DEF H!SetOld
  <1>6. Table(buckets', _nb) /\ Gives(buckets', _nb, buckets, _nb, key, v)
    <2>1. PICK bs, bs2 : bs = buckets /\ bs2 = buckets'
      OBVIOUS
    <2>2. /\ Table(bs, _nb) /\ p \in 1 .. Len(bs[Home(key, _nb)]) /\ bs[Home(key, _nb)][p][1] = key
          /\ bs2 = Replaced(bs, _nb, key, p, v)
      BY <1>1, <1>2, <1>3, <1>4, <2>1 DEF Replaced
    <2>3. Table(bs2, _nb) /\ Gives(bs2, _nb, bs, _nb, key, v)
      BY <1>1, <2>2, ReplacedFacts
    <2> QED
      BY <2>1, <2>3
  <1>7. Sound'
    BY <1>1, <1>5, <1>6 DEF Sound
  <1>8. key \in Present
    BY <1>2, <1>3, ValueOfEntry
  <1>9. Map' = [Map EXCEPT ![key] = v] /\ Counted'
    BY <1>5, <1>6, <1>7, <1>8, GivesValue
  <1>10. H!Table!Set
    BY <1>5, <1>9 DEF H!Table!Set, Map
  <1> QED
    BY <1>7, <1>9, <1>10 DEF MapStep

LEMMA SetNewStep ==
    ASSUME Sound, Counted, NEW key \in Keys, NEW v \in Values, H!SetNew(key, v)
    PROVE  Sound' /\ Counted' /\ MapStep
  <1>1. _nb \in Nat \ {0} /\ Table(buckets, _nb)
    BY DEF Sound
  <1>2. H!Place(key) = 0 /\ ret' = Null /\ _size' = _size + 1
    BY DEF H!SetNew
  <1>3. key \notin Present /\ ~HasKey(buckets, _nb, key)
    BY <1>2, ValueOfEntry DEF Present
  <1>4. PICK e : e = <<key, v>> /\ e \in Pairs /\ e[1] = key
    <2>1. <<key, v>> \in Pairs /\ <<key, v>>[1] = key
      BY DEF Pairs
    <2> QED
      BY <2>1
  <1>5. PICK more : more = H!Linked(buckets, _nb, e)
    OBVIOUS
  <1>6. Table(more, _nb) /\ \A d : Holds(more, _nb, d) <=> d = e \/ Holds(buckets, _nb, d)
    BY <1>1, <1>3, <1>4, <1>5, LinkedFacts
  <1>7. \/ _nb' = _nb /\ buckets' = more
        \/ _nb' = _nb * 2 /\ buckets' = H!Resized(more, _nb * 2)
    BY <1>4, <1>5 DEF H!SetNew
  <1>8. /\ _nb' \in Nat \ {0} /\ Table(buckets', _nb')
        /\ \A d : Holds(buckets', _nb', d) <=> d = e \/ Holds(buckets, _nb, d)
    <2>1. CASE _nb' = _nb /\ buckets' = more
      BY <1>1, <1>6, <2>1
    <2>2. CASE _nb' = _nb * 2 /\ buckets' = H!Resized(more, _nb * 2)
      <3>1. PICK n : n = _nb * 2 /\ n \in Nat \ {0}
        BY <1>1
      <3>2. /\ Table(H!Resized(more, n), n)
            /\ \A d : Holds(H!Resized(more, n), n, d) <=> Holds(more, _nb, d)
        BY <1>1, <1>6, <3>1, ResizedFacts
      <3> QED
        BY <1>6, <2>2, <3>1, <3>2
    <2> QED
      BY <1>7, <2>1, <2>2
  <1>9. Sound'
    BY <1>8 DEF Sound
  <1>10. \A w : ~Holds(buckets, _nb, <<key, w>>)
    BY <1>3, ValueOfEntry
  <1>11. Gives(buckets', _nb', buckets, _nb, key, v)
    <2>1. ASSUME NEW k \in Keys, NEW w
          PROVE  Holds(buckets', _nb', <<k, w>>) <=> (k = key /\ w = v) \/ (k # key /\ Holds(buckets, _nb, <<k, w>>))
      <3>1. <<k, w>> = e <=> k = key /\ w = v
        BY <1>4
      <3> QED
        BY <1>8, <1>10, <3>1
    <2> QED
      BY <2>1 DEF Gives
  <1>12. Map' = [Map EXCEPT ![key] = v] /\ Counted'
    BY <1>2, <1>3, <1>9, <1>11, GivesValue
  <1>13. ret' = Map[key]
    BY <1>2, <1>10, ValueOfEntry DEF Map
  <1>14. H!Table!Set
    BY <1>12, <1>13 DEF H!Table!Set, Map
  <1> QED
    BY <1>9, <1>12, <1>14 DEF MapStep

LEMMA DeleteStep ==
    ASSUME Sound, Counted, NEW key \in Keys, H!Delete(key)
    PROVE  Sound' /\ Counted' /\ MapStep
  <1>1. _nb \in Nat \ {0} /\ Table(buckets, _nb)
    BY DEF Sound
  <1>2. PICK h, p : h = Home(key, _nb) /\ p = H!Place(key)
    OBVIOUS
  <1>3. _nb' = _nb /\ ret' = H!ValueAt(key)
    BY DEF H!Delete
  <1>4. p # 0 <=> key \in Present
    BY <1>2, ValueOfEntry
  <1>5. /\ Sound' /\ _size' = IF key \in Present THEN _size - 1 ELSE _size
        /\ \A k \in Keys : \A w :
              Holds(buckets', _nb', <<k, w>>) <=> k # key /\ Holds(buckets, _nb, <<k, w>>)
    <2>1. CASE p = 0
      <3>1. UNCHANGED <<_size, buckets, _nb>>
        BY <1>2, <2>1 DEF H!Delete
      <3>2. \A w : ~Holds(buckets, _nb, <<key, w>>)
        BY <1>4, <2>1, ValueOfEntry
      <3> QED
        BY <1>4, <2>1, <3>1, <3>2 DEF Sound
    <2>2. CASE p # 0
      <3>1. p \in 1 .. Len(buckets[h]) /\ buckets[h][p][1] = key
        BY <1>1, <1>2, <2>2, PlaceFacts
      <3>2. _size' = _size - 1 /\ buckets' = [buckets EXCEPT ![h] = H!RemoveAt(@, p)]
        BY <1>2, <2>2 DEF H!Delete, Home
      <3>3. /\ Table(buckets', _nb)
            /\ \A k \in Keys : \A w :
                  Holds(buckets', _nb, <<k, w>>) <=> k # key /\ Holds(buckets, _nb, <<k, w>>)
        <4>1. PICK bs, bs2 : bs = buckets /\ bs2 = buckets'
          OBVIOUS
        <4>2. /\ Table(bs, _nb) /\ p \in 1 .. Len(bs[Home(key, _nb)]) /\ bs[Home(key, _nb)][p][1] = key
              /\ bs2 = Removed(bs, _nb, key, p)
          BY <1>1, <1>2, <3>1, <3>2, <4>1 DEF Removed
        <4>3. /\ Table(bs2, _nb)
              /\ \A k \in Keys : \A w : Holds(bs2, _nb, <<k, w>>) <=> k # key /\ Holds(bs, _nb, <<k, w>>)
          BY <1>1, <4>2, DeletedFacts
        <4> QED
          BY <4>1, <4>3
      <3> QED
        BY <1>1, <1>3, <1>4, <2>2, <3>2, <3>3 DEF Sound
    <2> QED
      BY <2>1, <2>2
  <1>6. Map' = [Map EXCEPT ![key] = Null] /\ Counted'
    BY <1>5, TakesValue
  <1>7. H!Table!Delete
    BY <1>3, <1>6 DEF H!Table!Delete, Map
  <1> QED
    BY <1>5, <1>6, <1>7 DEF MapStep

-----------------------------------------------------------------------------
\* MyHash_iterate and MyHash_next.

\* The keys of the entries before a place: in a bucket before g, or in bucket g
\* before place p of the chain.
Before(g, p) ==
    {key \in Keys : \E h \in 0 .. _nb - 1 : \E q \in 1 .. Len(buckets[h]) :
                       buckets[h][q][1] = key /\ (h < g \/ (h = g /\ q < p))}

\* Every one of S once.
MetOnce(keys, S) ==
    /\ keys \in Seq(Keys) /\ H!ToSet(keys) = S
    /\ IsFiniteSet(S) /\ Len(keys) = Cardinality(S)

\* The iterator has been at all entries up to the one where it is.
Underway ==
    \/ iter = H!Rest /\ visited = <<>>
    \/ iter = H!Rest /\ MetOnce(visited, Present)
    \/ \E g \in 0 .. _nb - 1 : \E p \in 1 .. Len(buckets[g]) :
          iter = [bucket |-> g, at |-> p] /\ MetOnce(visited, Before(g, p + 1))

LEMMA MeetsAnother ==
    ASSUME NEW keys, NEW S, MetOnce(keys, S), NEW key \in Keys, key \notin S
    PROVE  MetOnce(Append(keys, key), S \cup {key})
  <1>1. PICK more : more = Append(keys, key)
    OBVIOUS
  <1>2. keys \in Seq(Keys) /\ S = {keys[q] : q \in 1 .. Len(keys)} /\ Len(keys) \in Nat
    BY DEF MetOnce, H!ToSet
  <1>3. /\ more \in Seq(Keys) /\ Len(more) = Len(keys) + 1
        /\ \A q \in 1 .. Len(keys) : more[q] = keys[q]
        /\ more[Len(keys) + 1] = key
    BY <1>1, <1>2
  <1>4. \A q : q \in 1 .. Len(more) <=> q \in 1 .. Len(keys) \/ q = Len(keys) + 1
    BY <1>2, <1>3
  <1>5. {more[q] : q \in 1 .. Len(more)} = S \cup {key}
    BY <1>2, <1>3, <1>4
  <1>6. H!ToSet(more) = S \cup {key}
    BY <1>3, <1>5 DEF H!ToSet
  <1>7. IsFiniteSet(S \cup {key}) /\ Cardinality(S \cup {key}) = Cardinality(S) + 1
    BY FS_AddElement DEF MetOnce
  <1>8. Len(keys) = Cardinality(S)
    BY DEF MetOnce
  <1> QED
    BY <1>1, <1>3, <1>6, <1>7, <1>8 DEF MetOnce

\* No entry is met a second time.
LEMMA MeetsNew ==
    ASSUME Sound, NEW g \in 0 .. _nb - 1, NEW p \in 1 .. Len(buckets[g])
    PROVE  LET key == buckets[g][p][1]
           IN key \in Keys /\ key \notin Before(g, p) /\ Before(g, p + 1) = Before(g, p) \cup {key}
  <1>1. PICK key : key = buckets[g][p][1]
    OBVIOUS
  <1>2. _nb \in Nat \ {0} /\ Table(buckets, _nb)
    BY DEF Sound
  <1>3. buckets[g] \in Seq(Pairs) /\ p \in Nat /\ g \in Nat
    BY <1>2 DEF Table
  <1>4. key \in Keys
    <2>1. buckets[g][p] \in Pairs
      BY <1>3
    <2> QED
      BY <1>1, <2>1 DEF Pairs
  <1>5. ASSUME NEW h \in 0 .. _nb - 1, NEW q \in 1 .. Len(buckets[h]), buckets[h][q][1] = key
        PROVE  h = g /\ q = p
    <2>1. Home(key, _nb) = h
      BY <1>2, <1>5 DEF Table
    <2>2. Home(key, _nb) = g
      BY <1>1, <1>2 DEF Table
    <2>3. h = g
      BY <2>1, <2>2
    <2> QED
      BY <1>1, <1>2, <1>5, <2>3 DEF Table
  <1>6. key \notin Before(g, p)
    BY <1>3, <1>5 DEF Before
  <1>7. ASSUME NEW h \in 0 .. _nb - 1, NEW q \in 1 .. Len(buckets[h])
        PROVE  (h < g \/ (h = g /\ q < p + 1)) <=> (h < g \/ (h = g /\ q < p)) \/ (h = g /\ q = p)
    <2>1. buckets[h] \in Seq(Pairs)
      BY <1>2 DEF Table
    <2>2. q \in Nat
      BY <2>1
    <2> QED
      BY <1>3, <2>2
  <1>8. ASSUME NEW k \in Keys
        PROVE  k \in Before(g, p + 1) <=> k \in Before(g, p) \cup {key}
    <2>1. k \in Before(g, p + 1) <=>
             \/ k \in Before(g, p)
             \/ \E h \in 0 .. _nb - 1 : \E q \in 1 .. Len(buckets[h]) :
                   buckets[h][q][1] = k /\ h = g /\ q = p
      BY <1>7 DEF Before
    <2>2. (\E h \in 0 .. _nb - 1 : \E q \in 1 .. Len(buckets[h]) :
                   buckets[h][q][1] = k /\ h = g /\ q = p) <=> k = key
      BY <1>1
    <2> QED
      BY <2>1, <2>2
  <1>9. Before(g, p + 1) \subseteq Keys /\ Before(g, p) \cup {key} \subseteq Keys
    BY <1>4 DEF Before
  <1>10. Before(g, p + 1) = Before(g, p) \cup {key}
    BY <1>8, <1>9
  <1> QED
    BY <1>1, <1>4, <1>6, <1>10

\* From the end of a chain to the start of the next one.
LEMMA EndOfChain ==
    ASSUME Sound, NEW g \in 0 .. _nb - 1
    PROVE  Before(g, Len(buckets[g]) + 1) = Before(g + 1, 1)
  <1>1. _nb \in Nat \ {0} /\ Table(buckets, _nb)
    BY DEF Sound
  <1>2. ASSUME NEW h \in 0 .. _nb - 1, NEW q \in 1 .. Len(buckets[h])
        PROVE  (h < g \/ (h = g /\ q < Len(buckets[g]) + 1)) <=> (h < g + 1 \/ (h = g + 1 /\ q < 1))
    <2>1. buckets[h] \in Seq(Pairs) /\ Len(buckets[h]) \in Nat
      BY <1>1 DEF Table
    <2>2. q \in Nat /\ q >= 1 /\ q <= Len(buckets[h]) /\ h \in Nat /\ g \in Nat
      BY <1>1, <2>1
    <2>3. CASE h = g
      BY <2>1, <2>2, <2>3
    <2>4. CASE h # g
      BY <2>2, <2>4
    <2> QED
      BY <2>3, <2>4
  <1> QED
    BY <1>2 DEF Before

\* What MyHash_next and MyHash_iterate look for.
LEMMA FirstFromFacts ==
    ASSUME Sound, NEW n \in 0 .. _nb
    PROVE  \/ H!FirstFrom(n) = H!Rest /\ Before(n, 1) = Present
           \/ \E g \in 0 .. _nb - 1 : /\ 1 \in 1 .. Len(buckets[g])
                                      /\ H!FirstFrom(n) = [bucket |-> g, at |-> 1]
                                      /\ Before(g, 1) = Before(n, 1)
  <1>1. _nb \in Nat \ {0} /\ Table(buckets, _nb)
    BY DEF Sound
  <1>2. PICK used : used = {g \in n .. _nb - 1 : buckets[g] # <<>>}
    OBVIOUS
  <1>3. H!FirstFrom(n) =
           IF used = {} THEN H!Rest
           ELSE [bucket |-> CHOOSE g \in used : \A k \in used : g <= k, at |-> 1]
    BY <1>2 DEF H!FirstFrom
  <1>4. ASSUME NEW h \in 0 .. _nb - 1
        PROVE  buckets[h] \in Seq(Pairs) /\ Len(buckets[h]) \in Nat /\ (buckets[h] = <<>> <=> Len(buckets[h]) = 0)
    <2>1. buckets[h] \in Seq(Pairs)
      BY <1>1 DEF Table
    <2> QED
      BY <2>1, EmptySeq
  <1>5. ASSUME NEW h \in 0 .. _nb - 1, NEW q \in 1 .. Len(buckets[h])
        PROVE  buckets[h] # <<>> /\ q \in Nat /\ q >= 1 /\ h \in Nat
    BY <1>1, <1>4
  <1>6. CASE used = {}
    <2>1. ASSUME NEW h \in 0 .. _nb - 1, NEW q \in 1 .. Len(buckets[h])
          PROVE  h < n
      BY <1>1, <1>2, <1>5, <1>6
    <2>2. Before(n, 1) = Present
      BY <2>1 DEF Before, Present, HasKey
    <2> QED
      BY <1>3, <1>6, <2>2
  <1>7. CASE used # {}
    <2>1. used \subseteq Nat
      BY <1>1, <1>2
    <2>2. \E g \in used : \A k \in used : g <= k
      BY <1>7, <2>1, SmallestNat
    <2>3. PICK g : g = CHOOSE x \in used : \A k \in used : x <= k
      OBVIOUS
    <2>4. g \in used /\ \A k \in used : g <= k
      BY <2>2, <2>3
    <2>5. g \in 0 .. _nb - 1 /\ g \in Nat /\ n <= g /\ buckets[g] # <<>>
      BY <1>1, <1>2, <2>4
    <2>6. 1 \in 1 .. Len(buckets[g])
      BY <1>4, <2>5
    <2>7. ASSUME NEW h \in 0 .. _nb - 1, NEW q \in 1 .. Len(buckets[h])
          PROVE  (h < g \/ (h = g /\ q < 1)) <=> (h < n \/ (h = n /\ q < 1))
      <3>1. h < n \/ h \in used
        BY <1>1, <1>2, <1>5
      <3>2. h < n \/ g <= h
        BY <2>4, <3>1
      <3> QED
        BY <1>1, <1>5, <2>5, <3>2
    <2>8. Before(g, 1) = Before(n, 1)
      BY <2>7 DEF Before
    <2> QED
      BY <1>3, <1>7, <2>3, <2>5, <2>6, <2>8
  <1> QED
    BY <1>6, <1>7

\* The iterator goes from one place to another.
LEMMA MovesOn ==
    ASSUME Sound, UNCHANGED <<_nb, buckets>>, NEW g \in 0 .. _nb - 1, NEW p \in 1 .. Len(buckets[g]),
           MetOnce(visited, Before(g, p)), H!Visits([bucket |-> g, at |-> p])
    PROVE  Underway'
  <1>1. PICK key : key = buckets[g][p][1]
    OBVIOUS
  <1>2. key \in Keys /\ key \notin Before(g, p) /\ Before(g, p + 1) = Before(g, p) \cup {key}
    BY <1>1, MeetsNew
  <1>3. p # 0
    OBVIOUS
  <1>4. iter' = [bucket |-> g, at |-> p] /\ visited' = Append(visited, key)
    BY <1>1, <1>3 DEF H!Visits, H!KeyOf
  <1>5. MetOnce(visited', Before(g, p + 1))
    BY <1>2, <1>4, MeetsAnother
  <1>6. Before(g, p + 1)' = Before(g, p + 1)
    BY DEF Before
  <1> QED
    BY <1>4, <1>5, <1>6 DEF Underway

LEMMA GoesTo ==
    ASSUME Sound, UNCHANGED <<_nb, buckets>>, NEW n \in 0 .. _nb,
           MetOnce(visited, Before(n, 1)), H!Visits(H!FirstFrom(n))
    PROVE  Underway'
  <1>1. CASE H!FirstFrom(n) = H!Rest /\ Before(n, 1) = Present
    <2>1. iter' = H!Rest /\ visited' = visited
      BY <1>1 DEF H!Visits, H!Rest
    <2>2. Present' = Present
      BY DEF Present
    <2> QED
      BY <1>1, <2>1, <2>2 DEF Underway, H!Rest
  <1>2. CASE \E g \in 0 .. _nb - 1 : /\ 1 \in 1 .. Len(buckets[g])
                                     /\ H!FirstFrom(n) = [bucket |-> g, at |-> 1]
                                     /\ Before(g, 1) = Before(n, 1)
    <2>1. PICK g \in 0 .. _nb - 1 : /\ 1 \in 1 .. Len(buckets[g])
                                    /\ H!FirstFrom(n) = [bucket |-> g, at |-> 1]
                                    /\ Before(g, 1) = Before(n, 1)
      BY <1>2
    <2> QED
      BY <2>1, MovesOn
  <1> QED
    BY <1>1, <1>2, FirstFromFacts

LEMMA IterateStep ==
    ASSUME Sound, H!Iterate
    PROVE  Underway'
  <1>1. _nb \in Nat \ {0} /\ Table(buckets, _nb) /\ 0 \in 0 .. _nb
    BY DEF Sound
  <1>2. Before(0, 1) = {}
    <2>1. ASSUME NEW h \in 0 .. _nb - 1, NEW q \in 1 .. Len(buckets[h])
          PROVE  ~(h < 0 \/ (h = 0 /\ q < 1))
      <3>1. Len(buckets[h]) \in Nat
        BY <1>1 DEF Table
      <3> QED
        BY <1>1, <3>1
    <2> QED
      BY <2>1 DEF Before
  <1>3. visited = <<>> /\ UNCHANGED <<_nb, buckets>> /\ H!Visits(H!FirstFrom(0))
    BY DEF H!Iterate
  <1>4. MetOnce(visited, {})
    <2>1. <<>> \in Seq(Keys) /\ Len(<<>>) = 0 /\ H!ToSet(<<>>) = {}
      BY DEF H!ToSet
    <2> QED
      BY <1>3, <2>1, FS_EmptySet DEF MetOnce
  <1> QED
    BY <1>1, <1>2, <1>3, <1>4, GoesTo

LEMMA NextEntryStep ==
    ASSUME Sound, Underway, H!NextEntry
    PROVE  Underway'
  <1>1. _nb \in Nat \ {0} /\ Table(buckets, _nb)
    BY DEF Sound
  <1>2. iter # H!Rest /\ UNCHANGED <<_nb, buckets>> /\ H!Visits(H!NextPlace)
    BY DEF H!NextEntry
  <1>3. PICK g \in 0 .. _nb - 1 : \E p \in 1 .. Len(buckets[g]) :
           iter = [bucket |-> g, at |-> p] /\ MetOnce(visited, Before(g, p + 1))
    BY <1>2 DEF Underway
  <1>4. PICK p \in 1 .. Len(buckets[g]) :
           iter = [bucket |-> g, at |-> p] /\ MetOnce(visited, Before(g, p + 1))
    BY <1>3
  <1>5. iter.bucket = g /\ iter.at = p
    BY <1>4
  <1>6. PICK N : N = Len(buckets[g]) /\ N \in Nat /\ p \in Nat /\ p <= N /\ p >= 1
    BY <1>1, SMTT(20) DEF Table
  <1>7. CASE p < N
    <2>1. H!NextPlace = [bucket |-> g, at |-> p + 1]
      BY <1>4, <1>5, <1>6, <1>7 DEF H!NextPlace
    <2>2. PICK q : q = p + 1 /\ q \in 1 .. Len(buckets[g])
      BY <1>6, <1>7
    <2> QED
      BY <1>2, <1>4, <2>1, <2>2, MovesOn
  <1>8. CASE p = N
    <2>1. H!NextPlace = H!FirstFrom(g + 1)
      BY <1>5, <1>6, <1>8 DEF H!NextPlace
    <2>2. Before(g, p + 1) = Before(g + 1, 1)
      BY <1>6, <1>8, EndOfChain
    <2>3. PICK n : n = g + 1 /\ n \in 0 .. _nb
      BY <1>1
    <2> QED
      BY <1>2, <1>4, <2>1, <2>2, <2>3, GoesTo
  <1> QED
    BY <1>6, <1>7, <1>8

-----------------------------------------------------------------------------

HashInv == Sound /\ Counted /\ Underway

LEMMA HashStep == HashInv /\ [H!Next]_(H!vars) => HashInv' /\ MapStep
  <1> SUFFICES ASSUME HashInv, [H!Next]_(H!vars) PROVE HashInv' /\ MapStep
    OBVIOUS
  <1> USE DEF HashInv
  <1>1. CASE H!Change
    <2>1. PICK key \in Keys :
             \/ H!Get(key) \/ H!Delete(key)
             \/ \E v \in Values : H!SetOld(key, v) \/ H!SetNew(key, v)
      BY <1>1 DEF H!Change
    <2>2. Sound' /\ Counted' /\ MapStep
      BY <2>1, GetStep, DeleteStep, SetOldStep, SetNewStep
    <2>3. iter = H!Rest /\ iter' = iter /\ visited' = <<>>
      BY <1>1 DEF H!Change
    <2>4. Underway'
      BY <2>3 DEF Underway, H!Rest
    <2> QED
      BY <2>2, <2>4
  <1>2. CASE H!Iterate \/ H!NextEntry
    <2>1. UNCHANGED <<_nb, _size, buckets, ret>>
      BY <1>2 DEF H!Iterate, H!NextEntry
    <2>2. Sound' /\ Counted' /\ Map' = Map
      BY <2>1, UnchangedStep
    <2>3. Underway'
      BY <1>2, IterateStep, NextEntryStep
    <2> QED
      BY <2>1, <2>2, <2>3 DEF MapStep
  <1>3. CASE UNCHANGED H!vars
    <2>1. UNCHANGED <<_nb, _size, buckets, ret, iter, visited>>
      BY <1>3 DEF H!vars
    <2>2. Sound' /\ Counted' /\ Map' = Map
      BY <2>1, UnchangedStep
    <2>3. Present' = Present /\ \A g, p : Before(g, p)' = Before(g, p)
      BY <2>1 DEF Before, Present
    <2>4. Underway'
      BY <2>1, <2>3 DEF Underway
    <2> QED
      BY <2>1, <2>2, <2>4 DEF MapStep
  <1> QED
    BY <1>1, <1>2, <1>3 DEF H!Next

LEMMA HashInvariant == H!Spec => []HashInv
  <1>1. H!Init => HashInv
    BY HashInit DEF HashInv, Underway, H!Init
  <1> QED
    BY <1>1, HashStep, PTL DEF H!Spec

\* The table answers as a finite map does, whatever the hash function and
\* however often the array has doubled (MyHash_get, MyHash_set, MyHash_delete).
THEOREM HashIsMap == H!Spec => HashIsDict
  <1>1. H!Init => H!Table!Init
    BY HashInit
  <1>2. HashInv /\ [H!Next]_(H!vars) => [H!Table!Get \/ H!Table!Set \/ H!Table!Delete]_<<Map, ret>>
    BY HashStep DEF MapStep
  <1> QED
    BY <1>1, <1>2, HashInvariant, PTL DEF H!Spec, HashIsDict, H!IsDict, H!Table!Spec, Map

\* An iteration ends with every entry of the table met, each of them once
\* (MyHash_iterate, MyHash_next).
THEOREM HashMeetsAll == H!Spec => []HashIteratesAll
  <1>1. HashInv => HashIteratesAll
    <2> SUFFICES ASSUME HashInv, iter = H!Rest, visited # <<>>
                 PROVE  /\ H!ToSet(visited) = {k \in Keys : H!Place(k) # 0}
                        /\ Len(visited) = _size
      BY DEF HashIteratesAll, H!IteratesAll
    <2>1. Sound /\ Counted /\ Underway
      BY DEF HashInv
    <2>2. \A g, p : p # 0 => iter # [bucket |-> g, at |-> p]
      BY DEF H!Rest
    <2>3. \A g \in 0 .. _nb - 1 : \A p \in 1 .. Len(buckets[g]) : p # 0
      OBVIOUS
    <2>4. MetOnce(visited, Present)
      BY <2>1, <2>2, <2>3 DEF Underway
    <2>5. Present = {k \in Keys : H!Place(k) # 0}
      <3>1. \A k \in Keys : H!Place(k) # 0 <=> k \in Present
        BY <2>1, ValueOfEntry
      <3>2. Present \subseteq Keys
        BY DEF Present
      <3> QED
        BY <3>1, <3>2
    <2> QED
      BY <2>1, <2>4, <2>5 DEF MetOnce, Counted
  <1> QED
    BY <1>1, HashInvariant, PTL

-----------------------------------------------------------------------------
(* The failure function.                                                   *)

\* The first n letters of d are also those before the one at index k.
Ends(d, n, k) == \A j \in 1 .. n : d[j] = d[k - n + j]

LEMMA EndsWithin ==
    ASSUME NEW d, NEW n \in Nat, NEW m \in Nat, NEW k \in Nat, n <= m, m <= k, Ends(d, m, k)
    PROVE  Ends(d, n, k) <=> Ends(d, n, m)
  <1>1. ASSUME NEW j \in 1 .. n PROVE d[m - n + j] = d[k - n + j]
    <2>1. m - n + j \in 1 .. m /\ k - m + (m - n + j) = k - n + j
      OBVIOUS
    <2>2. d[m - n + j] = d[k - m + (m - n + j)]
      BY <2>1 DEF Ends
    <2> QED
      BY <2>1, <2>2
  <1> QED
    BY <1>1 DEF Ends

LEMMA EndsNext ==
    ASSUME NEW d, NEW n \in Nat, NEW k \in Nat
    PROVE  Ends(d, n + 1, k + 1) <=> Ends(d, n, k) /\ d[n + 1] = d[k + 1]
  <1>1. \A j \in 1 .. n : j \in 1 .. n + 1 /\ (k + 1) - (n + 1) + j = k - n + j
    OBVIOUS
  <1>2. n + 1 \in 1 .. n + 1 /\ (k + 1) - (n + 1) + (n + 1) = k + 1
    OBVIOUS
  <1>3. \A j \in 1 .. n + 1 : j = n + 1 \/ j \in 1 .. n
    OBVIOUS
  <1>4. ASSUME Ends(d, n + 1, k + 1) PROVE Ends(d, n, k) /\ d[n + 1] = d[k + 1]
    <2>1. \A j \in 1 .. n + 1 : d[j] = d[(k + 1) - (n + 1) + j]
      BY <1>4 DEF Ends
    <2>2. d[n + 1] = d[(k + 1) - (n + 1) + (n + 1)]
      BY <1>2, <2>1
    <2>3. \A j \in 1 .. n : d[j] = d[k - n + j]
      BY <1>1, <2>1
    <2> QED
      BY <1>2, <2>2, <2>3 DEF Ends
  <1>5. ASSUME Ends(d, n, k), d[n + 1] = d[k + 1] PROVE Ends(d, n + 1, k + 1)
    <2>1. ASSUME NEW j \in 1 .. n + 1 PROVE d[j] = d[(k + 1) - (n + 1) + j]
      <3>1. CASE j = n + 1
        BY <1>2, <1>5, <3>1
      <3>2. CASE j \in 1 .. n
        <4>1. d[j] = d[k - n + j]
          BY <1>5, <3>2 DEF Ends
        <4> QED
          BY <1>1, <3>2, <4>1
      <3> QED
        BY <1>3, <3>1, <3>2
    <2> QED
      BY <2>1 DEF Ends
  <1> QED
    BY <1>4, <1>5

LEMMA EndsNothing ==
    ASSUME NEW d, NEW k \in Nat PROVE Ends(d, 0, k)
  BY DEF Ends

\* Where to go on after a mismatch at k.
Fallback(n, k) == n \in 0 .. k - 1 /\ Ends(Delim, n, k) /\ Delim[n + 1] # Delim[k + 1]

Good(k) == /\ Failfunc[k] \in 0 .. k
           /\ Failfunc[k] # 0 => Fallback(Failfunc[k] - 1, k)
           /\ \A n \in Nat : Fallback(n, k) => n < Failfunc[k]

SplitTypes ==
    /\ pc \in {"build", "back", "search", "done"}
    /\ Delim \in Seq(Letters) /\ Len(Delim) # 0
    /\ Failfunc \in [0 .. Len(Delim) - 1 -> Int]
    /\ line \in Seq(Letters) /\ arg \in Seq(Letters) /\ tokens \in Seq(Seq(Letters))
    /\ i \in Nat /\ matched \in Nat

Building ==
    pc = "build" =>
        /\ i \in 1 .. Len(Delim) /\ matched \in 1 .. i /\ Ends(Delim, matched - 1, i)
        /\ \A n \in 0 .. i - 1 : Ends(Delim, n, i) => n < matched
        /\ \A k \in 0 .. i - 1 : Good(k)

GoingBack ==
    pc = "back" =>
        /\ i \in 1 .. Len(Delim) - 1 /\ matched \in 0 .. i
        /\ matched > 0 => Ends(Delim, matched - 1, i)
        /\ \A n \in 0 .. i - 1 : Ends(Delim, n, i) /\ Delim[n + 1] = Delim[i + 1] => n < matched
        /\ \A k \in 0 .. i : Good(k)

Failing == pc \in {"search", "done"} => \A k \in 0 .. Len(Delim) - 1 : Good(k)

FInv == SplitTypes /\ Building /\ GoingBack /\ Failing

LEMMA DelimLength ==
    ASSUME SplitTypes
    PROVE  /\ K!DelimLen = Len(Delim) /\ Len(Delim) \in Nat /\ Len(Delim) >= 1
           /\ Delim \in [1 .. Len(Delim) -> Letters]
  <1>1. PICK d : d = Delim
    OBVIOUS
  <1>2. d \in Seq(Letters) /\ Len(d) # 0
    BY <1>1 DEF SplitTypes
  <1>3. Len(d) \in Nat /\ d \in [1 .. Len(d) -> Letters]
    BY <1>2, LenProperties
  <1> QED
    BY <1>1, <1>2, <1>3 DEF K!DelimLen

\* A bounded sequence is a sequence.
LEMMA Bounded ==
    ASSUME NEW N \in Nat, NEW s \in K!BoundedSeq(Letters, N)
    PROVE  s \in Seq(Letters)
  <1>1. PICK m \in 0 .. N : s \in [1 .. m -> Letters]
    BY DEF K!BoundedSeq, K!SeqOf
  <1>2. m \in Nat
    OBVIOUS
  <1> QED
    BY <1>1, <1>2

LEMMA SplitInit ==
    ASSUME K!Init PROVE FInv
  <1>1. Delim \in Seq(Letters) /\ line \in Seq(Letters)
    BY Bounded, SplitAssumption DEF K!Init, SplitAssumption
  <1>2. Delim # <<>>
    BY DEF K!Init
  <1>3. PICK d, L : d = Delim /\ L = Len(Delim)
    OBVIOUS
  <1>4. L \in Nat /\ L # 0
    BY <1>1, <1>2, <1>3, EmptySeq, LenProperties
  <1>5. tokens = <<>> /\ arg = line /\ pc = "build" /\ i = 1 /\ matched = 1
    BY DEF K!Init
  <1>6. tokens \in Seq(Seq(Letters))
    BY <1>5, EmptySeq
  <1>7. Failfunc \in [0 .. L - 1 -> Int] /\ Failfunc[0] = 0
    BY <1>3, <1>4 DEF K!Init, K!DelimLen, K!Unset
  <1>8. SplitTypes
    BY <1>1, <1>3, <1>4, <1>5, <1>6, <1>7 DEF SplitTypes
  <1>9. \A n \in Nat : ~Fallback(n, 0)
    BY DEF Fallback
  <1>10. Good(0)
    BY <1>7, <1>9 DEF Good
  <1>11. Ends(Delim, 0, 1)
    BY EndsNothing
  <1>12. /\ 1 \in 1 .. L /\ 1 \in 1 .. 1 /\ 1 - 1 = 0
         /\ \A n \in 0 .. 1 - 1 : n = 0
    BY <1>4
  <1>13. Building
    BY <1>3, <1>5, <1>10, <1>11, <1>12 DEF Building
  <1> QED
    BY <1>5, <1>8, <1>13 DEF FInv, GoingBack, Failing

\* What is known of Failfunc stays known.
LEMMA GoodSame ==
    ASSUME NEW k, Good(k), Delim' = Delim, Failfunc'[k] = Failfunc[k]
    PROVE  Good(k)'
  BY DEF Good, Fallback

LEMMA StartsAreFallbacks ==
    ASSUME SplitTypes, NEW k \in 0 .. Len(Delim) - 1
    PROVE  \A n : n \in K!Starts(k) <=> Fallback(n, k)
  <1>1. PICK d, L : d = Delim /\ L = Len(Delim)
    OBVIOUS
  <1>2. L \in Nat /\ L >= 1 /\ d \in [1 .. L -> Letters] /\ k \in 0 .. L - 1
    BY <1>1, DelimLength
  <1>3. ASSUME NEW n \in 0 .. k - 1
        PROVE  SubSeq(d, 1, n) = SubSeq(d, k - n + 1, k) <=> Ends(d, n, k)
    <2>1. PICK s, t : s = SubSeq(d, 1, n) /\ t = SubSeq(d, k - n + 1, k)
      OBVIOUS
    <2>2. /\ n \in Nat /\ 1 \in Int /\ n \in Int /\ k - n + 1 \in Int /\ k \in Int
          /\ n - 1 + 1 = n /\ k - (k - n + 1) + 1 = n
          /\ \A x \in 1 .. n : x \in 1 .. L /\ 1 + x - 1 = x
          /\ \A x \in k - n + 1 .. k : x \in 1 .. L
          /\ \A x \in 1 .. n : (k - n + 1) + x - 1 = k - n + x
      BY <1>2
    <2>3. (\A x \in 1 .. n : d[x] \in Letters) /\ (\A x \in k - n + 1 .. k : d[x] \in Letters)
      BY <1>2, <2>2
    <2>4. /\ s \in Seq(Letters) /\ Len(s) = IF 1 <= n THEN n - 1 + 1 ELSE 0
          /\ \A x \in 1 .. n - 1 + 1 : s[x] = d[1 + x - 1]
      BY <2>1, <2>2, <2>3, SubSeqProperties
    <2>5. /\ t \in Seq(Letters)
          /\ Len(t) = IF k - n + 1 <= k THEN k - (k - n + 1) + 1 ELSE 0
          /\ \A x \in 1 .. k - (k - n + 1) + 1 : t[x] = d[(k - n + 1) + x - 1]
      BY <2>1, <2>2, <2>3, SubSeqProperties
    <2>6. (1 <= n \/ n = 0) /\ (k - n + 1 <= k <=> 1 <= n)
      BY <2>2
    <2>7. Len(s) = n /\ Len(t) = n
      BY <2>2, <2>4, <2>5, <2>6
    <2>8. \A x \in 1 .. n : s[x] = d[x] /\ t[x] = d[k - n + x]
      BY <2>2, <2>4, <2>5
    <2>9. s = t => Ends(d, n, k)
      BY <2>8 DEF Ends
    <2>10. Ends(d, n, k) => \A x \in 1 .. n : s[x] = t[x]
      BY <2>8 DEF Ends
    <2>11. Ends(d, n, k) => s = t
      BY <2>4, <2>5, <2>7, <2>10, SeqEqual
    <2> QED
      BY <2>1, <2>9, <2>11
  <1> QED
    BY <1>1, <1>3 DEF K!Starts, K!At, Fallback

LEMMA FailFunc ==
    ASSUME FInv PROVE FailIsLongest
  <1>1. SUFFICES ASSUME pc \in {"search", "done"}, NEW k \in 0 .. Len(Delim) - 1
                 PROVE  IF K!Starts(k) = {} THEN Failfunc[k] = 0
                        ELSE Failfunc[k] = 1 + CHOOSE n \in K!Starts(k) : \A o \in K!Starts(k) : o <= n
    BY DelimLength DEF FInv, FailIsLongest, K!FailIsLongest
  <1>2. Good(k) /\ SplitTypes
    BY <1>1 DEF FInv, Failing
  <1>3. PICK B : B = K!Starts(k)
    OBVIOUS
  <1>4. \A n : n \in B <=> Fallback(n, k)
    BY <1>2, <1>3, StartsAreFallbacks
  <1>5. PICK f : f = Failfunc[k]
    OBVIOUS
  <1>6. f \in 0 .. k /\ (f # 0 => f - 1 \in B) /\ \A n \in Nat : n \in B => n < f
    BY <1>2, <1>4, <1>5 DEF Good
  <1>7. B \subseteq Nat
    BY <1>4 DEF Fallback
  <1>8. CASE B = {}
    BY <1>3, <1>5, <1>6, <1>8
  <1>9. CASE B # {}
    <2>1. f \in Nat /\ f # 0
      <3>1. k \in Nat
        BY <1>2, DelimLength
      <3>2. PICK n : n \in B
        BY <1>9
      <3>3. n \in Nat /\ n < f /\ f \in Nat
        BY <1>6, <1>7, <3>1, <3>2
      <3> QED
        BY <3>3
    <2>2. \A n \in B : n \in Nat /\ n <= f - 1
      BY <1>6, <1>7, <2>1
    <2>3. f - 1 \in B
      BY <1>6, <2>1
    <2>4. PICK m : m = CHOOSE n \in B : \A o \in B : o <= n
      OBVIOUS
    <2>5. m \in B /\ \A o \in B : o <= m
      BY <2>2, <2>3, <2>4
    <2>6. m = f - 1
      BY <2>1, <2>2, <2>3, <2>5
    <2>7. f = 1 + m
      BY <2>1, <2>6
    <2> QED
      BY <1>3, <1>5, <1>9, <2>4, <2>7
  <1> QED
    BY <1>8, <1>9

LEMMA GoodNew ==
    ASSUME NEW k, Delim' = Delim, Failfunc'[k] \in 0 .. k,
           Failfunc'[k] # 0 => Fallback(Failfunc'[k] - 1, k),
           \A n \in Nat : Fallback(n, k) => n < Failfunc'[k]
    PROVE  Good(k)'
  BY DEF Good, Fallback

\* The letters at matched - 1 and i are the same.
LEMMA BuildSame ==
    ASSUME FInv, K!Build, K!At(Delim, matched - 1) = K!At(Delim, i)
    PROVE  Building' /\ GoingBack' /\ Failing'
  <1>1. PICK m, d, L : m = matched - 1 /\ d = Delim /\ L = Len(Delim)
    OBVIOUS
  <1>2. pc = "build" /\ SplitTypes /\ Building
    BY DEF FInv, K!Build
  <1>3. /\ i \in 1 .. L /\ matched \in 1 .. i /\ Ends(d, m, i)
        /\ \A n \in 0 .. i - 1 : Ends(d, n, i) => n < matched
        /\ \A k \in 0 .. i - 1 : Good(k)
    BY <1>1, <1>2 DEF Building
  <1>4. L \in Nat /\ K!DelimLen = L /\ i < L
    BY <1>1, <1>2, DelimLength DEF K!Build
  <1>5. matched = m + 1 /\ m \in 0 .. i - 1 /\ m \in Nat /\ i \in Nat /\ i \in 0 .. L - 1 /\ m # i
    BY <1>1, <1>3, <1>4
  <1>6. d[m + 1] = d[i + 1]
    BY <1>1 DEF K!At
  <1>7. /\ Failfunc' = [Failfunc EXCEPT ![i] = Failfunc[m]]
        /\ matched' = m + 2 /\ i' = i + 1 /\ pc' = "build" /\ Delim' = d
    <2>1. /\ Failfunc' = [Failfunc EXCEPT ![i] = K!Skip]
          /\ matched' = matched + 1 /\ i' = i + 1 /\ pc' = pc /\ Delim' = Delim
      BY DEF K!Build
    <2> QED
      BY <1>1, <1>2, <1>5, <2>1 DEF K!Skip
  <1>8. Failfunc'[i] = Failfunc[m] /\ \A k \in 0 .. i - 1 : Failfunc'[k] = Failfunc[k]
    BY <1>1, <1>2, <1>4, <1>5, <1>7 DEF SplitTypes
  <1>9. \A k \in 0 .. i - 1 : Good(k)'
    BY <1>1, <1>3, <1>7, <1>8, GoodSame
  <1>10. \A n \in Nat : Fallback(n, i) <=> Fallback(n, m)
    <2>1. ASSUME NEW n \in Nat, n < m PROVE Ends(d, n, i) <=> Ends(d, n, m)
      <3>1. n <= m /\ m <= i
        BY <1>5, <2>1
      <3> QED
        BY <1>3, <1>5, <3>1, EndsWithin
    <2>2. ASSUME NEW n \in Nat, Fallback(n, i) PROVE n < m
      <3>1. n \in 0 .. i - 1 /\ Ends(d, n, i) /\ d[n + 1] # d[i + 1]
        BY <1>1, <2>2 DEF Fallback
      <3>2. n < matched /\ n # m
        BY <1>3, <1>6, <3>1
      <3> QED
        BY <1>5, <3>2
    <2>3. \A n \in 0 .. m - 1 : n \in 0 .. i - 1 /\ n < m
      BY <1>5
    <2>4. \A n \in Nat : n < m => n \in 0 .. m - 1
      BY <1>5
    <2> QED
      BY <1>1, <1>6, <2>1, <2>2, <2>3, <2>4 DEF Fallback
  <1>11. \A k : k = i => Good(k)'
    <2>1. Good(m)
      BY <1>3, <1>5
    <2>2. PICK f : f = Failfunc[m]
      OBVIOUS
    <2>3. /\ f \in 0 .. m /\ (f # 0 => Fallback(f - 1, m))
          /\ \A n \in Nat : Fallback(n, m) => n < f
      BY <2>1, <2>2 DEF Good
    <2>4. f \in 0 .. i /\ (f # 0 => f - 1 \in Nat)
      BY <1>5, <2>3
    <2>5. (f # 0 => Fallback(f - 1, i)) /\ \A n \in Nat : Fallback(n, i) => n < f
      BY <1>10, <2>3, <2>4
    <2> QED
      BY <1>1, <1>5, <1>7, <1>8, <2>2, <2>4, <2>5, GoodNew
  <1>12. \A k \in 0 .. i : Good(k)'
    <2>1. \A k \in 0 .. i : k = i \/ k \in 0 .. i - 1
      BY <1>5
    <2> QED
      BY <1>9, <1>11, <2>1
  <1>13. Ends(d, m + 1, i + 1)
    BY <1>3, <1>5, <1>6, EndsNext
  <1>14. ASSUME NEW n \in 0 .. i, Ends(d, n, i + 1) PROVE n < m + 2
    <2>1. CASE n = 0
      BY <1>5, <2>1
    <2>2. CASE n # 0
      <3>1. n - 1 \in 0 .. i - 1 /\ n - 1 \in Nat /\ (n - 1) + 1 = n
        BY <1>5, <2>2
      <3>2. Ends(d, n - 1, i)
        <4>1. Ends(d, (n - 1) + 1, i + 1)
          BY <1>14, <3>1
        <4> QED
          BY <1>5, <3>1, <4>1, EndsNext
      <3>3. n - 1 < matched
        BY <1>3, <3>1, <3>2
      <3> QED
        BY <1>5, <3>1, <3>3
    <2> QED
      BY <2>1, <2>2
  <1>15. /\ i + 1 \in 1 .. L /\ m + 2 \in 1 .. i + 1 /\ (m + 2) - 1 = m + 1
         /\ (i + 1) - 1 = i
    BY <1>4, <1>5
  <1>16. Building'
    BY <1>1, <1>7, <1>12, <1>13, <1>14, <1>15 DEF Building
  <1> QED
    BY <1>7, <1>16 DEF GoingBack, Failing

\* The letters differ.
LEMMA BuildOther ==
    ASSUME FInv, K!Build, K!At(Delim, matched - 1) # K!At(Delim, i)
    PROVE  Building' /\ GoingBack' /\ Failing'
  <1>1. PICK m, d, L : m = matched - 1 /\ d = Delim /\ L = Len(Delim)
    OBVIOUS
  <1>2. pc = "build" /\ SplitTypes /\ Building
    BY DEF FInv, K!Build
  <1>3. /\ i \in 1 .. L /\ matched \in 1 .. i /\ Ends(d, m, i)
        /\ \A n \in 0 .. i - 1 : Ends(d, n, i) => n < matched
        /\ \A k \in 0 .. i - 1 : Good(k)
    BY <1>1, <1>2 DEF Building
  <1>4. L \in Nat /\ K!DelimLen = L /\ i < L
    BY <1>1, <1>2, DelimLength DEF K!Build
  <1>5. matched = m + 1 /\ m \in 0 .. i - 1 /\ m \in Nat /\ i \in Nat /\ i \in 0 .. L - 1
    BY <1>1, <1>3, <1>4
  <1>6. d[m + 1] # d[i + 1]
    BY <1>1 DEF K!At
  <1>7. /\ Failfunc' = [Failfunc EXCEPT ![i] = matched]
        /\ matched' = matched /\ i' = i /\ pc' = "back" /\ Delim' = Delim
    BY DEF K!Build
  <1>8. Failfunc'[i] = matched /\ \A k \in 0 .. i - 1 : Failfunc'[k] = Failfunc[k]
    BY <1>1, <1>2, <1>4, <1>5, <1>7 DEF SplitTypes
  <1>9. \A k \in 0 .. i - 1 : Good(k)'
    BY <1>1, <1>3, <1>7, <1>8, GoodSame
  <1>10. Fallback(m, i)
    BY <1>1, <1>3, <1>5, <1>6 DEF Fallback
  <1>11. \A n \in Nat : Fallback(n, i) => n < matched
    BY <1>1, <1>3 DEF Fallback
  <1>12. \A k : k = i => Good(k)'
    <2>1. matched \in 0 .. i /\ matched - 1 = m
      BY <1>3, <1>5
    <2> QED
      BY <1>7, <1>8, <1>10, <1>11, <2>1, GoodNew
  <1>13. \A k \in 0 .. i : Good(k)'
    <2>1. \A k \in 0 .. i : k = i \/ k \in 0 .. i - 1
      BY <1>5
    <2> QED
      BY <1>9, <1>12, <2>1
  <1>14. i \in 1 .. L - 1 /\ matched \in 0 .. i
    BY <1>3, <1>4
  <1>15. GoingBack'
    BY <1>1, <1>3, <1>7, <1>13, <1>14 DEF GoingBack
  <1> QED
    BY <1>7, <1>15 DEF Building, Failing

\* One step back: what the fallback skips would fail too.
LEMMA StepBack ==
    ASSUME FInv, K!GoBack, matched > 0, K!At(Delim, matched - 1) # K!At(Delim, i)
    PROVE  Building' /\ GoingBack' /\ Failing'
  <1>1. PICK m, d, L, f : m = matched - 1 /\ d = Delim /\ L = Len(Delim) /\ f = Failfunc[m]
    OBVIOUS
  <1>2. pc = "back" /\ SplitTypes /\ GoingBack
    BY DEF FInv, K!GoBack
  <1>3. /\ i \in 1 .. L - 1 /\ matched \in 0 .. i /\ Ends(d, m, i)
        /\ \A n \in 0 .. i - 1 : Ends(d, n, i) /\ d[n + 1] = d[i + 1] => n < matched
        /\ \A k \in 0 .. i : Good(k)
    BY <1>1, <1>2 DEF GoingBack
  <1>4. L \in Nat
    BY <1>1, <1>2, DelimLength
  <1>5. matched = m + 1 /\ m \in 0 .. i - 1 /\ m \in Nat /\ i \in Nat /\ m \in 0 .. i
    BY <1>1, <1>3, <1>4
  <1>6. d[m + 1] # d[i + 1]
    BY <1>1 DEF K!At
  <1>7. Failfunc' = Failfunc /\ matched' = f /\ i' = i /\ pc' = "back" /\ Delim' = Delim
    BY <1>1, <1>2 DEF K!GoBack
  <1>8. \A k \in 0 .. i : Good(k)'
    BY <1>3, <1>7, GoodSame
  <1>9. /\ f \in 0 .. m /\ (f # 0 => Fallback(f - 1, m))
        /\ \A n \in Nat : Fallback(n, m) => n < f
    BY <1>1, <1>3, <1>5 DEF Good
  <1>10. f \in 0 .. i /\ (f > 0 => f # 0 /\ f - 1 \in Nat /\ f - 1 <= m /\ m <= i)
    BY <1>5, <1>9
  <1>11. f > 0 => Ends(d, f - 1, i)
    <2>1. SUFFICES ASSUME f > 0 PROVE Ends(d, f - 1, i)
      OBVIOUS
    <2>2. Ends(d, f - 1, m)
      BY <1>1, <1>9, <1>10, <2>1 DEF Fallback
    <2> QED
      BY <1>3, <1>5, <1>10, <2>1, <2>2, EndsWithin
  <1>12. ASSUME NEW n \in 0 .. i - 1, Ends(d, n, i), d[n + 1] = d[i + 1] PROVE n < f
    <2>1. n < matched /\ n # m
      BY <1>3, <1>6, <1>12
    <2>2. n \in Nat /\ n \in 0 .. m - 1 /\ n <= m /\ m <= i
      BY <1>5, <2>1
    <2>3. Ends(d, n, m)
      BY <1>3, <1>5, <1>12, <2>2, EndsWithin
    <2>4. d[n + 1] # d[m + 1]
      BY <1>6, <1>12
    <2>5. Fallback(n, m)
      BY <1>1, <2>2, <2>3, <2>4 DEF Fallback
    <2> QED
      BY <1>9, <2>2, <2>5
  <1>13. GoingBack'
    BY <1>1, <1>3, <1>7, <1>8, <1>10, <1>11, <1>12 DEF GoingBack
  <1> QED
    BY <1>7, <1>13 DEF Building, Failing

\* The inner loop ends.
LEMMA BackDone ==
    ASSUME FInv, K!GoBack, ~(matched > 0 /\ K!At(Delim, matched - 1) # K!At(Delim, i))
    PROVE  Building' /\ GoingBack' /\ Failing'
  <1>1. PICK d, L : d = Delim /\ L = Len(Delim)
    OBVIOUS
  <1>2. pc = "back" /\ SplitTypes /\ GoingBack
    BY DEF FInv, K!GoBack
  <1>3. /\ i \in 1 .. L - 1 /\ matched \in 0 .. i /\ (matched > 0 => Ends(d, matched - 1, i))
        /\ \A n \in 0 .. i - 1 : Ends(d, n, i) /\ d[n + 1] = d[i + 1] => n < matched
        /\ \A k \in 0 .. i : Good(k)
    BY <1>1, <1>2 DEF GoingBack
  <1>4. L \in Nat /\ i \in Nat /\ matched \in Nat
    BY <1>1, <1>2, DelimLength DEF SplitTypes
  <1>5. /\ Failfunc' = Failfunc /\ matched' = matched + 1 /\ i' = i + 1 /\ pc' = "build"
        /\ Delim' = Delim
    BY DEF K!GoBack
  <1>6. \A k \in 0 .. i : Good(k)'
    BY <1>3, <1>5, GoodSame
  <1>7. Ends(d, matched, i + 1)
    <2>1. CASE matched = 0
      BY <1>4, <2>1, EndsNothing
    <2>2. CASE matched # 0
      <3>1. matched > 0 /\ matched - 1 \in Nat /\ (matched - 1) + 1 = matched
        BY <1>4, <2>2
      <3>2. d[(matched - 1) + 1] = d[i + 1]
        BY <1>1, <3>1 DEF K!At
      <3>3. Ends(d, matched - 1, i)
        BY <1>3, <3>1
      <3>4. Ends(d, (matched - 1) + 1, i + 1)
        BY <1>4, <3>1, <3>2, <3>3, EndsNext
      <3> QED
        BY <3>1, <3>4
    <2> QED
      BY <2>1, <2>2
  <1>8. ASSUME NEW n \in 0 .. i, Ends(d, n, i + 1) PROVE n < matched + 1
    <2>1. CASE n = 0
      BY <1>4, <2>1
    <2>2. CASE n # 0
      <3>1. n - 1 \in 0 .. i - 1 /\ n - 1 \in Nat /\ (n - 1) + 1 = n
        BY <1>4, <2>2
      <3>2. Ends(d, n - 1, i) /\ d[(n - 1) + 1] = d[i + 1]
        <4>1. Ends(d, (n - 1) + 1, i + 1)
          BY <1>8, <3>1
        <4> QED
          BY <1>4, <3>1, <4>1, EndsNext
      <3>3. n - 1 < matched
        BY <1>3, <3>1, <3>2
      <3> QED
        BY <1>4, <3>1, <3>3
    <2> QED
      BY <2>1, <2>2
  <1>9. /\ i + 1 \in 1 .. L /\ matched + 1 \in 1 .. i + 1 /\ (matched + 1) - 1 = matched
        /\ (i + 1) - 1 = i
    BY <1>3, <1>4
  <1>10. Building'
    BY <1>1, <1>5, <1>6, <1>7, <1>8, <1>9 DEF Building
  <1> QED
    BY <1>5, <1>10 DEF GoingBack, Failing

LEMMA BuiltAll ==
    ASSUME FInv, K!Built
    PROVE  Building' /\ GoingBack' /\ Failing'
  <1>1. /\ pc = "build" /\ SplitTypes /\ Building /\ i >= K!DelimLen
        /\ pc' = "search" /\ Failfunc' = Failfunc /\ Delim' = Delim
    BY DEF FInv, K!Built
  <1>2. Len(Delim) \in Nat /\ i \in 1 .. Len(Delim) /\ i >= Len(Delim)
    BY <1>1, DelimLength DEF Building
  <1>3. \A k \in 0 .. Len(Delim) - 1 : k \in 0 .. i - 1
    BY <1>2
  <1>4. \A k \in 0 .. Len(Delim) - 1 : Good(k)'
    BY <1>1, <1>3, GoodSame DEF Building
  <1> QED
    BY <1>1, <1>4 DEF Building, GoingBack, Failing

\* Later steps leave the function as it is.
LEMMA FailKept ==
    ASSUME FInv, K!Search \/ K!LastToken
    PROVE  Building' /\ GoingBack' /\ Failing'
  <1>1. /\ pc = "search" /\ pc' \in {"search", "done"}
        /\ Failfunc' = Failfunc /\ Delim' = Delim
    BY DEF K!Search, K!LastToken
  <1>2. \A k \in 0 .. Len(Delim) - 1 : Good(k)'
    BY <1>1, GoodSame DEF FInv, Failing
  <1> QED
    BY <1>1, <1>2 DEF Building, GoingBack, Failing

-----------------------------------------------------------------------------
(* The search.                                                             *)

\* Delim stands in s behind the first k letters.
Here(s, k) == \A j \in 1 .. Len(Delim) : s[k + j] = Delim[j]

\* It stands nowhere before index n.
Absent(s, n) == \A k \in 0 .. n - 1 : k + Len(Delim) <= Len(s) => ~Here(s, k)

\* The first m letters of Delim are those of arg before index n.
Follows(m, n) == \A j \in 1 .. m : arg[n - m + j] = Delim[j]

Searching ==
    pc = "search" =>
        /\ i \in 0 .. Len(arg) /\ matched \in 0 .. i /\ matched < Len(Delim)
        /\ Follows(matched, i) /\ Absent(arg, i - matched)

\* The first n tokens, each with its separator, and then rest are the line.
Joined(n, rest) ==
    \E f \in [0 .. n -> Seq(Letters)] :
        /\ f[0] = <<>>
        /\ \A k \in 1 .. n : f[k] = f[k - 1] \o (tokens[k] \o Delim)
        /\ line = f[n] \o rest

CutAtFirst(n) == Absent(tokens[n] \o Delim, Len(tokens[n]))

Cutting ==
    /\ pc \in {"build", "back"} => tokens = <<>> /\ arg = line
    /\ pc = "search" =>
          /\ Joined(Len(tokens), arg)
          /\ \A n \in 1 .. Len(tokens) : CutAtFirst(n)
    /\ pc = "done" =>
          /\ tokens # <<>> /\ Joined(Len(tokens) - 1, tokens[Len(tokens)])
          /\ \A n \in 1 .. Len(tokens) - 1 : CutAtFirst(n)
          /\ Absent(tokens[Len(tokens)], Len(tokens[Len(tokens)]) + 1)

SplitInv == FInv /\ Searching /\ Cutting

LEMMA OccursHere ==
    ASSUME SplitTypes, NEW s \in Seq(Letters), NEW k \in Nat, k + Len(Delim) <= Len(s)
    PROVE  K!Occurs(s, k) <=> Here(s, k)
  <1>1. PICK d, L, m, n, t : /\ d = Delim /\ L = Len(Delim) /\ m = k + 1 /\ n = k + L
                             /\ t = SubSeq(s, m, n)
    OBVIOUS
  <1>2. L \in Nat /\ L >= 1 /\ d \in Seq(Letters) /\ Len(d) = L /\ K!DelimLen = L
    BY <1>1, DelimLength DEF SplitTypes
  <1>3. Len(s) \in Nat /\ s \in [1 .. Len(s) -> Letters]
    BY LenProperties
  <1>4. /\ m \in Int /\ n \in Int /\ m <= n /\ n - m + 1 = L
        /\ \A x \in m .. n : x \in 1 .. Len(s)
        /\ \A x \in 1 .. L : m + x - 1 = k + x
    BY <1>1, <1>2, <1>3
  <1>5. \A x \in m .. n : s[x] \in Letters
    BY <1>3, <1>4
  <1>6. /\ t \in Seq(Letters)
        /\ Len(t) = IF m <= n THEN n - m + 1 ELSE 0
        /\ \A x \in 1 .. n - m + 1 : t[x] = s[m + x - 1]
    BY <1>1, <1>4, <1>5, SubSeqProperties
  <1>7. Len(t) = L /\ \A x \in 1 .. L : t[x] = s[k + x]
    BY <1>4, <1>6
  <1>8. t = d => Here(s, k)
    BY <1>1, <1>7 DEF Here
  <1>9. Here(s, k) => \A x \in 1 .. L : t[x] = d[x]
    BY <1>1, <1>7 DEF Here
  <1>10. Here(s, k) => t = d
    BY <1>2, <1>6, <1>7, <1>9, SeqEqual
  <1> QED
    BY <1>1, <1>2, <1>8, <1>10 DEF K!Occurs

LEMMA AbsentSame ==
    ASSUME NEW s, NEW n, Absent(s, n), Delim' = Delim PROVE Absent(s, n)'
  BY DEF Absent, Here

\* One more letter is matched.
LEMMA SearchMatch ==
    ASSUME SplitInv, K!Search, K!At(arg, i) = K!At(Delim, matched),
           matched + 1 < K!DelimLen, K!Match
    PROVE  Searching'
  <1>1. SplitTypes /\ Searching /\ pc = "search"
    BY DEF SplitInv, FInv, K!Search
  <1>2. PICK d, L, s, N : d = Delim /\ L = Len(Delim) /\ s = arg /\ N = Len(arg)
    OBVIOUS
  <1>3. L \in Nat /\ L = K!DelimLen /\ N \in Nat
    BY <1>1, <1>2, DelimLength, LenProperties DEF SplitTypes
  <1>4. /\ i \in 0 .. N /\ matched \in 0 .. i /\ i < N /\ matched + 1 < L
        /\ \A j \in 1 .. matched : s[i - matched + j] = d[j]
        /\ Absent(s, i - matched) /\ s[i + 1] = d[matched + 1]
    BY <1>1, <1>2, <1>3 DEF Searching, Follows, K!Search, K!At
  <1>5. /\ i' = i + 1 /\ matched' = matched + 1 /\ arg' = s /\ Delim' = d
    BY <1>2 DEF K!Match, K!Search
  <1>6. i \in Nat /\ matched \in Nat
    BY <1>3, <1>4
  <1>7. ASSUME NEW j \in 1 .. matched + 1 PROVE s[(i + 1) - (matched + 1) + j] = d[j]
    <2>1. (i + 1) - (matched + 1) + j = i - matched + j
      BY <1>6
    <2>2. CASE j = matched + 1
      <3>1. i - matched + j = i + 1
        BY <1>6, <2>2
      <3> QED
        BY <1>4, <2>1, <2>2, <3>1
    <2>3. CASE j # matched + 1
      <3>1. j \in 1 .. matched
        BY <1>6, <2>3
      <3> QED
        BY <1>4, <2>1, <3>1
    <2> QED
      BY <2>2, <2>3
  <1>8. Follows(matched, i)'
    BY <1>5, <1>7 DEF Follows
  <1>9. PICK p : p = i - matched
    OBVIOUS
  <1>10. Absent(s, p)'
    BY <1>2, <1>4, <1>5, <1>9, AbsentSame
  <1>11. i' - matched' = p
    BY <1>5, <1>6, <1>9
  <1>12. Absent(arg, i - matched)'
    BY <1>5, <1>10, <1>11
  <1>13. i' \in 0 .. Len(arg') /\ matched' \in 0 .. i' /\ matched' < Len(Delim')
    <2>1. Len(arg') = N /\ Len(Delim') = L
      BY <1>2, <1>5
    <2>2. i + 1 \in 0 .. N /\ matched + 1 \in 0 .. i + 1
      BY <1>3, <1>4, <1>6
    <2> QED
      BY <1>3, <1>4, <1>5, <2>1, <2>2
  <1> QED
    BY <1>8, <1>12, <1>13 DEF Searching

\* What a mismatch passes over would not have matched.
LEMMA SearchMismatch ==
    ASSUME SplitInv, K!Search, K!At(arg, i) # K!At(Delim, matched), K!Mismatch
    PROVE  Searching'
  <1>1. SplitTypes /\ Searching /\ Failing /\ pc = "search"
    BY DEF SplitInv, FInv, K!Search
  <1>2. PICK d, L, s, N, f : d = Delim /\ L = Len(Delim) /\ s = arg /\ N = Len(arg)
                             /\ f = Failfunc[matched]
    OBVIOUS
  <1>3. L \in Nat /\ L >= 1 /\ L = K!DelimLen /\ N \in Nat
    BY <1>1, <1>2, DelimLength, LenProperties DEF SplitTypes
  <1>4. /\ i \in 0 .. N /\ matched \in 0 .. i /\ i < N /\ matched < L
        /\ \A j \in 1 .. matched : s[i - matched + j] = d[j]
        /\ Absent(s, i - matched) /\ s[i + 1] # d[matched + 1]
    BY <1>1, <1>2 DEF Searching, Follows, K!Search, K!At
  <1>5. arg' = s /\ Delim' = d
    BY <1>2 DEF K!Mismatch, K!Search
  <1>6. i \in Nat /\ matched \in Nat /\ matched \in 0 .. L - 1
    BY <1>3, <1>4
  <1>7. /\ f \in 0 .. matched /\ (f # 0 => Fallback(f - 1, matched))
        /\ \A n \in Nat : Fallback(n, matched) => n < f
    BY <1>1, <1>2, <1>6 DEF Good, Failing
  \* No occurrence begins n letters back, unless Failfunc allows it.
  <1>8. ASSUME NEW n \in 0 .. matched, Here(s, i - n) PROVE n < f
    <2>1. n \in Nat /\ n <= matched
      BY <1>6
    <2>2. \A j \in 1 .. L : s[i - n + j] = d[j]
      BY <1>2, <1>8 DEF Here
    <2>3. s[i + 1] = d[n + 1]
      <3>1. n + 1 \in 1 .. L /\ i - n + (n + 1) = i + 1
        BY <1>3, <1>6, <2>1
      <3> QED
        BY <2>2, <3>1
    <2>4. n # matched
      BY <1>4, <2>3
    <2>5. n \in 0 .. matched - 1
      BY <1>6, <2>1, <2>4
    <2>6. ASSUME NEW j \in 1 .. n PROVE d[j] = d[matched - n + j]
      <3>1. j \in 1 .. L /\ matched - n + j \in 1 .. matched
        BY <1>3, <1>4, <1>6, <2>5
      <3>2. i - matched + (matched - n + j) = i - n + j
        BY <1>6, <2>1
      <3>3. s[i - n + j] = d[j]
        BY <2>2, <3>1
      <3>4. s[i - matched + (matched - n + j)] = d[matched - n + j]
        BY <1>4, <3>1
      <3> QED
        BY <3>2, <3>3, <3>4
    <2>7. Ends(d, n, matched)
      BY <2>6 DEF Ends
    <2>8. d[n + 1] # d[matched + 1]
      BY <1>4, <2>3
    <2>9. Fallback(n, matched)
      BY <1>2, <2>5, <2>7, <2>8 DEF Fallback
    <2> QED
      BY <1>7, <2>1, <2>9
  <1>9. ASSUME NEW q \in Nat, NEW k \in 0 .. q - 1, k + L <= N, Here(s, k),
               q <= i + 1, \A n \in 0 .. matched : i - n < q => n >= f
        PROVE  FALSE
    <2>1. CASE k < i - matched
      <3>1. k \in 0 .. (i - matched) - 1
        BY <1>6, <2>1
      <3> QED
        BY <1>2, <1>4, <1>9, <3>1 DEF Absent
    <2>2. CASE ~(k < i - matched)
      <3>1. PICK n : n = i - k
        OBVIOUS
      <3>2. n \in 0 .. matched /\ i - n = k /\ k < q /\ n \in Nat
        BY <1>6, <1>9, <2>2, <3>1
      <3>3. n < f
        BY <1>8, <1>9, <3>2
      <3>4. n >= f
        BY <1>9, <3>2
      <3> QED
        BY <1>6, <1>7, <3>2, <3>3, <3>4
    <2> QED
      BY <2>1, <2>2
  <1>10. CASE f > 0
    <2>1. PICK m : m = f - 1
      OBVIOUS
    <2>2. /\ m \in Nat /\ f = m + 1 /\ f # 0 /\ m < matched /\ m <= i /\ m < L /\ i - m \in Nat
          /\ i - m <= i + 1
      BY <1>3, <1>4, <1>6, <1>7, <1>10, <2>1
    <2>3. i' = i /\ matched' = m
      BY <1>2, <1>10, <2>1 DEF K!Mismatch, K!Retried
    <2>4. Ends(d, m, matched)
      BY <1>2, <1>7, <2>1, <2>2 DEF Fallback
    <2>5. ASSUME NEW j \in 1 .. m PROVE s[i - m + j] = d[j]
      <3>1. matched - m + j \in 1 .. matched /\ i - matched + (matched - m + j) = i - m + j
        BY <1>6, <2>2
      <3>2. d[j] = d[matched - m + j]
        BY <2>4 DEF Ends
      <3>3. s[i - matched + (matched - m + j)] = d[matched - m + j]
        BY <1>4, <3>1
      <3> QED
        BY <3>1, <3>2, <3>3
    <2>6. Follows(matched, i)'
      BY <1>5, <2>3, <2>5 DEF Follows
    <2>7. \A n \in 0 .. matched : i - n < i - m => n >= f
      BY <1>6, <2>2
    <2>8. PICK p : p = i - m
      OBVIOUS
    <2>9. \A k \in 0 .. p - 1 : k + L <= N => ~Here(s, k)
      BY <1>9, <2>2, <2>7, <2>8
    <2>10. Absent(s, p)
      BY <1>2, <2>9 DEF Absent
    <2>11. Absent(s, p)'
      BY <1>2, <1>5, <2>10, AbsentSame
    <2>12. Absent(arg, i - matched)'
      BY <1>5, <2>3, <2>8, <2>11
    <2>13. i' \in 0 .. Len(arg') /\ matched' \in 0 .. i' /\ matched' < Len(Delim')
      BY <1>2, <1>4, <1>5, <1>6, <2>2, <2>3
    <2> QED
      BY <2>6, <2>12, <2>13 DEF Searching
  <1>11. CASE ~(f > 0)
    <2>1. i' = i + 1 /\ matched' = 0 /\ f = 0
      BY <1>2, <1>6, <1>7, <1>11 DEF K!Mismatch
    <2>2. Follows(matched, i)'
      BY <2>1 DEF Follows
    <2>3. PICK p : p = i + 1
      OBVIOUS
    <2>4. p \in Nat /\ p <= i + 1 /\ \A n \in 0 .. matched : i - n < p => n >= f
      BY <1>6, <2>1, <2>3
    <2>5. \A k \in 0 .. p - 1 : k + L <= N => ~Here(s, k)
      BY <1>9, <2>4
    <2>6. Absent(s, p)
      BY <1>2, <2>5 DEF Absent
    <2>7. Absent(s, p)'
      BY <1>2, <1>5, <2>6, AbsentSame
    <2>8. i' - matched' = p
      BY <1>6, <2>1, <2>3
    <2>9. Absent(arg, i - matched)'
      BY <1>5, <2>7, <2>8
    <2>10. i' \in 0 .. Len(arg') /\ matched' \in 0 .. i' /\ matched' < Len(Delim')
      <3>1. Len(arg') = N /\ Len(Delim') = L
        BY <1>2, <1>5
      <3>2. i + 1 \in 0 .. N /\ 0 \in 0 .. i + 1 /\ 0 < L
        BY <1>3, <1>4, <1>6
      <3> QED
        BY <2>1, <3>1, <3>2
    <2> QED
      BY <2>2, <2>9, <2>10 DEF Searching
  <1> QED
    BY <1>10, <1>11

\* Token t, separator d and the rest r are s.
IsCut(s, d, p, t, r) ==
    /\ t = SubSeq(s, 1, p) /\ r = SubSeq(s, p + Len(d) + 1, Len(s))
    /\ s = (t \o d) \o r
    /\ Len(t) = p /\ Len(t \o d) = p + Len(d)
    /\ \A j \in 1 .. p + Len(d) : (t \o d)[j] = s[j]

\* A token and its separator are the beginning of what was left of the line.
LEMMA TokenCut ==
    ASSUME NEW S, NEW d \in Seq(S), NEW s \in Seq(S), NEW p \in Nat, p + Len(d) <= Len(s),
           \A j \in 1 .. Len(d) : s[p + j] = d[j]
    PROVE  \E t, r \in Seq(S) : IsCut(s, d, p, t, r)
  <1>1. PICK L, N : L = Len(d) /\ N = Len(s)
    OBVIOUS
  <1>2. L \in Nat /\ N \in Nat /\ s \in [1 .. N -> S] /\ p + L <= N
    BY <1>1, LenProperties
  <1>3. PICK q : q = p + L + 1
    OBVIOUS
  <1>4. /\ 1 \in Int /\ p \in Int /\ q \in Int /\ N \in Int /\ p - 1 + 1 = p
        /\ \A x \in 1 .. p : x \in 1 .. N /\ 1 + x - 1 = x
        /\ \A x \in q .. N : x \in 1 .. N
        /\ \A x \in 1 .. N - q + 1 : q + x - 1 = p + L + x
        /\ (1 <= p \/ p = 0) /\ (q <= N \/ N = p + L) /\ q - 1 = p + L
        /\ N - q + 1 = N - (p + L)
    BY <1>2, <1>3
  <1>5. (\A x \in 1 .. p : s[x] \in S) /\ (\A x \in q .. N : s[x] \in S)
    BY <1>2, <1>4
  <1>6. PICK t : t = SubSeq(s, 1, p)
    OBVIOUS
  <1>7. PICK r : r = SubSeq(s, q, N)
    OBVIOUS
  <1>8. /\ t \in Seq(S) /\ Len(t) = IF 1 <= p THEN p - 1 + 1 ELSE 0
        /\ \A x \in 1 .. p - 1 + 1 : t[x] = s[1 + x - 1]
    BY <1>4, <1>5, <1>6, SubSeqProperties
  <1>9. /\ r \in Seq(S) /\ Len(r) = IF q <= N THEN N - q + 1 ELSE 0
        /\ \A x \in 1 .. N - q + 1 : r[x] = s[q + x - 1]
    BY <1>4, <1>5, <1>7, SubSeqProperties
  <1>10. /\ Len(t) = p /\ \A x \in 1 .. p : t[x] = s[x]
         /\ Len(r) = N - (p + L) /\ \A x \in 1 .. N - (p + L) : r[x] = s[p + L + x]
    BY <1>2, <1>3, <1>4, <1>8, <1>9
  <1>11. PICK u : u = t \o d
    OBVIOUS
  <1>12. /\ u \in Seq(S) /\ Len(u) = p + L
         /\ \A x \in 1 .. p + L : u[x] = IF x <= p THEN t[x] ELSE d[x - p]
    <2>1. /\ u \in Seq(S) /\ Len(u) = Len(t) + Len(d)
          /\ \A x \in 1 .. Len(t) + Len(d) : u[x] = IF x <= Len(t) THEN t[x] ELSE d[x - Len(t)]
      BY <1>8, <1>11, ConcatProperties
    <2> QED
      BY <1>1, <1>10, <2>1
  <1>13. ASSUME NEW x \in 1 .. p + L PROVE u[x] = s[x]
    <2>1. CASE x <= p
      <3>1. x \in 1 .. p
        BY <2>1
      <3> QED
        BY <1>10, <1>12, <2>1, <3>1
    <2>2. CASE ~(x <= p)
      <3>1. x - p \in 1 .. L /\ p + (x - p) = x
        BY <1>2, <2>2
      <3>2. s[p + (x - p)] = d[x - p]
        BY <1>1, <3>1
      <3> QED
        BY <1>12, <2>2, <3>1, <3>2
    <2> QED
      BY <2>1, <2>2
  <1>14. PICK v : v = u \o r
    OBVIOUS
  <1>15. PICK M : M = p + L
    OBVIOUS
  <1>16. /\ v \in Seq(S) /\ Len(v) = M + (N - M)
         /\ \A x \in 1 .. M + (N - M) : v[x] = IF x <= M THEN u[x] ELSE r[x - M]
    <2>1. /\ v \in Seq(S) /\ Len(v) = Len(u) + Len(r)
          /\ \A x \in 1 .. Len(u) + Len(r) : v[x] = IF x <= Len(u) THEN u[x] ELSE r[x - Len(u)]
      BY <1>9, <1>12, <1>14, ConcatProperties
    <2>2. Len(u) = M /\ Len(r) = N - M
      BY <1>10, <1>12, <1>15
    <2> QED
      BY <2>1, <2>2
  <1>17. M \in Nat /\ M + (N - M) = N
    BY <1>2, <1>15
  <1>18. ASSUME NEW x \in 1 .. N PROVE v[x] = s[x]
    <2>1. CASE x <= M
      <3>1. x \in 1 .. p + L
        BY <1>15, <1>17, <2>1
      <3> QED
        BY <1>13, <1>16, <1>17, <2>1, <3>1
    <2>2. CASE ~(x <= M)
      <3>1. x - M \in 1 .. N - (p + L) /\ p + L + (x - M) = x
        BY <1>2, <1>15, <1>17, <2>2
      <3>2. r[x - M] = s[p + L + (x - M)]
        BY <1>10, <3>1
      <3> QED
        BY <1>16, <1>17, <2>2, <3>1, <3>2
    <2> QED
      BY <2>1, <2>2
  <1>19. v = s
    BY <1>1, <1>16, <1>17, <1>18, SeqEqual
  <1>20. s = (t \o d) \o r
    BY <1>11, <1>14, <1>19
  <1>21. Len(t \o d) = p + L /\ \A j \in 1 .. p + L : (t \o d)[j] = s[j]
    BY <1>11, <1>12, <1>13
  <1>22. t = SubSeq(s, 1, p) /\ r = SubSeq(s, p + L + 1, N) /\ Len(t) = p
    BY <1>3, <1>6, <1>7, <1>10
  <1>23. t \in Seq(S) /\ r \in Seq(S)
    BY <1>8, <1>9
  <1> QED
    BY <1>1, <1>20, <1>21, <1>22, <1>23 DEF IsCut

LEMMA Associative == \A s, t, u \in Seq(Letters) : (s \o t) \o u = s \o (t \o u)
  BY ConcatAssociative

\* The next token belongs to the line.
LEMMA JoinedNext ==
    ASSUME SplitTypes, NEW t \in Seq(Letters), NEW r \in Seq(Letters),
           Joined(Len(tokens), (t \o Delim) \o r),
           tokens' = Append(tokens, t), Delim' = Delim, line' = line
    PROVE  Joined(Len(tokens), r)'
  <1>1. PICK n, d, T : n = Len(tokens) /\ d = Delim /\ T = Append(tokens, t)
    OBVIOUS
  <1>2. PICK u : u = t \o d
    OBVIOUS
  <1>3. d \in Seq(Letters) /\ u \in Seq(Letters)
    BY <1>1, <1>2, ConcatProperties DEF SplitTypes
  <1>4. /\ n \in Nat /\ Len(T) = n + 1 /\ T[n + 1] = t
        /\ \A k \in 1 .. n : T[k] = tokens[k]
    BY <1>1, AppendProperties, LenProperties DEF SplitTypes
  <1>5. PICK f \in [0 .. n -> Seq(Letters)] :
            /\ f[0] = <<>>
            /\ \A k \in 1 .. n : f[k] = f[k - 1] \o (tokens[k] \o d)
            /\ line = f[n] \o (u \o r)
    BY <1>1, <1>2 DEF Joined
  <1>6. PICK x : x = f[n] \o u
    OBVIOUS
  <1>7. f[n] \in Seq(Letters)
    BY <1>4, <1>5
  <1>8. x \in Seq(Letters) /\ line = x \o r
    <2>1. x \in Seq(Letters)
      BY <1>3, <1>6, <1>7, ConcatProperties
    <2>2. PICK y : y = f[n]
      OBVIOUS
    <2>3. y \in Seq(Letters) /\ u \in Seq(Letters) /\ r \in Seq(Letters)
      BY <1>3, <1>7, <2>2
    <2>4. (y \o u) \o r = y \o (u \o r)
      BY <2>3, Associative
    <2> QED
      BY <1>5, <1>6, <2>1, <2>2, <2>4
  <1>9. PICK g : g = [k \in 0 .. n + 1 |-> IF k = n + 1 THEN x ELSE f[k]]
    OBVIOUS
  <1>10. \A k \in 0 .. n : k \in 0 .. n + 1 /\ k # n + 1 /\ g[k] = f[k]
    BY <1>4, <1>9
  <1>11. g[n + 1] = x /\ 0 \in 0 .. n
    BY <1>4, <1>9
  <1>12. \A k \in 0 .. n + 1 : k = n + 1 \/ k \in 0 .. n
    BY <1>4
  <1>13. g \in [0 .. n + 1 -> Seq(Letters)]
    BY <1>5, <1>8, <1>9, <1>12
  <1>14. ASSUME NEW k \in 1 .. n + 1 PROVE g[k] = g[k - 1] \o (T[k] \o d)
    <2>1. CASE k = n + 1
      <3>1. k - 1 = n /\ n \in 0 .. n
        BY <1>4, <2>1
      <3> QED
        BY <1>2, <1>4, <1>6, <1>10, <1>11, <2>1, <3>1
    <2>2. CASE k # n + 1
      <3>1. k \in 1 .. n /\ k \in 0 .. n /\ k - 1 \in 0 .. n
        BY <1>4, <2>2
      <3> QED
        BY <1>4, <1>5, <1>10, <3>1
    <2> QED
      BY <2>1, <2>2
  <1>15. g[0] = <<>> /\ line = g[n + 1] \o r
    BY <1>5, <1>8, <1>10, <1>11
  <1>16. tokens' = T /\ Len(T) = n + 1 /\ Delim' = d /\ line' = line
    BY <1>1, <1>4
  <1>17. PICK m : m = n + 1
    OBVIOUS
  <1>18. Joined(m, r)'
    BY <1>13, <1>14, <1>15, <1>16, <1>17 DEF Joined
  <1> QED
    BY <1>16, <1>17, <1>18

LEMMA SearchFound ==
    ASSUME SplitInv, K!Search, K!At(arg, i) = K!At(Delim, matched),
           matched + 1 = K!DelimLen, K!Found
    PROVE  SplitTypes' /\ Searching' /\ Cutting'
  <1>1. SplitTypes /\ Searching /\ Cutting /\ pc = "search"
    BY DEF SplitInv, FInv, K!Search
  <1>2. PICK d, L, s, N, p : d = Delim /\ L = Len(Delim) /\ s = arg /\ N = Len(arg) /\ p = i - matched
    OBVIOUS
  <1>3. L \in Nat /\ L >= 1 /\ L = K!DelimLen /\ N \in Nat /\ d \in Seq(Letters) /\ s \in Seq(Letters)
    BY <1>1, <1>2, DelimLength, LenProperties DEF SplitTypes
  <1>4. /\ i \in 0 .. N /\ matched \in 0 .. i /\ i < N /\ matched + 1 = L
        /\ \A j \in 1 .. matched : s[i - matched + j] = d[j]
        /\ Absent(s, p) /\ s[i + 1] = d[matched + 1]
    BY <1>1, <1>2, <1>3 DEF Searching, Follows, K!Search, K!At
  <1>5. /\ i \in Nat /\ matched \in Nat /\ p \in Nat /\ p + L = i + 1 /\ p + L <= N
        /\ i + 1 - L = p /\ i + 2 = p + L + 1
    BY <1>2, <1>3, <1>4
  <1>6. ASSUME NEW j \in 1 .. L PROVE s[p + j] = d[j]
    <2>1. CASE j = L
      <3>1. p + j = i + 1 /\ j = matched + 1
        BY <1>4, <1>5, <2>1
      <3> QED
        BY <1>4, <3>1
    <2>2. CASE j # L
      <3>1. j \in 1 .. matched
        BY <1>3, <1>4, <1>5, <2>2
      <3> QED
        BY <1>2, <1>4, <3>1
    <2> QED
      BY <2>1, <2>2
  <1>7. PICK t \in Seq(Letters) : \E r \in Seq(Letters) : IsCut(s, d, p, t, r)
    <2>1. p + Len(d) <= Len(s) /\ \A j \in 1 .. Len(d) : s[p + j] = d[j]
      BY <1>2, <1>5, <1>6
    <2>2. d \in Seq(Letters) /\ s \in Seq(Letters) /\ p \in Nat
      BY <1>3, <1>5
    <2> QED
      BY <2>1, <2>2, TokenCut
  <1>8. PICK r \in Seq(Letters) :
              /\ t = SubSeq(s, 1, p) /\ r = SubSeq(s, p + L + 1, N)
              /\ s = (t \o d) \o r
              /\ Len(t) = p /\ Len(t \o d) = p + L
              /\ \A j \in 1 .. p + L : (t \o d)[j] = s[j]
    <2>1. PICK r \in Seq(Letters) : IsCut(s, d, p, t, r)
      BY <1>7
    <2>2. L = Len(d) /\ N = Len(s)
      BY <1>2
    <2> QED
      BY <2>1, <2>2 DEF IsCut
  <1>9. /\ tokens' = Append(tokens, t) /\ arg' = r /\ i' = 0 /\ matched' = 0
        /\ pc' = "search" /\ Delim' = Delim /\ Failfunc' = Failfunc /\ line' = line
    <2>1. /\ tokens' = Append(tokens, SubSeq(s, 1, i + 1 - L)) /\ arg' = SubSeq(s, i + 2, N)
          /\ i' = 0 /\ matched' = 0
      BY <1>2, <1>3 DEF K!Found
    <2>2. pc' = "search" /\ Delim' = Delim /\ Failfunc' = Failfunc /\ line' = line
      BY <1>1 DEF K!Search
    <2> QED
      BY <1>5, <1>8, <2>1, <2>2
  <1>10. PICK n : n = Len(tokens)
    OBVIOUS
  <1>11. /\ n \in Nat /\ tokens' \in Seq(Seq(Letters)) /\ Len(tokens') = n + 1
         /\ tokens'[n + 1] = t /\ \A k \in 1 .. n : tokens'[k] = tokens[k]
    <2>1. tokens \in Seq(Seq(Letters)) /\ t \in Seq(Letters)
      BY <1>1, <1>7 DEF SplitTypes
    <2>2. n \in Nat
      BY <1>10, <2>1, LenProperties
    <2>3. PICK T : T = Append(tokens, t)
      OBVIOUS
    <2>4. /\ T \in Seq(Seq(Letters)) /\ Len(T) = n + 1
          /\ T[n + 1] = t /\ \A k \in 1 .. n : T[k] = tokens[k]
      BY <1>10, <2>1, <2>3, AppendProperties
    <2> QED
      BY <1>9, <2>2, <2>3, <2>4
  <1>12. SplitTypes'
    BY <1>1, <1>8, <1>9, <1>11 DEF SplitTypes
  <1>13. Searching'
    <2>1. Len(r) \in Nat
      BY <1>8, LenProperties
    <2>2. Follows(matched, i)' /\ Absent(arg, i - matched)'
      BY <1>9 DEF Follows, Absent
    <2>3. i' \in 0 .. Len(arg') /\ matched' \in 0 .. i'
      BY <1>9, <2>1
    <2>4. matched' < Len(Delim')
      <3>1. Len(Delim') = L
        BY <1>2, <1>9
      <3> QED
        BY <1>3, <1>9, <3>1
    <2> QED
      BY <2>2, <2>3, <2>4 DEF Searching
  <1>14. Joined(Len(tokens), arg)'
    <2>1. Joined(Len(tokens), (t \o Delim) \o r)
      BY <1>1, <1>2, <1>8 DEF Cutting
    <2>2. Joined(Len(tokens), r)'
      BY <1>1, <1>8, <1>9, <2>1, JoinedNext
    <2> QED
      BY <1>9, <2>2
  <1>15. ASSUME NEW k \in 1 .. n + 1 PROVE CutAtFirst(k)'
    <2>1. CASE k = n + 1
      <3>1. PICK u : u = t \o d
        OBVIOUS
      <3>2. ASSUME NEW q \in 0 .. p - 1, q + L <= p + L, Here(u, q) PROVE FALSE
        <4>1. \A j \in 1 .. L : q + j \in 1 .. p + L
          BY <1>3, <1>5, <3>2
        <4>2. \A j \in 1 .. L : u[q + j] = s[q + j]
          BY <1>8, <3>1, <4>1
        <4>3. Here(s, q)
          BY <1>2, <3>2, <4>2 DEF Here
        <4>4. q + L <= N
          BY <1>3, <1>5, <3>2
        <4> QED
          BY <1>2, <1>4, <3>2, <4>3, <4>4 DEF Absent
      <3>3. Absent(u, p)
        BY <1>2, <1>8, <3>1, <3>2 DEF Absent
      <3>4. Absent(u, p)'
        BY <1>9, <3>3, AbsentSame
      <3> QED
        BY <1>2, <1>8, <1>9, <1>11, <2>1, <3>1, <3>4 DEF CutAtFirst
    <2>2. CASE k # n + 1
      <3>1. k \in 1 .. n
        BY <1>11, <2>2
      <3>2. PICK u, q : u = tokens[k] \o Delim /\ q = Len(tokens[k])
        OBVIOUS
      <3>3. Absent(u, q)
        BY <1>1, <1>10, <3>1, <3>2 DEF Cutting, CutAtFirst
      <3>4. Absent(u, q)'
        BY <1>9, <3>3, AbsentSame
      <3> QED
        BY <1>9, <1>11, <3>1, <3>2, <3>4 DEF CutAtFirst
    <2> QED
      BY <2>1, <2>2
  <1>16. Cutting'
    BY <1>9, <1>11, <1>14, <1>15 DEF Cutting
  <1> QED
    BY <1>12, <1>13, <1>16

\* The steps of a search leave the tokens and the line alone.
LEMMA CuttingSame ==
    ASSUME Cutting, pc = "search", pc' = "search", tokens' = tokens, arg' = arg, line' = line,
           Delim' = Delim
    PROVE  Cutting'
  <1>1. Joined(Len(tokens), arg)'
    BY DEF Cutting, Joined
  <1>2. ASSUME NEW n \in 1 .. Len(tokens) PROVE CutAtFirst(n)'
    BY DEF Cutting, CutAtFirst, Absent, Here
  <1> QED
    BY <1>1, <1>2 DEF Cutting

LEMMA SplitSearch ==
    ASSUME SplitInv, K!Search
    PROVE  SplitTypes' /\ Searching' /\ Cutting'
  <1>1. /\ SplitTypes /\ Searching /\ Cutting /\ pc = "search" /\ pc' = "search"
        /\ line' = line /\ Delim' = Delim /\ Failfunc' = Failfunc
    BY DEF SplitInv, FInv, K!Search
  <1>2. CASE K!At(arg, i) = K!At(Delim, matched) /\ matched + 1 < K!DelimLen /\ K!Match
    <2>1. /\ arg' = arg /\ tokens' = tokens /\ i' \in Nat /\ matched' \in Nat
      BY <1>1, <1>2 DEF K!Match, SplitTypes
    <2>2. SplitTypes'
      BY <1>1, <2>1 DEF SplitTypes
    <2> QED
      BY <1>1, <1>2, <2>1, <2>2, CuttingSame, SearchMatch
  <1>3. CASE K!At(arg, i) = K!At(Delim, matched) /\ matched + 1 = K!DelimLen /\ K!Found
    BY <1>3, SearchFound
  <1>4. CASE K!At(arg, i) # K!At(Delim, matched) /\ K!Mismatch
    <2>1. /\ arg' = arg /\ tokens' = tokens
      BY <1>4 DEF K!Mismatch
    <2>2. Searching'
      BY <1>4, SearchMismatch
    <2>3. i' \in Nat /\ matched' \in Nat
      <3>1. PICK N : N = Len(arg')
        OBVIOUS
      <3>2. N \in Nat
        BY <1>1, <2>1, <3>1, LenProperties DEF SplitTypes
      <3>3. i' \in 0 .. N /\ matched' \in 0 .. i'
        BY <1>1, <2>2, <3>1 DEF Searching
      <3> QED
        BY <3>2, <3>3
    <2>4. SplitTypes'
      BY <1>1, <2>1, <2>3 DEF SplitTypes
    <2> QED
      BY <1>1, <2>1, <2>2, <2>4, CuttingSame
  <1> QED
    BY <1>2, <1>3, <1>4 DEF K!Search

\* What is left of the line holds no separator.
LEMMA SplitLast ==
    ASSUME SplitInv, K!LastToken
    PROVE  SplitTypes' /\ Searching' /\ Cutting'
  <1>1. SplitTypes /\ Searching /\ Cutting /\ pc = "search"
    BY DEF SplitInv, FInv, K!LastToken
  <1>2. PICK d, L, s, N, n : d = Delim /\ L = Len(Delim) /\ s = arg /\ N = Len(arg) /\ n = Len(tokens)
    OBVIOUS
  <1>3. L \in Nat /\ L >= 1 /\ N \in Nat /\ s \in Seq(Letters)
    BY <1>1, <1>2, DelimLength, LenProperties DEF SplitTypes
  <1>4. /\ i \in 0 .. N /\ matched \in 0 .. i /\ i >= N /\ matched < L
        /\ Absent(s, i - matched)
    BY <1>1, <1>2, <1>3 DEF Searching, K!LastToken
  <1>5. /\ tokens' = Append(tokens, s) /\ arg' = <<>> /\ i' = 0 /\ matched' = 0
        /\ pc' = "done" /\ Delim' = Delim /\ Failfunc' = Failfunc /\ line' = line
    BY <1>2 DEF K!LastToken
  <1>6. /\ n \in Nat /\ tokens' \in Seq(Seq(Letters)) /\ Len(tokens') = n + 1
        /\ tokens' # <<>>
        /\ tokens'[n + 1] = s /\ \A k \in 1 .. n : tokens'[k] = tokens[k]
    <2>1. tokens \in Seq(Seq(Letters))
      BY <1>1 DEF SplitTypes
    <2>2. n \in Nat
      BY <1>2, <2>1, LenProperties
    <2>3. PICK T : T = Append(tokens, s)
      OBVIOUS
    <2>4. /\ T \in Seq(Seq(Letters)) /\ T # <<>> /\ Len(T) = n + 1
          /\ T[n + 1] = s /\ \A k \in 1 .. n : T[k] = tokens[k]
      BY <1>2, <1>3, <2>1, <2>3, AppendProperties
    <2> QED
      BY <1>5, <2>2, <2>3, <2>4
  <1>7. SplitTypes'
    BY <1>1, <1>5, <1>6, EmptySeq DEF SplitTypes
  <1>8. Absent(s, N + 1)
    <2>1. ASSUME NEW k \in 0 .. (N + 1) - 1, k + L <= N, Here(s, k) PROVE FALSE
      <3>1. k \in 0 .. (i - matched) - 1
        BY <1>3, <1>4, <2>1
      <3> QED
        BY <1>2, <1>4, <2>1, <3>1 DEF Absent
    <2> QED
      BY <1>2, <2>1 DEF Absent
  <1>9. PICK M : M = N + 1
    OBVIOUS
  <1>10. Absent(s, M)'
    BY <1>5, <1>8, <1>9, AbsentSame
  <1>11. ASSUME NEW k \in 1 .. n PROVE CutAtFirst(k)'
    <2>1. PICK u, q : u = tokens[k] \o Delim /\ q = Len(tokens[k])
      OBVIOUS
    <2>2. Absent(u, q)
      BY <1>1, <1>2, <2>1 DEF Cutting, CutAtFirst
    <2>3. Absent(u, q)'
      BY <1>5, <2>2, AbsentSame
    <2> QED
      BY <1>5, <1>6, <2>1, <2>3 DEF CutAtFirst
  <1>12. PICK f \in [0 .. n -> Seq(Letters)] :
            /\ f[0] = <<>>
            /\ \A k \in 1 .. n : f[k] = f[k - 1] \o (tokens[k] \o Delim)
            /\ line = f[n] \o s
    BY <1>1, <1>2 DEF Cutting, Joined
  <1>13. \A k \in 1 .. n : f[k] = f[k - 1] \o (tokens'[k] \o Delim')
    BY <1>5, <1>6, <1>12
  <1>14. Joined(n, s)'
    BY <1>5, <1>12, <1>13 DEF Joined
  <1>15. (n + 1) - 1 = n
    BY <1>6
  <1>16. Cutting'
    <2>1. Joined(Len(tokens) - 1, tokens[Len(tokens)])'
      BY <1>6, <1>14, <1>15
    <2>2. \A k \in 1 .. Len(tokens') - 1 : CutAtFirst(k)'
      BY <1>6, <1>11, <1>15
    <2>3. Absent(tokens[Len(tokens)], Len(tokens[Len(tokens)]) + 1)'
      BY <1>2, <1>6, <1>9, <1>10
    <2> QED
      BY <1>5, <1>6, <2>1, <2>2, <2>3 DEF Cutting
  <1>17. Searching'
    BY <1>5 DEF Searching
  <1> QED
    BY <1>7, <1>16, <1>17

\* The search begins at the beginning of the line.
LEMMA SplitBuilt ==
    ASSUME SplitInv, K!Built
    PROVE  SplitTypes' /\ Searching' /\ Cutting'
  <1>1. /\ SplitTypes /\ pc = "build" /\ tokens = <<>> /\ arg = line
        /\ pc' = "search" /\ i' = 0 /\ matched' = 0
        /\ Delim' = Delim /\ Failfunc' = Failfunc /\ arg' = arg /\ line' = line /\ tokens' = tokens
    BY DEF SplitInv, FInv, Cutting, K!Built
  <1>2. SplitTypes'
    BY <1>1 DEF SplitTypes
  <1>3. PICK L, N : L = Len(Delim) /\ N = Len(arg)
    OBVIOUS
  <1>4. L \in Nat /\ L >= 1 /\ N \in Nat
    BY <1>1, <1>3, DelimLength, LenProperties DEF SplitTypes
  <1>5. Searching'
    <2>1. Follows(matched, i)' /\ Absent(arg, i - matched)'
      BY <1>1 DEF Follows, Absent
    <2>2. Len(arg') = N /\ Len(Delim') = L
      BY <1>1, <1>3
    <2>3. i' \in 0 .. Len(arg') /\ matched' \in 0 .. i' /\ matched' < Len(Delim')
      BY <1>1, <1>4, <2>2
    <2> QED
      BY <2>1, <2>3 DEF Searching
  <1>6. Len(tokens') = 0
    BY <1>1, EmptySeq
  <1>7. Joined(0, arg)'
    <2>1. PICK f : f = [k \in 0 .. 0 |-> <<>>]
      OBVIOUS
    <2>2. f \in [0 .. 0 -> Seq(Letters)] /\ f[0] = <<>>
      BY <2>1, EmptySeq
    <2>3. line \in Seq(Letters)
      BY <1>1 DEF SplitTypes
    <2>4. line = <<>> \o line
      BY <2>3, ConcatEmptySeq
    <2>5. line' = f[0] \o arg'
      BY <1>1, <2>2, <2>4
    <2>6. \A k \in 1 .. 0 : f[k] = f[k - 1] \o (tokens'[k] \o Delim')
      OBVIOUS
    <2> QED
      BY <2>2, <2>5, <2>6 DEF Joined
  <1>8. Cutting'
    BY <1>1, <1>6, <1>7 DEF Cutting
  <1> QED
    BY <1>2, <1>5, <1>8

\* The construction of the function does not touch the line.
LEMMA SplitBuilding ==
    ASSUME SplitInv, K!Build \/ K!GoBack
    PROVE  SplitTypes' /\ Searching' /\ Cutting'
  <1>1. /\ SplitTypes /\ pc \in {"build", "back"} /\ pc' \in {"build", "back"}
        /\ tokens = <<>> /\ arg = line
        /\ Delim' = Delim /\ arg' = arg /\ line' = line /\ tokens' = tokens
    BY DEF SplitInv, FInv, Cutting, K!Build, K!GoBack
  <1>2. PICK L : L = Len(Delim)
    OBVIOUS
  <1>3. L \in Nat /\ L >= 1 /\ K!DelimLen = L
    BY <1>1, <1>2, DelimLength
  <1>4. i' \in Nat /\ matched' \in Nat /\ Failfunc' \in [0 .. L - 1 -> Int]
    <2>1. CASE K!Build
      <3>1. i \in 1 .. L /\ matched \in 1 .. i /\ i < L
        BY <1>2, <1>3, <2>1 DEF SplitInv, FInv, Building, K!Build
      <3>2. i \in 0 .. L - 1 /\ matched - 1 \in 0 .. L - 1 /\ matched \in Nat /\ i \in Nat
        BY <1>3, <3>1
      <3>3. Failfunc \in [0 .. L - 1 -> Int]
        BY <1>1, <1>2 DEF SplitTypes
      <3>4. Failfunc[matched - 1] \in Int /\ matched \in Int
        BY <3>2, <3>3
      <3>5. CASE matched' = matched + 1 /\ i' = i + 1 /\ Failfunc' = [Failfunc EXCEPT ![i] = Failfunc[matched - 1]]
        BY <3>2, <3>3, <3>4, <3>5
      <3>6. CASE matched' = matched /\ i' = i /\ Failfunc' = [Failfunc EXCEPT ![i] = matched]
        BY <3>2, <3>3, <3>4, <3>6
      <3> QED
        BY <2>1, <3>5, <3>6 DEF K!Build, K!Skip
    <2>2. CASE K!GoBack
      <3>1. i \in 1 .. L - 1 /\ matched \in 0 .. i /\ \A k \in 0 .. i : Good(k)
        BY <1>2, <2>2 DEF SplitInv, FInv, GoingBack, K!GoBack
      <3>2. i \in Nat /\ matched \in Nat /\ (matched > 0 => matched - 1 \in 0 .. i /\ matched - 1 \in Nat)
        BY <1>3, <3>1
      <3>3. matched > 0 => Failfunc[matched - 1] \in Nat
        BY <3>1, <3>2 DEF Good
      <3>4. Failfunc' = Failfunc
        BY <2>2 DEF K!GoBack
      <3>5. Failfunc \in [0 .. L - 1 -> Int]
        BY <1>1, <1>2 DEF SplitTypes
      <3>6. CASE matched > 0 /\ matched' = Failfunc[matched - 1] /\ i' = i
        BY <3>2, <3>3, <3>4, <3>5, <3>6
      <3>7. CASE matched' = matched + 1 /\ i' = i + 1
        BY <3>2, <3>4, <3>5, <3>7
      <3> QED
        BY <2>2, <3>6, <3>7 DEF K!GoBack
    <2> QED
      BY <2>1, <2>2
  <1>5. SplitTypes'
    BY <1>1, <1>2, <1>4 DEF SplitTypes
  <1> QED
    BY <1>1, <1>5 DEF Searching, Cutting

LEMMA SplitStep ==
    ASSUME SplitInv, [K!Next]_K!vars PROVE SplitInv'
  <1>1. CASE K!Build
    <2>1. Building' /\ GoingBack' /\ Failing'
      BY <1>1, BuildSame, BuildOther DEF SplitInv
    <2> QED
      BY <1>1, <2>1, SplitBuilding DEF SplitInv, FInv
  <1>2. CASE K!GoBack
    <2>1. Building' /\ GoingBack' /\ Failing'
      BY <1>2, StepBack, BackDone DEF SplitInv
    <2> QED
      BY <1>2, <2>1, SplitBuilding DEF SplitInv, FInv
  <1>3. CASE K!Built
    BY <1>3, BuiltAll, SplitBuilt DEF SplitInv, FInv
  <1>4. CASE K!Search
    BY <1>4, FailKept, SplitSearch DEF SplitInv, FInv
  <1>5. CASE K!LastToken
    BY <1>5, FailKept, SplitLast DEF SplitInv, FInv
  <1>6. CASE UNCHANGED K!vars
    <2>1. /\ pc' = pc /\ Delim' = Delim /\ Failfunc' = Failfunc /\ i' = i /\ matched' = matched
          /\ arg' = arg /\ line' = line /\ tokens' = tokens
      BY <1>6 DEF K!vars
    <2>2. \A k : Good(k)' <=> Good(k)
      BY <2>1 DEF Good, Fallback
    <2>3. SplitTypes' /\ Building' /\ GoingBack' /\ Failing'
      BY <2>1, <2>2 DEF SplitInv, FInv, SplitTypes, Building, GoingBack, Failing
    <2>4. Searching'
      BY <2>1 DEF SplitInv, Searching, Follows, Absent, Here
    <2>5. Cutting'
      <3>1. \A s, n : Absent(s, n)' <=> Absent(s, n)
        BY <2>1 DEF Absent, Here
      <3>2. \A n : CutAtFirst(n)' <=> CutAtFirst(n)
        BY <2>1, <3>1 DEF CutAtFirst
      <3>3. \A n, r : Joined(n, r)' <=> Joined(n, r)
        BY <2>1 DEF Joined
      <3> QED
        BY <2>1, <3>1, <3>2, <3>3 DEF SplitInv, Cutting
    <2> QED
      BY <2>3, <2>4, <2>5 DEF SplitInv, FInv
  <1> QED
    BY <1>1, <1>2, <1>3, <1>4, <1>5, <1>6 DEF K!Next

LEMMA SplitFirst ==
    ASSUME K!Init PROVE SplitInv
  BY SplitInit DEF K!Init, SplitInv, Searching, Cutting

\* What FlattenSeq computes, given the concatenations of its first arguments.
LEMMA Flattened ==
    ASSUME NEW N \in Nat, N >= 1, NEW s, Len(s) = N, NEW g \in [1 .. N -> Seq(Letters)],
           g[1] = s[1], \A k \in 2 .. N : g[k] = g[k - 1] \o s[k]
    PROVE  K!FlattenSeq(s) = g[N]
  <1>1. PICK h : h = CHOOSE f : f = [k \in 1 .. Len(s) |-> IF k = 1 THEN s[k] ELSE f[k - 1] \o s[k]]
    OBVIOUS
  <1>2. ASSUME NEW k \in 1 .. N PROVE g[k] = IF k = 1 THEN s[k] ELSE g[k - 1] \o s[k]
    <2>1. k = 1 \/ k \in 2 .. N
      OBVIOUS
    <2> QED
      BY <2>1
  <1>3. g = [k \in 1 .. N |-> IF k = 1 THEN s[k] ELSE g[k - 1] \o s[k]]
    BY <1>2
  <1>4. h = [k \in 1 .. N |-> IF k = 1 THEN s[k] ELSE h[k - 1] \o s[k]]
    BY <1>1, <1>3
  <1>5. PICK T : T = {n \in Nat : n + 1 <= N => h[n + 1] = g[n + 1]}
    OBVIOUS
  <1>6. 0 \in T
    <2>1. 1 \in 1 .. N /\ 0 + 1 = 1
      OBVIOUS
    <2> QED
      BY <1>4, <1>5, <2>1
  <1>7. ASSUME NEW n \in Nat, n \in T PROVE n + 1 \in T
    <2>1. SUFFICES ASSUME (n + 1) + 1 <= N PROVE h[(n + 1) + 1] = g[(n + 1) + 1]
      BY <1>5
    <2>2. PICK k : k = (n + 1) + 1
      OBVIOUS
    <2>3. k \in 1 .. N /\ k # 1 /\ k - 1 = n + 1 /\ n + 1 <= N
      BY <2>1, <2>2
    <2>4. h[n + 1] = g[n + 1]
      BY <1>5, <1>7, <2>3
    <2>5. h[k] = h[k - 1] \o s[k] /\ g[k] = g[k - 1] \o s[k]
      BY <1>2, <1>4, <2>3
    <2> QED
      BY <2>2, <2>3, <2>4, <2>5
  <1>8. Nat \subseteq T
    BY <1>6, <1>7, SetInduction
  <1>9. h[N] = g[N]
    <2>1. N - 1 \in Nat /\ (N - 1) + 1 = N /\ N <= N
      OBVIOUS
    <2> QED
      BY <1>5, <1>8, <2>1
  <1>10. K!FlattenSeq(s) = h[N]
    BY <1>1 DEF K!FlattenSeq
  <1> QED
    BY <1>9, <1>10

LEMMA SplitDone ==
    ASSUME SplitInv PROVE SplitsAtFirst
  <1>1. SUFFICES ASSUME pc = "done" PROVE SplitsAtFirst
    BY DEF SplitsAtFirst, K!SplitsAtFirst
  <1>2. PICK n : n = Len(tokens)
    OBVIOUS
  <1>3. /\ SplitTypes
        /\ tokens # <<>> /\ Joined(n - 1, tokens[n])
        /\ \A k \in 1 .. n - 1 : CutAtFirst(k)
        /\ Absent(tokens[n], Len(tokens[n]) + 1)
    BY <1>1, <1>2 DEF SplitInv, FInv, Cutting
  <1>4. tokens \in Seq(Seq(Letters)) /\ Delim \in Seq(Letters)
    BY <1>3 DEF SplitTypes
  <1>5. n \in Nat /\ n >= 1 /\ DOMAIN tokens = 1 .. n /\ tokens \in [1 .. n -> Seq(Letters)]
    BY <1>2, <1>3, <1>4, EmptySeq, LenProperties
  <1>6. PICK L : L = Len(Delim)
    OBVIOUS
  <1>7. L \in Nat /\ L >= 1 /\ K!DelimLen = L
    BY <1>3, <1>6, DelimLength
  <1>8. ASSUME NEW k \in 1 .. n PROVE tokens[k] \in Seq(Letters) /\ Len(tokens[k]) \in Nat
    BY <1>5, LenProperties
  <1>9. ASSUME NEW k \in 1 .. n - 1, NEW q \in 0 .. Len(tokens[k]) - 1
        PROVE  ~K!Occurs(tokens[k] \o Delim, q)
    <2>1. PICK t, u, p : t = tokens[k] /\ u = t \o Delim /\ p = Len(t)
      OBVIOUS
    <2>2. k \in 1 .. n
      BY <1>5
    <2>3. t \in Seq(Letters) /\ p \in Nat
      BY <1>8, <2>1, <2>2
    <2>4. u \in Seq(Letters) /\ Len(u) = p + L
      BY <1>4, <1>6, <2>1, <2>3, ConcatProperties
    <2>5. q \in 0 .. p - 1 /\ q \in Nat /\ q + L <= Len(u)
      BY <1>7, <1>9, <2>1, <2>3, <2>4
    <2>6. ~Here(u, q)
      BY <1>3, <1>6, <2>1, <2>5 DEF CutAtFirst, Absent
    <2> QED
      BY <1>3, <1>6, <2>1, <2>4, <2>5, <2>6, OccursHere
  <1>10. K!Last(tokens) = tokens[n]
    BY <1>2 DEF K!Last
  <1>11. ASSUME NEW q \in 0 .. Len(K!Last(tokens)) - K!DelimLen
         PROVE  ~K!Occurs(K!Last(tokens), q)
    <2>1. PICK t, p : t = tokens[n] /\ p = Len(t)
      OBVIOUS
    <2>2. n \in 1 .. n
      BY <1>5
    <2>3. t \in Seq(Letters) /\ p \in Nat
      BY <1>8, <2>1, <2>2
    <2>4. q \in 0 .. p - L
      BY <1>7, <1>10, <2>1
    <2>5. q \in 0 .. (p + 1) - 1 /\ q \in Nat /\ q + L <= p
      BY <1>7, <2>3, <2>4
    <2>6. ~Here(t, q)
      BY <1>3, <1>6, <2>1, <2>5 DEF Absent
    <2> QED
      BY <1>3, <1>6, <1>10, <2>1, <2>3, <2>5, <2>6, OccursHere
  <1>12. PICK s : s = [k \in 1 .. n |-> IF k < n THEN tokens[k] \o Delim ELSE tokens[k]]
    OBVIOUS
  <1>13. Len(s) = n /\ n \in Nat /\ n >= 1
    BY <1>5, <1>12
  <1>14. PICK f \in [0 .. n - 1 -> Seq(Letters)] :
            /\ f[0] = <<>>
            /\ \A k \in 1 .. n - 1 : f[k] = f[k - 1] \o (tokens[k] \o Delim)
            /\ line = f[n - 1] \o tokens[n]
    BY <1>3 DEF Joined
  <1>15. line \in Seq(Letters)
    BY <1>3 DEF SplitTypes
  <1>16. PICK g : g = [k \in 1 .. n |-> IF k = n THEN line ELSE f[k]]
    OBVIOUS
  <1>17. \A k \in 1 .. n : k = n \/ (k \in 1 .. n - 1 /\ k \in 0 .. n - 1 /\ k < n /\ k # n)
    BY <1>5
  <1>18. g \in [1 .. n -> Seq(Letters)]
    BY <1>14, <1>15, <1>16, <1>17
  <1>19. /\ \A k \in 1 .. n - 1 : k \in 1 .. n /\ k < n /\ k # n /\ k - 1 \in 0 .. n - 1
         /\ n \in 1 .. n /\ ~(n < n)
    BY <1>5
  <1>20. \A k \in 1 .. n - 1 : g[k] = f[k] /\ s[k] = tokens[k] \o Delim
    BY <1>12, <1>16, <1>19
  <1>21. g[n] = line /\ s[n] = tokens[n]
    BY <1>12, <1>16, <1>19
  \* One more argument is one more concatenation.
  <1>22. ASSUME NEW k \in 1 .. n PROVE g[k] = f[k - 1] \o s[k]
    BY <1>14, <1>17, <1>20, <1>21
  <1>23. g[1] = s[1]
    <2>1. 1 \in 1 .. n /\ 1 - 1 = 0
      BY <1>5
    <2>2. s[1] \in Seq(Letters)
      <3>1. tokens[1] \in Seq(Letters)
        BY <1>8, <2>1
      <3>2. tokens[1] \o Delim \in Seq(Letters)
        BY <1>4, <3>1, ConcatProperties
      <3> QED
        BY <1>12, <2>1, <3>1, <3>2
    <2>3. <<>> \o s[1] = s[1]
      BY <2>2, ConcatEmptySeq
    <2> QED
      BY <1>14, <1>22, <2>1, <2>3
  <1>24. \A k \in 2 .. n : g[k] = g[k - 1] \o s[k]
    <2>1. \A k \in 2 .. n : k \in 1 .. n /\ k - 1 \in 1 .. n - 1
      BY <1>5
    <2> QED
      BY <1>20, <1>22, <2>1
  <1>25. K!FlattenSeq(s) = g[n]
    BY <1>13, <1>18, <1>23, <1>24, Flattened
  <1>26. line = K!FlattenSeq([k \in DOMAIN tokens |->
                    IF k < Len(tokens) THEN tokens[k] \o Delim ELSE tokens[k]])
    BY <1>2, <1>5, <1>12, <1>21, <1>25
  <1> QED
    BY <1>2, <1>9, <1>11, <1>26 DEF SplitsAtFirst, K!SplitsAtFirst

\* However the separator overlaps itself, the failure function that kmp builds in
\* place is the one of the textbook.
THEOREM FailureFunction == K!Spec => []FailIsLongest
  <1>1. SplitInv => FailIsLongest
    BY FailFunc DEF SplitInv
  <1> QED
    BY <1>1, SplitFirst, SplitStep, PTL DEF K!Spec

\* The repeated calls of kmpsearch split any line at every first occurrence of the
\* separator, and lose nothing of it.
THEOREM SplitIsRight == K!Spec => []SplitsAtFirst
  BY SplitFirst, SplitStep, SplitDone, PTL DEF K!Spec
=============================================================================
