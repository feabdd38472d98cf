------------------------------ MODULE SeqRing ------------------------------
(***************************************************************************)
(* Sequence numbers and the ring buffer both ends of new2/ are built on.   *)
(* Every byte of the file has a sequence number, an unsigned int that      *)
(* starts anywhere and wraps; the byte with sequence number sn is kept in  *)
(* filebuf[sn & FILE_BUF_WRAP].  The code's values are SNSpace = 2^32 and  *)
(* BufSize = 2^16.                                                         *)
(***************************************************************************)
EXTENDS Integers, Sequences

CONSTANTS SNSpace,   \* number of sequence numbers, 2^32 for an unsigned int
          BufSize    \* FILE_BUF_SIZE

\* The mask FILE_BUF_WRAP selects a slot consistently across the wrap of the
\* sequence number only because the ring's size divides their number.
ASSUME SNAssumption ==
    /\ BufSize \in Nat \ {0}
    /\ SNSpace \in Nat \ {0}
    /\ \E k \in 2 .. SNSpace : SNSpace = k * BufSize

SN    == 0 .. SNSpace - 1
Slots == 0 .. BufSize - 1

\* Unsigned addition and subtraction.
Plus(a, n)  == (a + n) % SNSpace
Minus(a, b) == (a - b) % SNSpace

\* sn & FILE_BUF_WRAP
Slot(sn) == sn % BufSize

\* The test of the receiver "is x inside [a, b)?"
InsideRange(x, a, b) == /\ Minus(x, a) < Minus(b, a)
                        /\ Minus(b, x) <= Minus(b, a)

\* How far slot s lies behind the slot of sn, going around the ring.
RingDist(s, sn) == (s - Slot(sn)) % BufSize

\* The n values of the ring from sn on: the one or two memcpy or fwrite calls.
RingRead(ring, sn, n) == [i \in 1 .. n |-> ring[Slot(Plus(sn, i - 1))]]

\* The ring after the values of the sequence d are stored from sn on.
\* Its mutant forgets the part that wraps.
RingWrite_NoWrap(ring, sn, d) ==
    [s \in Slots |-> IF s - Slot(sn) \in 0 .. Len(d) - 1 THEN d[s - Slot(sn) + 1]
                                                         ELSE ring[s]]
RingWrite(ring, sn, d) ==
    [s \in Slots |-> IF RingDist(s, sn) < Len(d) THEN d[RingDist(s, sn) + 1]
                                                 ELSE ring[s]]

\* The ring after n slots from sn on are set to v (memset, marking loop).
RingFill(ring, sn, n, v) ==
    [s \in Slots |-> IF RingDist(s, sn) < n THEN v ELSE ring[s]]
=============================================================================
