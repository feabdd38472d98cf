----------------------------- MODULE RingQueue -----------------------------
(***************************************************************************)
(* The queue of 3/queue.c: an array used as a ring that doubles when it is *)
(* full.  Every client has one, for the files still to be sent to it.      *)
(***************************************************************************)
EXTENDS Integers, Sequences

CONSTANTS Items,            \* what is queued: pointers to QueueItems
          Garbage,          \* what malloc and realloc leave in an unwritten cell
          InitialCapacity,  \* 5
          MaxCapacity       \* bound: the queue does not grow beyond it

ASSUME QueueAssumption == /\ InitialCapacity \in Nat \ {0}
                          /\ MaxCapacity \in Nat
                          /\ Garbage \notin Items

VARIABLES data, start, size, capacity,
          taken             \* history: the last item taken with queueFirst

vars == <<data, start, size, capacity, taken>>

\* queueInit
Init == /\ start = 0 /\ size = 0
        /\ capacity = InitialCapacity
        /\ data = [i \in 0 .. InitialCapacity - 1 |-> Garbage]
        /\ taken = Garbage

\* The cell i places behind the first one.
Cell(i, cap) == IF start + i >= cap THEN start + i - cap ELSE start + i

\* realloc to twice the size, and the items that had wrapped around (they are
\* as many as start + size - capacity) copied behind the old end.  The mutants
\* copy one less, or only double the array.
Grown_Short ==
    [i \in 0 .. 2 * capacity - 1 |->
        IF i < capacity THEN data[i]
        ELSE IF i - capacity < start + size - capacity - 1 THEN data[i - capacity]
        ELSE Garbage]
Grown_Plain == [i \in 0 .. 2 * capacity - 1 |-> IF i < capacity THEN data[i] ELSE Garbage]
Grown ==
    [i \in 0 .. 2 * capacity - 1 |->
        IF i < capacity THEN data[i]
        ELSE IF i - capacity < start + size - capacity THEN data[i - capacity]
        ELSE Garbage]

\* queuePush.  When realloc fails the item is dropped without a word.
PushInPlace(item) ==
    /\ size < capacity
    /\ data' = [data EXCEPT ![Cell(size, capacity)] = item]
    /\ size' = size + 1
    /\ UNCHANGED <<start, capacity, taken>>

PushGrowing(item) ==
    /\ size >= capacity /\ 2 * capacity <= MaxCapacity
    /\ capacity' = 2 * capacity
    /\ data' = [Grown EXCEPT ![Cell(size, capacity')] = item]
    /\ size' = size + 1
    /\ UNCHANGED <<start, taken>>

PushDropped == size >= capacity /\ UNCHANGED vars

\* Where the queue starts after one item was taken; the mutant wraps too late.
NextStart_Late == IF start + 1 > capacity THEN start + 1 - capacity ELSE start + 1
NextStart      == IF start + 1 >= capacity THEN start + 1 - capacity ELSE start + 1

\* queueFirst and queuePop; every caller has looked at size before.
PopFirst ==
    /\ size > 0
    /\ taken' = data[start]
    /\ start' = NextStart
    /\ size' = size - 1
    /\ UNCHANGED <<data, capacity>>

Next == \/ \E item \in Items : PushInPlace(item) \/ PushGrowing(item)
        \/ PushDropped
        \/ PopFirst

Spec == Init /\ [][Next]_vars

-----------------------------------------------------------------------------

\* start stays within the array, also when the array grows.
TypeOK ==
    /\ capacity \in Nat \ {0}
    /\ data \in [0 .. capacity - 1 -> Items \cup {Garbage}]
    /\ start \in 0 .. capacity - 1
    /\ size \in 0 .. capacity
    /\ taken \in Items \cup {Garbage}

\* No cell within the queue is one that was never written, also right after
\* the array has grown: queueFirst never returns an uninitialised pointer.
NoGarbage == \A i \in 0 .. size - 1 : data[Cell(i, capacity)] # Garbage

\* The ring is a queue: whatever the position of start and however often the
\* array has grown, items come out in the order they went in.
Contents == [i \in 1 .. size |-> data[Cell(i - 1, capacity)]]

Queue == INSTANCE Fifo WITH queue <- Contents, Nothing <- Garbage
IsFifo == Queue!Spec
=============================================================================
