------------------------------- MODULE MyHash -------------------------------
(***************************************************************************)
(* The hash table of 3/MyHash.c: an array of chains that doubles when      *)
(* there are more than two entries to a bucket.                            *)
(***************************************************************************)
EXTENDS Integers, SequencesExt

CONSTANTS Keys, Values, Null,
          HashOf,        \* the hash of each key
          BaseBuckets,   \* BASE_BUCKET_COUNT
          MaxBuckets     \* MAX_BUCKET_COUNT: the array stays below it

VARIABLES _nb, _size,    \* buckets, entries
          buckets,       \* the chain of each bucket: <<key, value>>, first one first
          ret,           \* what the last operation has returned
          iter,          \* iterator: bucket, and place in its chain; 0 is NULL
          visited        \* history: the keys the iterator has been at

vars == <<_nb, _size, buckets, ret, iter, visited>>

Rest == [bucket |-> 0, at |-> 0]

\* MyHash_init
Init == /\ _nb = BaseBuckets /\ _size = 0
        /\ buckets = [i \in 0 .. BaseBuckets - 1 |-> <<>>]
        /\ ret = Null
        /\ iter = Rest /\ visited = <<>>

\* The place of a key in its chain, 0 if it is not there.
Place(key) == SelectInSeq(buckets[HashOf[key] % _nb], LAMBDA e : e[1] = key)
ValueAt(key) == IF Place(key) = 0 THEN Null ELSE buckets[HashOf[key] % _nb][Place(key)][2]

\* MyHash_get
Get(key) ==
    /\ ret' = ValueAt(key)
    /\ UNCHANGED <<_nb, _size, buckets>>

\* MyHash_resize: chain after chain, every entry goes to the front of its new
\* one.  The mutant leaves it in the bucket it was in.
Linked(bs, n, e) == [bs EXCEPT ![HashOf[e[1]] % n] = <<e>> \o @]
Resized_Same(bs, n) == [i \in 0 .. n - 1 |-> IF i < _nb THEN bs[i] ELSE <<>>]
Relinked(chain, new, n) ==
    LET moved[k \in 0 .. Len(chain)] ==
            IF k = 0 THEN new ELSE Linked(moved[k - 1], n, chain[k])
    IN moved[Len(chain)]
Resized(bs, n) ==
    LET moved[j \in 0 .. _nb] ==
            IF j = 0 THEN [i \in 0 .. n - 1 |-> <<>>] ELSE Relinked(bs[j - 1], moved[j - 1], n)
    IN moved[_nb]

\* MyHash_set, for a key that is there ...
SetOld(key, value) ==
    /\ Place(key) # 0
    /\ ret' = ValueAt(key)
    /\ buckets' = [buckets EXCEPT ![HashOf[key] % _nb][Place(key)] = <<key, value>>]
    /\ UNCHANGED <<_nb, _size>>

\* ... and for a new one, after which the array may double.
SetNew(key, value) ==
    LET grow == _size + 1 > _nb * 2 /\ _nb * 2 < MaxBuckets
        more == Linked(buckets, _nb, <<key, value>>)
    IN /\ Place(key) = 0
       /\ ret' = Null
       /\ _size' = _size + 1
       /\ _nb' = IF grow THEN _nb * 2 ELSE _nb
       /\ buckets' = IF grow THEN Resized(more, _nb * 2) ELSE more

\* MyHash_delete
Delete(key) ==
    /\ ret' = ValueAt(key)
    /\ IF Place(key) = 0 THEN UNCHANGED <<_size, buckets>>
       ELSE /\ _size' = _size - 1
            /\ buckets' = [buckets EXCEPT ![HashOf[key] % _nb] = RemoveAt(@, Place(key))]
    /\ UNCHANGED _nb

\* The first entry of the buckets from number i on.
FirstFrom(i) ==
    LET used == {j \in i .. _nb - 1 : buckets[j] # <<>>}
    IN IF used = {} THEN Rest ELSE [bucket |-> CHOOSE j \in used : \A k \in used : j <= k, at |-> 1]

KeyOf(it) == buckets[it.bucket][it.at][1]
Visits(it) == iter' = it /\ visited' = IF it.at = 0 THEN visited ELSE Append(visited, KeyOf(it))

\* MyHash_iterate, and MyHash_next.  Nobody changes a table under an iterator:
\* connection.c runs through the files of a user in one go.  The mutant of next
\* leaves a bucket out.
Iterate == /\ iter = Rest /\ visited = <<>>
           /\ Visits(FirstFrom(0))
           /\ UNCHANGED <<_nb, _size, buckets, ret>>

NextPlace_Skip == IF iter.at < Len(buckets[iter.bucket]) THEN [iter EXCEPT !.at = @ + 1]
                  ELSE FirstFrom(iter.bucket + 2)
NextPlace == IF iter.at < Len(buckets[iter.bucket]) THEN [iter EXCEPT !.at = @ + 1]
             ELSE FirstFrom(iter.bucket + 1)

NextEntry == /\ iter # Rest
             /\ Visits(NextPlace)
             /\ UNCHANGED <<_nb, _size, buckets, ret>>

Change == /\ iter = Rest /\ UNCHANGED iter /\ visited' = <<>>
          /\ \E key \in Keys :
                \/ Get(key) \/ Delete(key)
                \/ \E value \in Values : SetOld(key, value) \/ SetNew(key, value)

Next == Change \/ Iterate \/ NextEntry

Spec == Init /\ [][Next]_vars

-----------------------------------------------------------------------------

\* The table is a map: whatever has been set and deleted before, and wherever a
\* growing array has put the entries, a key is found with the value it was
\* given last, and no other one is.
Table == INSTANCE Dict WITH map <- [k \in Keys |-> ValueAt(k)]
IsDict == Table!Spec

\* An iteration meets every entry of the table, also one that a growing array
\* has moved and one that is never asked for, and each of them once; and there
\* are as many of them as _size says.
IteratesAll ==
    iter = Rest /\ visited # <<>> =>
        /\ ToSet(visited) = {k \in Keys : Place(k) # 0}
        /\ Len(visited) = _size
=============================================================================
