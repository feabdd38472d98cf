---------------------------- MODULE MCStructures ----------------------------
(***************************************************************************)
(* Three sequential parts in one run of TLC, which looks at one of them at *)
(* a time: RingQueue, an array of 2 that may double twice; MyHash, from 1  *)
(* to 4 buckets, with keys that collide before, after or despite doubling; *)
(* and Kmp.                                                                *)
(***************************************************************************)
EXTENDS RingQueue, TLC

CONSTANTS a, b,                    \* items of the queue
          Keys, Values, Null, HashOf, BaseBuckets, MaxBuckets,
          Letters, MaxDelim, MaxLine
MCItems  == {a, b}
MCHashOf == 1 :> 0 @@ 2 :> 4 @@ 3 :> 3 @@ 4 :> 2 @@ 5 :> 7

ASSUME TableAssumption == /\ HashOf \in [Keys -> Nat]
                          /\ BaseBuckets \in Nat \ {0} /\ MaxBuckets \in Nat

ASSUME SplitAssumption == MaxDelim \in Nat /\ MaxLine \in Nat

VARIABLES subject,                             \* what this behaviour is about
          _nb, _size, buckets, ret, iter, visited,                 \* of MyHash
          pc, Delim, Failfunc, i, matched, arg, line, tokens      \* of Kmp

H == INSTANCE MyHash
K == INSTANCE Kmp

tableVars == <<_nb, _size, buckets, ret, iter, visited>>
splitVars == <<pc, Delim, Failfunc, i, matched, arg, line, tokens>>

NoSearch == /\ pc = "off" /\ Delim = <<>> /\ Failfunc = <<>> /\ i = 0 /\ matched = 0
            /\ arg = <<>> /\ line = <<>> /\ tokens = <<>>

MCInit == /\ Init /\ H!Init
          /\ \/ subject \in {"queue", "table"} /\ NoSearch
             \/ subject = "split" /\ K!Init

MCNext == /\ UNCHANGED subject
          /\ \/ subject = "queue" /\ Next /\ UNCHANGED <<tableVars, splitVars>>
             \/ subject = "table" /\ H!Next /\ UNCHANGED <<vars, splitVars>>
             \/ subject = "split" /\ K!Next /\ UNCHANGED <<vars, tableVars>>

MCSpec == MCInit /\ [][MCNext]_<<subject, vars, tableVars, splitVars>>

-----------------------------------------------------------------------------

\* The table is a map, whatever a growing array does to it (MyHash!IsDict).
HashIsDict == H!IsDict

\* An iteration meets every entry once (MyHash!IteratesAll).
HashIteratesAll == H!IteratesAll

\* The failure function is the optimised one of the textbook (Kmp!FailIsLongest).
FailIsLongest == K!FailIsLongest

\* The line is split at every first occurrence (Kmp!SplitsAtFirst).
SplitsAtFirst == K!SplitsAtFirst
=============================================================================
