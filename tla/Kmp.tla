-------------------------------- MODULE Kmp --------------------------------
(***************************************************************************)
(* The warm-up program of 0/: a line is split at every occurrence of a     *)
(* separator, which is searched with the algorithm of Knuth, Morris and    *)
(* Pratt.  One step is one turn of a loop.  The separator, a word of the   *)
(* command line, is not empty.                                             *)
(***************************************************************************)
EXTENDS Integers, SequencesExt

CONSTANTS Letters,
          MaxDelim,    \* bound: length of the separator
          MaxLine      \* bound: length of the line

VARIABLES
    pc,                \* "build", "back" (its inner loop), "search", "done"
    Delim,
    Failfunc,          \* index -> 1 + where to go on after a mismatch; 0: nowhere
    i, matched,        \* of kmp, then of kmpsearch
    arg,               \* what is left of the line
    line,              \* history: the whole line
    tokens             \* history: what was printed

vars == <<pc, Delim, Failfunc, i, matched, arg, line, tokens>>

DelimLen == Len(Delim)
Unset    == -1         \* an element of Failfunc that was not written yet

\* The indices of C start at 0.
At(string, index) == string[index + 1]

Init == /\ Delim \in BoundedSeq(Letters, MaxDelim) \ {<<>>}
        /\ line \in BoundedSeq(Letters, MaxLine)
        /\ arg = line /\ tokens = <<>>
        /\ Failfunc = [k \in 0 .. DelimLen - 1 |-> IF k = 0 THEN 0 ELSE Unset]
        /\ pc = "build" /\ i = 1 /\ matched = 1

-----------------------------------------------------------------------------
\* kmp.

\* Where to go on after a mismatch at i, when the character there is the same as
\* at its fallback: not at the fallback, which would fail in the same way.  The
\* mutant goes there.
Skip_Plain == matched
Skip       == Failfunc[matched - 1]

Build ==
    /\ pc = "build" /\ i < DelimLen
    /\ \/ /\ At(Delim, matched - 1) = At(Delim, i)
          /\ Failfunc' = [Failfunc EXCEPT ![i] = Skip]
          /\ matched' = matched + 1 /\ i' = i + 1
          /\ UNCHANGED pc
       \/ /\ At(Delim, matched - 1) # At(Delim, i)
          /\ Failfunc' = [Failfunc EXCEPT ![i] = matched]
          /\ pc' = "back"
          /\ UNCHANGED <<matched, i>>
    /\ UNCHANGED <<Delim, arg, line, tokens>>

\* The while loop: the longest start of Delim that ends at i.
GoBack ==
    /\ pc = "back"
    /\ IF matched > 0 /\ At(Delim, matched - 1) # At(Delim, i)
       THEN matched' = Failfunc[matched - 1] /\ UNCHANGED <<pc, i>>
       ELSE matched' = matched + 1 /\ pc' = "build" /\ i' = i + 1
    /\ UNCHANGED <<Delim, Failfunc, arg, line, tokens>>

Built ==
    /\ pc = "build" /\ i >= DelimLen
    /\ pc' = "search" /\ i' = 0 /\ matched' = 0
    /\ UNCHANGED <<Delim, Failfunc, arg, line, tokens>>

-----------------------------------------------------------------------------
\* kmpsearch, called again and again by the split command of cmd.

Match == matched' = matched + 1 /\ i' = i + 1 /\ UNCHANGED <<arg, tokens>>

\* The separator is found: what is before it is printed, and the search begins
\* again behind it.
Found ==
    /\ tokens' = Append(tokens, SubSeq(arg, 1, i + 1 - DelimLen))
    /\ arg' = SubSeq(arg, i + 2, Len(arg))
    /\ i' = 0 /\ matched' = 0

\* After a mismatch the same character of arg is compared with an earlier one
\* of Delim, if there is one to go back to.  The mutant goes on in arg.
Retried_Next == i + 1
Retried      == i

Mismatch ==
    /\ IF Failfunc[matched] > 0
       THEN matched' = Failfunc[matched] - 1 /\ i' = Retried
       ELSE matched' = 0 /\ i' = i + 1
    /\ UNCHANGED <<arg, tokens>>

Search ==
    /\ pc = "search" /\ i < Len(arg)
    /\ \/ At(arg, i) = At(Delim, matched) /\ matched + 1 < DelimLen /\ Match
       \/ At(arg, i) = At(Delim, matched) /\ matched + 1 = DelimLen /\ Found
       \/ At(arg, i) # At(Delim, matched) /\ Mismatch
    /\ UNCHANGED <<pc, Delim, Failfunc, line>>

\* There is no further separator: the rest is the last token.
LastToken ==
    /\ pc = "search" /\ i >= Len(arg)
    /\ tokens' = Append(tokens, arg) /\ arg' = <<>>
    /\ pc' = "done" /\ i' = 0 /\ matched' = 0
    /\ UNCHANGED <<Delim, Failfunc, line>>

Next == Build \/ GoBack \/ Built \/ Search \/ LastToken

Spec == Init /\ [][Next]_vars

-----------------------------------------------------------------------------

\* The optimised function, which is built in place, is the one of the textbook:
\* after a mismatch at index k the comparison goes on at the end of the longest
\* start of Delim that also ends before k and is followed by another character
\* than the one at k.
Starts(k) == {n \in 0 .. k - 1 : /\ SubSeq(Delim, 1, n) = SubSeq(Delim, k - n + 1, k)
                                 /\ At(Delim, n) # At(Delim, k)}
FailIsLongest ==
    pc \in {"search", "done"} =>
        \A k \in 0 .. DelimLen - 1 :
            IF Starts(k) = {} THEN Failfunc[k] = 0
            ELSE Failfunc[k] = 1 + CHOOSE n \in Starts(k) : \A o \in Starts(k) : o <= n

\* The line is split at the first occurrence of the separator, and what follows
\* at the first one in it, and so on: the tokens put together again are the
\* line, and no token, together with the separator behind it, holds an earlier
\* occurrence.
Occurs(string, k) == SubSeq(string, k + 1, k + DelimLen) = Delim
SplitsAtFirst ==
    pc = "done" =>
        /\ line = FlattenSeq([n \in DOMAIN tokens |->
                                 IF n < Len(tokens) THEN tokens[n] \o Delim ELSE tokens[n]])
        /\ \A n \in 1 .. Len(tokens) - 1 :
              \A k \in 0 .. Len(tokens[n]) - 1 : ~Occurs(tokens[n] \o Delim, k)
        /\ \A k \in 0 .. Len(Last(tokens)) - DelimLen : ~Occurs(Last(tokens), k)
=============================================================================
