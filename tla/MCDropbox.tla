----------------------------- MODULE MCDropbox -----------------------------
(* Dropbox with constants for TLC, see MCDropbox*.cfg. *)
EXTENDS Dropbox

CONSTANTS ann1, ann2, bob, Ann, Bob

MCUserOf == [c \in Clients |-> IF c = bob THEN Bob ELSE Ann]

\* Both versions take one read; or the second one is an empty file.
MCChunks   == [v \in Versions |-> 1]
MCOneEmpty == [v \in Versions |-> IF v = 1 THEN 1 ELSE 0]

\* The clients of one user are alike.
Alike == Permutations({ann1, ann2} \cap Clients)
=============================================================================
