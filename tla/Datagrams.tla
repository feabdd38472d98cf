----------------------------- MODULE Datagrams -----------------------------
(***************************************************************************)
(* The UDP network between two programs: in each direction a set of        *)
(* packets that may be lost, reordered and, if so configured, duplicated.  *)
(* A datagram that finds the network full is lost.                         *)
(***************************************************************************)
EXTENDS Naturals, FiniteSets

CONSTANTS NetCap,      \* bound: packets in flight in each direction
          Duplicates   \* whether the network may deliver a packet twice

ASSUME NetAssumption == NetCap \in Nat /\ Duplicates \in BOOLEAN

Send(net, m) == IF Cardinality(net) < NetCap THEN net \cup {m} ELSE net

\* What is left of the network when one of its packets has been received.
Taken(net, m) == {net \ {m}} \cup (IF Duplicates THEN {net} ELSE {})
=============================================================================
