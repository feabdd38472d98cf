------------------------------- MODULE Dict --------------------------------
(***************************************************************************)
(* What the server of 3/ expects of its tables of users and of files: a    *)
(* finite map.                                                             *)
(***************************************************************************)
CONSTANTS Keys, Values,
          Null      \* NULL: there is no such key

VARIABLES map,      \* the value of each key, or Null
          ret       \* what the last operation has returned

Init == map = [k \in Keys |-> Null] /\ ret = Null

Get == UNCHANGED map /\ \E k \in Keys : ret' = map[k]

Set == \E k \in Keys, v \in Values : ret' = map[k] /\ map' = [map EXCEPT ![k] = v]

Delete == \E k \in Keys : ret' = map[k] /\ map' = [map EXCEPT ![k] = Null]

Spec == Init /\ [][Get \/ Set \/ Delete]_<<map, ret>>
=============================================================================
