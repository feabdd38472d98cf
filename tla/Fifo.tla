------------------------------- MODULE Fifo --------------------------------
(***************************************************************************)
(* What the senders of 3/ expect of a queue: items leave in the order in   *)
(* which they were pushed.  A push for which there is no memory is lost.   *)
(***************************************************************************)
EXTENDS Sequences

CONSTANTS Items,
          Nothing    \* taken before anything was taken

VARIABLES queue,     \* the items, oldest first
          taken      \* the last item that was taken out

Init == queue = <<>> /\ taken = Nothing

Push == /\ \E item \in Items : queue' = Append(queue, item)
        /\ UNCHANGED taken

Pop == queue # <<>> /\ taken' = Head(queue) /\ queue' = Tail(queue)

Next == Push \/ Pop

Spec == Init /\ [][Next]_<<queue, taken>>
=============================================================================
