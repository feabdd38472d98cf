------------------------------ MODULE FileCopy ------------------------------
(***************************************************************************)
(* What a file transfer promises, without any protocol: the destination is *)
(* always a prefix of the source and only grows, and the transfer reports  *)
(* success only when the destination is the whole file.  It may fail at    *)
(* any time before that.                                                   *)
(***************************************************************************)
EXTENDS Naturals, Sequences

CONSTANT File        \* the source file, a sequence of bytes

VARIABLES dest,      \* the destination file
          outcome    \* what the sending program has reported

Prefix(n) == SubSeq(File, 1, n)

Init == dest = <<>> /\ outcome = "running"

\* Bytes may still arrive after the sender has given up.
Grow == /\ \E n \in Len(dest) + 1 .. Len(File) : dest' = Prefix(n)
        /\ UNCHANGED outcome

Succeed == outcome = "running" /\ dest = File /\ outcome' = "done" /\ UNCHANGED dest

Fail == outcome = "running" /\ outcome' = "failed" /\ UNCHANGED dest

Next == Grow \/ Succeed \/ Fail

Spec == Init /\ [][Next]_<<dest, outcome>>
=============================================================================
