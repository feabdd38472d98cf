------------------------------ MODULE MCFraming ------------------------------
(***************************************************************************)
(* The three ways in which bytes of a TCP connection are put together      *)
(* again, in one run of TLC, which looks at one of them at a time: the     *)
(* packets of 3/ (MyPack), the lines that the chat server reads            *)
(* (LineBuffer) and those that the chat client shows (ChatClient).         *)
(***************************************************************************)
EXTENDS MyPack

CONSTANTS Letters, Newline, Exits, InitialCapacity, MaxBytes, MaxInput,
          ClientLetters          \* what the client's server sends

ASSUME FramingAssumption ==
    /\ Newline \notin Letters \cup ClientLetters /\ <<>> \notin Exits
    /\ InitialCapacity \in Nat \ {0} /\ MaxBytes \in Nat

VARIABLES subject,                                   \* what this behaviour is about
          lPc, buf, lStream, lEnded, lReset, lJunk,
          lTyped, lLines, handed, lCount                     \* of LineBuffer
VARIABLES pc, status, servbuf, tty, ahead, eof,
          cStream, cEnded, cTyped, cLines, shown, cCount, input       \* of ChatClient

L == INSTANCE LineBuffer WITH
    pc <- lPc, stream <- lStream, ended <- lEnded, reset <- lReset, junk <- lJunk,
    typed <- lTyped, lines <- lLines, count <- lCount
C == INSTANCE ChatClient WITH
    Letters <- ClientLetters, stream <- cStream, ended <- cEnded, typed <- cTyped, lines <- cLines, count <- cCount

lineVars   == <<lPc, buf, lStream, lEnded, lReset, lJunk, lTyped, lLines, handed, lCount>>
clientVars == <<pc, status, servbuf, tty, ahead, eof,
                cStream, cEnded, cTyped, cLines, shown, cCount, input>>

\* The value of Exits: a line of one letter says exit.
MCExits == {<<2, Newline>>}

MCInit == /\ Init /\ L!Init /\ C!Init
          /\ subject \in {"packets", "server", "client"}
          /\ subject # "server" => ~lJunk

Packets    == subject = "packets" /\ UNCHANGED <<subject, lineVars, clientVars>>
ServerSide == subject = "server" /\ UNCHANGED <<subject, vars, clientVars>>
ClientSide == subject = "client" /\ UNCHANGED <<subject, vars, lineVars>>

MCNext == \/ Packets    /\ Next
          \/ ServerSide /\ L!Next
          \/ ClientSide /\ C!Next

MCVars == <<subject, vars, lineVars, clientVars>>

MCSpec == /\ MCInit /\ [][MCNext]_MCVars
          /\ WF_MCVars(Packets /\ recvPacket)
          /\ WF_MCVars(ClientSide /\ C!Work)

-----------------------------------------------------------------------------

\* The chat server leaves no complete line unread without a reason
\* (LineBuffer!Attentive).
ServerAttentive == L!Attentive

\* It hands out every line once, whole and in order (LineBuffer!LinesInOrder).
ServerLines == L!LinesInOrder

\* The chat client shows every line once, whole and in order
\* (ChatClient!ShownInOrder).
ClientLines == C!ShownInOrder

\* It ends when the server has closed the connection (ChatClient!ClientEnds).
ClientEnds == C!ClientEnds
=============================================================================
