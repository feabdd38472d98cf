---------------------------- MODULE ChatClient -----------------------------
(***************************************************************************)
(* The chat client of 1/: one loop around select that reads either a line  *)
(* of the user or what has come from the server.                           *)
(*                                                                         *)
(* What the user types is counted in lines.  The first read of a line may  *)
(* bring later ones into the buffer of stdio, where select does not see    *)
(* them.  What the server receives is not modelled: after a write that was *)
(* cut short sendToServer begins its line again.                           *)
(***************************************************************************)
EXTENDS Integers, SequencesExt

CONSTANTS Letters,       \* the bytes of a line
          Newline,
          MaxBytes,      \* bound: bytes the server sends
          MaxInput       \* bound: lines the user types

VARIABLES
    pc,            \* "select", "input", "response", "end"
    status,
    servbuf,       \* the bytes before servbuf_pos; it grows before it is full
    tty, ahead,    \* lines of the user in the kernel and in the buffer of stdio
    eof,           \* standard input has ended
    stream,        \* bytes that recv has not returned yet
    ended,         \* the server has closed the connection
    typed,         \* history: the bytes of the server's line that is not complete
    lines,         \* history: complete lines sent and not shown
    shown,         \* history: the line shown last
    count, input   \* history: bytes sent by the server, lines typed by the user

net  == <<stream, ended, typed, lines, count>>
user == <<tty, ahead, eof, input>>
vars == <<pc, status, servbuf, shown, net, user>>

Init == /\ pc = "select" /\ status = "READY"
        /\ servbuf = <<>>
        /\ tty = 0 /\ ahead = 0 /\ eof = FALSE /\ input = 0
        /\ stream = <<>> /\ ended = FALSE /\ count = 0
        /\ typed = <<>> /\ lines = <<>> /\ shown = <<>>

-----------------------------------------------------------------------------
\* The main loop.  Standard input goes first; a time-out of select changes
\* nothing.
Select ==
    /\ pc = "select" /\ status = "READY"
    /\ \/ (tty > 0 \/ eof) /\ pc' = "input"
       \/ tty = 0 /\ ~eof /\ (stream # <<>> \/ ended) /\ pc' = "response"
    /\ UNCHANGED <<status, servbuf, shown, net, user>>

\* readUserInput: the next line, from the buffer of stdio if there is one.
TakeLine ==
    \/ ahead > 0 /\ ahead' = ahead - 1 /\ UNCHANGED tty
    \/ ahead = 0 /\ \E k \in 1 .. tty : tty' = tty - k /\ ahead' = k - 1

\* sendToServer: every write takes some of the line or fails.  It fails by a
\* time-out, or because the server has gone: SIGPIPE's handler sets CLOSED.
AfterSending == {"READY", "TIMEOUT"} \cup IF ended THEN {"CLOSED", "ERROR"} ELSE {}

\* A line of the user: exit, or one that is sent.  At the end of standard input
\* there is nothing to do.
Input ==
    /\ pc = "input" /\ pc' = "select"
    /\ \/ TakeLine /\ status' \in {"USER_EXIT"} \cup AfterSending
       \/ ahead = 0 /\ tty = 0 /\ eof /\ UNCHANGED <<tty, ahead, status>>
    /\ UNCHANGED <<servbuf, shown, net, eof, input>>

\* getServerResponse, one byte, and writeServerResponse if it ends a line.  The
\* mutant does not start servbuf again after a line.
Shown_Kept(b) == b
Shown(b) == <<>>

Response ==
    /\ pc = "response" /\ stream # <<>>
    /\ stream' = Tail(stream)
    /\ LET b == Append(servbuf, Head(stream))
       IN IF Head(stream) = Newline
          THEN /\ shown' = b /\ lines' = SubSeq(lines, 2, Len(lines))
               /\ servbuf' = Shown(b) /\ pc' = "select"
          ELSE servbuf' = b /\ UNCHANGED <<shown, lines, pc>>
    /\ UNCHANGED <<status, ended, typed, count, user>>

\* recv returns -1 (EAGAIN), or 0 at the end of the connection.  The mutant
\* takes the one for the other.
AtEnd_Again == status
AtEnd == IF ended THEN "CLOSED" ELSE status

ResponseNothing ==
    /\ pc = "response" /\ stream = <<>>
    /\ status' = AtEnd /\ pc' = "select"
    /\ UNCHANGED <<servbuf, shown, net, user>>

Leave == /\ pc = "select" /\ status # "READY" /\ pc' = "end"
         /\ UNCHANGED <<status, servbuf, shown, net, user>>

-----------------------------------------------------------------------------
\* The server and the user.

ServerSends(x) ==
    /\ ~ended /\ count < MaxBytes /\ count' = count + 1
    /\ stream' = Append(stream, x)
    /\ IF x = Newline
       THEN lines' = Append(lines, Append(typed, x)) /\ typed' = <<>>
       ELSE typed' = Append(typed, x) /\ UNCHANGED lines
    /\ UNCHANGED <<pc, status, servbuf, shown, ended, user>>

\* The connection is closed; when it is reset, what was not read yet is lost.
ServerCloses ==
    /\ ~ended /\ ended' = TRUE
    /\ stream' \in {stream, <<>>}
    /\ UNCHANGED <<pc, status, servbuf, shown, typed, lines, count, user>>

UserTypes ==
    /\ ~eof /\ input < MaxInput /\ input' = input + 1
    /\ \/ tty' = tty + 1 /\ UNCHANGED eof
       \/ eof' = TRUE /\ UNCHANGED tty
    /\ UNCHANGED <<pc, status, servbuf, shown, net, ahead>>

Next == \/ Select \/ Input \/ Response \/ ResponseNothing \/ Leave
        \/ \E x \in Letters \cup {Newline} : ServerSends(x)
        \/ ServerCloses \/ UserTypes

Work == Select \/ Input \/ Response \/ ResponseNothing \/ Leave

Spec == Init /\ [][Next]_vars

\* select returns when something can be read, and the loop goes on.
FairSpec == Spec /\ WF_vars(Work)

-----------------------------------------------------------------------------

\* The lines of the server are shown once, whole and in order, however TCP cuts
\* them and whatever the user types in between.
Lines == {Append(text, Newline) : text \in BoundedSeq(Letters, MaxBytes - 1)}

Screen == INSTANCE Fifo WITH
    Items   <- Lines,
    Nothing <- <<>>,
    queue   <- lines,
    taken   <- shown
ShownInOrder == Screen!Spec

\* When the server closes the connection the client ends, unless its standard
\* input has ended: then select always reports that, and the client looks at
\* nothing else any more.
ClientEnds == ended ~> (pc = "end" \/ eof)
=============================================================================
