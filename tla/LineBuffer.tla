---------------------------- MODULE LineBuffer -----------------------------
(***************************************************************************)
(* How the chat server of 1/ reads lines: recvline of mybuff.c, and the    *)
(* loop of processClient that calls it until there is no further line.     *)
(* TCP keeps the bytes in order and cuts them anywhere.  The loop ends     *)
(* early when the client is marked closed: by the line exit, or by a send  *)
(* to it that failed.                                                      *)
(***************************************************************************)
EXTENDS Integers, SequencesExt

CONSTANTS Letters,           \* the bytes of a line
          Newline,
          Exits,             \* the lines that say exit
          InitialCapacity,   \* 10
          MaxBytes           \* bound: bytes the client sends

VARIABLES
    pc,        \* "poll", "call" (of recvline), "recv" (in its loop), "closed"
    buf,       \* struct char_buffer_t
    stream,    \* bytes that recv has not returned yet
    ended,     \* the client has gone
    reset,     \* the connection has failed, and so does a send on it
    junk,      \* revents, which nobody has written since malloc, has POLLWRNORM
    typed,     \* history: the bytes of the line that is not complete yet
    lines,     \* history: complete lines sent and not handed out
    handed,    \* history: the line handed out last
    count      \* history: bytes sent

vars == <<pc, buf, stream, ended, reset, junk, typed, lines, handed, count>>

\* initBuffer
NewBuffer == [data |-> <<>>, start |-> 0, end |-> 0, capacity |-> InitialCapacity]
finished(b) == Len(b.data)

Init == /\ pc = "poll" /\ buf = NewBuffer
        /\ stream = <<>> /\ ended = FALSE /\ reset = FALSE /\ junk \in BOOLEAN
        /\ typed = <<>> /\ lines = <<>> /\ handed = <<>> /\ count = 0

-----------------------------------------------------------------------------

\* The index after the first newline from index `from', 0 if there is none.
LineEnd(b, from) ==
    SelectInSubSeq(b.data, from + 1, finished(b), LAMBDA x : x = Newline)

\* recvline returns n, and processMessage gets n bytes from start.  It puts the
\* newline back, by which the next call knows that the line was complete.  The
\* loop goes on with the next line (the mutant goes back to poll) unless the
\* client was closed by this one: it says exit, or an answer could not be sent.
AfterLine_Poll == "poll"
AfterLine      == "call"

Hand(b, n) ==
    /\ buf' = b
    /\ handed' = SubSeq(b.data, b.start + 1, b.start + n)
    /\ lines' = SubSeq(lines, 2, Len(lines))
    /\ \/ pc' = AfterLine /\ handed' \notin Exits
       \/ pc' = "closed"  /\ (handed' \in Exits \/ reset)

HadLine(b) == b.end > 0 /\ b.data[b.end] = Newline

\* The bytes behind the last line move to the front.  The mutant leaves
\* finished where it was.
Moved_Stale(b) ==
    [b EXCEPT !.data = SubSeq(@, b.start + 1, Len(@)) \o SubSeq(@, Len(@) - b.start + 1, Len(@)),
              !.start = 0, !.end = finished(b) - b.start]
Moved(b) ==
    [b EXCEPT !.data = SubSeq(@, b.start + 1, Len(@)),
              !.start = 0, !.end = finished(b) - b.start]

\* recvline, up to its loop.
NextLine ==
    LET b == [buf EXCEPT !.start = buf.end]
    IN /\ pc = "call"
       /\ \/ /\ HadLine(buf) /\ LineEnd(buf, buf.end) > 0
             /\ Hand([b EXCEPT !.end = LineEnd(buf, buf.end)], LineEnd(buf, buf.end) - b.start)
          \/ /\ ~(HadLine(buf) /\ LineEnd(buf, buf.end) > 0)
             /\ buf' = IF HadLine(buf) THEN Moved(b) ELSE buf
             /\ pc' = "recv"
             /\ UNCHANGED <<lines, handed>>
       /\ UNCHANGED <<stream, ended, reset, junk, typed, count>>

\* A full buffer doubles.
Grown(b) == IF finished(b) >= b.capacity THEN [b EXCEPT !.capacity = 2 * @] ELSE b

\* recv returns n bytes.  Without a newline among them recvline goes on if the
\* buffer was filled, and returns an unfinished line if not.
Received(n) ==
    LET b == [buf EXCEPT !.data = @ \o SubSeq(stream, 1, n)]
    IN /\ pc = "recv"
       /\ n <= Len(stream) /\ n <= buf.capacity - finished(buf)
       /\ stream' = SubSeq(stream, n + 1, Len(stream))
       /\ \/ /\ LineEnd(b, b.end) > 0
             /\ Hand([b EXCEPT !.end = LineEnd(b, b.end)], LineEnd(b, b.end))
          \/ /\ LineEnd(b, b.end) = 0
             /\ buf' = Grown([b EXCEPT !.end = finished(b)])
             /\ pc' = IF finished(b) >= b.capacity THEN "recv" ELSE "poll"
             /\ UNCHANGED <<lines, handed>>
       /\ UNCHANGED <<ended, reset, junk, typed, count>>

\* recv has nothing to return: EAGAIN, or at the end of the connection 0 or an
\* error such as ECONNRESET.  It also returns 0 when it is asked for nothing.
ReceivedNothing ==
    /\ pc = "recv"
    /\ \/ pc' = "poll"   /\ stream = <<>> /\ ~ended
       \/ pc' = "closed" /\ ((stream = <<>> /\ ended) \/ buf.capacity = finished(buf))
    /\ UNCHANGED <<buf, stream, ended, reset, junk, typed, lines, handed, count>>

\* poll reports a socket that has bytes, or that has come to its end, and writes
\* revents.  In the round that accepts the client revents is what malloc left.
Readable ==
    /\ pc = "poll" /\ pc' = "call"
    /\ \/ (stream # <<>> \/ ended) /\ junk' = FALSE
       \/ junk /\ UNCHANGED junk
    /\ UNCHANGED <<buf, stream, ended, reset, typed, lines, handed, count>>

\* A send outside the loop closes the client: one that fails, of what the client
\* is told of others or of what waits for it; or one of nothing, which only junk
\* asks for and whose 0 is taken for the end.
Dropped ==
    /\ pc = "poll" /\ (reset \/ junk) /\ pc' = "closed"
    /\ UNCHANGED <<buf, stream, ended, reset, junk, typed, lines, handed, count>>

-----------------------------------------------------------------------------
\* The client.

ClientSends(x) ==
    /\ ~ended /\ count < MaxBytes /\ count' = count + 1
    /\ stream' = Append(stream, x)
    /\ IF x = Newline
       THEN lines' = Append(lines, Append(typed, x)) /\ typed' = <<>>
       ELSE typed' = Append(typed, x) /\ UNCHANGED lines
    /\ UNCHANGED <<pc, buf, ended, reset, junk, handed>>

Ends == /\ ~ended /\ ended' = TRUE
        /\ UNCHANGED <<pc, buf, stream, reset, junk, typed, lines, handed, count>>

\* The connection fails, before or after its end; what was not read yet may be lost.
Resets ==
    /\ ~reset /\ reset' = TRUE /\ ended' = TRUE
    /\ stream' \in {stream, <<>>}
    /\ UNCHANGED <<pc, buf, junk, typed, lines, handed, count>>

Next == \/ NextLine \/ ReceivedNothing \/ Readable \/ Dropped
        \/ \E n \in 1 .. MaxBytes : Received(n)
        \/ \E x \in Letters \cup {Newline} : ClientSends(x)
        \/ Ends \/ Resets

Spec == Init /\ [][Next]_vars

-----------------------------------------------------------------------------

\* No line is left behind: when the server sleeps in poll, which reports only
\* bytes that are still in the socket, none is complete in the buffer; and where
\* the client has just closed its side, all lines have been read before the server
\* gives up the connection.  It gives it up earlier only for what its code gives
\* as a reason: the last line handed out says exit, the connection has failed, or
\* the client's first revents were junk.
Attentive ==
    /\ pc = "poll" /\ stream = <<>> /\ ~reset => lines = <<>>
    /\ pc = "closed" => \/ ended /\ lines = <<>>
                        \/ handed \in Exits \/ reset \/ junk

\* Every line is handed out once, whole, and in order: however TCP cuts the
\* bytes, and whether the buffer has been moved or has grown in between.
Lines == {Append(text, Newline) : text \in BoundedSeq(Letters, MaxBytes - 1)}

Reader == INSTANCE Fifo WITH
    Items   <- Lines,
    Nothing <- <<>>,
    queue   <- lines,
    taken   <- handed
LinesInOrder == Reader!Spec
=============================================================================
