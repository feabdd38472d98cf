---------------------------- MODULE ChatServer -----------------------------
(***************************************************************************)
(* The chat server of 1/: one process, one poll loop, a table of client    *)
(* slots.  A round of the loop handles what poll has reported: a line of   *)
(* the administrator, one new connection, and the slots in order, each     *)
(* with processClient.  The sockets do not block: what one does not take   *)
(* stays in the slot's output buffer, which holds at most one line.        *)
(*                                                                         *)
(* A message is a few pieces, each a call of sendToClient; only the last   *)
(* one ends in a newline.  Two pieces of one unit stand for it; what the   *)
(* administrator sends is one piece, with no newline or with two.          *)
(* Lines from clients are whole here: LineBuffer models how recvline puts  *)
(* them together.                                                          *)
(***************************************************************************)
EXTENDS Integers, FiniteSets, SequencesExt

CONSTANTS OpenMax,     \* FOPEN_MAX; slots 0 and 1 are stdin and the listening socket
          Names,       \* words of 2 to 12 letters other than "anonymous"
          Anonymous,   \* "anonymous"
          Ill,         \* any word that is no proper name
          None,        \* no word at all
          AdminTexts   \* what the administrator may send: kinds of message

ASSUME ChatAssumption == /\ OpenMax \in Nat
                         /\ Cardinality({Anonymous, Ill, None}) = 3
                         /\ Names \cap {Anonymous, Ill, None} = {}
                         /\ AdminTexts \subseteq {"text", "lines"}

Slots == 2 .. OpenMax - 1

VARIABLES
    phase,     \* "poll", "ready" (to look at what poll reported), "visit", "down"
    events,    \* which of "stdin" and "listen" are still to be handled
    cur,       \* the slot visited last in this round
    nready,    \* reported entries not yet counted off
    revents,   \* ClientFd[s].revents, of "rd" and "wr"
    junk,      \* slots whose revents nobody has written since malloc
    open,      \* slots with ClientFd[s].fd >= 0
    maxi,
    name,      \* Clients[s].name
    out,       \* Clients[s].send, .closed and the POLLWRNORM in ClientFd[s].events
    peer       \* the client of the slot: "up", "left" (said exit), "gone"

loop == <<phase, events, cur, nready>>
table == <<open, maxi, name>>
vars == <<phase, events, cur, nready, revents, junk, open, maxi, name, out, peer>>

-----------------------------------------------------------------------------
\* Output.  A unit is <<who it is about, place in the message>>: place 0 is a
\* newline, 1 what comes before it, 2 a text that ends without one.

Pieces(kind) ==
    CASE kind = "text"  -> << << <<"own", 2>> >> >>
      [] kind = "lines" -> << << <<"own", 1>>, <<"own", 0>>, <<"own", 1>>, <<"own", 0>> >> >>
      [] OTHER          -> << << <<kind, 1>> >>, << <<kind, 0>> >> >>

IsNewline(u) == u[2] = 0
Ended        == <<"own", 0>>     \* the last unit a client got ended a message
Torn         == <<"torn", 1>>    \* it has got a part of a message without the rest

\* What the client has after the units, when u was the last one before them: if
\* one of them does not follow the one before it, a message is torn.
Follows(u, v) == IF u[2] = 1 THEN v = <<u[1], 0>> ELSE v[2] # 0
Seen(u) == IF u[2] = 1 THEN u ELSE Ended
Got(u, units) ==
    CASE units = <<>> -> u
      [] /\ units # <<>> /\ u # Torn /\ Follows(u, Head(units))
         /\ \A i \in 2 .. Len(units) : Follows(units[i - 1], units[i]) -> Seen(Last(units))
      [] OTHER -> Torn

\* initClient and events = POLLRDNORM.
Fresh == [buf |-> <<>>, finished |-> 0, closed |-> FALSE, wr |-> FALSE, wire |-> Ended]

\* A line, or a part of one, is in the buffer and ready to be sent.
Waiting(c) == c.finished < Len(c.buf)

\* What goes into the buffer of what the socket has not taken: up to the first
\* newline.
FirstLine(units) ==
    LET ends == {i \in DOMAIN units : IsNewline(units[i])}
    IN IF ends = {} THEN units ELSE SubSeq(units, 1, CHOOSE i \in ends : \A j \in ends : i <= j)

Broken == -1

\* sendToClient: one piece, on a socket with room for a.room units.  The
\* buffer is sent only when it ends in a newline.  The mutants take every piece
\* for a line, or do not ask poll to look after it.
Buffered_All(c, rest) ==
    [c EXCEPT !.buf = @ \o rest, !.finished = 0, !.wr = TRUE]
Buffered_Quiet(c, rest) ==
    [c EXCEPT !.buf = @ \o rest,
              !.finished = IF IsNewline(Last(rest)) THEN 0 ELSE Len(c.buf) + Len(rest)]
Buffered(c, rest) ==
    [c EXCEPT !.buf = @ \o rest,
              !.finished = IF IsNewline(Last(rest)) THEN 0 ELSE Len(c.buf) + Len(rest),
              !.wr = @ \/ IsNewline(Last(rest))]

sendToClient(a, piece) ==
    LET n     == IF a.c.buf = <<>> /\ a.room < Len(piece) THEN a.room
                 ELSE IF a.c.buf = <<>> THEN Len(piece) ELSE 0
        taken == [a.c EXCEPT !.wire = Got(@, SubSeq(piece, 1, n))]
    IN CASE Waiting(a.c) -> a
         [] ~Waiting(a.c) /\ a.c.buf = <<>> /\ a.room = Broken -> [a EXCEPT !.c.closed = TRUE]
         [] OTHER -> [c |-> IF n = Len(piece) THEN taken
                            ELSE Buffered(taken, FirstLine(SubSeq(piece, n + 1, Len(piece)))),
                      room |-> a.room - n]

\* One message, and several to one client in one handler.
sendMessage(a, kind) ==
    LET pieces == Pieces(kind)
        first  == sendToClient(a, pieces[1])
    IN IF Len(pieces) = 1 THEN first ELSE sendToClient(first, pieces[2])

SendAll(c, kinds, room) ==
    LET after[n \in 0 .. Len(kinds)] ==
            IF n = 0 THEN [c |-> c, room |-> room] ELSE sendMessage(after[n - 1], kinds[n])
    IN after[Len(kinds)].c

\* How many units the socket may take, all of them at most; send fails only
\* when the client has gone.
Units(kinds) == Len(kinds) * IF kinds = <<"lines">> THEN 4 ELSE 2
Rooms(s, c, kinds) ==
    IF kinds = <<>> \/ Waiting(c) THEN {0}
    ELSE 0 .. Units(kinds) \cup IF peer[s] = "gone" THEN {Broken} ELSE {}

\* A handler that has the messages msgs[s] for every slot s, after its own work
\* on the output has led to o.
SendsFrom(o, msgs) ==
    \E room \in [Slots -> UNION {Rooms(s, o[s], msgs[s]) : s \in Slots}] :
        /\ \A s \in Slots : room[s] \in Rooms(s, o[s], msgs[s])
        /\ out' = [s \in Slots |-> SendAll(o[s], msgs[s], room[s])]
Sends(msgs) == SendsFrom(out, msgs)

Silent == [s \in Slots |-> <<>>]
Only(i, kinds) == [Silent EXCEPT ![i] = kinds]

\* The loops over the slots from 2 to maxi with fd >= 0.
Connected == {s \in open : s <= maxi}
ToOthers(i, kind) == [s \in Slots |-> IF s \in Connected \ {i} THEN <<kind>> ELSE <<>>]

-----------------------------------------------------------------------------
\* The commands of client i.  Errors and confirmations are "own" messages,
\* what others have done is "news".

\* One line for every client.
whoCommand(i) ==
    /\ Sends(Only(i, [n \in 1 .. Cardinality(Connected) |-> "own"]))
    /\ UNCHANGED name

errorCommand(i) == Sends(Only(i, <<"own">>)) /\ UNCHANGED name

\* No other client has the name.
Unused(i, arg) == \A s \in Connected \ {i} : name[s] # arg

nameCommand(i, arg) ==
    \/ /\ arg \notin Names \/ ~Unused(i, arg)
       /\ Sends(Only(i, <<"own">>))
       /\ UNCHANGED name
    \/ /\ arg \in Names /\ Unused(i, arg)
       /\ name' = [name EXCEPT ![i] = arg]
       /\ Sends([ToOthers(i, "news") EXCEPT ![i] = <<"own">>])

\* The first slot with that name gets the message; it may be the sender's.
FirstNamed(arg) ==
    {s \in Connected : name[s] = arg /\ \A t \in Connected : name[t] = arg => s <= t}

tellCommand(i, arg, message) ==
    /\ UNCHANGED name
    /\ LET rcvr == IF name[i] = Anonymous \/ arg \in {None, Anonymous} \/ ~message THEN {}
                   ELSE FirstNamed(arg)
       IN Sends([s \in Slots |-> (IF s \in rcvr THEN <<"news">> ELSE <<>>) \o
                                 (IF s = i THEN <<"own">> ELSE <<>>)])

\* yell goes to the sender as well.
yellCommand(i, message) ==
    /\ UNCHANGED name
    /\ Sends(IF message THEN [s \in Slots |-> IF s \in Connected THEN <<"news">> ELSE <<>>]
             ELSE Only(i, <<"own">>))

exitCommand(i) ==
    /\ out' = [out EXCEPT ![i].closed = TRUE]
    /\ UNCHANGED name

processMessage(i) ==
    \/ whoCommand(i)
    \/ errorCommand(i)
    \/ \E arg \in Names \cup {Anonymous, Ill, None} : nameCommand(i, arg)
    \/ \E arg \in Names \cup {Anonymous, Ill, None}, message \in BOOLEAN : tellCommand(i, arg, message)
    \/ \E message \in BOOLEAN : yellCommand(i, message)

-----------------------------------------------------------------------------
\* processClient, for the slot cur.

\* recvline has returned a whole line, and there may be another one: the loop
\* goes on unless the line was exit.
ReadLine ==
    /\ phase = "visit" /\ ~out[cur].closed
    /\ \/ processMessage(cur) /\ UNCHANGED peer
       \/ exitCommand(cur) /\ peer' = [peer EXCEPT ![cur] = IF @ = "up" THEN "left" ELSE @]
    /\ UNCHANGED <<loop, revents, junk, open, maxi>>

\* trySendToClientAgain, when send takes n units.  Asked to send nothing, send
\* returns 0, which is taken for a closed connection.  The mutant forgets to
\* start again at the front of the buffer.
Sent_Past(c) == [c EXCEPT !.buf = <<>>, !.wr = FALSE]
Sent(c) == [c EXCEPT !.finished = 0, !.buf = <<>>, !.wr = FALSE]

trySendToClientAgain(c, n) ==
    LET units == SubSeq(c.buf, c.finished + 1, c.finished + n)
        moved == [c EXCEPT !.wire = Got(@, units), !.finished = @ + n]
    IN CASE n = Broken \/ ~Waiting(c) -> [c EXCEPT !.closed = TRUE, !.wr = FALSE]
         [] n # Broken /\ Waiting(c) -> IF moved.finished = Len(c.buf) THEN Sent(moved) ELSE moved

\* The rest of processClient after its loop: either recvline has found no
\* further line, or the end of the connection, or the loop was left because
\* of closed.  A client that is closed is announced to the others and its
\* slot becomes free; the events of the slot stay.
Written(c, i) ==
    IF c.closed \/ "wr" \notin revents[i] THEN {c}
    ELSE { trySendToClientAgain(c, n) : n \in 0 .. Len(c.buf) - c.finished \cup
                                             IF peer[i] = "gone" THEN {Broken} ELSE {} }

\* nready is counted down; at 0 the round is over.  (What cur, nready and
\* revents hold then is not looked at again, and is forgotten here.)  The
\* mutant counts one too many.
Forgotten == [s \in Slots |-> IF s > maxi' THEN revents[s] ELSE {}]

EndRound == phase' = "poll" /\ nready' = 0 /\ cur' = 1 /\ revents' = Forgotten

CountDown_Twice ==
    \/ nready > 2 /\ phase' = "ready" /\ nready' = nready - 2 /\ UNCHANGED <<cur, revents>>
    \/ nready <= 2 /\ EndRound
CountDown ==
    \/ nready > 1 /\ phase' = "ready" /\ nready' = nready - 1 /\ UNCHANGED <<cur, revents>>
    \/ nready <= 1 /\ EndRound

LeaveClient ==
    /\ phase = "visit"
    /\ UNCHANGED <<events, junk, maxi, name>> /\ CountDown
    /\ \E ended \in IF peer[cur] = "gone" THEN BOOLEAN ELSE {FALSE} :
       \E c \in Written([out[cur] EXCEPT !.closed = @ \/ ended], cur) :
          \/ /\ ~c.closed
             /\ out' = [out EXCEPT ![cur] = c]
             /\ UNCHANGED <<open, peer>>
          \/ /\ c.closed
             /\ SendsFrom([out EXCEPT ![cur] = [Fresh EXCEPT !.wr = c.wr]], ToOthers(cur, "news"))
             /\ open' = open \ {cur}
             /\ peer' = [peer EXCEPT ![cur] = "up"]

-----------------------------------------------------------------------------
\* The loop of main.

\* poll returns the entries that have something to report, of those up to
\* maxi.  A connection that has ended is reported as readable again and again.
Poll ==
    /\ phase = "poll" /\ phase' = "ready" /\ cur' = 1
    /\ \E rd \in SUBSET Connected, wr \in SUBSET {s \in Connected : out[s].wr} :
          /\ {s \in Connected : peer[s] = "gone"} \subseteq rd
          /\ events' \in SUBSET {"stdin", "listen"}
          /\ nready' = Cardinality(events') + Cardinality(rd \cup wr)
          /\ revents' = [s \in Slots |-> IF s > maxi THEN revents[s]
                                         ELSE {x \in {"rd", "wr"} : s \in IF x = "rd" THEN rd ELSE wr}]
    /\ junk' = {s \in junk : s > maxi}
    /\ nready' > 0
    /\ UNCHANGED <<table, out, peer>>

\* The administrator sends a text to a client, with or without its newline, or
\* names no client that there is.  This does not count nready down.
Admin ==
    /\ phase = "ready" /\ "stdin" \in events /\ events' = events \ {"stdin"}
    /\ \/ UNCHANGED out
       \/ \E f \in Connected, kind \in AdminTexts :
             /\ kind = "text" => out[f].buf = <<>>    \* bound: one text without a newline at a time
             /\ Sends(Only(f, <<kind>>))
    /\ UNCHANGED <<phase, cur, nready, revents, junk, table, peer>>

\* ... or shuts the server down.
Shutdown ==
    /\ phase = "ready" /\ "stdin" \in events
    /\ phase' = "down" /\ open' = {} /\ events' = {}
    /\ UNCHANGED <<cur, nready, revents, junk, maxi, name, out, peer>>

\* A new connection gets the first free slot; initClient and hello.  The mutants
\* leave the name, or the events, of the slot's last client.
NewName_Kept(i) == name
NewName(i) == [name EXCEPT ![i] = Anonymous]

NewClient_Watched(i) == [Fresh EXCEPT !.wr = out[i].wr]
NewClient(i) == Fresh

Hello(i) == [ToOthers(i, "news") EXCEPT ![i] = <<"own">>]

Accept(i) ==
    /\ phase = "ready" /\ events = {"listen"} /\ events' = {}
    /\ i \notin open /\ \A s \in Slots \ open : i <= s
    /\ open' = open \cup {i}
    /\ name' = NewName(i)
    /\ peer' = [peer EXCEPT ![i] = "up"]
    /\ SendsFrom([out EXCEPT ![i] = NewClient(i)], Hello(i))
    /\ maxi' = IF i > maxi THEN i ELSE maxi
    /\ CountDown
    /\ UNCHANGED junk

\* accept fails, or there is no free slot: the connection is closed again.
AcceptNobody ==
    /\ phase = "ready" /\ events = {"listen"} /\ events' = {}
    /\ UNCHANGED <<phase, cur, nready, revents, junk, table, out, peer>>

\* The next slot of the round that has something in revents.
Due == {s \in Connected : s > cur /\ revents[s] # {}}

Visit(i) ==
    /\ phase = "ready" /\ events = {}
    /\ i \in Due /\ \A s \in Due : i <= s
    /\ phase' = "visit" /\ cur' = i
    /\ UNCHANGED <<events, nready, revents, junk, table, out, peer>>

EndOfRound ==
    /\ phase = "ready" /\ events = {} /\ Due = {}
    /\ UNCHANGED <<events, junk, open, maxi, name, out, peer>> /\ EndRound

-----------------------------------------------------------------------------
\* The client of slot s, or its host, is gone.  What it has sent before may
\* still be read.
PeerGone(s) ==
    /\ s \in open /\ peer[s] # "gone"
    /\ peer' = [peer EXCEPT ![s] = "gone"]
    /\ UNCHANGED <<loop, revents, junk, table, out>>

\* main.  ClientFd comes from malloc: revents may be anything until poll has
\* written it.
Init ==
    /\ phase = "poll" /\ events = {} /\ cur = 1 /\ nready = 0
    /\ revents \in [Slots -> SUBSET {"rd", "wr"}] /\ junk = Slots
    /\ open = {} /\ maxi = 1
    /\ name = [s \in Slots |-> Anonymous]
    /\ out = [s \in Slots |-> Fresh]
    /\ peer = [s \in Slots |-> "up"]

Next == \/ Poll \/ Admin \/ Shutdown \/ AcceptNobody \/ EndOfRound
        \/ \E i \in Slots : Accept(i) \/ Visit(i)
        \/ ReadLine \/ LeaveClient
        \/ \E s \in Slots : PeerGone(s)

Spec == Init /\ [][Next]_vars

-----------------------------------------------------------------------------

\* The table of slots: every slot in use is within the part that poll and the
\* loops look at, and its buffer holds no more than finished says.
TypeOK ==
    /\ phase \in {"poll", "ready", "visit", "down"}
    /\ events \subseteq {"stdin", "listen"}
    /\ nready \in Nat
    /\ cur \in 1 .. maxi /\ (phase = "visit" => cur \in open)
    /\ open \subseteq 2 .. maxi /\ maxi \in {1} \cup Slots
    /\ junk \subseteq Slots
    /\ revents \in [Slots -> SUBSET {"rd", "wr"}]
    /\ name \in [Slots -> Names \cup {Anonymous}]
    /\ peer \in [Slots -> {"up", "left", "gone"}]
    /\ \A s \in Slots : /\ out[s].finished \in 0 .. Len(out[s].buf)
                        /\ {out[s].closed, out[s].wr} \subseteq BOOLEAN

\* A client that has a name has it alone: also when slots are used again, when
\* a client takes the name another has given up, and while one that is closed
\* waits for its slot to be visited.
UniqueNames ==
    \A s, t \in open : name[s] = name[t] /\ name[s] # Anonymous => s = t

\* sendToClient drops what does not fit, piece by piece, and yet a client gets
\* every message either from its first to its last piece or not at all,
\* however little its socket takes at a time: what it has got, and what is in
\* the buffer, is a sequence of whole messages.
ToCome(c) == IF Waiting(c) THEN SubSeq(c.buf, c.finished + 1, Len(c.buf)) ELSE c.buf

WholeMessages ==
    \A s \in open : peer[s] # "gone" =>
        /\ Got(out[s].wire, ToCome(out[s])) # Torn
        /\ Waiting(out[s]) => IsNewline(Last(out[s].buf))

\* Output that waits for the socket is always looked after by poll, and poll is
\* asked for nothing else (or it would never sleep again, and the client would
\* be sent nothing and be taken for one that is gone).
WaitingIsWatched ==
    \A s \in open : ~out[s].closed => (out[s].wr <=> Waiting(out[s]))

\* The server ends a connection only if the client has gone or has said exit;
\* except that revents of a new slot, which nobody has written, may end the
\* first connection there.
ClosedForReason ==
    [][\A s \in open \ open' : peer[s] # "up" \/ s \in junk \/ phase' = "down"]_vars

\* Counting nready down ends a round early only when every slot that poll has
\* reported has been visited, whatever else was handled in the round and
\* whoever has come or gone in it.  (Otherwise a slot that is always reported
\* behind busier ones might never be served, and its client's end not be seen.)
NoneSkipped ==
    [][phase # "poll" /\ phase' = "poll" =>
          \A s \in (open \cap open') \ junk : revents[s] # {} => s <= cur]_vars
=============================================================================
