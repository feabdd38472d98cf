------------------------------ MODULE WebChat ------------------------------
(***************************************************************************)
(* The chat of websocket1/, run.py.  Flask-SocketIO runs the handlers of   *)
(* different events concurrently; all that they share is the list clients, *)
(* and each of them may be held up wherever it emits something.            *)
(*                                                                         *)
(* The commands who, tell and yell change nothing and are left out, and so *)
(* is what the clients are sent.  The entries of clients are references    *)
(* to dictionaries, and that of a session outlives its place in the list.  *)
(***************************************************************************)
EXTENDS Integers, SequencesExt

CONSTANTS Sids,        \* request.sid of every connection there will be
          Names,       \* 2 to 12 letters, not "anonymous"
          Anonymous,   \* "anonymous"
          None

VARIABLES
    clients,     \* the list: the sid of every entry
    name,        \* clients[...]['name'], by sid
    socket,      \* of each session: "new", "up", "gone"
    naming,      \* new_name, in a nameCommand that waits in its emits, or None
    leaving      \* j, in a disconnect handler that waits in its emit, or 0

vars == <<clients, name, socket, naming, leaving>>

Init == /\ clients = <<>>
        /\ name = [s \in Sids |-> Anonymous]
        /\ socket = [s \in Sids |-> "new"]
        /\ naming = [s \in Sids |-> None]
        /\ leaving = [s \in Sids |-> 0]

\* The loops that look for request.sid: its first index, from 1, or 0.
IndexOf(s) == SelectInSeq(clients, LAMBDA c : c = s)

\* hello.  It takes its place in the list before it emits anything.
hello(s) ==
    /\ socket[s] = "new"
    /\ socket' = [socket EXCEPT ![s] = "up"]
    /\ clients' = Append(clients, s)
    /\ UNCHANGED <<name, naming, leaving>>

\* No other entry of the list has the name.
Free(s, arg) == \A c \in ToSet(clients) \ {s} : name[c] # arg

\* message and nameCommand, until it emits name_me.  In all other cases nothing
\* but an error is emitted.
nameCommand(s, arg) ==
    /\ socket[s] = "up" /\ naming[s] = None
    /\ IndexOf(s) # 0 /\ Free(s, arg)
    /\ naming' = [naming EXCEPT ![s] = arg]
    /\ UNCHANGED <<clients, name, socket, leaving>>

\* ... and after it has emitted name_other.
SetName(s) ==
    /\ naming[s] # None
    /\ name' = [name EXCEPT ![s] = naming[s]]
    /\ naming' = [naming EXCEPT ![s] = None]
    /\ UNCHANGED <<clients, socket, leaving>>

\* test_disconnect, until it emits leave ...
Disconnect(s) ==
    /\ socket[s] = "up"
    /\ socket' = [socket EXCEPT ![s] = "gone"]
    /\ leaving' = [leaving EXCEPT ![s] = IndexOf(s)]
    /\ UNCHANGED <<clients, name, naming>>

\* ... and after it.  An index behind the end raises an IndexError.
Pop(s) ==
    /\ leaving[s] # 0
    /\ clients' = IF leaving[s] <= Len(clients) THEN RemoveAt(clients, leaving[s]) ELSE clients
    /\ leaving' = [leaving EXCEPT ![s] = 0]
    /\ UNCHANGED <<name, socket, naming>>

Next == \E s \in Sids :
            \/ hello(s) \/ Disconnect(s) \/ Pop(s) \/ SetName(s)
            \/ \E arg \in Names : nameCommand(s, arg)

Spec == Init /\ [][Next]_vars

-----------------------------------------------------------------------------

\* No two connected clients have the same name other than "anonymous": who
\* chooses a name that another one has is told that it "has been used by
\* others" (run.py:112).
UniqueNames ==
    \A s, t \in Sids :
        socket[s] = "up" /\ socket[t] = "up" /\ name[s] = name[t] /\ name[s] # Anonymous => s = t
=============================================================================
