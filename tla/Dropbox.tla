------------------------------ MODULE Dropbox -------------------------------
(***************************************************************************)
(* The directory synchronisation of 3/: server.c and client.c, which run   *)
(* the same connection.c at both ends of a TCP connection.  A client puts  *)
(* files; the server saves what arrives whole and sends it to the other    *)
(* clients of the user, and to those that log in later.                    *)
(*                                                                         *)
(* TCP with mypack.c is a channel of whole packets (module MyPack); the    *)
(* last packet may stay in part in the sender's buffer.  An action is the  *)
(* part of processClient that handles one packet, or the part that writes  *)
(* one: poll may report a socket as readable, writable or both, and both   *)
(* is the one after the other.                                             *)
(*                                                                         *)
(* cancelUser is never called and `ok' is always 1, so no end ever sends   *)
(* CANCEL or ERROR; the states that only these lead to are left out.       *)
(* Names are plain ones: getSaferName, which cuts a path off, keeps them.  *)
(***************************************************************************)
EXTENDS Integers, SequencesExt

CONSTANTS
    Clients,       \* client programs, each with a directory and a server slot
    Users, Names,  \* user names and file names
    UserOf,        \* the user name each client was started with
    None,          \* no file, no packet, no user
    Chunks,        \* Chunks[v]: how many reads of 1000 bytes version v takes
    MaxPuts,       \* bound: how often files are put
    MaxJoins,      \* bound: how often clients connect
    PartialSends,  \* whether send may take a part of a packet
    OpenFails      \* whether fopen may fail for a file to be received

Versions  == 1 .. MaxPuts
Part      == Versions \X Nat    \* what one fread returns: of which version, and where
FileOr(S) == S \cup {None}

\* What mypack.c carries: see connection.h.
Packet == [type : {"NAME"}, arg : Users] \cup [type : {"PUT"}, arg : Names]
          \cup [type : {"DATA"}, arg : Part] \cup [type : {"CHECK", "OK"}, arg : {None}]

ASSUME DropboxAssumption ==
    /\ UserOf \in [Clients -> Users]
    /\ None \notin Users \cup Names \cup Seq(Part) \cup Packet
    /\ MaxPuts \in Nat /\ MaxJoins \in Nat
    /\ Chunks \in [Versions -> Nat]
    /\ {PartialSends, OpenFails} \subseteq BOOLEAN

\* The two ends of every connection; both have a struct client_info for it.
Ends     == {"server", "client"} \X Clients
Server(c) == <<"server", c>>
Client(c) == <<"client", c>>
Peer(e)  == IF e[1] = "server" THEN Client(e[2]) ELSE Server(e[2])

VARIABLES
    \* struct client_info and events, for each end
    open,          \* fd >= 0 and not closed
    sendQueue,     \* QueueItems: the files to be sent
    isSending,     \* "STARTING", "SENDING" or "CHECKING"
    fileToSend,    \* what is still to be read of the open file
    isRecving,     \* "NONE", "RECEIVING" or "OK"
    fileToRecv,    \* what has been written to the temporary file
    recvFilename,
    pollOut,       \* events has POLLWRNORM
    unsent,        \* the packet of which a part is still in the buffer
    wire,          \* the packets on their way to this end
    \* the server's tables and the directories
    user,          \* name of each connection, None before NAME
    known,         \* the FileEntries of each user
    saved,         \* the server's files of each user
    disk,          \* the files in each client's directory
    \* history and bounds
    origin,        \* who put each version, and under which name
    uploader,      \* the client whose upload is the saved file
    joins, puts

recvVars == <<isRecving, fileToRecv, recvFilename>>
sendVars == <<sendQueue, isSending, fileToSend>>
connVars == <<open, sendVars, recvVars, pollOut, unsent, wire>>
fileVars == <<user, known, saved, disk>>
history  == <<origin, uploader, joins, puts>>
vars     == <<connVars, fileVars, history>>

-----------------------------------------------------------------------------

Message(type, arg) == [type |-> type, arg |-> arg]

\* The file of version v, as the sequence of parts that fread returns.
Content(v) == [k \in 1 .. Chunks[v] |-> <<v, k>>]

\* A file to be sent.  fileId, which getFileId gives to a name of a user once and
\* for all, is modelled by that user; at a client it is not used.
QueueItem(filename, owner) == [filename |-> filename, owner |-> owner]

\* The file that an item stands for: fopen of "N.dat", or of the name.
FileAt(e, qi) == IF e[1] = "server" THEN saved[qi.owner][qi.filename]
                 ELSE disk[e[2]][qi.filename]

\* The other connections of the user of client c.  The mutants forget to compare
\* users, and leave out a client that has the file in its queue already.
Peers_All(c)  == {d \in Clients \ {c} : open[Server(d)]}
Peers_Once(c) == {d \in Clients \ {c} :
                    /\ open[Server(d)] /\ user[d] = user[c]
                    /\ \A i \in DOMAIN sendQueue[Server(d)] :
                          sendQueue[Server(d)][i].filename # recvFilename[Server(c)]}
Peers(c) == {d \in Clients \ {c} : open[Server(d)] /\ user[d] = user[c]}

\* sendToClient: the packet is taken whole, or a part of it stays behind.
sendToClient(e, p) ==
    \/ /\ wire' = IF open[Peer(e)] THEN [wire EXCEPT ![Peer(e)] = Append(@, p)] ELSE wire
       /\ UNCHANGED unsent
    \/ PartialSends /\ unsent' = [unsent EXCEPT ![e] = p] /\ UNCHANGED wire

-----------------------------------------------------------------------------
\* processMessage, for the next packet at an open end.

Receives(e, type) == open[e] /\ wire[e] # <<>> /\ Head(wire[e]).type = type

Arg(e) == Head(wire[e]).arg

Consumed(e) == [wire EXCEPT ![e] = Tail(@)]

\* The files a client that logs in is sent, in the order of the hash table.
RecvName(c) ==
    LET e == Server(c) IN
    /\ Receives(e, "NAME")
    /\ wire' = Consumed(e)
    /\ user' = [user EXCEPT ![c] = Arg(e)]
    /\ \E order \in SetToSeqs({QueueItem(n, Arg(e)) : n \in known[Arg(e)]}) :
          /\ sendQueue' = [sendQueue EXCEPT ![e] = @ \o order]
          /\ pollOut' = [pollOut EXCEPT ![e] = @ \/ order # <<>>]
    /\ UNCHANGED <<open, isSending, fileToSend, recvVars, unsent, known, saved, disk, history>>

\* A name has an entry from the first PUT on, before there is a file.
getFileId(u, n) == [known EXCEPT ![u] = @ \cup {n}]

RecvPut(e) ==
    /\ Receives(e, "PUT")
    /\ wire' = Consumed(e)
    /\ recvFilename' = [recvFilename EXCEPT ![e] = Arg(e)]
    /\ isRecving' = [isRecving EXCEPT ![e] = "RECEIVING"]
    /\ \/ fileToRecv' = [fileToRecv EXCEPT ![e] = <<>>]
       \/ OpenFails /\ fileToRecv' = [fileToRecv EXCEPT ![e] = None]
    /\ known' = IF e[1] = "server" THEN getFileId(user[e[2]], Arg(e)) ELSE known
    /\ UNCHANGED <<open, sendVars, pollOut, unsent, user, saved, disk, history>>

RecvData(e) ==
    /\ Receives(e, "DATA")
    /\ wire' = Consumed(e)
    /\ fileToRecv' = IF fileToRecv[e] = None THEN fileToRecv
                     ELSE [fileToRecv EXCEPT ![e] = Append(@, Arg(e))]
    /\ UNCHANGED <<open, sendVars, isRecving, recvFilename, pollOut, unsent, fileVars, history>>

\* renameReceived: the temporary file becomes the file, and sendToPeers.
SaveAtServer(c) ==
    LET e == Server(c)  n == recvFilename[e] IN
    /\ saved' = [saved EXCEPT ![user[c]][n] = fileToRecv[e]]
    /\ sendQueue' = [f \in Ends |-> IF f \in {Server(d) : d \in Peers(c)}
                                    THEN Append(sendQueue[f], QueueItem(n, user[c]))
                                    ELSE sendQueue[f]]
    /\ pollOut' = [f \in Ends |-> pollOut[f] \/ f = e \/ f \in {Server(d) : d \in Peers(c)}]
    /\ uploader' = [uploader EXCEPT ![user[c]][n] = c]
    /\ UNCHANGED disk

SaveAtClient(c) ==
    LET e == Client(c) IN
    /\ disk' = [disk EXCEPT ![c][recvFilename[e]] = fileToRecv[e]]
    /\ pollOut' = [pollOut EXCEPT ![e] = TRUE]
    /\ UNCHANGED <<saved, sendQueue, uploader>>

RecvCheck(e) ==
    /\ Receives(e, "CHECK") /\ fileToRecv[e] # None
    /\ wire' = Consumed(e)
    /\ IF e[1] = "server" THEN SaveAtServer(e[2]) ELSE SaveAtClient(e[2])
    /\ isRecving' = [isRecving EXCEPT ![e] = "OK"]
    /\ fileToRecv' = [fileToRecv EXCEPT ![e] = None]
    /\ UNCHANGED <<open, isSending, fileToSend, recvFilename, unsent, user, known, origin, joins, puts>>

\* There is no open file: the sender will wait for the answer in vain.
RecvCheckIgnored(e) ==
    /\ Receives(e, "CHECK") /\ fileToRecv[e] = None
    /\ wire' = Consumed(e)
    /\ UNCHANGED <<open, sendVars, recvVars, pollOut, unsent, fileVars, history>>

\* The file is delivered: the next one can start, if there is one.  The mutants go
\* on sending, and look for the next one behind it.
SendingNext_On == "SENDING"
SendingNext    == "STARTING"
MoreToSend_Late(e) == Len(sendQueue[e]) > 2
MoreToSend(e)      == Len(sendQueue[e]) > 1

RecvOk(e) ==
    /\ Receives(e, "OK")
    /\ wire' = Consumed(e)
    /\ IF sendQueue[e] # <<>> /\ isSending[e] = "CHECKING"
       THEN /\ sendQueue' = [sendQueue EXCEPT ![e] = Tail(@)]
            /\ fileToSend' = [fileToSend EXCEPT ![e] = None]
            /\ isSending' = [isSending EXCEPT ![e] = SendingNext]
            /\ pollOut' = [pollOut EXCEPT ![e] = @ \/ MoreToSend(e)]
       ELSE UNCHANGED <<sendVars, pollOut>>
    /\ UNCHANGED <<open, recvVars, unsent, fileVars, history>>

-----------------------------------------------------------------------------
\* The end of processClient: poll has reported that the socket can be written.

Writes(e) == open[e] /\ pollOut[e]
Free(e)   == Writes(e) /\ unsent[e] = None
Queued(e) == Free(e) /\ isRecving[e] # "OK" /\ sendQueue[e] # <<>>

trySendToClientAgain(e) ==
    /\ Writes(e) /\ unsent[e] # None
    /\ wire' = IF open[Peer(e)] THEN [wire EXCEPT ![Peer(e)] = Append(@, unsent[e])] ELSE wire
    /\ unsent' = [unsent EXCEPT ![e] = None]
    /\ UNCHANGED <<open, sendVars, recvVars, pollOut, fileVars, history>>

\* The answer is sent once; the mutant forgets that it was sent.
Answered_Again == "OK"
Answered       == "NONE"

sendCheckResult(e) ==
    /\ Free(e) /\ isRecving[e] = "OK"
    /\ sendToClient(e, Message("OK", None))
    /\ isRecving' = [isRecving EXCEPT ![e] = Answered]
    /\ UNCHANGED <<open, sendVars, fileToRecv, recvFilename, pollOut, fileVars, history>>

\* sendQueuedData with nothing queued, or with a file that waits for its OK.
StopWriting(e) ==
    /\ Free(e) /\ isRecving[e] # "OK"
    /\ sendQueue[e] = <<>> \/ isSending[e] = "CHECKING"
    /\ pollOut' = [pollOut EXCEPT ![e] = FALSE]
    /\ isSending' = [isSending EXCEPT ![e] = IF sendQueue[e] = <<>> THEN "STARTING" ELSE @]
    /\ UNCHANGED <<open, sendQueue, fileToSend, recvVars, unsent, wire, fileVars, history>>

StartFile(e) ==
    /\ Queued(e) /\ isSending[e] = "STARTING"
    /\ LET qi == Head(sendQueue[e]) IN
          /\ FileAt(e, qi) # None
          /\ fileToSend' = [fileToSend EXCEPT ![e] = FileAt(e, qi)]
          /\ sendToClient(e, Message("PUT", qi.filename))
    /\ isSending' = [isSending EXCEPT ![e] = "SENDING"]
    /\ UNCHANGED <<open, sendQueue, recvVars, pollOut, fileVars, history>>

\* fopen fails: the item is dropped.
SkipFile(e) ==
    /\ Queued(e) /\ isSending[e] = "STARTING"
    /\ FileAt(e, Head(sendQueue[e])) = None
    /\ sendQueue' = [sendQueue EXCEPT ![e] = Tail(@)]
    /\ UNCHANGED <<open, isSending, fileToSend, recvVars, pollOut, unsent, wire, fileVars, history>>

SendData(e) ==
    /\ Queued(e) /\ isSending[e] = "SENDING" /\ fileToSend[e] # <<>>
    /\ sendToClient(e, Message("DATA", Head(fileToSend[e])))
    /\ fileToSend' = [fileToSend EXCEPT ![e] = Tail(@)]
    /\ UNCHANGED <<open, sendQueue, isSending, recvVars, pollOut, fileVars, history>>

\* POLLWRNORM is cleared also when a part of CHECK is still in the buffer.
SendCheck(e) ==
    /\ Queued(e) /\ isSending[e] = "SENDING" /\ fileToSend[e] = <<>>
    /\ sendToClient(e, Message("CHECK", None))
    /\ isSending' = [isSending EXCEPT ![e] = "CHECKING"]
    /\ pollOut' = [pollOut EXCEPT ![e] = FALSE]
    /\ UNCHANGED <<open, sendQueue, fileToSend, recvVars, fileVars, history>>

-----------------------------------------------------------------------------
\* Connections, and the user of a client.

\* What initClient sets and destroyClient leaves at the ends in E.
Reset(E) ==
    /\ sendQueue'  = [e \in Ends |-> IF e \in E THEN <<>> ELSE sendQueue[e]]
    /\ isSending'  = [e \in Ends |-> IF e \in E THEN "STARTING" ELSE isSending[e]]
    /\ fileToSend' = [e \in Ends |-> IF e \in E THEN None ELSE fileToSend[e]]
    /\ isRecving'  = [e \in Ends |-> IF e \in E THEN "NONE" ELSE isRecving[e]]
    /\ fileToRecv' = [e \in Ends |-> IF e \in E THEN None ELSE fileToRecv[e]]
    /\ recvFilename' = [e \in Ends |-> IF e \in E THEN None ELSE recvFilename[e]]
    /\ open' = [e \in Ends |-> open[e] /\ e \notin E]

\* connect and accept, then sendNameToServer.
Join(c) ==
    /\ ~open[Client(c)] /\ ~open[Server(c)] /\ joins < MaxJoins
    /\ joins' = joins + 1
    /\ open' = [open EXCEPT ![Client(c)] = TRUE, ![Server(c)] = TRUE]
    /\ user' = [user EXCEPT ![c] = None]
    /\ \/ /\ wire' = [wire EXCEPT ![Server(c)] = << Message("NAME", UserOf[c]) >>]
          /\ UNCHANGED <<unsent, pollOut>>
       \/ /\ PartialSends
          /\ unsent' = [unsent EXCEPT ![Client(c)] = Message("NAME", UserOf[c])]
          /\ pollOut' = [pollOut EXCEPT ![Client(c)] = TRUE]
          /\ UNCHANGED wire
    /\ UNCHANGED <<sendVars, recvVars, known, saved, disk, origin, uploader, puts>>

\* The client program exits or is killed; what it has sent is still on its way.
Leave(c) ==
    /\ open[Client(c)]
    /\ Reset({Client(c)})
    /\ pollOut' = [pollOut EXCEPT ![Client(c)] = FALSE]
    /\ unsent' = [unsent EXCEPT ![Client(c)] = None]
    /\ wire' = [wire EXCEPT ![Client(c)] = <<>>]
    /\ UNCHANGED <<fileVars, history>>

\* The server finds out (a 0 from recv, or an error, which loses packets that
\* were still underway) and closes its end; destroyClient removes the
\* temporary file.
destroyClient(c) ==
    /\ open[Server(c)] /\ ~open[Client(c)]
    /\ Reset({Server(c)})
    /\ pollOut' = [pollOut EXCEPT ![Server(c)] = FALSE]
    /\ unsent' = [unsent EXCEPT ![Server(c)] = None]
    /\ wire' = [wire EXCEPT ![Server(c)] = <<>>]
    /\ UNCHANGED <<fileVars, history>>

\* The user types /put, after writing a new version of the file (as a new file
\* under its name), or for what is there, if anything.
Put(c, n) ==
    /\ open[Client(c)] /\ puts < MaxPuts
    /\ puts' = puts + 1
    /\ \/ /\ origin' = Append(origin, [user |-> UserOf[c], name |-> n])
          /\ disk' = [disk EXCEPT ![c][n] = Content(Len(origin'))]
       \/ UNCHANGED <<origin, disk>>
    /\ sendQueue' = [sendQueue EXCEPT ![Client(c)] = Append(@, QueueItem(n, None))]
    /\ pollOut' = [pollOut EXCEPT ![Client(c)] = TRUE]
    /\ UNCHANGED <<open, isSending, fileToSend, recvVars, unsent, wire, user, known, saved,
                   uploader, joins>>

-----------------------------------------------------------------------------

Init ==
    /\ open = [e \in Ends |-> FALSE] /\ sendQueue = [e \in Ends |-> <<>>]
    /\ isSending = [e \in Ends |-> "STARTING"] /\ fileToSend = [e \in Ends |-> None]
    /\ isRecving = [e \in Ends |-> "NONE"] /\ fileToRecv = [e \in Ends |-> None]
    /\ recvFilename = [e \in Ends |-> None] /\ pollOut = [e \in Ends |-> FALSE]
    /\ unsent = [e \in Ends |-> None] /\ wire = [e \in Ends |-> <<>>]
    /\ user = [c \in Clients |-> None] /\ known = [u \in Users |-> {}]
    /\ saved = [u \in Users |-> [n \in Names |-> None]]
    /\ disk = [c \in Clients |-> [n \in Names |-> None]]
    /\ origin = <<>> /\ joins = 0 /\ puts = 0
    /\ uploader = [u \in Users |-> [n \in Names |-> None]]

Receive(e) == \/ e[1] = "server" /\ RecvName(e[2])
              \/ RecvPut(e) \/ RecvData(e) \/ RecvCheck(e) \/ RecvCheckIgnored(e) \/ RecvOk(e)

Write(e) == \/ trySendToClientAgain(e) \/ sendCheckResult(e) \/ StopWriting(e)
            \/ StartFile(e) \/ SkipFile(e) \/ SendData(e) \/ SendCheck(e)

\* What the programs do, as opposed to the users.
Work == \/ \E e \in Ends : Receive(e) \/ Write(e)
        \/ \E c \in Clients : destroyClient(c)

Next == \/ Work
        \/ \E c \in Clients : Join(c) \/ Leave(c)
        \/ \E c \in Clients, n \in Names : Put(c, n)

Spec == Init /\ [][Next]_vars

\* As long as poll has something to report to one of the programs, one of them
\* goes on.  That they take turns is not needed: there is no endless work.
FairSpec == Spec /\ WF_vars(Work)

-----------------------------------------------------------------------------

\* Every variable keeps its type; a transfer under way has its open file, and its
\* queue entry is there.
TypeOK ==
    /\ open \in [Ends -> BOOLEAN]
    /\ sendQueue \in [Ends -> Seq([filename : Names, owner : FileOr(Users)])]
    /\ isSending \in [Ends -> {"STARTING", "SENDING", "CHECKING"}]
    /\ fileToSend \in [Ends -> FileOr(Seq(Part))]
    /\ isRecving \in [Ends -> {"NONE", "RECEIVING", "OK"}]
    /\ fileToRecv \in [Ends -> FileOr(Seq(Part))]
    /\ recvFilename \in [Ends -> FileOr(Names)]
    /\ pollOut \in [Ends -> BOOLEAN]
    /\ unsent \in [Ends -> FileOr(Packet)] /\ wire \in [Ends -> Seq(Packet)]
    /\ user \in [Clients -> FileOr(Users)]
    /\ known \in [Users -> SUBSET Names]
    /\ saved \in [Users -> [Names -> FileOr(Seq(Part))]]
    /\ disk \in [Clients -> [Names -> FileOr(Seq(Part))]]
    /\ \A e \in Ends : /\ isSending[e] # "STARTING" => fileToSend[e] # None /\ sendQueue[e] # <<>>
                       /\ fileToRecv[e] # None => isRecving[e] = "RECEIVING"

\* No file is ever saved in part, mixed from two uploads, under another name or
\* for another user, at the server or at a client: uploads overlap, a
\* file is replaced while it is being sent, and connections end in the middle.
Authentic(f, u, n) ==
    f = None \/ \E v \in 1 .. Len(origin) :
                   origin[v] = [user |-> u, name |-> n] /\ f = Content(v)
FilesAreWhole ==
    \A n \in Names : /\ \A u \in Users : Authentic(saved[u][n], u, n)
                     /\ \A c \in Clients : Authentic(disk[c][n], UserOf[c], n)

\* An OK is for the file at the head of the send queue: RecvOk, which looks at
\* nothing but isSending, never drops a file that was not delivered.
OkFor(e) == \/ isRecving[Peer(e)] = "OK"
            \/ unsent[Peer(e)] # None /\ unsent[Peer(e)].type = "OK"
            \/ \E i \in DOMAIN wire[e] : wire[e][i].type = "OK"
OkIsForHead ==
    \A e \in Ends : open[e] /\ open[Peer(e)] /\ OkFor(e) =>
        /\ isSending[e] = "CHECKING" /\ sendQueue[e] # <<>>
        /\ Head(sendQueue[e]).filename = recvFilename[Peer(e)]

\* Nothing is going on and nobody has anything left to send.
Quiet == \A e \in Ends : /\ open[e] = open[Peer(e)]
                         /\ sendQueue[e] = <<>> /\ isRecving[e] = "NONE"
                         /\ unsent[e] = None /\ wire[e] = <<>>

\* When nothing is going on, every client that is connected has the server's
\* version of every file of its user, also one that logged in during an upload.
\* The client that has uploaded that version is excepted: an older version
\* may have been on its way to it, and replaces the one it has put.
Synced ==
    Quiet => \A c \in Clients, n \in Names :
        LET u == UserOf[c] IN
        open[Client(c)] /\ saved[u][n] # None /\ uploader[u][n] # c => disk[c][n] = saved[u][n]

\* Once the users stop, the exchange comes to an end.
Settles == <>[]Quiet
=============================================================================
