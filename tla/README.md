# Verification of np1

TLA+ models of the network programs in this repository, TLC configurations that
check them, and TLAPS proofs. The repository holds six small programs of a
network programming course; they share no code.

## 1. Inventory

| part | files | what it is |
|---|---|---|
| `0/` | `Warmup_sample.c` | reads lines and splits them at a pattern, with Knuth-Morris-Pratt |
| `1/` | `server.c`, `client.c`, `mybuff.c` | chat over TCP: one process, `poll`, one output buffer per client |
| `2/` | `sender{1,2,3}.c`, `receiver{1,2,3}.c` | stop-and-wait file transfer over UDP; the three differ in how they time out (alarm, select, SO_RCVTIMEO) |
| `new2/` | `sender1.c`, `receiver1.c` | sliding-window file transfer over UDP |
| `3/` | `server.c`, `client.c`, `connection.c`, `mypack.c`, `queue.c`, `MyHash.c` | files kept in step between all clients of a user, over TCP |
| `websocket1/` | `run.py`, `templates/index.html` | the chat of `1/` over Socket.IO |

### new2: the sliding-window transfer

* **Sender** (`sender1.c`). State: sequence numbers `initSN`, `currentSN`
  (sent), `ackedSN` (acknowledged), `nackedBytes` in flight, a ring `filebuf` of
  2^16 bytes of the file, a ring `checkbuf` that maps a sequence number to the
  packet that starts there, the table `sendpack` of packets used round and
  round, the linked list `unacked` of packets in flight, `resentPtr`, and counts
  of duplicate ACKs and tries. Operations: `initsendfile` (INIT, at most 10
  times), the main loop of `sendfile` (send a new part, or wait for a packet
  under an alarm and handle it or resend), the STOP loop, the farewell.
* **Receiver** (`receiver1.c`). State: `ackedSN` (written to the file),
  `currentSN` (end of the farthest packet), a ring `filebuf`, a ring `checkbuf`
  of marks, `isTimeout`. Operations: `main` waits for an INIT and opens the
  file; `recv_file` stores packets, answers ACK, gives up after 30 timeouts, and
  answers STOP.
* **Interaction**: datagrams only (INIT, INIT_ACK, SEND, ACK, STOP, STOP_ACK),
  which the network loses and reorders.
* **Hard**: retransmission against overwriting in two rings that wrap at
  different places than the sequence number; packet ids that are reused; loss of
  any packet of the handshakes; alarms that expire outside `recv`; a late INIT.
* **Correct means**: the received file is always a prefix of the file sent; what
  the sender takes as acknowledged has been written; success is reported only
  for a complete copy; both programs end.

### 3: directory synchronisation

* **Connection** (`connection.c`). Per client: name, user, receive and send
  packet buffers, `sendQueue` of files to be sent, `isSending` (STARTING,
  SENDING, CHECKING, RESEND, CANCEL), `isRecving` (NONE, RECEIVING, CHECKING, OK,
  ERROR), open files, temporary and final file ids, poll events. Operations:
  `initClient`, `destroyClient`, `processMessage` (NAME, PUT, DATA, CHECK, OK,
  ERROR, CANCEL), `sendQueuedData`, `sendCheckResult`, `trySendToClientAgain`.
* **Server and client** (`server.c`, `client.c`): poll loops over the same code;
  the client adds `/put`, `/sleep` and `/exit`.
* **Queue** (`queue.c`): an array used as a ring that doubles when full.
* **Packets** (`mypack.c`): length-prefixed packets cut anywhere by TCP.
* **Hash table** (`MyHash.c`): chained buckets that double.
* **Correct means**: every client of a user ends with the server's version of
  every file (for the last uploader see section 4); no file is saved in part; a
  queue is a queue; framing neither loses nor invents packets; the table is a map.

### 1: chat over TCP

* **Server** (`server.c`). A table of slots (`ClientFd`, `Clients`, `maxi`) with a
  name, a line buffer and an output buffer each; the output buffer holds at most
  one line that the socket has not taken, and everything else is dropped while it
  waits. One loop: `poll`, then the administrator's line, one new connection, and
  the slots in order, until `nready` has been counted down. Commands who, name,
  tell, yell, exit.
* **Lines** (`mybuff.c`): `recvline` collects bytes until a newline; the buffer is
  moved to the front and doubled.
* **Client** (`client.c`): one loop around `select`, the user's lines out, the
  server's bytes in, until one of them ends it.
* **Hard**: slots, buffers and `revents` of an earlier client; the two counts
  (connections and slots) that must agree in a round; output cut anywhere; stdio
  reading ahead of `select`.
* **Correct means**: names are unique; lines are handed out whole and once; output
  is not cut in the middle; nobody is closed without a reason or never served.

### 2, websocket1, 0

* `2/`: one part in flight, sequence numbers in bytes. Correct: as for new2.
* `websocket1/`: a list of clients; handlers may interleave at each `emit`.
  Correct: names unique, the right client removed.
* `0/`: the failure function and the search. Correct: every first occurrence.

## 2. Plan

The order is that of importance: the two file transfers have the most state, the
most interleavings and no tests.

| | modules | models | state |
|---|---|---|---|
| 1 | `SeqRing`, `Datagrams`, `WindowTransfer`, `FileCopy` | new2 and its abstract specification | done |
| 2 | `WindowInvariant`, `WindowTransferProofs` | its proofs | done |
| 3 | `RingQueue`, `Fifo`, `StructuresProofs` | `3/queue.c` | done |
| 4 | `StopAndWait`, `StopAndWaitProofs` | 2, implementing the same `FileCopy` | done |
| 5 | `MyPack`, `MyPackProofs` | `3/mypack.c`, implementing `Fifo` | done |
| 6 | `Dropbox`, `DropboxProofs` | `connection.c`, `server.c`, `client.c`, on channels of whole packets (what `MyPack` implements) and on queues (what `RingQueue` implements) | done |
| 7 | `LineBuffer`, `ChatClient`, `ChatServer`, `ChatServerProofs`, `FramingProofs` | 1; lines in both directions implement `Fifo` | done |
| 8 | `WebChat` | websocket1 | done |
| 9 | `MyHash`, `Dict`, `Kmp`, `StructuresProofs` | `3/MyHash.c` against a map, `0/` against the definition of an occurrence | done |
| 10 | `Induction` | induction over the natural numbers, for the proofs | done |

`MCStructures` and `MCFraming` check several small modules in one run: a variable
`subject` says which one a behaviour is about, and the others keep their initial
values. The state spaces add up, they do not multiply.

## 3. The models and the code

### new2: `WindowTransfer` on `SeqRing` and `Datagrams`

`SeqRing` is the arithmetic both programs share: sequence numbers modulo
`SNSpace` (2^32), the ring modulo `BufSize` (2^16), `insideRange`, and reading
and writing the ring with the split at its end. `Datagrams` is the network: a
set of packets in flight for each direction, from which any may be lost, taken
in any order and, with `Duplicates`, left behind when it is taken. `NetCap`
bounds the set: what is sent into a full network is lost.

The variables of `WindowTransfer` have the names of the C variables, with an `r`
before those of the receiver that both programs have; `sPc` and `rPc` say in
which loop a program is, and `sAlarm` and `rAlarm` whether the alarm is still
pending that ends its next wait. **An action is one turn of a loop**, from one
`recv` to the next: nothing else in these programs waits, and they share nothing
but packets.

| code | actions |
|---|---|
| `initsendfile`, `waitInitAck` | `SndInit`, `SndInitRecv`, `SndInitTimeout` |
| `sendfile`, the main loop | `SndNewPart`, `SndRecv` (with `recvMaybeAck`, `recvAck`), `SndTimeout` (with `sendOldFilePart`) |
| `sendfile`, STOP and farewell | `SndFinish`, `SndStop`, `SndStopRecv`, `SndStopTimeout`, `SndClose` |
| receiver `main` | `RcvOpen`, `RcvIdle` |
| `recv_file` | `RcvData` (with `storeFile`), `RcvInitAgain`, `RcvStop`, `RcvTimeout`, `RcvIgnore`, `RcvStopWait`, `RcvStopAck` |
| `sig_alarm` outside `recv` | `SndLoseAlarm`, `RcvLoseAlarm` |

A byte of the file is modelled by its position, so every byte in a wrong place
shows. Left out: how long a timer runs, hence `Rto` and the time stamps (a packet
on the list may always be old enough, or not, to be sent again); printing and
`totalBytesSent`; SACK blocks, because the receiver never sends one, so `recvAck`
is only called with the position from `ackedSN` on. `dupAck` is counted to
`DupCap` = 4, for it is only compared with 3. Not modelled: ECONNREFUSED (the
receiver program is running), a second run of the sender, a crash.

### 2: `StopAndWait` on `Datagrams`

One model for the three variants, which have the same control and differ in how
`tryToGetAck` and `tryToGetFile` bound a wait. With `alarm` (variant 1) the timer
can expire before `recv` is entered (`LostAlarms`); with `select` and
`SO_RCVTIMEO` it cannot. Receivers 2 and 3 answer STOP at most 22 times, receiver
1 30 times: that is the constant `StopAcks`. Sequence numbers start at random and
are only compared for equality, so they are modelled as positions in the file.
`written` is what was given to `fwrite`. `SndTry` is a turn of one of the three
`for` loops of `send_file`; `SndAnswered` and `SndTimeout` are the two ends of
the wait in it; `Rcv...` are the branches of `main`, `recv_file`, `tryToGetFile`
and `tryToStop`. Not modelled: a failing `fopen`, ECONNREFUSED.

### FileCopy

What both transfers promise without a protocol: the destination grows as a prefix
of the source, and success is reported only when it is the whole source; failure
may be reported at any time, also when the destination is complete, as happens
when every STOP_ACK is lost. The refinement mapping is `dest <- written` and
`outcome <-` how the sender ended.

### 3: `RingQueue` and `MyPack`, implementing `Fifo`

`RingQueue` has one action for each path of `queuePush` (in place, growing,
dropped for lack of memory) and one for `queueFirst` with `queuePop`, which the
callers use together and only on a queue that is not empty. The array has
`Garbage` in every cell that was never written.

`MyPack` is one direction of a connection. The bytes are modelled, because the
conversion is the point: a header is two bytes of type and two of length in base
`Base`. `sendPacket` composes a packet and sends what `send` takes;
`trySendToClientAgain` (of `connection.c`) sends more of it; `recvPacket` makes
its one or two calls of `recv`, each of which returns any part of what was asked
for, nothing, or the end of the stream. The peer may end at any moment and the
last bytes may get lost. EINTR only repeats a call and is left out. The callers'
guard `packetFinished` (`connection.c:524`) is part of the model.

### 3: `Dropbox`

Every connection has two ends, and both run `connection.c` with a
`struct client_info`; the variables are functions on ends and have the names of
its fields. `pollOut` is POLLWRNORM in `events`, `unsent` a packet of which a part is
left in the buffer, `wire` the packets underway. `processClient` is split at the point
between reading and writing: poll may report a socket as readable, as writable or
as both, and both is one after the other with nothing in between that the split
does not allow anyway.

| code | actions |
|---|---|
| `processMessage` | `RecvName`, `RecvPut`, `RecvData`, `RecvCheck` (with `renameReceived`, `sendToPeers`), `RecvCheckIgnored`, `RecvOk` |
| `sendQueuedData` | `StartFile`, `SkipFile`, `SendData`, `SendCheck`, `StopWriting` |
| `sendCheckResult`, `trySendToClientAgain` | the same names |
| `connect`, `accept`, `sendNameToServer` | `Join` |
| `/exit` or the end of the program, and the server's `destroyClient` | `Leave`, `destroyClient` |
| `readUser`, `/put` | `Put` |

A file is the sequence of its 1000-byte reads, each tagged with the version it is
from. An open file keeps its contents when `rename` replaces it, as in POSIX, so
`fileToSend` is what is still to be read of the file as it was opened. A user replaces
a file as a whole before `/put`. The hash tables are sets; the order in which a
client that logs in is sent its files is any. Not modelled: CANCEL and ERROR
(nothing sends them: `cancelUser` is commented out and `ok` is always 1), names with
a path, a full table of connections, a crash of the server, an `fread` that fails
(`connection.c:432`, whose 0 the code takes for the end of the file) and an `fwrite`
that does (283, which is not looked at). A client joins again only after the server
has noticed the end of its old connection.

### 3: `MyHash`, implementing `Dict`

The array of chains of `MyHash.c`, with one action for each way through get, set
(a key that is there; a new one, which may double the array first) and delete, and
one for an iteration. The hash is any function of the keys (`HashOf`); doubling
moves chain after chain, each entry to the front of its new one, as
`MyHash_resize` does: its two loops are the two recursive functions of `Relinked` and
`Resized`. `Dict` is a map and the value the last call has returned. A
table is not changed under an iterator; `connection.c` does not do that.

### 1: `ChatServer`, `LineBuffer`, `ChatClient`

`ChatServer` is the poll loop. Its state is the table of slots, what `poll` has
reported (`revents`, `nready`, and `junk`, the slots whose `revents` nobody has written
since `malloc`), and where the round is.

| code | actions |
|---|---|
| `poll` | `Poll` |
| the administrator | `Admin`, `Shutdown` |
| `accept`, `initClient`, `hello` | `Accept`, `AcceptNobody` |
| the loop over the slots, `nready` | `Visit`, `EndOfRound`, `CountDown` in the others |
| `processClient`, a line | `ReadLine` with the commands of `processMessage` |
| the rest of `processClient`, `trySendToClientAgain`, `goodbye`, `destroyClient` | `LeaveClient` |
| the client or its host is gone | `PeerGone` |

A message is two pieces of one unit each, the second one the newline, because
`sendToClient` is called several times for one message and the code only looks
at whether what it keeps ends in a newline. What the client makes of the pieces is
folded into one value, `wire`: it ended a message, is within one, or is torn.
Every handler chooses how much each socket it writes to has room for.
`Forgotten` drops values of `revents`, `cur` and `nready` that are written again
before they are read.

`LineBuffer` is `recvline` with the part of `processClient` that calls it; the
bytes, the two indices and the capacity are kept, because moving, growing and
handing out depend on them. The loop ends early once the client is marked closed: by a
line that says exit (`Exits`), or because a send to it failed, in the loop (`Hand`) or
outside it (`Dropped`), as it may after the connection has been `reset`; a reset also
loses any bytes not read yet. Whether `revents` is `junk` decides whether the first round
sends nothing and takes that for the end, as in `ChatServer`. `ChatClient` is the loop of `client.c`. In both, the lines
the peer has completed and the program has not handed out yet are the queue of `Fifo`.

### websocket1: `WebChat`

The handlers of `run.py`, cut at every `emit`, where another one may run. `clients`
is the list of entries, an index into it is kept across the `emit` of a
disconnect (`leaving`), a name across those of the name command (`naming`).

### 0: `Kmp`

`kmp`, which builds the failure function in place, and `kmpsearch` under the split
command of `cmd`, a character at a time, for a separator that is not empty.

## 4. The runs

| run | question | bounds | result |
|---|---|---|---|
| `window_safety` | is the bookkeeping of the window consistent and the file a prefix, in every session? | 12 bytes, window 7, ring 8, packets of 4, 2 packets in flight, 2 sessions, lost alarms | holds, 1.2 million states |
| `window_copy` | does a transfer implement `FileCopy`, and does it end? | the same, 1 session, alarms kept | holds, 170 thousand states |
| `window_version` | do both ends agree on the protocol version? | as `window_copy` | violated, see 5 |
| `window_stall` | is every wait bounded by an alarm? | as `window_copy`, lost alarms | violated, see 5 |
| `stop_and_wait_safety` | is a part written once and in its place, whatever comes late or twice? | 4 bytes, parts of 2, duplicates, lost alarms, late INITs, 2 sessions | holds, 150 thousand states |
| `stop_and_wait_copy` | does it implement `FileCopy`, and does it end? | the same without those three; 3 sessions, 3 packets in flight | holds, 40 thousand states |
| `structures` | is the growing ring a queue, the growing table a map that an iterator meets once, and does the search find every first occurrence? | ring from 2 to 4 to 8; 5 keys, 2 values, 1 to 4 buckets; separators up to 5 and lines up to 6 of two letters | holds, 160 thousand states |
| `framing` | do packets and lines arrive whole wherever TCP cuts, and does the end of a connection end the client? | 2 packets of 2 types, bodies of 0 to 2 bytes of base 2; 6 bytes of lines each way, buffer of 2, one line that says exit, resets; 2 inputs of the user | holds, 420 thousand states |
| `chat_server` | are names unique, messages whole, and is nobody closed without a reason or passed over? | 2 slots, 1 name, any room in each socket, both kinds of admin text | holds, 920 thousand states |
| `web_names` | are names unique when handlers interleave? | 3 sessions, 2 names | violated, see 5 |
| `dropbox_safety` | are only whole files of the right user and name saved, and is an OK for the file at the head of the queue? | 2 joins of 3 clients of two users, 1 name, 2 puts of one read, packets sent in part, files that cannot be opened | holds, 390 thousand states |
| `dropbox_sync` | does the exchange come to rest, and do the clients then have the server's files? | 2 clients of one user, 3 joins, 2 puts, one of an empty file | holds, 460 thousand states |

**Why the bounds are enough.** A window of 7 bytes with packets of 4 holds a full
packet and one the window cut short, and the file's 12 bytes with `initSN` five
bytes before the wrap go around the ring of 8 once and a half, so that slots and
marks are used again; the sequence number, the sender's ring and the receiver's
ring wrap in the course of it, in the middle of a packet. `MaxPackets` = 4 gives
3 packet ids, exactly as many as can be outstanding. Two packets in flight
suffice for overtaking; the counts of tries are 1 to 3 where the code has 10 to
30, so that giving up is part of every run. In `StopAndWait` the file is a
multiple of the part size, which makes the code send an empty last part. In
`MyPack` with base 2 every body can look like a header and a length of 2 uses the
high byte; a second packet shows what the first one left in the buffers. In
`Dropbox` two puts overlap in every way: of two clients, of one client, while the
first is being sent on; the third join is that of a client that comes back. In
`ChatServer` two slots give one client that does something and one that hears of
it, is passed over, or has just taken a slot that was in use; uniqueness of names
only needs the one name two clients may both want, and that there are never more than
two slots to compare is what the proof for any number of them is for. Two
units and a newline are enough to cut a message in every place a buffer can tell
apart. In `LineBuffer` a buffer of 2 is full, moved and doubled twice within 6
bytes; one line of one letter says exit, which leaves room for a line before it and
one behind it. The keys of `MyHash` collide with 1, 2 and 4 buckets, or with 1 and 2 only
(`MCHashOf`). In `framing` the lines that the client shows are of one letter
(`ClientLetters`), and those that the server reads of two.
What depends on the sizes is proved for all of them, where section 6 says so.

**Fairness.** `FairSpec` of the transfers is weak fairness of the sender's steps
and of the receiver's steps: the scheduler runs both programs, and a pending alarm
goes off. Nothing is assumed of the network: the runs for `Terminates` include
the one in which every packet is lost. They exclude `Duplicates`, because a packet that
comes again for ever keeps the programs from counting tries, and `LostAlarms`,
because with them the programs do stop (section 5). In `MyPack` only `recvPacket`
is fair: the socket is polled for reading at all times and poll is
level-triggered. No fairness is given to the sending side, since
`connection.c:437` stops polling for writing after a CHECK even when part of it is
still in the buffer; `Delivered` speaks only of packets that were sent to the end.
For the same reason `dropbox_sync` has `PartialSends = FALSE`: four bytes on a socket
that poll has reported as writable are taken whole in practice. Its fairness is
`WF_vars(Work)`: as long as there is something for one of the programs to do, one
of them goes on. That they take turns is not assumed; nothing is assumed of
the users. In `framing` the steps of `ChatClient` (`Work`) are weakly fair: `select`
returns when something can be read. They have no fairness among each other, and none
is needed for `ClientEnds`, because the user types a bounded number of lines; the loop
looks at standard input first and would not see the server behind endless input. Liveness of `ChatServer` is not checked; that its
round passes nobody over is stated as an action property instead (`NoneSkipped`).

**Deadlock** is checked, except where the system does stop: `window_safety`,
`window_stall` and `stop_and_wait_safety`, where a lost alarm leaves both
programs in `recv` for ever; `framing` and `chat_server`, where the connection
ends and the administrator shuts the server down; `structures` and `web_names`,
where a line has been split and all sessions are over; and the two of `Dropbox`,
where users may stop.

**What bounds the claims.** An INIT that was delayed until
the receiver is back in `main` opens the file again and truncates it (`new2/`,
`receiver1.c:285`, and 2): then only the prefix properties hold, and they are the ones
checked with two sessions and with `LateInits`. And in `new2/` the sender reports success
without a STOP_ACK after 20 tries; `CopySpec` shows that the copy is complete by
then. In `Dropbox`, `Synced` excepts the client that uploaded the saved version: when it
was being sent an older version of the same file at that time, it ends with that
older one, and the server does not send it the newer one it put itself. (TLC
finds this when the exception is dropped.) No comment in the code promises more.

In `ChatServer`, `ClosedForReason` and `NoneSkipped` except slots in `junk`: `ClientFd`
comes from `malloc` (`server.c:490`), a new client's `revents` are looked at in the round
that accepts it, and what is there may make `trySendToClientAgain` send nothing,
whose 0 is taken for the end of the connection. `WholeMessages` has the
administrator send one text without newline at a time; a second one is glued to the
first, as the commands intend. Such a text, when the socket does not take it, waits
unsent until the next line for that client. While a line waits, whole later
messages are dropped: `WholeMessages` promises no more than that none is cut.
`Attentive` (`ServerAttentive`) does not say that every line is read before the server
closes, which is not so: `exit` and a line behind it in the same segment leave the
second one in the buffer, with the client still there (`server.c:394`, `438`, `473`), and
a `send` that fails closes a client whatever is still to be read. It says that
these, and junk, are the only reasons: where the client has just closed its side,
everything it sent is read first.
`ClientEnds` excepts a client whose standard input has ended: `select` then
reports that for ever and the client looks at nothing else. What the client
*sends* is not modelled: after a `write` that took a part of a line it begins again
(`client.c:129`), and nothing says what the server is to make of that; a line that
stdio has read ahead is sent only when the user types another one.

## 5. Where code and comments disagree

* **Version** (`window_version`). `receiver1.c:231` answers a repeated INIT with
  the magic number only for `senderVersion == 3`, a value nothing sets; the 12-byte
  answer tells the sender that the receiver is of version 1, and the data packets
  it then sends are ignored by a receiver that knows it has a version-2 sender.
  One lost or late INIT_ACK makes the transfer fail.
* **Alarm** (`window_stall`). An alarm that expires between `ualarm` and `recv`
  (`sender1.c:345-347`) sets `isTimeout`, which nobody reads before `recv` blocks. Both
  programs can wait for ever. The alarms of variant 1 of 2 have the same race
  (`SndLoseAlarm`, `RcvLoseAlarm`).

* **Names** (`web_names`). `nameCommand` of `run.py` looks for the name among the
  clients (106-110), emits two messages and only then sets it (116). Two clients
  that ask for the same free name at the same time both get it; the
  message of line 112 tells everyone else that it "has been used by others".

## 6. The proofs

All theorems are of the form `Spec => ...`, for every value of the constants
that satisfies the named assumptions: `SNAssumption` (the ring size divides the
sequence number space), `TransferAssumption` (the window is the ring less one
slot, a packet fits into the window, the file and two rings fit into the
sequence number space, and there is at least one more packet id than packets
in a full window), `StopAndWaitAssumption`, `QueueAssumption`,
`NetAssumption`, `PackAssumption` (a body's length fits into two bytes),
`TableAssumption` (a hash is a natural number, and there is a bucket to begin with),
`SplitAssumption` (the bounds on the separator and the line are natural numbers),
`FramingAssumption` (a newline is no letter, to hand out nothing is not to say exit,
and the buffer is not empty to begin with),
`DropboxAssumption` (every client has a user, and what stands for no file is
neither a name nor a packet) and `ChatAssumption` (the special words are not names). They hold for the values in the code as long as the file is
shorter than 2^32 - 2^17 bytes; a longer one makes sequence numbers ambiguous, and the
properties are not claimed.

**new2** (`WindowInvariant`, `WindowTransferProofs`). The safety properties are
not inductive: that a packet is marked, numbered and stored correctly depends on
what was done a ring ago. `IInv` therefore speaks of positions in the file:
`At(n)` is the sequence number of position `n`. Its parts: `WindowInv`, the bytes
between `ackedSN` and `currentSN` are in the ring; `ListInv`, packets lie end to end
and each is marked where it begins; `IdInv`, ids were handed out in order
and the number of packets is bounded by counting those shorter than `MaxData` (the
one that fills the window, the last one with data, and the empty one), which is
why the table suffices; `NetInv`, what is in flight is a part of the file; and
`ReceiverInv`, a mark `k` slots on from the receiver's `ackedSN` stands for
position `Len(written) + k` and not for one a ring earlier. `WindowTransferProofs` begins
with the arithmetic of the ring (offsets and slots are injective within it), goes on with
what `recvAck` and `sendNewFilePart` preserve, then `storeFile`, the steps and the theorems.

The last part of `WindowTransferProofs` assumes `MaxSessions <= 1`, that is, no old
INIT truncates the file, and adds `SingleInv`: every acknowledgement in flight, however old,
stays true. From it follow `AckedMeansWritten` and `ImplementsFileCopy`.

**2** (`StopAndWaitProofs`). `SWInv` (the receiver's position is the end of what it
has written, and what is in flight is a part of the file) gives types and
`FilePrefix` in every setting; `CopyInv` adds, for `LateInits = FALSE`, that
answers stay true, and gives `AckedIsWritten` and the refinement of `FileCopy`.
They are proved with duplicates and with lost alarms.

**Induction** (`Induction`). A theorem of the library says that `<` on the natural
numbers is well-founded; so every set of them has a least element (`SmallestNat`), a set
that holds 0 and the successor of each of its elements holds them all
(`SetInduction`), and a function defined by recursion exists (`Recursion`). These are facts
about sets and not about predicates, and so can be cited. Every induction below is one of
them.

**Queue** (`StructuresProofs`). The invariant is `TypeOK` with `NoGarbage`; growing
keeps it because the items that had wrapped around are copied behind the
old end, and the sequence of contents is unchanged by that. The ring implements
`Fifo`.

**Hash table** (`StructuresProofs`). `Table(bs, n)`: every entry of the `n` chains `bs` is in
the bucket of its hash, and no key is in a chain twice; hence a key is found, if anywhere,
where `MyHash_getBucket` looks (`ValueFacts`). What the operations do is said of the set of
entries (`Holds`), not of their places: an entry linked to the front of a chain is added and the
others stay (`LinkedFacts`), `set` of a key that is there and `delete` change the one entry
(`ReplacedFacts`, `DeletedFacts`), and `MyHash_resize`, by induction over a chain and then over the
chains, changes none (`RelinkedFacts`, `ResizedFacts`). So the table implements `Dict`, for every hash
function and number of buckets. `Counted` adds that `_size` is the number of keys, and
`Underway` that the iterator has been, once each, at the keys before its place in the order of
buckets and chains (`Before`); when it comes to the end these are all of them, which is `IteratesAll`.

**Packets** (`MyPackProofs`). To say that framing is right one has to say where
packets begin in a stream that no longer shows it. The invariant does so with two
rigid values: `all`, the bytes of all packets composed so far laid end to end, and
`cut`, the positions at which they begin. `Framed`: from `cut[i - 1]` to `cut[i]`
lies the encoding of packet `i`. `Holds`: the receiver's buffer, and behind it
the stream, are a part of `all` that begins at the cut after the last packet returned.
`Rest`: as
long as the sender runs, what it has not sent yet is the rest of `all`. `Expects`: a size is
known exactly when the header is complete, and is then that of the packet. Laying the
bytes end to end this way, one packet at a time as they are composed, avoids the
induction over packets that a definition by concatenation would need.
`TypeOK`, `ClosedOnlyAtEnd` and the refinement of `Fifo` follow.

**Directory synchronisation** (`DropboxProofs`). Each of the four properties is
about two programs, their packets in between and a user's directory, and none is
inductive. `IInv` takes every direction of every connection for itself
(`Direction`), the wire and the packet that is only sent in part read as one channel
(`Chan`). Either it `Rests`: no PUT, DATA or CHECK is underway, and the receiver has
no open file; or it `Moves` one version `v`: what is written to the temporary file,
what is in the channel and what the sender has still to read are, laid end to end,
the parts of `v` in order (`Stream`, `Stores`, `Feeds`). So `renameReceived`
finds all of `v` when the CHECK arrives. An OK is underway only back along a
direction that has received a CHECK, while the sender is in `CHECKING` (`Answers`);
this is why it needs no file name. `Named` adds that until the NAME has been received
nothing else has, so that a file is never saved for nobody. There is a
lemma for every action and part of the invariant; `Elsewhere` serves the
directions that a step does not touch.

`EverybodySynced` needs to know, of every connected client and every file the server has, why
the client has that version or will get it. `Told` says so: the client has not logged in yet; or it
uploaded that version itself, or has still to upload one; or the file waits in the server's queue
for it; or it is `Fresh`, that is, the version is on its disk or being sent to it, and what is
being sent to it under that name is no older one. When all is quiet only the disk and the
exceptions of `Synced` are left. `Entered` is what a login relies on: every file that is
saved, or arriving, has its entry in the user's directory, so the queue filled at login
holds all of them.

**Chat server** (`ChatServerProofs`). `TableInv` gives types and `UniqueNames`, for every
number of slots, clients and names. `RoundInv` says what `nready` counts: in the middle of a
round it is at least the number of events still to be handled and of slots
behind `cur` that poll has reported (`Counted`), so when it comes down to 0 none of these is left
(`NobodySkipped`), although `Admin` and `AcceptNobody` handle an event without counting
it. Slots in `junk` are excepted, as in section 4.

`OutInv` is about one slot's output, between two handlers: it is `Tidy`, that is, what the
client has got and behind it what waits (`InAll`) is whole messages, poll watches for
writing exactly while something waits (`Watched`), and what waits ends in a newline
(`LineWaits`). Within a message these do not hold, and a lemma for each of its pieces and every
room says what holds instead; by induction over the messages of a handler they
hold again at its end. `CutPrefix` is the reason that nothing is torn: what goes out of a
piece, at once or later, ends with the piece or with a newline. `MessagesAreWhole`, `OutputIsWatched`
and the types follow, and `ClosedWithReason` from what `OutInv` says of `closed`.

**Lines** (`FramingProofs`). Both programs of 1 have some bytes in a buffer and the rest in the
stream, and `Holds` says that these together are the bytes still to be handed out; `Laid` that these
are the lines of the abstract queue, laid end to end with the position of each end, and then
the beginning of a line. A newline stands at the end of a line and nowhere else, so
the first one found behind the bytes already searched is the end of the first line (`recvline`), and the
line handed out is the head of the queue. That the positions exist for a line more or less is
`SetInduction`. The server's loop never sleeps on a complete line because, unless
the client is closed, it leaves `recvline` only when it has searched all it has got
(`Looking`, `Closing`). After a reset the bytes behind the buffer are no longer those of the
stream but those that were lost (`Unread`); the lines in the queue may then hold some
that are never handed out, and those that are handed out are still its first ones.

**Splitting** (`StructuresProofs`). `FInv` is about the function that `kmp` builds. While it is at index
`i`, all earlier elements are `Good`: they name the longest start of the separator to fall back to, and 0 if
there is none. `matched - 1` is the length of the longest start that ends before
`i`, and in the inner loop no longer one than that can be continued at `i`. Elements are built
from earlier ones: a start that ends where a longer one does also ends that one
(`EndsWithin`), so the fallbacks of one are those of the other. `Searching` is about
`kmpsearch`: the last `matched` letters are the beginning of the separator, and it begins nowhere
before them (`Absent`); what a mismatch passes over would be a longer fallback than
`Failfunc` has. `Cutting` holds what has been printed: no token holds an earlier occurrence, and the tokens, each with
its separator, and the rest are the line (`Joined`, which keeps the concatenations
of the first tokens in a function, so that `FlattenSeq` is met only once, at the end).

**Only model-checked**: all liveness (`Terminates`, `Delivered`, `Settles`,
`ClientEnds`) and the absence of deadlock, which are out of the prover's reach. Every safety
invariant of a passing run is also a theorem.

## 7. Not modelled

* `websocket1/templates/index.html` is presentation: it sends what is typed and shows
  what it is sent. The commands who, tell and yell of `run.py` change no state.
* `0/`: the reverse command and `readaline` keep no state between lines.
* The texts of the chat, addresses and ports, command lines and terminal output are
  left out everywhere, and so are errors in setting up a socket and running out of memory
  where the program then ends.
* What each model leaves out of its own part is said in section 3, and what bounds
  its claims in section 4.
