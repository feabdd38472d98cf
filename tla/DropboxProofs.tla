--------------------------- MODULE DropboxProofs ----------------------------
(***************************************************************************)
(* For any number of clients, users, names, versions and reads: what the   *)
(* server and the clients save is always one whole version of the right    *)
(* user and name, an OK is for the file at the head of the queue, and when *)
(* nothing is going on every client has the server's version.              *)
(*                                                                         *)
(* The invariant follows one file through a direction of a connection.     *)
(* Rests: nothing is underway, except perhaps the answer to the last file. *)
(* Moves: PUT, DATA and CHECK of one version are underway, what has been   *)
(* received is its beginning and what is still to be read is its end.      *)
(*                                                                         *)
(* Told says how a client comes to have the server's version of a file: it *)
(* has not logged in, has still to upload its own, is in the server's      *)
(* queue for that file, or has the version, on disk or underway.           *)
(***************************************************************************)
EXTENDS Dropbox, FiniteSetTheorems, SequenceTheorems, TLAPS

FileTypes == {"PUT", "DATA", "CHECK"}
OkType    == {"OK"}

\* What is on its way to end e, with what its peer has not sent in full.
Chan(e) == IF unsent[Peer(e)] = None THEN wire[e] ELSE Append(wire[e], unsent[Peer(e)])

\* There is no packet of a type in T.
Without(ch, T) == \A i \in 1 .. Len(ch) : ch[i].type \notin T

-----------------------------------------------------------------------------
\* What holds of the variables themselves.

Closed(e) ==
    /\ wire[e] = <<>> /\ unsent[e] = None /\ sendQueue[e] = <<>>
    /\ isSending[e] = "STARTING" /\ fileToSend[e] = None
    /\ isRecving[e] = "NONE" /\ fileToRecv[e] = None

Owned(c) == \A i \in 1 .. Len(sendQueue[Server(c)]) : sendQueue[Server(c)][i].owner = UserOf[c]

Kinds ==
    /\ TypeOK
    /\ \A e \in Ends : /\ ~open[e] => Closed(e)
                       /\ fileToRecv[e] # None => recvFilename[e] # None
    /\ \A c \in Clients : /\ open[Client(c)] => open[Server(c)]
                          /\ Owned(c)
    /\ \A u \in Users : IsFiniteSet(known[u])
    /\ origin \in Seq([user : Users, name : Names])
    /\ puts \in Nat /\ puts <= MaxPuts /\ Len(origin) <= puts

\* A connection whose user is not known has not received any file.
Named(c) ==
    LET ch == Chan(Server(c)) IN
    /\ user[c] \in {None, UserOf[c]}
    /\ \A i \in 1 .. Len(ch) : ch[i].type = "NAME" => ch[i].arg = UserOf[c]
    /\ user[c] = None => /\ fileToRecv[Server(c)] = None
                         /\ IF ch = <<>> THEN ~open[Client(c)] ELSE ch[1].type = "NAME"

-----------------------------------------------------------------------------
\* One direction, from Peer(e) to e.

\* No answer is underway, or one is, to the file at the head of the queue.
Unanswered(e) == isRecving[e] # "OK" /\ Without(Chan(Peer(e)), OkType)

OneOk(ch) == \E i \in 1 .. Len(ch) : /\ ch[i].type = "OK"
                                     /\ \A j \in 1 .. Len(ch) : ch[j].type = "OK" => j = i
Answers(e) ==
    LET f == Peer(e) IN
    /\ isSending[f] = "CHECKING" /\ Head(sendQueue[f]).filename = recvFilename[e]
    /\ \/ isRecving[e] = "OK" /\ Without(Chan(f), OkType)
       \/ isRecving[e] # "OK" /\ OneOk(Chan(f))

Rests(e) ==
    /\ Without(Chan(e), FileTypes) /\ fileToRecv[e] = None
    /\ open[Peer(e)] => isSending[Peer(e)] # "SENDING" /\ (Unanswered(e) \/ Answers(e))

\* The packets of version v on the way: lo parts have been received, hi sent.
Place(p) == p.arg[2]

PutFirst(ch, n, lo) ==
    \A i \in 1 .. Len(ch) : ch[i].type = "PUT" =>
        ch[i].arg = n /\ lo = 0 /\ \A j \in 1 .. Len(ch) : j < i => ch[j].type \notin FileTypes
PartsOf(ch, v, lo, hi) ==
    \A i \in 1 .. Len(ch) : ch[i].type = "DATA" =>
        ch[i].arg = <<v, Place(ch[i])>> /\ Place(ch[i]) \in lo + 1 .. hi
InOrder(ch) ==
    \A i, j \in 1 .. Len(ch) :
        i < j /\ ch[i].type = "DATA" /\ ch[j].type = "DATA" => Place(ch[i]) < Place(ch[j])
AllThere(ch, lo, hi) ==
    \A k \in lo + 1 .. hi : \E i \in 1 .. Len(ch) : ch[i].type = "DATA" /\ Place(ch[i]) = k
CheckLast(ch, v, hi) ==
    \A i \in 1 .. Len(ch) : ch[i].type = "CHECK" =>
        hi = Chunks[v] /\ \A j \in 1 .. Len(ch) : i < j => ch[j].type \notin FileTypes

Stream(ch, v, n, lo, hi) ==
    /\ PutFirst(ch, n, lo) /\ PartsOf(ch, v, lo, hi) /\ InOrder(ch)
    /\ AllThere(ch, lo, hi) /\ CheckLast(ch, v, hi)

\* The receiver has opened its file, or tried to, when PUT has come.
Beginning(file, v, lo) == Len(file) = lo /\ \A k \in 1 .. lo : file[k] = <<v, k>>

Stores(e, v, n, lo) ==
    IF Without(Chan(e), {"PUT"})
    THEN recvFilename[e] = n /\ (fileToRecv[e] # None => Beginning(fileToRecv[e], v, lo))
    ELSE fileToRecv[e] = None

\* The sender reads on, or has come to the end.
Rest(file, v, hi) ==
    /\ Len(file) = Chunks[v] - hi
    /\ \A k \in 1 .. Len(file) : file[k] = <<v, hi + k>>

Feeds(f, ch, v, n, hi) ==
    /\ Head(sendQueue[f]).filename = n
    /\ \/ isSending[f] = "SENDING" /\ Without(ch, {"CHECK"}) /\ Rest(fileToSend[f], v, hi)
       \/ isSending[f] = "CHECKING" /\ ~Without(ch, {"CHECK"})

Moves(e, v, lo, hi) ==
    LET f == Peer(e)  n == origin[v].name IN
    /\ v \in 1 .. Len(origin) /\ origin[v].user = UserOf[e[2]]
    /\ lo \in Nat /\ hi \in Nat /\ lo <= hi /\ hi <= Chunks[v]
    /\ Stream(Chan(e), v, n, lo, hi)
    /\ Stores(e, v, n, lo)
    /\ open[f] => Unanswered(e) /\ Feeds(f, Chan(e), v, n, hi)

\* A version whose content is F, if anything, is underway.
Carries(e, F) == Rests(e) \/ \E v, lo, hi : Content(v) = F /\ Moves(e, v, lo, hi)

Direction(e) == \E F : Carries(e, F)

IInv == /\ Kinds /\ FilesAreWhole
        /\ \A c \in Clients : open[Server(c)] => Named(c)
        /\ \A e \in Ends : open[e] => Direction(e)

-----------------------------------------------------------------------------
(* Ends and packets.                                                       *)

LEMMA EndFacts ==
    /\ \A c \in Clients : /\ Server(c) \in Ends /\ Client(c) \in Ends
                          /\ Server(c)[1] = "server" /\ Client(c)[1] = "client"
                          /\ Server(c)[2] = c /\ Client(c)[2] = c
                          /\ Peer(Server(c)) = Client(c) /\ Peer(Client(c)) = Server(c)
    /\ \A e \in Ends : /\ e[2] \in Clients /\ (e = Server(e[2]) \/ e = Client(e[2]))
                       /\ e[1] = "server" <=> e = Server(e[2])
                       /\ Peer(e) \in Ends /\ Peer(Peer(e)) = e /\ Peer(e) # e
                       /\ Peer(e)[2] = e[2]
    /\ \A d, e \in Ends : /\ d[2] = e[2] => d = e \/ d = Peer(e)
                          /\ Peer(d) = Peer(e) => d = e
  BY DEF Ends, Server, Client, Peer

LEMMA PacketFacts ==
    /\ \A p \in Packet : /\ p # None
                         /\ p.type = "NAME" => p.arg \in Users
                         /\ p.type = "PUT" => p.arg \in Names
                         /\ p.type = "DATA" => p.arg \in Part
    /\ \A x \in Users : Message("NAME", x) \in Packet
    /\ \A x \in Names : Message("PUT", x) \in Packet
    /\ \A x \in Part : Message("DATA", x) \in Packet
    /\ Message("CHECK", None) \in Packet /\ Message("OK", None) \in Packet
    /\ \A t, x : Message(t, x).type = t /\ Message(t, x).arg = x
  BY DropboxAssumption DEF DropboxAssumption, Packet, Message

LEMMA NoneFacts ==
    /\ None \notin Users /\ None \notin Names /\ None \notin Seq(Part) /\ None \notin Packet
    /\ \A c \in Clients : UserOf[c] \in Users
    /\ \A v \in Versions : Chunks[v] \in Nat
    /\ MaxPuts \in Nat
  BY DropboxAssumption DEF DropboxAssumption

-----------------------------------------------------------------------------
(* Channels as sequences.                                                  *)

\* t is s with, perhaps, packets of types not in T taken from its front or put
\* behind it.
Same(s, t, T, d) ==
    /\ s \in Seq(Packet) /\ t \in Seq(Packet) /\ d \in Nat
    /\ \A i \in 1 .. Len(t) : t[i].type \in T => i + d \in 1 .. Len(s) /\ s[i + d] = t[i]
    /\ \A j \in 1 .. Len(s) : s[j].type \in T => j - d \in 1 .. Len(t) /\ t[j - d] = s[j]

LEMMA Lens == ASSUME NEW s \in Seq(Packet)
              PROVE Len(s) \in Nat /\ \A i \in 1 .. Len(s) : s[i] \in Packet
  BY LenProperties, ElementOfSeq

LEMMA SameSelf == ASSUME NEW s \in Seq(Packet), NEW T PROVE Same(s, s, T, 0)
  <1>1. Len(s) \in Nat BY Lens
  <1>2. \A i \in 1 .. Len(s) : i + 0 = i /\ i - 0 = i BY <1>1
  <1>3. QED BY <1>2 DEF Same

LEMMA SameTail ==
    ASSUME NEW s \in Seq(Packet), NEW T, s # <<>>, Head(s).type \notin T
    PROVE  Same(s, Tail(s), T, 1)
  <1>1. PICK n : n = Len(s) OBVIOUS
  <1>2. n \in Nat \ {0} BY <1>1, EmptySeq
  <1>3. /\ Tail(s) \in Seq(Packet) /\ Len(Tail(s)) = n - 1
        /\ \A i \in 1 .. n - 1 : Tail(s)[i] = s[i + 1]
    BY <1>1, HeadTailProperties
  <1>4. Head(s) = s[1] OBVIOUS
  <1>5. \A i \in 1 .. n - 1 : i + 1 \in 1 .. n BY <1>2
  <1>6. \A j \in 1 .. n : j = 1 \/ (j - 1 \in 1 .. n - 1 /\ j - 1 + 1 = j) BY <1>2
  <1>7. \A j \in 1 .. n : s[j].type \in T => j - 1 \in 1 .. n - 1 /\ Tail(s)[j - 1] = s[j]
    BY <1>3, <1>4, <1>6
  <1>8. QED BY <1>1, <1>3, <1>5, <1>7 DEF Same

LEMMA SameAppend ==
    ASSUME NEW s \in Seq(Packet), NEW T, NEW p \in Packet, p.type \notin T
    PROVE  Same(s, Append(s, p), T, 0)
  <1>1. PICK n : n = Len(s) OBVIOUS
  <1>2. n \in Nat BY <1>1, Lens
  <1>3. /\ Append(s, p) \in Seq(Packet) /\ Len(Append(s, p)) = n + 1
        /\ \A i \in 1 .. n : Append(s, p)[i] = s[i]
        /\ Append(s, p)[n + 1] = p
    BY <1>1, AppendProperties
  <1>4. \A i \in 1 .. n + 1 : i = n + 1 \/ i \in 1 .. n BY <1>2
  <1>5. \A i \in 1 .. n : i \in 1 .. n + 1 /\ i + 0 = i /\ i - 0 = i BY <1>2
  <1>6. \A i \in 1 .. n + 1 : Append(s, p)[i].type \in T =>
            i + 0 \in 1 .. n /\ s[i + 0] = Append(s, p)[i]
    BY <1>3, <1>4, <1>5
  <1>7. \A j \in 1 .. n : j - 0 \in 1 .. n + 1 /\ Append(s, p)[j - 0] = s[j]
    BY <1>3, <1>5
  <1>8. QED BY <1>1, <1>3, <1>6, <1>7 DEF Same

LEMMA WithoutSame ==
    ASSUME NEW s, NEW t, NEW T, NEW d, Same(s, t, T, d), NEW U, U \subseteq T
    PROVE  Without(s, U) <=> Without(t, U)
  BY DEF Same, Without

LEMMA OneOkSame ==
    ASSUME NEW s, NEW t, NEW d, Same(s, t, OkType, d), OneOk(s)
    PROVE  OneOk(t)
  <1>1. PICK i \in 1 .. Len(s) : /\ s[i].type = "OK"
                                 /\ \A j \in 1 .. Len(s) : s[j].type = "OK" => j = i
    BY DEF OneOk
  <1>2. i - d \in 1 .. Len(t) /\ t[i - d] = s[i] BY <1>1 DEF Same, OkType
  <1>3. ASSUME NEW j \in 1 .. Len(t), t[j].type = "OK" PROVE j = i - d
    <2>1. j + d \in 1 .. Len(s) /\ s[j + d] = t[j] BY <1>3 DEF Same, OkType
    <2>2. j + d = i BY <1>1, <1>3, <2>1
    <2>3. j \in Int /\ d \in Int BY Lens DEF Same
    <2>4. QED BY <2>2, <2>3
  <1>4. QED BY <1>1, <1>2, <1>3 DEF OneOk

LEMMA StreamSame ==
    ASSUME NEW s, NEW t, NEW d, Same(s, t, FileTypes, d),
           NEW v, NEW n, NEW lo, NEW hi, Stream(s, v, n, lo, hi)
    PROVE  Stream(t, v, n, lo, hi)
  <1>1. PICK a, b : a = Len(s) /\ b = Len(t) OBVIOUS
  <1>2. a \in Nat /\ b \in Nat /\ d \in Nat BY <1>1, Lens DEF Same
  <1>3. \A i \in 1 .. b : t[i].type \in FileTypes => i + d \in 1 .. a /\ s[i + d] = t[i]
    BY <1>1 DEF Same
  <1>4. \A j \in 1 .. a : s[j].type \in FileTypes => j - d \in 1 .. b /\ t[j - d] = s[j]
    BY <1>1 DEF Same
  <1>5. \A i, j \in 1 .. b : i < j => i + d < j + d BY <1>2
  <1>6. PutFirst(t, n, lo)
    <2>1. SUFFICES ASSUME NEW i \in 1 .. b, t[i].type = "PUT"
                   PROVE  t[i].arg = n /\ lo = 0
                          /\ \A j \in 1 .. b : j < i => t[j].type \notin FileTypes
      BY <1>1 DEF PutFirst
    <2>2. i + d \in 1 .. a /\ s[i + d] = t[i] BY <1>3, <2>1 DEF FileTypes
    <2>3. /\ t[i].arg = n /\ lo = 0
          /\ \A j \in 1 .. a : j < i + d => s[j].type \notin FileTypes
      BY <1>1, <2>1, <2>2 DEF Stream, PutFirst
    <2>4. \A j \in 1 .. b : j < i => t[j].type \notin FileTypes BY <1>3, <1>5, <2>3
    <2>5. QED BY <2>3, <2>4
  <1>7. PartsOf(t, v, lo, hi) BY <1>1, <1>3 DEF Stream, PartsOf, FileTypes
  <1>8. InOrder(t)
    <2>1. SUFFICES ASSUME NEW i \in 1 .. b, NEW j \in 1 .. b,
                          i < j, t[i].type = "DATA", t[j].type = "DATA"
                   PROVE  Place(t[i]) < Place(t[j])
      BY <1>1 DEF InOrder
    <2>2. /\ i + d \in 1 .. a /\ s[i + d] = t[i]
          /\ j + d \in 1 .. a /\ s[j + d] = t[j] /\ i + d < j + d
      BY <1>3, <1>5, <2>1 DEF FileTypes
    <2>3. QED BY <1>1, <2>1, <2>2 DEF Stream, InOrder
  <1>9. AllThere(t, lo, hi)
    <2>1. SUFFICES ASSUME NEW k \in lo + 1 .. hi
                   PROVE  \E i \in 1 .. b : t[i].type = "DATA" /\ Place(t[i]) = k
      BY <1>1 DEF AllThere
    <2>2. PICK i \in 1 .. a : s[i].type = "DATA" /\ Place(s[i]) = k
      BY <1>1 DEF Stream, AllThere
    <2>3. i - d \in 1 .. b /\ t[i - d] = s[i] BY <1>4, <2>2 DEF FileTypes
    <2>4. QED BY <2>2, <2>3
  <1>10. CheckLast(t, v, hi)
    <2>1. SUFFICES ASSUME NEW i \in 1 .. b, t[i].type = "CHECK"
                   PROVE  hi = Chunks[v]
                          /\ \A j \in 1 .. b : i < j => t[j].type \notin FileTypes
      BY <1>1 DEF CheckLast
    <2>2. i + d \in 1 .. a /\ s[i + d] = t[i] BY <1>3, <2>1 DEF FileTypes
    <2>3. /\ hi = Chunks[v]
          /\ \A j \in 1 .. a : i + d < j => s[j].type \notin FileTypes
      BY <1>1, <2>1, <2>2 DEF Stream, CheckLast
    <2>4. \A j \in 1 .. b : i < j => t[j].type \notin FileTypes BY <1>3, <1>5, <2>3
    <2>5. QED BY <2>3, <2>4
  <1>11. QED BY <1>6, <1>7, <1>8, <1>9, <1>10 DEF Stream

-----------------------------------------------------------------------------
(* What sending and receiving do to the packets of a file.                 *)

LEMMA AtFront ==
    ASSUME NEW s \in Seq(Packet), s # <<>>
    PROVE  /\ Len(s) \in Nat \ {0} /\ Head(s) = s[1] /\ 1 \in 1 .. Len(s)
           /\ Tail(s) \in Seq(Packet) /\ Len(Tail(s)) = Len(s) - 1
           /\ \A i \in 1 .. Len(Tail(s)) : i + 1 \in 1 .. Len(s) /\ Tail(s)[i] = s[i + 1]
           /\ \A j \in 1 .. Len(s) : j = 1 \/ (j - 1 \in 1 .. Len(Tail(s)) /\ Tail(s)[j - 1] = s[j])
  <1>1. PICK n : n = Len(s) OBVIOUS
  <1>2. n \in Nat \ {0} BY <1>1, EmptySeq
  <1>3. /\ Tail(s) \in Seq(Packet) /\ Len(Tail(s)) = n - 1
        /\ \A i \in 1 .. n - 1 : Tail(s)[i] = s[i + 1]
    BY <1>1, HeadTailProperties
  <1>4. Head(s) = s[1] OBVIOUS
  <1>5. 1 \in 1 .. n /\ \A i \in 1 .. n - 1 : i + 1 \in 1 .. n BY <1>2
  <1>6. \A j \in 1 .. n : j = 1 \/ (j - 1 \in 1 .. n - 1 /\ j - 1 + 1 = j) BY <1>2
  <1>7. \A j \in 1 .. n : j = 1 \/ (j - 1 \in 1 .. n - 1 /\ Tail(s)[j - 1] = s[j])
    BY <1>3, <1>6
  <1>8. QED BY <1>1, <1>2, <1>3, <1>4, <1>5, <1>7

LEMMA Behind ==
    ASSUME NEW s \in Seq(Packet), NEW p \in Packet
    PROVE  /\ Len(s) \in Nat /\ Append(s, p) \in Seq(Packet) /\ Append(s, p) # <<>>
           /\ Len(Append(s, p)) = Len(s) + 1 /\ Len(s) + 1 \in 1 .. Len(Append(s, p))
           /\ Append(s, p)[Len(s) + 1] = p
           /\ \A i \in 1 .. Len(s) : i \in 1 .. Len(Append(s, p)) /\ i < Len(s) + 1
                                     /\ Append(s, p)[i] = s[i]
           /\ \A i \in 1 .. Len(Append(s, p)) : i = Len(s) + 1 \/ i \in 1 .. Len(s)
  <1>1. PICK n : n = Len(s) OBVIOUS
  <1>2. n \in Nat BY <1>1, Lens
  <1>3. /\ Append(s, p) \in Seq(Packet) /\ Len(Append(s, p)) = n + 1
        /\ \A i \in 1 .. n : Append(s, p)[i] = s[i]
        /\ Append(s, p)[n + 1] = p
    BY <1>1, AppendProperties
  <1>4. /\ n + 1 \in 1 .. n + 1 /\ n + 1 # 0
        /\ \A i \in 1 .. n : i \in 1 .. n + 1 /\ i < n + 1
        /\ \A i \in 1 .. n + 1 : i = n + 1 \/ i \in 1 .. n
    BY <1>2
  <1>5. Append(s, p) # <<>> BY <1>3, <1>4, EmptySeq
  <1>6. QED BY <1>1, <1>2, <1>3, <1>4, <1>5

LEMMA PushPut ==
    ASSUME NEW ch \in Seq(Packet), Without(ch, FileTypes), NEW n \in Names, NEW v
    PROVE  /\ Stream(Append(ch, Message("PUT", n)), v, n, 0, 0)
           /\ Without(Append(ch, Message("PUT", n)), {"CHECK"})
           /\ ~Without(Append(ch, Message("PUT", n)), {"PUT"})
  <1>1. PICK p, s, a : p = Message("PUT", n) /\ s = Append(ch, p) /\ a = Len(ch) OBVIOUS
  <1>2. p \in Packet /\ p.type = "PUT" /\ p.arg = n BY <1>1, PacketFacts
  <1>3. \A i \in 1 .. a : ch[i].type \notin FileTypes BY <1>1 DEF Without
  <1>4. /\ a + 1 \in 1 .. Len(s) /\ s[a + 1] = p
        /\ \A i \in 1 .. Len(s) : i = a + 1 \/ s[i].type \notin FileTypes
    BY <1>1, <1>2, <1>3, Behind
  <1>5. a \in Nat /\ Len(s) = a + 1 BY <1>1, <1>2, Behind
  <1>6. PutFirst(s, n, 0)
    <2>1. \A j \in 1 .. Len(s) : j < a + 1 => j # a + 1 BY <1>5
    <2>2. QED BY <1>2, <1>4, <2>1 DEF PutFirst, FileTypes
  <1>7. PartsOf(s, v, 0, 0) /\ InOrder(s) /\ CheckLast(s, v, 0)
    BY <1>2, <1>4 DEF PartsOf, InOrder, CheckLast, FileTypes
  <1>8. AllThere(s, 0, 0) BY DEF AllThere
  <1>9. Without(s, {"CHECK"}) /\ ~Without(s, {"PUT"})
    BY <1>2, <1>4 DEF Without, FileTypes
  <1>10. QED BY <1>1, <1>6, <1>7, <1>8, <1>9 DEF Stream

LEMMA PushData ==
    ASSUME NEW ch \in Seq(Packet), NEW v, NEW n, NEW lo \in Nat, NEW hi \in Nat, lo <= hi,
           Stream(ch, v, n, lo, hi), Without(ch, {"CHECK"}), <<v, hi + 1>> \in Part
    PROVE  LET s == Append(ch, Message("DATA", <<v, hi + 1>>)) IN
           /\ Stream(s, v, n, lo, hi + 1) /\ Without(s, {"CHECK"})
           /\ Without(s, {"PUT"}) <=> Without(ch, {"PUT"})
  <1>1. PICK p, s, a : p = Message("DATA", <<v, hi + 1>>) /\ s = Append(ch, p) /\ a = Len(ch)
    OBVIOUS
  <1>2. p \in Packet /\ p.type = "DATA" /\ p.arg = <<v, hi + 1>> /\ Place(p) = hi + 1
    BY <1>1, PacketFacts DEF Place
  <1>3. /\ a + 1 \in 1 .. Len(s) /\ s[a + 1] = p
        /\ \A i \in 1 .. a : i \in 1 .. Len(s) /\ s[i] = ch[i] /\ i < a + 1
        /\ \A i \in 1 .. Len(s) : i = a + 1 \/ i \in 1 .. a
    BY <1>1, <1>2, Behind
  <1>4. a \in Nat /\ Len(s) = a + 1 BY <1>1, <1>2, Behind
  <1>5. \A i \in 1 .. a : ch[i].type # "CHECK" BY <1>1 DEF Without
  <1>6. PutFirst(s, n, lo)
    <2>1. SUFFICES ASSUME NEW i \in 1 .. Len(s), s[i].type = "PUT"
                   PROVE  s[i].arg = n /\ lo = 0
                          /\ \A j \in 1 .. Len(s) : j < i => s[j].type \notin FileTypes
      BY DEF PutFirst
    <2>2. i \in 1 .. a /\ s[i] = ch[i] BY <1>2, <1>3, <2>1
    <2>3. /\ s[i].arg = n /\ lo = 0
          /\ \A j \in 1 .. a : j < i => ch[j].type \notin FileTypes
      BY <1>1, <2>1, <2>2 DEF Stream, PutFirst
    <2>4. \A j \in 1 .. Len(s) : j < i => j \in 1 .. a BY <1>4, <2>2
    <2>5. QED BY <1>3, <2>3, <2>4
  <1>7. PartsOf(s, v, lo, hi + 1)
    <2>1. hi + 1 \in lo + 1 .. hi + 1 /\ \A k \in lo + 1 .. hi : k \in lo + 1 .. hi + 1
      OBVIOUS
    <2>2. SUFFICES ASSUME NEW i \in 1 .. Len(s), s[i].type = "DATA"
                   PROVE  s[i].arg = <<v, Place(s[i])>> /\ Place(s[i]) \in lo + 1 .. hi + 1
      BY DEF PartsOf
    <2>3. CASE i = a + 1 BY <1>2, <1>3, <2>1, <2>3
    <2>4. CASE i \in 1 .. a
      <3>1. s[i] = ch[i] BY <1>3, <2>4
      <3>2. ch[i].arg = <<v, Place(ch[i])>> /\ Place(ch[i]) \in lo + 1 .. hi
        BY <1>1, <2>2, <2>4, <3>1 DEF Stream, PartsOf
      <3>3. QED BY <2>1, <3>1, <3>2
    <2>5. QED BY <1>3, <2>3, <2>4
  <1>8. InOrder(s)
    <2>1. SUFFICES ASSUME NEW i \in 1 .. Len(s), NEW j \in 1 .. Len(s),
                          i < j, s[i].type = "DATA", s[j].type = "DATA"
                   PROVE  Place(s[i]) < Place(s[j])
      BY DEF InOrder
    <2>2. i \in 1 .. a BY <1>3, <1>4, <2>1
    <2>3. CASE j \in 1 .. a BY <1>1, <1>3, <2>1, <2>2, <2>3 DEF Stream, InOrder
    <2>4. CASE j = a + 1
      <3>1. Place(s[i]) \in lo + 1 .. hi BY <1>1, <1>3, <2>1, <2>2 DEF Stream, PartsOf
      <3>2. Place(s[j]) = hi + 1 BY <1>2, <1>3, <2>4
      <3>3. QED BY <3>1, <3>2
    <2>5. QED BY <1>3, <2>3, <2>4
  <1>9. AllThere(s, lo, hi + 1)
    <2>1. SUFFICES ASSUME NEW k \in lo + 1 .. hi + 1
                   PROVE  \E i \in 1 .. Len(s) : s[i].type = "DATA" /\ Place(s[i]) = k
      BY DEF AllThere
    <2>2. k = hi + 1 \/ k \in lo + 1 .. hi OBVIOUS
    <2>3. CASE k = hi + 1 BY <1>2, <1>3, <2>3
    <2>4. CASE k \in lo + 1 .. hi
      <3>1. PICK i \in 1 .. a : ch[i].type = "DATA" /\ Place(ch[i]) = k
        BY <1>1, <2>4 DEF Stream, AllThere
      <3>2. QED BY <1>3, <3>1
    <2>5. QED BY <2>2, <2>3, <2>4
  <1>10. CheckLast(s, v, hi + 1) BY <1>2, <1>3, <1>5 DEF CheckLast
  <1>11. Without(s, {"CHECK"}) BY <1>2, <1>3, <1>5 DEF Without
  <1>12. Without(s, {"PUT"}) <=> Without(ch, {"PUT"}) BY <1>1, <1>2, <1>3 DEF Without
  <1>13. QED BY <1>1, <1>6, <1>7, <1>8, <1>9, <1>10, <1>11, <1>12 DEF Stream

LEMMA PushCheck ==
    ASSUME NEW ch \in Seq(Packet), NEW v, NEW n, NEW lo, NEW hi,
           Stream(ch, v, n, lo, hi), Without(ch, {"CHECK"}), hi = Chunks[v]
    PROVE  LET s == Append(ch, Message("CHECK", None)) IN
           /\ Stream(s, v, n, lo, hi) /\ ~Without(s, {"CHECK"})
           /\ Without(s, {"PUT"}) <=> Without(ch, {"PUT"})
  <1>1. PICK p, s, a : p = Message("CHECK", None) /\ s = Append(ch, p) /\ a = Len(ch)
    OBVIOUS
  <1>2. p \in Packet /\ p.type = "CHECK" BY <1>1, PacketFacts
  <1>3. /\ a + 1 \in 1 .. Len(s) /\ s[a + 1] = p
        /\ \A i \in 1 .. a : i \in 1 .. Len(s) /\ s[i] = ch[i] /\ i < a + 1
        /\ \A i \in 1 .. Len(s) : i = a + 1 \/ i \in 1 .. a
    BY <1>1, <1>2, Behind
  <1>4. a \in Nat /\ Len(s) = a + 1 BY <1>1, <1>2, Behind
  <1>5. \A i \in 1 .. a : ch[i].type # "CHECK" BY <1>1 DEF Without
  <1>6. PutFirst(s, n, lo)
    <2>1. SUFFICES ASSUME NEW i \in 1 .. Len(s), s[i].type = "PUT"
                   PROVE  s[i].arg = n /\ lo = 0
                          /\ \A j \in 1 .. Len(s) : j < i => s[j].type \notin FileTypes
      BY DEF PutFirst
    <2>2. i \in 1 .. a /\ s[i] = ch[i] BY <1>2, <1>3, <2>1
    <2>3. /\ s[i].arg = n /\ lo = 0
          /\ \A j \in 1 .. a : j < i => ch[j].type \notin FileTypes
      BY <1>1, <2>1, <2>2 DEF Stream, PutFirst
    <2>4. \A j \in 1 .. Len(s) : j < i => j \in 1 .. a BY <1>4, <2>2
    <2>5. QED BY <1>3, <2>3, <2>4
  <1>7. PartsOf(s, v, lo, hi) BY <1>1, <1>2, <1>3 DEF Stream, PartsOf
  <1>8. InOrder(s) BY <1>1, <1>2, <1>3 DEF Stream, InOrder
  <1>9. AllThere(s, lo, hi) BY <1>1, <1>3 DEF Stream, AllThere
  <1>10. CheckLast(s, v, hi)
    <2>1. \A j \in 1 .. Len(s) : ~(a + 1 < j) BY <1>4
    <2>2. QED BY <1>2, <1>3, <1>5, <2>1 DEF CheckLast
  <1>11. ~Without(s, {"CHECK"}) BY <1>2, <1>3 DEF Without
  <1>12. Without(s, {"PUT"}) <=> Without(ch, {"PUT"}) BY <1>1, <1>2, <1>3 DEF Without
  <1>13. QED BY <1>1, <1>6, <1>7, <1>8, <1>9, <1>10, <1>11, <1>12 DEF Stream

LEMMA PopPut ==
    ASSUME NEW ch \in Seq(Packet), ch # <<>>, Head(ch).type = "PUT",
           NEW v, NEW n, NEW lo, NEW hi, Stream(ch, v, n, lo, hi)
    PROVE  /\ lo = 0 /\ Head(ch).arg = n /\ Stream(Tail(ch), v, n, lo, hi)
           /\ Without(Tail(ch), {"PUT"}) /\ ~Without(ch, {"PUT"})
           /\ Without(Tail(ch), {"CHECK"}) <=> Without(ch, {"CHECK"})
  <1>1. PICK t, a : t = Tail(ch) /\ a = Len(ch) OBVIOUS
  <1>2. /\ a \in Nat \ {0} /\ ch[1].type = "PUT" /\ Head(ch) = ch[1] /\ 1 \in 1 .. a
        /\ Len(t) = a - 1 /\ t \in Seq(Packet)
        /\ \A i \in 1 .. Len(t) : i + 1 \in 1 .. a /\ t[i] = ch[i + 1]
        /\ \A j \in 1 .. a : j = 1 \/ (j - 1 \in 1 .. Len(t) /\ t[j - 1] = ch[j])
    BY <1>1, AtFront
  <1>3. lo = 0 /\ ch[1].arg = n BY <1>1, <1>2 DEF Stream, PutFirst
  <1>4. ASSUME NEW i \in 1 .. Len(t) PROVE t[i].type # "PUT"
    <2>1. 1 < i + 1 /\ i + 1 \in 1 .. a BY <1>2
    <2>2. ch[1].type \in FileTypes BY <1>2 DEF FileTypes
    <2>3. ch[i + 1].type # "PUT" BY <1>1, <1>2, <2>1, <2>2 DEF Stream, PutFirst
    <2>4. QED BY <1>2, <2>3
  <1>5. \A i \in 1 .. Len(t), j \in 1 .. Len(t) : i < j => i + 1 < j + 1 BY <1>2
  <1>6. PutFirst(t, n, lo) BY <1>4 DEF PutFirst
  <1>7. PartsOf(t, v, lo, hi) BY <1>1, <1>2 DEF Stream, PartsOf
  <1>8. InOrder(t) BY <1>1, <1>2, <1>5 DEF Stream, InOrder
  <1>9. AllThere(t, lo, hi)
    <2>1. SUFFICES ASSUME NEW k \in lo + 1 .. hi
                   PROVE  \E i \in 1 .. Len(t) : t[i].type = "DATA" /\ Place(t[i]) = k
      BY DEF AllThere
    <2>2. PICK i \in 1 .. a : ch[i].type = "DATA" /\ Place(ch[i]) = k
      BY <1>1 DEF Stream, AllThere
    <2>3. i # 1 BY <1>2, <2>2
    <2>4. QED BY <1>2, <2>2, <2>3
  <1>10. CheckLast(t, v, hi) BY <1>1, <1>2, <1>5 DEF Stream, CheckLast
  <1>11. Without(t, {"PUT"}) /\ ~Without(ch, {"PUT"}) BY <1>1, <1>2, <1>4 DEF Without
  <1>12. Without(t, {"CHECK"}) <=> Without(ch, {"CHECK"}) BY <1>1, <1>2 DEF Without
  <1>13. Stream(t, v, n, lo, hi) BY <1>6, <1>7, <1>8, <1>9, <1>10 DEF Stream
  <1>14. Head(ch).arg = n BY <1>2, <1>3
  <1>15. QED BY <1>1, <1>3, <1>11, <1>12, <1>13, <1>14

\* The first part on the way is the next one.
LEMMA PopData ==
    ASSUME NEW ch \in Seq(Packet), ch # <<>>, Head(ch).type = "DATA",
           NEW v, NEW n, NEW lo \in Nat, NEW hi \in Nat, Stream(ch, v, n, lo, hi)
    PROVE  /\ lo + 1 <= hi /\ Head(ch).arg = <<v, lo + 1>>
           /\ Stream(Tail(ch), v, n, lo + 1, hi)
           /\ Without(Tail(ch), {"PUT"}) /\ Without(ch, {"PUT"})
           /\ Without(Tail(ch), {"CHECK"}) <=> Without(ch, {"CHECK"})
  <1>1. PICK t, a : t = Tail(ch) /\ a = Len(ch) OBVIOUS
  <1>2. /\ a \in Nat \ {0} /\ ch[1].type = "DATA" /\ Head(ch) = ch[1] /\ 1 \in 1 .. a
        /\ Len(t) = a - 1 /\ t \in Seq(Packet)
        /\ \A i \in 1 .. Len(t) : i + 1 \in 1 .. a /\ t[i] = ch[i + 1]
        /\ \A j \in 1 .. a : j = 1 \/ (j - 1 \in 1 .. Len(t) /\ t[j - 1] = ch[j])
    BY <1>1, AtFront
  <1>3. ch[1].arg = <<v, Place(ch[1])>> /\ Place(ch[1]) \in lo + 1 .. hi
    BY <1>1, <1>2 DEF Stream, PartsOf
  <1>4. lo + 1 \in lo + 1 .. hi /\ lo + 1 <= hi BY <1>3
  <1>5. Place(ch[1]) = lo + 1
    <2>1. PICK i \in 1 .. a : ch[i].type = "DATA" /\ Place(ch[i]) = lo + 1
      BY <1>1, <1>4 DEF Stream, AllThere
    <2>2. CASE i = 1 BY <2>1, <2>2
    <2>3. CASE i # 1
      <3>1. 1 < i BY <1>2, <2>3
      <3>2. Place(ch[1]) < lo + 1 BY <1>1, <1>2, <2>1, <3>1 DEF Stream, InOrder
      <3>3. QED BY <1>3, <3>2
    <2>4. QED BY <2>2, <2>3
  <1>6. ASSUME NEW i \in 1 .. a PROVE ch[i].type # "PUT"
    <2>1. SUFFICES ASSUME ch[i].type = "PUT" PROVE FALSE OBVIOUS
    <2>2. 1 < i BY <1>2, <2>1
    <2>3. ch[1].type \in FileTypes BY <1>2 DEF FileTypes
    <2>4. QED BY <1>1, <1>2, <2>1, <2>2, <2>3 DEF Stream, PutFirst
  <1>7. \A i \in 1 .. Len(t), j \in 1 .. Len(t) : i < j => i + 1 < j + 1 BY <1>2
  <1>8. PutFirst(t, n, lo + 1) BY <1>2, <1>6 DEF PutFirst
  <1>9. PartsOf(t, v, lo + 1, hi)
    <2>1. SUFFICES ASSUME NEW i \in 1 .. Len(t), t[i].type = "DATA"
                   PROVE  t[i].arg = <<v, Place(t[i])>> /\ Place(t[i]) \in lo + 1 + 1 .. hi
      BY DEF PartsOf
    <2>2. i + 1 \in 1 .. a /\ t[i] = ch[i + 1] /\ 1 < i + 1 BY <1>2
    <2>3. t[i].arg = <<v, Place(t[i])>> /\ Place(t[i]) \in lo + 1 .. hi
      BY <1>1, <2>1, <2>2 DEF Stream, PartsOf
    <2>4. lo + 1 < Place(t[i]) BY <1>1, <1>2, <1>5, <2>1, <2>2 DEF Stream, InOrder
    <2>5. QED BY <2>3, <2>4
  <1>10. InOrder(t) BY <1>1, <1>2, <1>7 DEF Stream, InOrder
  <1>11. AllThere(t, lo + 1, hi)
    <2>1. SUFFICES ASSUME NEW k \in lo + 1 + 1 .. hi
                   PROVE  \E i \in 1 .. Len(t) : t[i].type = "DATA" /\ Place(t[i]) = k
      BY DEF AllThere
    <2>2. k \in lo + 1 .. hi /\ k # lo + 1 OBVIOUS
    <2>3. PICK i \in 1 .. a : ch[i].type = "DATA" /\ Place(ch[i]) = k
      BY <1>1, <2>2 DEF Stream, AllThere
    <2>4. i # 1 BY <1>5, <2>2, <2>3
    <2>5. QED BY <1>2, <2>3, <2>4
  <1>12. CheckLast(t, v, hi) BY <1>1, <1>2, <1>7 DEF Stream, CheckLast
  <1>13. Without(t, {"PUT"}) /\ Without(ch, {"PUT"}) BY <1>1, <1>2, <1>6 DEF Without
  <1>14. Without(t, {"CHECK"}) <=> Without(ch, {"CHECK"}) BY <1>1, <1>2 DEF Without
  <1>15. Stream(t, v, n, lo + 1, hi) BY <1>8, <1>9, <1>10, <1>11, <1>12 DEF Stream
  <1>16. Head(ch).arg = <<v, lo + 1>> BY <1>2, <1>3, <1>5
  <1>17. QED BY <1>1, <1>4, <1>13, <1>14, <1>15, <1>16

\* When CHECK comes, all parts have come.
LEMMA PopCheck ==
    ASSUME NEW ch \in Seq(Packet), ch # <<>>, Head(ch).type = "CHECK",
           NEW v, NEW n, NEW lo \in Nat, NEW hi \in Nat, lo <= hi, Stream(ch, v, n, lo, hi)
    PROVE  /\ lo = Chunks[v] /\ Without(ch, {"PUT"}) /\ ~Without(ch, {"CHECK"})
           /\ Without(Tail(ch), FileTypes)
  <1>1. PICK t, a : t = Tail(ch) /\ a = Len(ch) OBVIOUS
  <1>2. /\ a \in Nat \ {0} /\ ch[1].type = "CHECK" /\ 1 \in 1 .. a
        /\ Len(t) = a - 1 /\ t \in Seq(Packet)
        /\ \A i \in 1 .. Len(t) : i + 1 \in 1 .. a /\ t[i] = ch[i + 1]
    BY <1>1, AtFront
  <1>3. /\ hi = Chunks[v]
        /\ \A j \in 1 .. a : 1 < j => ch[j].type \notin FileTypes
    BY <1>1, <1>2 DEF Stream, CheckLast
  <1>4. \A j \in 1 .. a : j = 1 \/ 1 < j BY <1>2
  <1>5. \A j \in 1 .. a : ch[j].type \notin {"PUT", "DATA"}
    BY <1>2, <1>3, <1>4 DEF FileTypes
  <1>6. lo = hi
    <2>1. SUFFICES ASSUME lo # hi PROVE FALSE OBVIOUS
    <2>2. hi \in lo + 1 .. hi BY <2>1
    <2>3. QED BY <1>1, <1>5, <2>2 DEF Stream, AllThere
  <1>7. \A i \in 1 .. Len(t) : 1 < i + 1 BY <1>2
  <1>8. Without(t, FileTypes) BY <1>2, <1>3, <1>7 DEF Without
  <1>9. Without(ch, {"PUT"}) /\ ~Without(ch, {"CHECK"})
    BY <1>1, <1>2, <1>5 DEF Without
  <1>10. QED BY <1>1, <1>3, <1>6, <1>8, <1>9

\* The last packet is lost: it was still in the buffer of a sender that ended.
LEMMA DropLast ==
    ASSUME NEW ch \in Seq(Packet), NEW p \in Packet,
           NEW v, NEW n, NEW lo \in Nat, NEW hi \in Nat, lo <= hi,
           Stream(Append(ch, p), v, n, lo, hi)
    PROVE  \E k \in lo .. hi : Stream(ch, v, n, lo, k)
  <1>1. PICK s, a : s = Append(ch, p) /\ a = Len(ch) OBVIOUS
  <1>2. /\ a + 1 \in 1 .. Len(s) /\ s[a + 1] = p
        /\ \A i \in 1 .. a : i \in 1 .. Len(s) /\ s[i] = ch[i] /\ i < a + 1
        /\ \A i \in 1 .. Len(s) : i = a + 1 \/ i \in 1 .. a
    BY <1>1, Behind
  <1>3. PutFirst(ch, n, lo) BY <1>1, <1>2 DEF Stream, PutFirst
  <1>4. InOrder(ch) BY <1>1, <1>2 DEF Stream, InOrder
  <1>5. CheckLast(ch, v, hi) BY <1>1, <1>2 DEF Stream, CheckLast
  <1>6. CASE p.type # "DATA"
    <2>1. PartsOf(ch, v, lo, hi) BY <1>1, <1>2 DEF Stream, PartsOf
    <2>2. AllThere(ch, lo, hi)
      <3>1. \A k \in lo + 1 .. hi : \E i \in 1 .. Len(s) : s[i].type = "DATA" /\ Place(s[i]) = k
        BY <1>1 DEF Stream, AllThere
      <3>2. QED BY <1>1, <1>2, <1>6, <3>1 DEF AllThere
    <2>3. hi \in lo .. hi OBVIOUS
    <2>4. QED BY <1>3, <1>4, <1>5, <2>1, <2>2, <2>3 DEF Stream
  <1>7. CASE p.type = "DATA"
    <2>1. Place(p) \in lo + 1 .. hi BY <1>1, <1>2, <1>7 DEF Stream, PartsOf
    <2>2. \A i \in 1 .. a : ch[i].type = "DATA" =>
              ch[i].arg = <<v, Place(ch[i])>> /\ Place(ch[i]) \in lo + 1 .. hi
      BY <1>1, <1>2 DEF Stream, PartsOf
    <2>3. \A i \in 1 .. a : ch[i].type = "DATA" => Place(ch[i]) < Place(p)
      BY <1>1, <1>2, <1>7 DEF Stream, InOrder
    <2>4. Place(p) = hi
      <3>1. SUFFICES ASSUME Place(p) # hi PROVE FALSE OBVIOUS
      <3>2. hi \in lo + 1 .. hi /\ Place(p) < hi BY <2>1, <3>1
      <3>3. PICK i \in 1 .. Len(s) : s[i].type = "DATA" /\ Place(s[i]) = hi
        BY <1>1, <3>2 DEF Stream, AllThere
      <3>4. i \in 1 .. a BY <1>2, <3>1, <3>3
      <3>5. hi < Place(p) BY <1>2, <2>3, <3>3, <3>4
      <3>6. QED BY <2>1, <3>2, <3>5
    <2>5. hi - 1 \in lo .. hi BY <2>1
    <2>6. PartsOf(ch, v, lo, hi - 1)
      <3>1. SUFFICES ASSUME NEW i \in 1 .. a, ch[i].type = "DATA"
                     PROVE  /\ ch[i].arg = <<v, Place(ch[i])>>
                            /\ Place(ch[i]) \in lo + 1 .. hi - 1
        BY <1>1 DEF PartsOf
      <3>2. /\ ch[i].arg = <<v, Place(ch[i])>> /\ Place(ch[i]) \in lo + 1 .. hi
            /\ Place(ch[i]) < hi
        BY <2>2, <2>3, <2>4, <3>1
      <3>3. QED BY <3>2
    <2>7. AllThere(ch, lo, hi - 1)
      <3>1. SUFFICES ASSUME NEW k \in lo + 1 .. hi - 1
                     PROVE  \E i \in 1 .. a : ch[i].type = "DATA" /\ Place(ch[i]) = k
        BY <1>1 DEF AllThere
      <3>2. k \in lo + 1 .. hi /\ k # hi OBVIOUS
      <3>3. PICK i \in 1 .. Len(s) : s[i].type = "DATA" /\ Place(s[i]) = k
        BY <1>1, <3>2 DEF Stream, AllThere
      <3>4. i # a + 1 BY <1>2, <2>4, <3>2, <3>3
      <3>5. QED BY <1>2, <3>3, <3>4
    <2>8. CheckLast(ch, v, hi - 1)
      <3>1. p.type \in FileTypes BY <1>7 DEF FileTypes
      <3>2. \A i \in 1 .. a : ch[i].type # "CHECK"
        BY <1>1, <1>2, <3>1 DEF Stream, CheckLast
      <3>3. QED BY <1>1, <3>2 DEF CheckLast
    <2>9. QED BY <1>3, <1>4, <2>5, <2>6, <2>7, <2>8 DEF Stream
  <1>8. QED BY <1>6, <1>7

-----------------------------------------------------------------------------
(* How the steps change the channels.                                      *)

LEMMA Channels ==
    ASSUME Kinds, NEW e \in Ends
    PROVE  /\ wire[e] \in Seq(Packet) /\ Chan(e) \in Seq(Packet)
           /\ unsent[e] # None => unsent[e] \in Packet
           /\ ~open[e] => wire[e] = <<>> /\ unsent[e] = None
  <1>1. /\ wire[e] \in Seq(Packet) /\ \A f \in Ends : unsent[f] # None => unsent[f] \in Packet
        /\ ~open[e] => wire[e] = <<>> /\ unsent[e] = None
    BY DEF Kinds, TypeOK, FileOr, Closed
  <1>2. Peer(e) \in Ends BY EndFacts
  <1>3. CASE unsent[Peer(e)] = None BY <1>1, <1>3 DEF Chan
  <1>4. CASE unsent[Peer(e)] # None
    <2>1. Append(wire[e], unsent[Peer(e)]) \in Seq(Packet)
      BY <1>1, <1>2, <1>4, AppendProperties
    <2>2. QED BY <1>1, <1>4, <2>1 DEF Chan
  <1>5. QED BY <1>3, <1>4

LEMMA TailOfAppend ==
    ASSUME NEW s \in Seq(Packet), s # <<>>, NEW p \in Packet
    PROVE  /\ Append(s, p) # <<>> /\ Head(Append(s, p)) = Head(s)
           /\ Tail(Append(s, p)) = Append(Tail(s), p)
  <1>1. PICK n, t, u, w, x :
            n = Len(s) /\ t = Append(s, p) /\ u = Tail(s) /\ w = Tail(t) /\ x = Append(u, p)
    OBVIOUS
  <1>2. /\ n \in Nat \ {0} /\ Head(s) = s[1] /\ 1 \in 1 .. n
        /\ u \in Seq(Packet) /\ Len(u) = n - 1
        /\ \A i \in 1 .. n - 1 : u[i] = s[i + 1]
    BY <1>1, AtFront
  <1>3. /\ t \in Seq(Packet) /\ t # <<>> /\ Len(t) = n + 1 /\ t[n + 1] = p
        /\ \A i \in 1 .. n : t[i] = s[i]
    BY <1>1, Behind
  <1>4. /\ w \in Seq(Packet) /\ Len(w) = Len(t) - 1 /\ Head(t) = t[1]
        /\ \A i \in 1 .. Len(w) : w[i] = t[i + 1]
    BY <1>1, <1>3, AtFront
  <1>5. /\ x \in Seq(Packet) /\ Len(x) = Len(u) + 1
        /\ x[Len(u) + 1] = p
        /\ \A i \in 1 .. Len(u) : x[i] = u[i]
    BY <1>1, <1>2, Behind
  <1>6. Len(w) = n /\ Len(x) = n /\ Len(u) + 1 = n BY <1>2, <1>3, <1>4, <1>5
  <1>7. \A i \in 1 .. n : i = n \/ (i \in 1 .. n - 1 /\ i + 1 \in 1 .. n) BY <1>2
  <1>8. \A i \in 1 .. n : w[i] = x[i]
    BY <1>2, <1>3, <1>4, <1>5, <1>6, <1>7
  <1>9. w = x BY <1>4, <1>5, <1>6, <1>8, SeqEqual
  <1>10. QED BY <1>1, <1>2, <1>3, <1>4, <1>9

LEMMA ChanPop ==
    ASSUME Kinds, NEW x \in Ends, wire[x] # <<>>, wire' = Consumed(x), unsent' = unsent
    PROVE  /\ Chan(x) # <<>> /\ Head(Chan(x)) = Head(wire[x]) /\ Chan(x)' = Tail(Chan(x))
           /\ \A e \in Ends : e # x => Chan(e)' = Chan(e)
  <1>1. wire \in [Ends -> Seq(Packet)] BY DEF Kinds, TypeOK
  <1>2. wire'[x] = Tail(wire[x]) /\ \A e \in Ends : e # x => wire'[e] = wire[e]
    BY <1>1 DEF Consumed
  <1>3. \A e \in Ends : e # x => Chan(e)' = Chan(e) BY <1>2 DEF Chan
  <1>4. Peer(x) \in Ends BY EndFacts
  <1>5. CASE unsent[Peer(x)] = None BY <1>2, <1>3, <1>5 DEF Chan
  <1>6. CASE unsent[Peer(x)] # None
    <2>1. unsent[Peer(x)] \in Packet /\ wire[x] \in Seq(Packet) BY <1>4, <1>6, Channels
    <2>2. PICK s, p : s = wire[x] /\ p = unsent[Peer(x)] OBVIOUS
    <2>3. /\ Append(s, p) # <<>> /\ Head(Append(s, p)) = Head(s)
          /\ Tail(Append(s, p)) = Append(Tail(s), p)
      BY <2>1, <2>2, TailOfAppend
    <2>4. Chan(x) = Append(s, p) /\ Chan(x)' = Append(Tail(s), p)
      BY <1>2, <1>6, <2>2 DEF Chan
    <2>5. QED BY <1>3, <2>2, <2>3, <2>4
  <1>7. QED BY <1>5, <1>6

LEMMA ChanPush ==
    ASSUME Kinds, NEW x \in Ends, NEW p \in Packet, unsent[x] = None, sendToClient(x, p)
    PROVE  /\ open[Peer(x)] => Chan(Peer(x))' = Append(Chan(Peer(x)), p)
           /\ \A e \in Ends : e # Peer(x) => Chan(e)' = Chan(e)
  <1>1. wire \in [Ends -> Seq(Packet)] /\ unsent \in [Ends -> FileOr(Packet)] /\ p # None
    BY PacketFacts DEF Kinds, TypeOK
  <1>2. PICK y : y = Peer(x) OBVIOUS
  <1>3. /\ y \in Ends /\ Peer(y) = x
        /\ \A e \in Ends : e # y => Peer(e) # x /\ Peer(e) \in Ends
    BY <1>2, EndFacts
  <1>4. CASE unsent' = unsent /\ wire' = IF open[y] THEN [wire EXCEPT ![y] = Append(@, p)] ELSE wire
    <2>1. \A e \in Ends : e # y => wire'[e] = wire[e] BY <1>1, <1>4
    <2>2. open[y] => wire'[y] = Append(wire[y], p) BY <1>1, <1>3, <1>4
    <2>3. QED BY <1>2, <1>3, <1>4, <2>1, <2>2 DEF Chan
  <1>5. CASE unsent' = [unsent EXCEPT ![x] = p] /\ wire' = wire
    <2>1. unsent'[x] = p /\ \A e \in Ends : e # x => unsent'[e] = unsent[e] BY <1>1, <1>5
    <2>2. QED BY <1>1, <1>2, <1>3, <1>5, <2>1 DEF Chan
  <1>6. QED BY <1>2, <1>4, <1>5 DEF sendToClient

LEMMA ChanAgain ==
    ASSUME Kinds, NEW x \in Ends, trySendToClientAgain(x)
    PROVE  \A e \in Ends : open[e] => Chan(e)' = Chan(e)
  <1>1. wire \in [Ends -> Seq(Packet)] /\ unsent \in [Ends -> FileOr(Packet)]
    BY DEF Kinds, TypeOK
  <1>2. PICK y : y = Peer(x) OBVIOUS
  <1>3. /\ y \in Ends /\ Peer(y) = x
        /\ \A e \in Ends : e # y => Peer(e) # x /\ Peer(e) \in Ends
    BY <1>2, EndFacts
  <1>4. /\ unsent[x] # None /\ unsent' = [unsent EXCEPT ![x] = None]
        /\ wire' = IF open[y] THEN [wire EXCEPT ![y] = Append(@, unsent[x])] ELSE wire
    BY <1>2 DEF trySendToClientAgain
  <1>5. unsent'[x] = None /\ \A e \in Ends : e # x => unsent'[e] = unsent[e] BY <1>1, <1>4
  <1>6. \A e \in Ends : e # y => wire'[e] = wire[e] BY <1>1, <1>4
  <1>7. open[y] => wire'[y] = Append(wire[y], unsent[x]) BY <1>1, <1>3, <1>4
  <1>8. QED BY <1>3, <1>4, <1>5, <1>6, <1>7 DEF Chan

-----------------------------------------------------------------------------
(* Every step keeps the types, and what holds of the variables themselves. *)

\* Kinds, conjunct by conjunct, for the leaves of the proofs.
Others ==
    /\ \A e \in Ends : /\ ~open[e] => Closed(e)
                       /\ fileToRecv[e] # None => recvFilename[e] # None
    /\ \A c \in Clients : /\ open[Client(c)] => open[Server(c)]
                          /\ Owned(c)
    /\ \A u \in Users : IsFiniteSet(known[u])
    /\ origin \in Seq([user : Users, name : Names])
    /\ puts \in Nat /\ puts <= MaxPuts /\ Len(origin) <= puts

Underway ==
    \A e \in Ends : /\ isSending[e] # "STARTING" => fileToSend[e] # None /\ sendQueue[e] # <<>>
                    /\ fileToRecv[e] # None => isRecving[e] = "RECEIVING"

LEMMA EmptyFile == <<>> \in Seq(Part) /\ <<>> \in FileOr(Seq(Part)) /\ None \in FileOr(Seq(Part))
  <1>1. <<>> \in Seq(Part) BY EmptySeq
  <1>2. QED BY <1>1 DEF FileOr

LEMMA PopKinds ==
    ASSUME Kinds, NEW x \in Ends, wire[x] # <<>>
    PROVE  /\ Head(wire[x]) \in Packet
           /\ Head(wire[x]).type = "NAME" => Arg(x) \in Users
           /\ Head(wire[x]).type = "PUT" => Arg(x) \in Names
           /\ Head(wire[x]).type = "DATA" => Arg(x) \in Part
           /\ Consumed(x) \in [Ends -> Seq(Packet)]
           /\ Consumed(x)[x] = Tail(wire[x])
           /\ \A e \in Ends : e # x => Consumed(x)[e] = wire[e]
           /\ open[x]
  <1>1. wire \in [Ends -> Seq(Packet)] BY DEF Kinds, TypeOK
  <1>2. Head(wire[x]) \in Packet /\ Tail(wire[x]) \in Seq(Packet)
    BY <1>1, HeadTailProperties
  <1>3. open[x] BY DEF Kinds, Closed
  <1>4. QED BY <1>1, <1>2, <1>3, PacketFacts DEF Consumed, Arg

LEMMA PushKinds ==
    ASSUME Kinds, NEW x \in Ends, open[x], NEW p \in Packet, sendToClient(x, p)
    PROVE  /\ wire' \in [Ends -> Seq(Packet)] /\ unsent' \in [Ends -> FileOr(Packet)]
           /\ \A e \in Ends : ~open[e] => wire'[e] = wire[e] /\ unsent'[e] = unsent[e]
  <1>1. wire \in [Ends -> Seq(Packet)] /\ unsent \in [Ends -> FileOr(Packet)]
    BY DEF Kinds, TypeOK
  <1>2. Peer(x) \in Ends BY EndFacts
  <1>3. Append(wire[Peer(x)], p) \in Seq(Packet) BY <1>1, <1>2, AppendProperties
  <1>4. CASE unsent' = unsent /\ wire' = IF open[Peer(x)]
                 THEN [wire EXCEPT ![Peer(x)] = Append(@, p)] ELSE wire
    BY <1>1, <1>2, <1>3, <1>4
  <1>5. CASE unsent' = [unsent EXCEPT ![x] = p] /\ wire' = wire
    BY <1>1, <1>5 DEF FileOr
  <1>6. QED BY <1>4, <1>5 DEF sendToClient

LEMMA KindsRecvPut ==
    ASSUME Kinds, NEW e \in Ends, RecvPut(e), e[1] = "server" => user[e[2]] \in Users
    PROVE  Kinds'
  <1>1. /\ open[e] /\ wire[e] # <<>> /\ Head(wire[e]).type = "PUT" /\ wire' = Consumed(e)
        /\ UNCHANGED <<open, sendVars, pollOut, unsent, user, saved, disk, history>>
    BY DEF RecvPut, Receives
  <1>2. /\ wire' \in [Ends -> Seq(Packet)] /\ Arg(e) \in Names
        /\ \A f \in Ends : f # e => wire'[f] = wire[f]
    BY <1>1, PopKinds
  <1>3. /\ recvFilename' = [recvFilename EXCEPT ![e] = Arg(e)]
        /\ isRecving' = [isRecving EXCEPT ![e] = "RECEIVING"]
        /\ \/ fileToRecv' = [fileToRecv EXCEPT ![e] = <<>>]
           \/ fileToRecv' = [fileToRecv EXCEPT ![e] = None]
        /\ known' = IF e[1] = "server" THEN getFileId(user[e[2]], Arg(e)) ELSE known
    BY DEF RecvPut
  <1>4. /\ known' \in [Users -> SUBSET Names]
        /\ \A u \in Users : IsFiniteSet(known'[u])
    <2>1. /\ known \in [Users -> SUBSET Names]
          /\ \A u \in Users : IsFiniteSet(known[u])
      BY DEF Kinds, TypeOK
    <2>2. \A u \in Users : IsFiniteSet(known[u] \cup {Arg(e)})
      BY <2>1, FS_AddElement
    <2>3. QED BY <1>2, <1>3, <2>1, <2>2 DEF getFileId
  <1>5. TypeOK'
    <2>1. /\ recvFilename' \in [Ends -> FileOr(Names)]
          /\ isRecving' \in [Ends -> {"NONE", "RECEIVING", "OK"}]
          /\ fileToRecv' \in [Ends -> FileOr(Seq(Part))]
      BY <1>2, <1>3, EmptyFile DEF Kinds, TypeOK, FileOr
    <2>2. Underway' BY <1>1, <1>3 DEF Kinds, TypeOK, Underway, sendVars
    <2>3. QED BY <1>1, <1>2, <1>4, <2>1, <2>2 DEF Kinds, TypeOK, Underway, sendVars, history
  <1>6. Others'
    BY <1>1, <1>2, <1>3, <1>4, NoneFacts
    DEF Kinds, TypeOK, Others, Closed, Owned, sendVars, history
  <1>7. QED BY <1>5, <1>6 DEF Kinds, Others

LEMMA HeadOfAppend ==
    ASSUME NEW S, NEW q \in Seq(S), q # <<>>, NEW x \in S
    PROVE  Append(q, x) # <<>> /\ Head(Append(q, x)) = Head(q)
  <1>1. PICK n, r : n = Len(q) /\ r = Append(q, x) OBVIOUS
  <1>2. n \in Nat \ {0} BY <1>1, EmptySeq, LenProperties
  <1>3. r # <<>> /\ \A i \in 1 .. n : r[i] = q[i] BY <1>1, AppendProperties
  <1>4. 1 \in 1 .. n BY <1>2
  <1>5. r[1] = q[1] BY <1>3, <1>4
  <1>6. Head(r) = r[1] /\ Head(q) = q[1] OBVIOUS
  <1>7. QED BY <1>1, <1>3, <1>5, <1>6

\* A sequence of items for all the files of a user.
HasAll(order, names) == \A n \in names : \E i \in 1 .. Len(order) : order[i].filename = n

LEMMA OrderFacts ==
    ASSUME Kinds, NEW u \in Users,
           NEW S, \A x : x \in S <=> \E n \in known[u] : x = QueueItem(n, u),
           NEW order \in SetToSeqs(S)
    PROVE  /\ order \in Seq([filename : Names, owner : FileOr(Users)])
           /\ \A i \in 1 .. Len(order) : order[i].owner = u
           /\ HasAll(order, known[u])
  <1>2. known[u] \subseteq Names /\ IsFiniteSet(known[u]) BY DEF Kinds, TypeOK
  <1>3. IsFiniteSet(S)
    <2>1. PICK f : f = [n \in known[u] |-> QueueItem(n, u)] OBVIOUS
    <2>2. f \in Surjection(known[u], S) BY <2>1 DEF Surjection
    <2>3. QED BY <1>2, <2>2, FS_Surjection
  <1>4. PICK k : k = Cardinality(S) OBVIOUS
  <1>5. k \in Nat BY <1>3, <1>4, FS_CardinalityType
  <1>6. order \in [1 .. k -> S] BY <1>4 DEF SetToSeqs
  <1>7. \A s \in S : s \in [filename : Names, owner : FileOr(Users)] /\ s.owner = u
    BY <1>2 DEF QueueItem, FileOr
  <1>8. order \in [1 .. k -> [filename : Names, owner : FileOr(Users)]] BY <1>6, <1>7
  <1>9. order \in Seq([filename : Names, owner : FileOr(Users)]) /\ Len(order) = k
    <2>1. PICK Q : Q = [filename : Names, owner : FileOr(Users)] OBVIOUS
    <2>2. order \in [1 .. k -> Q] BY <1>8, <2>1
    <2>3. order \in Seq(Q) BY <1>5, <2>2, SeqDef
    <2>4. Len(order) \in Nat /\ DOMAIN order = 1 .. Len(order) BY <2>3, LenProperties
    <2>5. 1 .. k = 1 .. Len(order) BY <2>2, <2>4
    <2>6. k = Len(order)
      <3>1. PICK m : m = Len(order) OBVIOUS
      <3>2. m \in Nat /\ \A i : i \in 1 .. k <=> i \in 1 .. m BY <2>4, <2>5, <3>1
      <3>3. m < k => k \in 1 .. k /\ k \notin 1 .. m BY <1>5, <3>2
      <3>4. k < m => m \in 1 .. m /\ m \notin 1 .. k BY <1>5, <3>2
      <3>5. QED BY <1>5, <3>1, <3>2, <3>3, <3>4
    <2>7. QED BY <2>1, <2>3, <2>6
  <1>10. \A s \in S : \E i \in 1 .. k : order[i] = s
    <2>1. \A i, j \in 1 .. k : i # j => order[i] # order[j] BY <1>4 DEF SetToSeqs
    <2>2. order \in Injection(1 .. k, S) BY <1>6, <2>1 DEF Injection, IsInjective
    <2>3. Cardinality(1 .. k) = k BY <1>5, FS_Interval
    <2>4. order \in Surjection(1 .. k, S) BY <1>3, <1>4, <2>2, <2>3, FS_Injection
    <2>5. QED BY <2>4 DEF Surjection
  <1>11. ASSUME NEW n \in known[u] PROVE \E i \in 1 .. k : order[i].filename = n
    <2>1. PICK i \in 1 .. k : order[i] = QueueItem(n, u) BY <1>10
    <2>2. QED BY <2>1 DEF QueueItem
  <1>12. QED BY <1>6, <1>7, <1>9, <1>11 DEF HasAll

LEMMA KindsRecvName ==
    ASSUME Kinds, NEW c \in Clients, RecvName(c), Arg(Server(c)) = UserOf[c]
    PROVE  /\ Kinds'
           /\ \A f \in Ends : sendQueue[f] # <<>> => Head(sendQueue'[f]) = Head(sendQueue[f])
  <1>1. PICK e, u : e = Server(c) /\ u = UserOf[c] OBVIOUS
  <1>2. e \in Ends /\ u \in Users /\ \A d \in Clients : Server(d) = e => d = c
    BY <1>1, EndFacts, NoneFacts
  <1>3. /\ open[e] /\ wire[e] # <<>> /\ wire' = Consumed(e) /\ user' = [user EXCEPT ![c] = u]
        /\ UNCHANGED <<open, isSending, fileToSend, recvVars, unsent, known, saved, disk, history>>
    BY <1>1 DEF RecvName, Receives
  <1>4. PICK S : S = {QueueItem(n, Arg(Server(c))) : n \in known[Arg(Server(c))]} OBVIOUS
  <1>16. PICK order \in SetToSeqs(S) :
            /\ sendQueue' = [sendQueue EXCEPT ![e] = @ \o order]
            /\ pollOut' = [pollOut EXCEPT ![e] = @ \/ order # <<>>]
    <2>1. \E order \in SetToSeqs({QueueItem(n, Arg(Server(c))) : n \in known[Arg(Server(c))]}) :
              /\ sendQueue' = [sendQueue EXCEPT ![Server(c)] = @ \o order]
              /\ pollOut' = [pollOut EXCEPT ![Server(c)] = @ \/ order # <<>>]
      BY DEF RecvName
    <2>2. QED BY <1>1, <1>4, <2>1
  <1>5. /\ wire' \in [Ends -> Seq(Packet)]
        /\ \A f \in Ends : f # e => wire'[f] = wire[f]
    BY <1>2, <1>3, PopKinds
  <1>6. PICK q, r : q = sendQueue[e] /\ r = q \o order OBVIOUS
  <1>7. /\ order \in Seq([filename : Names, owner : FileOr(Users)])
        /\ \A i \in 1 .. Len(order) : order[i].owner = u
    <2>1. \A x : x \in S <=> \E n \in known[u] : x = QueueItem(n, u) BY <1>1, <1>4
    <2>2. QED BY <1>2, <1>16, <2>1, OrderFacts
  <1>8. /\ q \in Seq([filename : Names, owner : FileOr(Users)])
        /\ \A i \in 1 .. Len(q) : q[i].owner = u
    BY <1>1, <1>2, <1>6 DEF Kinds, TypeOK, Owned
  <1>9. /\ r \in Seq([filename : Names, owner : FileOr(Users)])
        /\ \A i \in 1 .. Len(r) : r[i].owner = u
        /\ q # <<>> => r # <<>> /\ Head(r) = Head(q)
    <2>1. PICK a, b : a = Len(q) /\ b = Len(order) OBVIOUS
    <2>2. a \in Nat /\ b \in Nat BY <1>7, <1>8, <2>1, LenProperties
    <2>3. /\ r \in Seq([filename : Names, owner : FileOr(Users)]) /\ Len(r) = a + b
          /\ \A i \in 1 .. a + b : r[i] = IF i <= a THEN q[i] ELSE order[i - a]
      BY <1>6, <1>7, <1>8, <2>1, ConcatProperties
    <2>4. \A i \in 1 .. a + b : IF i <= a THEN i \in 1 .. a ELSE i - a \in 1 .. b
      BY <2>2
    <2>5. \A i \in 1 .. a + b : r[i].owner = u BY <1>7, <1>8, <2>1, <2>3, <2>4
    <2>6. q # <<>> => a + b # 0 BY <1>8, <2>1, <2>2, EmptySeq
    <2>7. q # <<>> => r # <<>> BY <2>3, <2>6, EmptySeq
    <2>8. q # <<>> => Head(r) = Head(q)
      <3>1. SUFFICES ASSUME q # <<>> PROVE Head(r) = Head(q) OBVIOUS
      <3>2. a # 0 BY <1>8, <2>1, <3>1, EmptySeq
      <3>3. 1 \in 1 .. a + b /\ 1 <= a BY <2>2, <3>2
      <3>4. r[1] = q[1] BY <2>3, <3>3
      <3>5. Head(r) = r[1] /\ Head(q) = q[1] OBVIOUS
      <3>6. QED BY <3>4, <3>5
    <2>9. QED BY <2>3, <2>5, <2>7, <2>8
  <1>10. sendQueue' \in [Ends -> Seq([filename : Names, owner : FileOr(Users)])]
    BY <1>16, <1>6, <1>9 DEF Kinds, TypeOK
  <1>11. sendQueue'[e] = r /\ \A f \in Ends : f # e => sendQueue'[f] = sendQueue[f]
    BY <1>2, <1>16, <1>6 DEF Kinds, TypeOK
  <1>12. TypeOK'
    <2>1. user' \in [Clients -> FileOr(Users)] /\ pollOut' \in [Ends -> BOOLEAN]
      BY <1>2, <1>3, <1>16 DEF Kinds, TypeOK, FileOr
    <2>2. Underway' BY <1>3, <1>9, <1>11, <1>6 DEF Kinds, TypeOK, Underway, recvVars
    <2>3. QED BY <1>3, <1>5, <1>10, <2>1, <2>2 DEF Kinds, TypeOK, Underway, recvVars, history
  <1>13. \A d \in Clients : Owned(d)'
    BY <1>1, <1>2, <1>9, <1>11, EndFacts DEF Kinds, Owned
  <1>14. Others'
    BY <1>2, <1>3, <1>5, <1>11, <1>13 DEF Kinds, Others, Closed, recvVars, history
  <1>15. \A f \in Ends : sendQueue[f] # <<>> => Head(sendQueue'[f]) = Head(sendQueue[f])
    BY <1>6, <1>9, <1>11
  <1>17. QED BY <1>12, <1>14, <1>15 DEF Kinds, Others

LEMMA KindsRecvData ==
    ASSUME Kinds, NEW e \in Ends, RecvData(e)
    PROVE  Kinds'
  <1>1. /\ open[e] /\ wire[e] # <<>> /\ Head(wire[e]).type = "DATA" /\ wire' = Consumed(e)
        /\ fileToRecv' = IF fileToRecv[e] = None THEN fileToRecv
                         ELSE [fileToRecv EXCEPT ![e] = Append(@, Arg(e))]
        /\ UNCHANGED <<open, sendVars, isRecving, recvFilename, pollOut, unsent, fileVars, history>>
    BY DEF RecvData, Receives
  <1>2. /\ wire' \in [Ends -> Seq(Packet)] /\ Arg(e) \in Part
        /\ \A f \in Ends : f # e => wire'[f] = wire[f]
    BY <1>1, PopKinds
  <1>3. fileToRecv \in [Ends -> FileOr(Seq(Part))] BY DEF Kinds, TypeOK
  <1>4. fileToRecv[e] # None => Append(fileToRecv[e], Arg(e)) \in Seq(Part)
    BY <1>2, <1>3, AppendProperties DEF FileOr
  <1>5. /\ fileToRecv' \in [Ends -> FileOr(Seq(Part))]
        /\ \A f \in Ends : fileToRecv[f] = None => fileToRecv'[f] = None
        /\ \A f \in Ends : f # e => fileToRecv'[f] = fileToRecv[f]
    BY <1>1, <1>3, <1>4 DEF FileOr
  <1>6. TypeOK'
    <2>1. Underway' BY <1>1, <1>5 DEF Kinds, TypeOK, Underway, sendVars
    <2>2. QED BY <1>1, <1>2, <1>5, <2>1 DEF Kinds, TypeOK, Underway, sendVars, fileVars, history
  <1>7. Others'
    BY <1>1, <1>2, <1>5 DEF Kinds, Others, Closed, Owned, sendVars, fileVars, history
  <1>8. QED BY <1>6, <1>7 DEF Kinds, Others

LEMMA KindsRecvCheck ==
    ASSUME Kinds, NEW e \in Ends, RecvCheck(e), e[1] = "server" => user[e[2]] = UserOf[e[2]],
           \A d \in Clients : open[Server(d)] => user[d] \in {None, UserOf[d]}
    PROVE  /\ Kinds'
           /\ \A f \in Ends : sendQueue[f] # <<>> => Head(sendQueue'[f]) = Head(sendQueue[f])
  <1>1. /\ open[e] /\ wire[e] # <<>> /\ wire' = Consumed(e) /\ fileToRecv[e] # None
        /\ isRecving' = [isRecving EXCEPT ![e] = "OK"]
        /\ fileToRecv' = [fileToRecv EXCEPT ![e] = None]
        /\ UNCHANGED <<open, isSending, fileToSend, recvFilename, unsent, user, known, origin,
                       joins, puts>>
        /\ IF e[1] = "server" THEN SaveAtServer(e[2]) ELSE SaveAtClient(e[2])
    BY DEF RecvCheck, Receives
  <1>2. /\ wire' \in [Ends -> Seq(Packet)]
        /\ \A f \in Ends : f # e => wire'[f] = wire[f]
    BY <1>1, PopKinds
  <1>3. /\ fileToRecv[e] \in FileOr(Seq(Part)) /\ recvFilename[e] \in Names
        /\ e[2] \in Clients /\ UserOf[e[2]] \in Users
    BY <1>1, EndFacts, NoneFacts DEF Kinds, TypeOK, FileOr
  <1>4. /\ isRecving' \in [Ends -> {"NONE", "RECEIVING", "OK"}]
        /\ fileToRecv' \in [Ends -> FileOr(Seq(Part))]
        /\ fileToRecv'[e] = None
        /\ \A f \in Ends : f # e => fileToRecv'[f] = fileToRecv[f] /\ isRecving'[f] = isRecving[f]
    BY <1>1, EmptyFile DEF Kinds, TypeOK
  <1>5. /\ sendQueue' \in [Ends -> Seq([filename : Names, owner : FileOr(Users)])]
        /\ pollOut' \in [Ends -> BOOLEAN]
        /\ saved' \in [Users -> [Names -> FileOr(Seq(Part))]]
        /\ disk' \in [Clients -> [Names -> FileOr(Seq(Part))]]
        /\ \A f \in Ends : \/ sendQueue'[f] = sendQueue[f]
                           \/ /\ open[f]
                              /\ \E d \in Clients : f = Server(d) /\ sendQueue'[f] =
                                     Append(sendQueue[f], QueueItem(recvFilename[e], UserOf[d]))
    <2>1. CASE e[1] = "server"
      <3>1. PICK c, n, E : c = e[2] /\ n = recvFilename[e] /\ E = {Server(d) : d \in Peers(c)}
        OBVIOUS
      <3>2. e = Server(c) /\ user[c] = UserOf[c] /\ c \in Clients BY <1>3, <2>1, <3>1, EndFacts
      <3>3. /\ saved' = [saved EXCEPT ![user[c]][n] = fileToRecv[e]] /\ disk' = disk
            /\ sendQueue' = [f \in Ends |-> IF f \in E THEN Append(sendQueue[f], QueueItem(n, user[c]))
                                            ELSE sendQueue[f]]
            /\ pollOut' = [f \in Ends |-> pollOut[f] \/ f = e \/ f \in E]
        <4>1. SaveAtServer(c) BY <1>1, <2>1, <3>1
        <4>2. /\ Server(c) = e /\ recvFilename[Server(c)] = n
              /\ {Server(d) : d \in Peers(c)} = E
          BY <3>1, <3>2
        <4>3. QED BY <4>1, <4>2 DEF SaveAtServer
      <3>4. \A f \in E : \E d \in Clients : f = Server(d) /\ open[f] /\ user[c] = UserOf[d]
        BY <1>3, <3>1, <3>2, NoneFacts DEF Peers
      <3>5. \A f \in Ends : Append(sendQueue[f], QueueItem(n, user[c]))
                                \in Seq([filename : Names, owner : FileOr(Users)])
        <4>1. QueueItem(n, user[c]) \in [filename : Names, owner : FileOr(Users)]
          BY <1>3, <3>1, <3>2 DEF QueueItem, FileOr
        <4>2. sendQueue \in [Ends -> Seq([filename : Names, owner : FileOr(Users)])]
          BY DEF Kinds, TypeOK
        <4>3. QED BY <4>1, <4>2, AppendProperties
      <3>6. saved' \in [Users -> [Names -> FileOr(Seq(Part))]]
        BY <1>3, <3>1, <3>2, <3>3 DEF Kinds, TypeOK
      <3>7. sendQueue' \in [Ends -> Seq([filename : Names, owner : FileOr(Users)])]
        BY <3>3, <3>5 DEF Kinds, TypeOK
      <3>8. pollOut' \in [Ends -> BOOLEAN] BY <3>3 DEF Kinds, TypeOK
      <3>9. ASSUME NEW f \in Ends
            PROVE  \/ sendQueue'[f] = sendQueue[f]
                   \/ /\ open[f]
                      /\ \E d \in Clients : f = Server(d) /\ sendQueue'[f] =
                             Append(sendQueue[f], QueueItem(recvFilename[e], UserOf[d]))
        <4>1. CASE f \notin E BY <3>3, <4>1
        <4>2. CASE f \in E
          <5>1. PICK d \in Clients : f = Server(d) /\ open[f] /\ user[c] = UserOf[d]
            BY <3>4, <4>2
          <5>2. sendQueue'[f] = Append(sendQueue[f], QueueItem(recvFilename[e], UserOf[d]))
            BY <3>1, <3>3, <4>2, <5>1
          <5>3. QED BY <5>1, <5>2
        <4>3. QED BY <4>1, <4>2
      <3>10. disk' \in [Clients -> [Names -> FileOr(Seq(Part))]]
        BY <3>3 DEF Kinds, TypeOK
      <3>11. QED BY <3>6, <3>7, <3>8, <3>9, <3>10
    <2>2. CASE e[1] # "server"
      <3>1. PICK c : c = e[2] OBVIOUS
      <3>2. e = Client(c) /\ c \in Clients BY <1>3, <2>2, <3>1, EndFacts
      <3>3. /\ disk' = [disk EXCEPT ![c][recvFilename[e]] = fileToRecv[e]]
            /\ pollOut' = [pollOut EXCEPT ![e] = TRUE]
            /\ UNCHANGED <<saved, sendQueue>>
        BY <1>1, <2>2, <3>1, <3>2 DEF SaveAtClient
      <3>4. QED BY <1>3, <3>2, <3>3 DEF Kinds, TypeOK
    <2>3. QED BY <2>1, <2>2
  <1>6. \A f \in Ends : sendQueue[f] # <<>> =>
            sendQueue'[f] # <<>> /\ Head(sendQueue'[f]) = Head(sendQueue[f])
    <2>1. ASSUME NEW f \in Ends, NEW d \in Clients, sendQueue[f] # <<>>,
                 sendQueue'[f] = Append(sendQueue[f], QueueItem(recvFilename[e], UserOf[d]))
          PROVE  sendQueue'[f] # <<>> /\ Head(sendQueue'[f]) = Head(sendQueue[f])
      <3>1. sendQueue[f] \in Seq([filename : Names, owner : FileOr(Users)])
        BY DEF Kinds, TypeOK
      <3>2. QueueItem(recvFilename[e], UserOf[d]) \in [filename : Names, owner : FileOr(Users)]
        BY <1>3, NoneFacts DEF QueueItem, FileOr
      <3>3. QED BY <2>1, <3>1, <3>2, HeadOfAppend
    <2>2. QED BY <1>5, <2>1
  <1>7. TypeOK'
    <2>1. Underway' BY <1>1, <1>4, <1>6 DEF Kinds, TypeOK, Underway
    <2>2. QED BY <1>1, <1>2, <1>4, <1>5, <2>1 DEF Kinds, TypeOK, Underway
  <1>8. ASSUME NEW c \in Clients PROVE Owned(c)'
    <2>1. PICK f, q, r : f = Server(c) /\ q = sendQueue[f] /\ r = sendQueue'[f] OBVIOUS
    <2>2. /\ f \in Ends /\ q \in Seq([filename : Names, owner : FileOr(Users)])
          /\ \A i \in 1 .. Len(q) : q[i].owner = UserOf[c]
          /\ \A d \in Clients : f = Server(d) => d = c
      <3>1. /\ Server(c) \in Ends /\ \A d \in Clients : Server(c) = Server(d) => d = c
        BY EndFacts
      <3>2. /\ sendQueue \in [Ends -> Seq([filename : Names, owner : FileOr(Users)])]
            /\ \A i \in 1 .. Len(sendQueue[Server(c)]) :
                   sendQueue[Server(c)][i].owner = UserOf[c]
        BY DEF Kinds, TypeOK, Owned
      <3>3. QED BY <2>1, <3>1, <3>2
    <2>3. CASE r = q BY <2>1, <2>2, <2>3 DEF Owned
    <2>4. CASE r = Append(q, QueueItem(recvFilename[e], UserOf[c]))
      <3>1. PICK x, a : x = QueueItem(recvFilename[e], UserOf[c]) /\ a = Len(q) OBVIOUS
      <3>2. x.owner = UserOf[c] /\ x \in [filename : Names, owner : FileOr(Users)]
        BY <1>3, <3>1, NoneFacts DEF QueueItem, FileOr
      <3>3. /\ a \in Nat /\ Len(r) = a + 1 /\ r[a + 1] = x /\ \A i \in 1 .. a : r[i] = q[i]
        BY <2>2, <2>4, <3>1, <3>2, AppendProperties, LenProperties
      <3>4. \A i \in 1 .. a + 1 : i = a + 1 \/ i \in 1 .. a BY <3>3
      <3>5. \A i \in 1 .. Len(r) : r[i].owner = UserOf[c] BY <2>2, <3>1, <3>2, <3>3, <3>4
      <3>6. QED BY <2>1, <3>5 DEF Owned
    <2>5. QED BY <1>5, <2>1, <2>2, <2>3, <2>4
  <1>9. Others'
    <2>1. ASSUME NEW f \in Ends, ~open[f] PROVE Closed(f)'
      <3>1. sendQueue'[f] = sendQueue[f] /\ f # e BY <1>1, <1>5, <2>1
      <3>2. wire'[f] = wire[f] /\ fileToRecv'[f] = fileToRecv[f] /\ isRecving'[f] = isRecving[f]
        BY <1>2, <1>4, <3>1
      <3>3. unsent' = unsent /\ isSending' = isSending /\ fileToSend' = fileToSend BY <1>1
      <3>4. Closed(f) BY <2>1 DEF Kinds
      <3>5. QED BY <3>1, <3>2, <3>3, <3>4 DEF Closed
    <2>2. QED BY <1>1, <1>4, <1>8, <2>1 DEF Kinds, Others
  <1>10. QED BY <1>6, <1>7, <1>9 DEF Kinds, Others

LEMMA KindsRecvCheckIgnored ==
    ASSUME Kinds, NEW e \in Ends, RecvCheckIgnored(e)
    PROVE  Kinds'
  <1>1. /\ open[e] /\ wire[e] # <<>> /\ wire' = Consumed(e)
        /\ UNCHANGED <<open, sendVars, recvVars, pollOut, unsent, fileVars, history>>
    BY DEF RecvCheckIgnored, Receives
  <1>2. /\ wire' \in [Ends -> Seq(Packet)] /\ \A f \in Ends : f # e => wire'[f] = wire[f]
    BY <1>1, PopKinds
  <1>3. TypeOK' BY <1>1, <1>2 DEF Kinds, TypeOK, sendVars, recvVars, fileVars, history
  <1>4. Others'
    BY <1>1, <1>2 DEF Kinds, Others, Closed, Owned, sendVars, recvVars, fileVars, history
  <1>5. QED BY <1>3, <1>4 DEF Kinds, Others

\* Taking the first item from a queue keeps what holds of the queues.
LEMMA Dequeued ==
    ASSUME Kinds, NEW e \in Ends, sendQueue[e] # <<>>,
           sendQueue' = [sendQueue EXCEPT ![e] = Tail(@)]
    PROVE  /\ sendQueue' \in [Ends -> Seq([filename : Names, owner : FileOr(Users)])]
           /\ sendQueue'[e] = Tail(sendQueue[e])
           /\ \A f \in Ends : f # e => sendQueue'[f] = sendQueue[f]
           /\ \A c \in Clients : Owned(c)'
  <1>1. sendQueue \in [Ends -> Seq([filename : Names, owner : FileOr(Users)])]
    BY DEF Kinds, TypeOK
  <1>2. PICK q, n, t : q = sendQueue[e] /\ n = Len(q) /\ t = Tail(q) OBVIOUS
  <1>3. n \in Nat \ {0} BY <1>1, <1>2, EmptySeq
  <1>4. /\ t \in Seq([filename : Names, owner : FileOr(Users)]) /\ Len(t) = n - 1
        /\ \A i \in 1 .. n - 1 : t[i] = q[i + 1]
    <2>1. PICK Q : Q = [filename : Names, owner : FileOr(Users)] OBVIOUS
    <2>2. q \in Seq(Q) /\ q # <<>> BY <1>1, <1>2, <2>1
    <2>3. /\ Tail(q) \in Seq(Q) /\ Len(Tail(q)) = Len(q) - 1
          /\ \A i \in 1 .. Len(Tail(q)) : Tail(q)[i] = q[i + 1]
      BY <2>2, HeadTailProperties
    <2>4. QED BY <1>2, <2>1, <2>3
  <1>5. /\ sendQueue' \in [Ends -> Seq([filename : Names, owner : FileOr(Users)])]
        /\ sendQueue'[e] = t
        /\ \A f \in Ends : f # e => sendQueue'[f] = sendQueue[f]
    BY <1>1, <1>2, <1>4
  <1>6. ASSUME NEW c \in Clients PROVE Owned(c)'
    <2>1. Owned(c) /\ Server(c) \in Ends BY EndFacts DEF Kinds
    <2>2. CASE Server(c) # e BY <1>5, <2>1, <2>2 DEF Owned
    <2>3. CASE Server(c) = e
      <3>1. \A i \in 1 .. n : q[i].owner = UserOf[c] BY <1>2, <2>1, <2>3 DEF Owned
      <3>2. \A i \in 1 .. n - 1 : i + 1 \in 1 .. n BY <1>3
      <3>3. \A i \in 1 .. Len(t) : t[i].owner = UserOf[c] BY <1>4, <3>1, <3>2
      <3>4. QED BY <1>5, <2>3, <3>3 DEF Owned
    <2>4. QED BY <2>2, <2>3
  <1>7. QED BY <1>2, <1>5, <1>6

LEMMA KindsRecvOk ==
    ASSUME Kinds, NEW e \in Ends, RecvOk(e)
    PROVE  Kinds'
  <1>1. /\ open[e] /\ wire[e] # <<>> /\ wire' = Consumed(e)
        /\ UNCHANGED <<open, recvVars, unsent, fileVars, history>>
    BY DEF RecvOk, Receives
  <1>2. /\ wire' \in [Ends -> Seq(Packet)] /\ \A f \in Ends : f # e => wire'[f] = wire[f]
    BY <1>1, PopKinds
  <1>3. CASE /\ sendQueue[e] # <<>> /\ sendQueue' = [sendQueue EXCEPT ![e] = Tail(@)]
             /\ fileToSend' = [fileToSend EXCEPT ![e] = None]
             /\ isSending' = [isSending EXCEPT ![e] = "STARTING"]
             /\ pollOut' = [pollOut EXCEPT ![e] = @ \/ MoreToSend(e)]
    <2>1. /\ sendQueue' \in [Ends -> Seq([filename : Names, owner : FileOr(Users)])]
          /\ \A f \in Ends : f # e => sendQueue'[f] = sendQueue[f]
          /\ \A c \in Clients : Owned(c)'
      BY <1>3, Dequeued
    <2>2. /\ fileToSend' \in [Ends -> FileOr(Seq(Part))]
          /\ isSending' \in [Ends -> {"STARTING", "SENDING", "CHECKING"}]
          /\ pollOut' \in [Ends -> BOOLEAN]
      BY <1>3, EmptyFile DEF Kinds, TypeOK, MoreToSend
    <2>3. Underway' BY <1>1, <1>3, <2>1 DEF Kinds, TypeOK, Underway, recvVars
    <2>4. TypeOK'
      BY <1>1, <1>2, <2>1, <2>2, <2>3 DEF Kinds, TypeOK, Underway, recvVars, fileVars, history
    <2>5. Others'
      BY <1>1, <1>2, <1>3, <2>1 DEF Kinds, TypeOK, Others, Closed, recvVars, fileVars, history
    <2>6. QED BY <2>4, <2>5 DEF Kinds, Others
  <1>4. CASE UNCHANGED <<sendVars, pollOut>>
    <2>1. TypeOK' BY <1>1, <1>2, <1>4 DEF Kinds, TypeOK, sendVars, recvVars, fileVars, history
    <2>2. Others'
      BY <1>1, <1>2, <1>4
      DEF Kinds, Others, Closed, Owned, sendVars, recvVars, fileVars, history
    <2>3. QED BY <2>1, <2>2 DEF Kinds, Others
  <1>5. QED BY <1>3, <1>4 DEF RecvOk, SendingNext

LEMMA KindsAgain ==
    ASSUME Kinds, NEW e \in Ends, trySendToClientAgain(e)
    PROVE  Kinds'
  <1>1. /\ open[e] /\ unsent[e] # None
        /\ wire' = IF open[Peer(e)] THEN [wire EXCEPT ![Peer(e)] = Append(@, unsent[e])] ELSE wire
        /\ unsent' = [unsent EXCEPT ![e] = None]
        /\ UNCHANGED <<open, sendVars, recvVars, pollOut, fileVars, history>>
    BY DEF trySendToClientAgain, Writes
  <1>2. /\ wire \in [Ends -> Seq(Packet)] /\ unsent \in [Ends -> FileOr(Packet)]
        /\ Peer(e) \in Ends
    BY EndFacts DEF Kinds, TypeOK
  <1>3. Append(wire[Peer(e)], unsent[e]) \in Seq(Packet)
    BY <1>1, <1>2, AppendProperties DEF FileOr
  <1>4. /\ wire' \in [Ends -> Seq(Packet)] /\ unsent' \in [Ends -> FileOr(Packet)]
        /\ \A f \in Ends : ~open[f] => wire'[f] = wire[f] /\ unsent'[f] = unsent[f]
    BY <1>1, <1>2, <1>3 DEF FileOr
  <1>5. TypeOK' BY <1>1, <1>4 DEF Kinds, TypeOK, sendVars, recvVars, fileVars, history
  <1>6. Others'
    BY <1>1, <1>4 DEF Kinds, Others, Closed, Owned, sendVars, recvVars, fileVars, history
  <1>7. QED BY <1>5, <1>6 DEF Kinds, Others

LEMMA KindsCheckResult ==
    ASSUME Kinds, NEW e \in Ends, sendCheckResult(e)
    PROVE  Kinds'
  <1>1. /\ open[e] /\ isRecving[e] = "OK" /\ sendToClient(e, Message("OK", None))
        /\ isRecving' = [isRecving EXCEPT ![e] = "NONE"]
        /\ UNCHANGED <<open, sendVars, fileToRecv, recvFilename, pollOut, fileVars, history>>
    BY DEF sendCheckResult, Free, Writes, Answered
  <1>2. /\ wire' \in [Ends -> Seq(Packet)] /\ unsent' \in [Ends -> FileOr(Packet)]
        /\ \A f \in Ends : ~open[f] => wire'[f] = wire[f] /\ unsent'[f] = unsent[f]
    BY <1>1, PushKinds, PacketFacts
  <1>3. TypeOK'
    <2>1. Underway' BY <1>1 DEF Kinds, TypeOK, Underway, sendVars
    <2>2. isRecving' \in [Ends -> {"NONE", "RECEIVING", "OK"}] BY <1>1 DEF Kinds, TypeOK
    <2>3. QED BY <1>1, <1>2, <2>1, <2>2 DEF Kinds, TypeOK, Underway, sendVars, fileVars, history
  <1>4. Others'
    BY <1>1, <1>2 DEF Kinds, TypeOK, Others, Closed, Owned, sendVars, fileVars, history
  <1>5. QED BY <1>3, <1>4 DEF Kinds, Others

LEMMA KindsStopWriting ==
    ASSUME Kinds, NEW e \in Ends, StopWriting(e)
    PROVE  Kinds'
  <1>1. /\ open[e] /\ pollOut' = [pollOut EXCEPT ![e] = FALSE]
        /\ isSending' = [isSending EXCEPT ![e] = IF sendQueue[e] = <<>> THEN "STARTING" ELSE @]
        /\ UNCHANGED <<open, sendQueue, fileToSend, recvVars, unsent, wire, fileVars, history>>
    BY DEF StopWriting, Free, Writes
  <1>2. TypeOK'
    <2>1. Underway' BY <1>1 DEF Kinds, TypeOK, Underway, recvVars
    <2>2. /\ isSending' \in [Ends -> {"STARTING", "SENDING", "CHECKING"}]
          /\ pollOut' \in [Ends -> BOOLEAN]
      BY <1>1 DEF Kinds, TypeOK
    <2>3. QED BY <1>1, <2>1, <2>2 DEF Kinds, TypeOK, Underway, recvVars, fileVars, history
  <1>3. Others'
    BY <1>1 DEF Kinds, TypeOK, Others, Closed, Owned, recvVars, fileVars, history
  <1>4. QED BY <1>2, <1>3 DEF Kinds, Others

LEMMA KindsSkipFile ==
    ASSUME Kinds, NEW e \in Ends, SkipFile(e)
    PROVE  Kinds'
  <1>1. /\ open[e] /\ sendQueue[e] # <<>> /\ isSending[e] = "STARTING"
        /\ sendQueue' = [sendQueue EXCEPT ![e] = Tail(@)]
        /\ UNCHANGED <<open, isSending, fileToSend, recvVars, pollOut, unsent, wire, fileVars, history>>
    BY DEF SkipFile, Queued, Free, Writes
  <1>2. /\ sendQueue' \in [Ends -> Seq([filename : Names, owner : FileOr(Users)])]
        /\ \A f \in Ends : f # e => sendQueue'[f] = sendQueue[f]
        /\ \A c \in Clients : Owned(c)'
    BY <1>1, Dequeued
  <1>3. TypeOK'
    <2>1. Underway' BY <1>1, <1>2 DEF Kinds, TypeOK, Underway, recvVars
    <2>2. QED BY <1>1, <1>2, <2>1 DEF Kinds, TypeOK, Underway, recvVars, fileVars, history
  <1>4. Others' BY <1>1, <1>2 DEF Kinds, Others, Closed, recvVars, fileVars, history
  <1>5. QED BY <1>3, <1>4 DEF Kinds, Others

LEMMA KindsStartFile ==
    ASSUME Kinds, NEW e \in Ends, StartFile(e)
    PROVE  Kinds'
  <1>1. PICK qi : qi = Head(sendQueue[e]) OBVIOUS
  <1>2. /\ open[e] /\ sendQueue[e] # <<>> /\ FileAt(e, qi) # None
        /\ fileToSend' = [fileToSend EXCEPT ![e] = FileAt(e, qi)]
        /\ sendToClient(e, Message("PUT", qi.filename))
        /\ isSending' = [isSending EXCEPT ![e] = "SENDING"]
        /\ UNCHANGED <<open, sendQueue, recvVars, pollOut, fileVars, history>>
    BY <1>1 DEF StartFile, Queued, Free, Writes
  <1>3. qi \in [filename : Names, owner : FileOr(Users)]
    <2>1. sendQueue[e] \in Seq([filename : Names, owner : FileOr(Users)])
      BY DEF Kinds, TypeOK
    <2>2. QED BY <1>1, <1>2, <2>1, HeadTailProperties
  <1>4. FileAt(e, qi) \in FileOr(Seq(Part))
    <2>1. CASE e[1] = "server"
      <3>1. e = Server(e[2]) /\ e[2] \in Clients BY <2>1, EndFacts
      <3>2. qi.owner = UserOf[e[2]]
        <4>1. PICK q : q = sendQueue[e] OBVIOUS
        <4>2. q \in Seq([filename : Names, owner : FileOr(Users)]) /\ q # <<>>
          BY <1>2, <4>1 DEF Kinds, TypeOK
        <4>3. Len(q) \in Nat \ {0} BY <4>2, EmptySeq, LenProperties
        <4>4. 1 \in 1 .. Len(q) /\ Head(q) = q[1] BY <4>3
        <4>5. \A i \in 1 .. Len(q) : q[i].owner = UserOf[e[2]]
          BY <3>1, <4>1 DEF Kinds, Owned
        <4>6. QED BY <1>1, <4>1, <4>4, <4>5
      <3>3. QED BY <1>3, <2>1, <3>1, <3>2, NoneFacts DEF Kinds, TypeOK, FileAt
    <2>2. CASE e[1] # "server"
      BY <1>3, <2>2, EndFacts DEF Kinds, TypeOK, FileAt
    <2>3. QED BY <2>1, <2>2
  <1>5. /\ wire' \in [Ends -> Seq(Packet)] /\ unsent' \in [Ends -> FileOr(Packet)]
        /\ \A f \in Ends : ~open[f] => wire'[f] = wire[f] /\ unsent'[f] = unsent[f]
    <2>1. qi.filename \in Names BY <1>3
    <2>2. Message("PUT", qi.filename) \in Packet BY <2>1, PacketFacts
    <2>3. QED BY <1>2, <2>2, PushKinds
  <1>6. TypeOK'
    <2>1. Underway' BY <1>2 DEF Kinds, TypeOK, Underway, recvVars
    <2>2. /\ isSending' \in [Ends -> {"STARTING", "SENDING", "CHECKING"}]
          /\ fileToSend' \in [Ends -> FileOr(Seq(Part))]
      BY <1>2, <1>4 DEF Kinds, TypeOK
    <2>3. QED BY <1>2, <1>5, <2>1, <2>2 DEF Kinds, TypeOK, Underway, recvVars, fileVars, history
  <1>7. Others'
    BY <1>2, <1>5 DEF Kinds, TypeOK, Others, Closed, Owned, recvVars, fileVars, history
  <1>8. QED BY <1>6, <1>7 DEF Kinds, Others

LEMMA KindsSendData ==
    ASSUME Kinds, NEW e \in Ends, SendData(e)
    PROVE  Kinds'
  <1>1. /\ open[e] /\ isSending[e] = "SENDING" /\ fileToSend[e] # <<>>
        /\ sendToClient(e, Message("DATA", Head(fileToSend[e])))
        /\ fileToSend' = [fileToSend EXCEPT ![e] = Tail(@)]
        /\ UNCHANGED <<open, sendQueue, isSending, recvVars, pollOut, fileVars, history>>
    BY DEF SendData, Queued, Free, Writes
  <1>2. fileToSend[e] \in Seq(Part) BY <1>1 DEF Kinds, TypeOK, FileOr
  <1>3. Head(fileToSend[e]) \in Part /\ Tail(fileToSend[e]) \in Seq(Part)
    BY <1>1, <1>2, HeadTailProperties
  <1>4. Tail(fileToSend[e]) # None BY <1>3, NoneFacts
  <1>5. /\ wire' \in [Ends -> Seq(Packet)] /\ unsent' \in [Ends -> FileOr(Packet)]
        /\ \A f \in Ends : ~open[f] => wire'[f] = wire[f] /\ unsent'[f] = unsent[f]
    <2>1. Message("DATA", Head(fileToSend[e])) \in Packet BY <1>3, PacketFacts
    <2>2. QED BY <1>1, <2>1, PushKinds
  <1>6. TypeOK'
    <2>1. Underway' BY <1>1, <1>4 DEF Kinds, TypeOK, Underway, recvVars
    <2>2. fileToSend' \in [Ends -> FileOr(Seq(Part))] BY <1>1, <1>3 DEF Kinds, TypeOK, FileOr
    <2>3. QED BY <1>1, <1>5, <2>1, <2>2 DEF Kinds, TypeOK, Underway, recvVars, fileVars, history
  <1>7. Others'
    <2>1. \A f \in Ends : f # e => fileToSend'[f] = fileToSend[f] BY <1>1 DEF Kinds, TypeOK
    <2>2. /\ open' = open /\ sendQueue' = sendQueue /\ isSending' = isSending
          /\ isRecving' = isRecving /\ fileToRecv' = fileToRecv
          /\ recvFilename' = recvFilename /\ known' = known /\ origin' = origin /\ puts' = puts
      BY <1>1 DEF recvVars, fileVars, history
    <2>3. \A f \in Ends : /\ ~open'[f] => Closed(f)'
                          /\ fileToRecv'[f] # None => recvFilename'[f] # None
      <3>1. SUFFICES ASSUME NEW f \in Ends, ~open[f] PROVE Closed(f)'
        BY <2>2 DEF Kinds
      <3>2. f # e /\ Closed(f) BY <1>1, <3>1 DEF Kinds
      <3>3. QED BY <1>5, <2>1, <2>2, <3>1, <3>2 DEF Closed
    <2>4. /\ \A c \in Clients : open'[Client(c)] => open'[Server(c)]
          /\ \A c \in Clients : Owned(c)'
          /\ \A u \in Users : IsFiniteSet(known[u])'
      BY <2>2 DEF Kinds, Owned
    <2>5. /\ origin' \in Seq([user : Users, name : Names])
          /\ puts' \in Nat /\ puts' <= MaxPuts /\ Len(origin') <= puts'
      BY <2>2 DEF Kinds
    <2>6. QED BY <2>3, <2>4, <2>5 DEF Others
  <1>8. QED BY <1>6, <1>7 DEF Kinds, Others

LEMMA KindsSendCheck ==
    ASSUME Kinds, NEW e \in Ends, SendCheck(e)
    PROVE  Kinds'
  <1>1. /\ open[e] /\ isSending[e] = "SENDING" /\ sendToClient(e, Message("CHECK", None))
        /\ isSending' = [isSending EXCEPT ![e] = "CHECKING"]
        /\ pollOut' = [pollOut EXCEPT ![e] = FALSE]
        /\ UNCHANGED <<open, sendQueue, fileToSend, recvVars, fileVars, history>>
    BY DEF SendCheck, Queued, Free, Writes
  <1>2. /\ wire' \in [Ends -> Seq(Packet)] /\ unsent' \in [Ends -> FileOr(Packet)]
        /\ \A f \in Ends : ~open[f] => wire'[f] = wire[f] /\ unsent'[f] = unsent[f]
    BY <1>1, PushKinds, PacketFacts
  <1>3. TypeOK'
    <2>1. Underway' BY <1>1 DEF Kinds, TypeOK, Underway, recvVars
    <2>2. /\ isSending' \in [Ends -> {"STARTING", "SENDING", "CHECKING"}]
          /\ pollOut' \in [Ends -> BOOLEAN]
      BY <1>1 DEF Kinds, TypeOK
    <2>3. QED BY <1>1, <1>2, <2>1, <2>2 DEF Kinds, TypeOK, Underway, recvVars, fileVars, history
  <1>4. Others'
    BY <1>1, <1>2 DEF Kinds, TypeOK, Others, Closed, Owned, recvVars, fileVars, history
  <1>5. QED BY <1>3, <1>4 DEF Kinds, Others

LEMMA KindsJoin ==
    ASSUME Kinds, NEW c \in Clients, Join(c)
    PROVE  Kinds'
  <1>1. PICK s, e, p : s = Server(c) /\ e = Client(c) /\ p = Message("NAME", UserOf[c]) OBVIOUS
  <1>2. s \in Ends /\ e \in Ends /\ s # e /\ p \in Packet
    BY <1>1, EndFacts, NoneFacts, PacketFacts
  <1>3. /\ ~open[e] /\ ~open[s]
        /\ open' = [open EXCEPT ![e] = TRUE, ![s] = TRUE]
        /\ user' = [user EXCEPT ![c] = None]
        /\ \/ /\ wire' = [wire EXCEPT ![s] = << p >>]
              /\ UNCHANGED <<unsent, pollOut>>
           \/ /\ unsent' = [unsent EXCEPT ![e] = p]
              /\ pollOut' = [pollOut EXCEPT ![e] = TRUE]
              /\ UNCHANGED wire
        /\ UNCHANGED <<sendVars, recvVars, known, saved, disk, origin, uploader, puts>>
    BY <1>1 DEF Join
  <1>4. << p >> \in Seq(Packet) BY <1>2
  <1>5. /\ wire' \in [Ends -> Seq(Packet)] /\ unsent' \in [Ends -> FileOr(Packet)]
        /\ pollOut' \in [Ends -> BOOLEAN] /\ open' \in [Ends -> BOOLEAN]
        /\ user' \in [Clients -> FileOr(Users)]
        /\ \A f \in Ends : ~open'[f] => /\ ~open[f] /\ wire'[f] = wire[f] /\ unsent'[f] = unsent[f]
    <2>1. /\ wire \in [Ends -> Seq(Packet)] /\ unsent \in [Ends -> FileOr(Packet)]
          /\ pollOut \in [Ends -> BOOLEAN] /\ open \in [Ends -> BOOLEAN]
          /\ user \in [Clients -> FileOr(Users)]
      BY DEF Kinds, TypeOK
    <2>2. open' \in [Ends -> BOOLEAN] /\ \A f \in Ends : ~open'[f] => ~open[f] /\ f # e /\ f # s
      BY <1>2, <1>3, <2>1
    <2>3. wire' \in [Ends -> Seq(Packet)] /\ \A f \in Ends : f # s => wire'[f] = wire[f]
      BY <1>2, <1>3, <1>4, <2>1
    <2>4. /\ unsent' \in [Ends -> FileOr(Packet)] /\ pollOut' \in [Ends -> BOOLEAN]
          /\ \A f \in Ends : f # e => unsent'[f] = unsent[f]
      BY <1>2, <1>3, <2>1 DEF FileOr
    <2>5. user' \in [Clients -> FileOr(Users)] BY <1>3, <2>1 DEF FileOr
    <2>6. QED BY <2>2, <2>3, <2>4, <2>5
  <1>6. TypeOK'
    <2>1. Underway' BY <1>3 DEF Kinds, TypeOK, Underway, recvVars, sendVars
    <2>2. QED BY <1>3, <1>5, <2>1 DEF Kinds, TypeOK, Underway, recvVars, sendVars
  <1>7. \A d \in Clients : open'[Client(d)] => open'[Server(d)]
    BY <1>1, <1>2, <1>3, EndFacts DEF Kinds, TypeOK
  <1>8. Others'
    BY ZenonT(40), <1>3, <1>5, <1>7 DEF Kinds, Others, Closed, Owned, recvVars, sendVars
  <1>9. QED BY <1>6, <1>8 DEF Kinds, Others

\* Closing one end.
LEMMA KindsReset ==
    ASSUME Kinds, NEW x \in Ends, Reset({x}),
           pollOut' = [pollOut EXCEPT ![x] = FALSE], unsent' = [unsent EXCEPT ![x] = None],
           wire' = [wire EXCEPT ![x] = <<>>], UNCHANGED <<fileVars, history>>,
           x[1] = "client" \/ ~open[Peer(x)]
    PROVE  Kinds'
  <1>1. /\ sendQueue'  = [e \in Ends |-> IF e = x THEN <<>> ELSE sendQueue[e]]
        /\ isSending'  = [e \in Ends |-> IF e = x THEN "STARTING" ELSE isSending[e]]
        /\ fileToSend' = [e \in Ends |-> IF e = x THEN None ELSE fileToSend[e]]
        /\ isRecving'  = [e \in Ends |-> IF e = x THEN "NONE" ELSE isRecving[e]]
        /\ fileToRecv' = [e \in Ends |-> IF e = x THEN None ELSE fileToRecv[e]]
        /\ recvFilename' = [e \in Ends |-> IF e = x THEN None ELSE recvFilename[e]]
        /\ open' = [e \in Ends |-> open[e] /\ e # x]
    BY DEF Reset
  <1>2. <<>> \in Seq(Packet) /\ <<>> \in Seq([filename : Names, owner : FileOr(Users)])
    BY EmptySeq
  <1>3. TypeOK'
    <2>1. Underway' BY <1>1 DEF Kinds, TypeOK, Underway
    <2>2. /\ wire' \in [Ends -> Seq(Packet)] /\ unsent' \in [Ends -> FileOr(Packet)]
          /\ pollOut' \in [Ends -> BOOLEAN] /\ open' \in [Ends -> BOOLEAN]
          /\ sendQueue' \in [Ends -> Seq([filename : Names, owner : FileOr(Users)])]
      BY <1>1, <1>2 DEF Kinds, TypeOK, FileOr
    <2>3. /\ isSending' \in [Ends -> {"STARTING", "SENDING", "CHECKING"}]
          /\ isRecving' \in [Ends -> {"NONE", "RECEIVING", "OK"}]
          /\ fileToSend' \in [Ends -> FileOr(Seq(Part))]
          /\ fileToRecv' \in [Ends -> FileOr(Seq(Part))]
          /\ recvFilename' \in [Ends -> FileOr(Names)]
      BY <1>1 DEF Kinds, TypeOK, FileOr
    <2>4. QED BY <2>1, <2>2, <2>3 DEF Kinds, TypeOK, Underway, fileVars, history
  <1>4. Others'
    <2>1. ASSUME NEW e \in Ends, ~open'[e] PROVE Closed(e)'
      <3>1. CASE e = x BY <1>1, <3>1 DEF Kinds, TypeOK, Closed
      <3>2. CASE e # x
        <4>1. ~open[e] BY <1>1, <2>1, <3>2
        <4>2. Closed(e) BY <4>1 DEF Kinds
        <4>3. QED BY <1>1, <3>2, <4>2 DEF Kinds, TypeOK, Closed
      <3>3. QED BY <3>1, <3>2
    <2>2. \A d \in Clients : open'[Client(d)] => open'[Server(d)]
      <3>1. SUFFICES ASSUME NEW d \in Clients, open'[Client(d)] PROVE open'[Server(d)] OBVIOUS
      <3>2. Client(d) # x /\ open[Client(d)] /\ open[Server(d)]
        BY <1>1, <3>1, EndFacts DEF Kinds, TypeOK
      <3>3. Server(d) # x
        <4>1. Server(d)[1] # "client" /\ Peer(Server(d)) = Client(d) BY EndFacts
        <4>2. QED BY <3>2, <4>1
      <3>4. QED BY <1>1, <3>2, <3>3, EndFacts
    <2>3. \A d \in Clients : Owned(d)'
      <3>1. SUFFICES ASSUME NEW d \in Clients PROVE Owned(d)' OBVIOUS
      <3>2. CASE Server(d) = x
        <4>1. sendQueue'[x] = <<>> BY <1>1
        <4>2. Len(sendQueue'[x]) = 0 BY <4>1
        <4>3. QED BY <3>2, <4>2 DEF Owned
      <3>3. CASE Server(d) # x
        <4>1. sendQueue'[Server(d)] = sendQueue[Server(d)] BY <1>1, <3>3, EndFacts
        <4>2. QED BY <4>1 DEF Kinds, Owned
      <3>4. QED BY <3>2, <3>3
    <2>4. \A e \in Ends : fileToRecv'[e] # None => recvFilename'[e] # None
      BY <1>1 DEF Kinds
    <2>5. QED BY <2>1, <2>2, <2>3, <2>4 DEF Kinds, Others, fileVars, history
  <1>5. QED BY <1>3, <1>4 DEF Kinds, Others

LEMMA KindsLeave ==
    ASSUME Kinds, NEW c \in Clients, Leave(c)
    PROVE  Kinds'
  <1>1. Client(c) \in Ends /\ Client(c)[1] = "client" BY EndFacts
  <1>2. QED BY <1>1, KindsReset DEF Leave

LEMMA KindsDestroy ==
    ASSUME Kinds, NEW c \in Clients, destroyClient(c)
    PROVE  Kinds'
  <1>1. Server(c) \in Ends /\ Peer(Server(c)) = Client(c) BY EndFacts
  <1>2. ~open[Peer(Server(c))] BY <1>1 DEF destroyClient
  <1>3. QED BY <1>1, <1>2, KindsReset DEF destroyClient

LEMMA KindsPut ==
    ASSUME Kinds, NEW c \in Clients, NEW n \in Names, Put(c, n)
    PROVE  /\ Kinds'
           /\ \A f \in Ends : sendQueue[f] # <<>> => Head(sendQueue'[f]) = Head(sendQueue[f])
  <1>1. PICK e, x, z : /\ e = Client(c) /\ x = QueueItem(n, None)
                       /\ z = [user |-> UserOf[c], name |-> n]
    OBVIOUS
  <1>2. /\ e \in Ends /\ x \in [filename : Names, owner : FileOr(Users)]
        /\ z \in [user : Users, name : Names] /\ \A d \in Clients : Server(d) # e
    BY <1>1, EndFacts, NoneFacts DEF QueueItem, FileOr
  <1>3. /\ open[e] /\ puts < MaxPuts /\ puts' = puts + 1
        /\ \/ /\ origin' = Append(origin, z)
              /\ disk' = [disk EXCEPT ![c][n] = Content(Len(origin'))]
           \/ UNCHANGED <<origin, disk>>
        /\ sendQueue' = [sendQueue EXCEPT ![e] = Append(@, x)]
        /\ pollOut' = [pollOut EXCEPT ![e] = TRUE]
        /\ UNCHANGED <<open, isSending, fileToSend, recvVars, unsent, wire, user, known, saved,
                       uploader, joins>>
    BY <1>1 DEF Put
  <1>4. origin \in Seq([user : Users, name : Names]) /\ puts \in Nat /\ Len(origin) <= puts
    BY DEF Kinds
  <1>5. /\ Append(origin, z) \in Seq([user : Users, name : Names])
        /\ Len(origin) \in Nat /\ Len(Append(origin, z)) = Len(origin) + 1
    BY <1>2, <1>4, AppendProperties, LenProperties
  <1>6. /\ origin' \in Seq([user : Users, name : Names]) /\ puts' \in Nat /\ puts' <= MaxPuts
        /\ Len(origin') <= puts' /\ Len(origin') \in Nat
    <2>1. /\ puts' = puts + 1 /\ puts < MaxPuts /\ MaxPuts \in Nat
          /\ \/ Len(origin') = Len(origin) + 1 /\ origin' = Append(origin, z)
             \/ Len(origin') = Len(origin) /\ origin' = origin
      BY <1>3, <1>5, NoneFacts
    <2>2. origin' \in Seq([user : Users, name : Names]) BY <1>4, <1>5, <2>1
    <2>3. PICK a, b, p, q : a = Len(origin) /\ b = Len(origin') /\ p = puts /\ q = puts' OBVIOUS
    <2>4. /\ a \in Nat /\ p \in Nat /\ a <= p /\ q = p + 1 /\ p < MaxPuts /\ MaxPuts \in Nat
          /\ b = a + 1 \/ b = a
      BY <1>4, <1>5, <2>1, <2>3
    <2>5. q \in Nat /\ q <= MaxPuts /\ b <= q /\ b \in Nat BY <2>4
    <2>6. QED BY <2>2, <2>3, <2>5
  <1>7. disk' \in [Clients -> [Names -> FileOr(Seq(Part))]]
    <2>1. CASE /\ origin' = Append(origin, z)
               /\ disk' = [disk EXCEPT ![c][n] = Content(Len(origin'))]
      <3>1. PICK v : v = Len(origin') OBVIOUS
      <3>2. v \in Versions BY <1>3, <1>4, <1>5, <1>6, <2>1, <3>1, NoneFacts DEF Versions
      <3>3. Content(v) \in Seq(Part)
        <4>1. Chunks[v] \in Nat /\ \A k \in 1 .. Chunks[v] : <<v, k>> \in Part
          BY <3>2, NoneFacts DEF Part
        <4>2. Content(v) \in [1 .. Chunks[v] -> Part] BY <4>1 DEF Content
        <4>3. QED BY <4>1, <4>2, SeqDef
      <3>4. QED BY <2>1, <3>1, <3>3 DEF Kinds, TypeOK, FileOr
    <2>2. QED BY <1>3, <2>1 DEF Kinds, TypeOK
  <1>8. /\ sendQueue' \in [Ends -> Seq([filename : Names, owner : FileOr(Users)])]
        /\ \A f \in Ends : f # e => sendQueue'[f] = sendQueue[f]
        /\ \A f \in Ends : sendQueue[f] # <<>> =>
               sendQueue'[f] # <<>> /\ Head(sendQueue'[f]) = Head(sendQueue[f])
    <2>1. /\ Append(sendQueue[e], x) \in Seq([filename : Names, owner : FileOr(Users)])
          /\ Append(sendQueue[e], x) # <<>>
          /\ sendQueue[e] # <<>> => Head(Append(sendQueue[e], x)) = Head(sendQueue[e])
      <3>1. sendQueue[e] \in Seq([filename : Names, owner : FileOr(Users)])
        BY <1>2 DEF Kinds, TypeOK
      <3>2. PICK Q, q : Q = [filename : Names, owner : FileOr(Users)] /\ q = sendQueue[e]
        OBVIOUS
      <3>3. q \in Seq(Q) /\ x \in Q BY <1>2, <3>1, <3>2
      <3>4. Append(q, x) \in Seq(Q) /\ Append(q, x) # <<>> BY <3>3, AppendProperties
      <3>5. q # <<>> => Head(Append(q, x)) = Head(q) BY <3>3, HeadOfAppend
      <3>6. QED BY <3>2, <3>4, <3>5
    <2>2. QED BY <1>2, <1>3, <2>1 DEF Kinds, TypeOK
  <1>9. TypeOK'
    <2>1. Underway' BY <1>3, <1>8 DEF Kinds, TypeOK, Underway, recvVars
    <2>2. pollOut' \in [Ends -> BOOLEAN] BY <1>3 DEF Kinds, TypeOK
    <2>3. QED BY <1>3, <1>7, <1>8, <2>1, <2>2 DEF Kinds, TypeOK, Underway, recvVars
  <1>10. \A d \in Clients : Owned(d)'
    <2>1. SUFFICES ASSUME NEW d \in Clients PROVE Owned(d)' OBVIOUS
    <2>2. sendQueue'[Server(d)] = sendQueue[Server(d)] BY <1>2, <1>8, EndFacts
    <2>3. Owned(d) BY DEF Kinds
    <2>4. QED BY <2>2, <2>3 DEF Owned
  <1>11. Others'
    BY <1>3, <1>6, <1>8, <1>10 DEF Kinds, Others, Closed, recvVars
  <1>12. QED BY <1>8, <1>9, <1>11 DEF Kinds, Others

-----------------------------------------------------------------------------
(* Every step keeps what is known of the user.                             *)

LEMMA NamedSame ==
    ASSUME NEW c \in Clients, Named(c), user'[c] = user[c],
           Chan(Server(c))' = Chan(Server(c)), open'[Client(c)] => open[Client(c)],
           user[c] = None => fileToRecv'[Server(c)] = None
    PROVE  Named(c)'
  BY DEF Named

LEMMA NamedPop ==
    ASSUME Kinds, NEW c \in Clients, Named(c), NEW ch, ch = Chan(Server(c)), ch # <<>>,
           Chan(Server(c))' = Tail(ch),
           user'[c] = UserOf[c]
    PROVE  Named(c)'
  <1>1. ch \in Seq(Packet) BY Channels, EndFacts
  <1>2. \A i \in 1 .. Len(Tail(ch)) : i + 1 \in 1 .. Len(ch) /\ Tail(ch)[i] = ch[i + 1]
    BY <1>1, AtFront
  <1>3. \A i \in 1 .. Len(ch) : ch[i].type = "NAME" => ch[i].arg = UserOf[c] BY DEF Named
  <1>4. \A i \in 1 .. Len(Tail(ch)) : Tail(ch)[i].type = "NAME" => Tail(ch)[i].arg = UserOf[c]
    BY <1>2, <1>3
  <1>5. user'[c] # None BY NoneFacts
  <1>6. QED BY <1>4, <1>5 DEF Named

\* A connection that receives something else than NAME has a user.
LEMMA NamedBefore ==
    ASSUME Kinds, NEW c \in Clients, Named(c), wire[Server(c)] # <<>>
    PROVE  /\ Head(wire[Server(c)]).type # "NAME" => user[c] = UserOf[c]
           /\ Head(wire[Server(c)]).type = "NAME" => Arg(Server(c)) = UserOf[c]
           /\ Chan(Server(c)) # <<>> /\ Head(Chan(Server(c))) = Head(wire[Server(c)])
  <1>1. PICK x, w, ch : x = Server(c) /\ w = wire[x] /\ ch = Chan(x) OBVIOUS
  <1>2. /\ x \in Ends /\ w \in Seq(Packet) /\ ch \in Seq(Packet) /\ w # <<>>
        /\ \A f \in Ends : unsent[f] # None => unsent[f] \in Packet
        /\ Peer(x) \in Ends
    BY <1>1, Channels, EndFacts DEF Kinds, TypeOK, FileOr
  <1>3. ch # <<>> /\ Head(ch) = Head(w)
    <2>1. CASE unsent[Peer(x)] = None BY <1>1, <1>2, <2>1 DEF Chan
    <2>2. CASE unsent[Peer(x)] # None
      <3>1. unsent[Peer(x)] \in Packet BY <1>2, <2>2
      <3>2. ch = Append(w, unsent[Peer(x)]) BY <1>1, <2>2 DEF Chan
      <3>3. QED BY <1>2, <3>1, <3>2, TailOfAppend
    <2>3. QED BY <2>1, <2>2
  <1>4. ch[1] = Head(ch) /\ 1 \in 1 .. Len(ch) BY <1>2, <1>3, AtFront
  <1>5. user[c] = None => ch[1].type = "NAME" BY <1>1, <1>3 DEF Named
  <1>6. ch[1].type = "NAME" => ch[1].arg = UserOf[c] BY <1>1, <1>4 DEF Named
  <1>7. user[c] \in {None, UserOf[c]} BY DEF Named
  <1>8. QED BY <1>1, <1>3, <1>4, <1>5, <1>6, <1>7 DEF Arg

LEMMA NamedPush ==
    ASSUME Kinds, NEW c \in Clients, Named(c), NEW ch, ch = Chan(Server(c)),
           NEW p \in Packet, p.type # "NAME", open[Client(c)],
           Chan(Server(c))' = Append(ch, p), user' = user,
           fileToRecv' = fileToRecv
    PROVE  Named(c)'
  <1>1. ch \in Seq(Packet) BY Channels, EndFacts
  <1>2. PICK s : s = Append(ch, p) OBVIOUS
  <1>3. /\ Len(ch) \in Nat /\ s # <<>> /\ s[Len(ch) + 1] = p
        /\ \A i \in 1 .. Len(ch) : s[i] = ch[i]
        /\ \A i \in 1 .. Len(s) : i = Len(ch) + 1 \/ i \in 1 .. Len(ch)
    BY <1>1, <1>2, Behind
  <1>4. \A i \in 1 .. Len(s) : s[i].type = "NAME" => s[i].arg = UserOf[c]
    BY <1>3 DEF Named
  <1>5. user[c] = None => s[1].type = "NAME"
    <2>1. SUFFICES ASSUME user[c] = None PROVE s[1].type = "NAME" OBVIOUS
    <2>2. ch # <<>> /\ ch[1].type = "NAME" BY <2>1 DEF Named
    <2>3. 1 \in 1 .. Len(ch) BY <1>1, <2>2, AtFront
    <2>4. QED BY <1>3, <2>2, <2>3
  <1>6. QED BY <1>2, <1>3, <1>4, <1>5 DEF Named

LEMMA NamedDrop ==
    ASSUME NEW c \in Clients, Named(c), NEW s \in Seq(Packet), NEW p \in Packet,
           Chan(Server(c)) = Append(s, p),
           Chan(Server(c))' = s, ~open'[Client(c)], user' = user,
           fileToRecv'[Server(c)] = fileToRecv[Server(c)]
    PROVE  Named(c)'
  <1>1. PICK t : t = Append(s, p) OBVIOUS
  <1>2. t # <<>> /\ \A i \in 1 .. Len(s) : i \in 1 .. Len(t) /\ t[i] = s[i] BY <1>1, Behind
  <1>3. \A i \in 1 .. Len(s) : s[i].type = "NAME" => s[i].arg = UserOf[c]
    BY <1>1, <1>2 DEF Named
  <1>4. user[c] = None => s = <<>> \/ s[1].type = "NAME"
    <2>1. SUFFICES ASSUME user[c] = None, s # <<>> PROVE s[1].type = "NAME" OBVIOUS
    <2>2. t[1].type = "NAME" BY <1>1, <1>2, <2>1 DEF Named
    <2>3. 1 \in 1 .. Len(s) BY <2>1, AtFront
    <2>4. QED BY <1>2, <2>2, <2>3
  <1>5. QED BY <1>1, <1>3, <1>4 DEF Named

LEMMA NamedJoin ==
    ASSUME Kinds, NEW c \in Clients, Join(c)
    PROVE  Named(c)'
  <1>1. PICK s, e, p : s = Server(c) /\ e = Client(c) /\ p = Message("NAME", UserOf[c]) OBVIOUS
  <1>2. /\ s \in Ends /\ e \in Ends /\ s # e /\ Peer(s) = e /\ Peer(e) = s
        /\ p \in Packet /\ p # None /\ p.type = "NAME" /\ p.arg = UserOf[c]
    BY <1>1, EndFacts, NoneFacts, PacketFacts
  <1>3. /\ ~open[e] /\ ~open[s] /\ user' = [user EXCEPT ![c] = None] /\ fileToRecv' = fileToRecv
        /\ \/ wire' = [wire EXCEPT ![s] = << p >>] /\ UNCHANGED unsent
           \/ unsent' = [unsent EXCEPT ![e] = p] /\ UNCHANGED wire
    BY <1>1 DEF Join, recvVars
  <1>4. wire[s] = <<>> /\ unsent[e] = None /\ fileToRecv[s] = None
    BY <1>2, <1>3 DEF Kinds, Closed
  <1>5. wire \in [Ends -> Seq(Packet)] /\ unsent \in [Ends -> FileOr(Packet)]
        /\ user \in [Clients -> FileOr(Users)]
    BY DEF Kinds, TypeOK
  <1>6. Chan(s)' = << p >>
    <2>1. CASE wire' = [wire EXCEPT ![s] = << p >>] /\ UNCHANGED unsent
      BY <1>2, <1>4, <1>5, <2>1 DEF Chan
    <2>2. CASE unsent' = [unsent EXCEPT ![e] = p] /\ UNCHANGED wire
      <3>1. unsent'[e] = p /\ wire'[s] = <<>> BY <1>2, <1>4, <1>5, <2>2
      <3>2. Append(<<>>, p) = << p >> OBVIOUS
      <3>3. QED BY <1>2, <3>1, <3>2 DEF Chan
    <2>3. QED BY <1>3, <2>1, <2>2
  <1>7. user'[c] = None BY <1>3, <1>5
  <1>8. /\ << p >> # <<>> /\ << p >>[1] = p /\ Len(<< p >>) = 1
        /\ \A i \in 1 .. 1 : i = 1
    OBVIOUS
  <1>9. QED BY <1>1, <1>2, <1>3, <1>4, <1>6, <1>7, <1>8 DEF Named

-----------------------------------------------------------------------------
(* A direction that a step leaves alone, or only takes other packets from  *)
(* or gives other packets.                                                 *)

LEMMA SameChans ==
    ASSUME Kinds, NEW e \in Ends, Chan(e)' = Chan(e), NEW T
    PROVE  Same(Chan(e), Chan(e)', T, 0)
  <1>1. Chan(e) \in Seq(Packet) BY Channels
  <1>2. PICK ch : ch = Chan(e) OBVIOUS
  <1>3. Same(ch, ch, T, 0) BY <1>1, <1>2, SameSelf
  <1>4. QED BY <1>2, <1>3

LEMMA Carried ==
    ASSUME NEW e, NEW F, NEW v, NEW lo, NEW hi, Content(v) = F, Moves(e, v, lo, hi)'
    PROVE  Carries(e, F)'
  BY DEF Carries, Content

LEMMA Keep ==
    ASSUME NEW e \in Ends, NEW F, Carries(e, F),
           fileToRecv'[e] = fileToRecv[e], recvFilename'[e] = recvFilename[e],
           NEW d, Same(Chan(e), Chan(e)', FileTypes, d),
           \A v \in 1 .. Len(origin) : v \in 1 .. Len(origin') /\ origin'[v] = origin[v],
           open'[Peer(e)] =>
               /\ open[Peer(e)] /\ isRecving'[e] = isRecving[e]
               /\ isSending'[Peer(e)] = isSending[Peer(e)]
               /\ fileToSend'[Peer(e)] = fileToSend[Peer(e)]
               /\ isSending[Peer(e)] # "STARTING" =>
                      Head(sendQueue'[Peer(e)]) = Head(sendQueue[Peer(e)])
               /\ \E k : Same(Chan(Peer(e)), Chan(Peer(e))', OkType, k)
    PROVE  Carries(e, F)'
  <1>1. PICK f, s, t : f = Peer(e) /\ s = Chan(e) /\ t = Chan(e)' OBVIOUS
  <1>2. \A U : U \subseteq FileTypes => (Without(s, U) <=> Without(t, U))
    BY <1>1, WithoutSame
  <1>3. {"PUT"} \subseteq FileTypes /\ {"CHECK"} \subseteq FileTypes /\ FileTypes \subseteq FileTypes
    BY DEF FileTypes
  <1>4. ASSUME open'[f]
        PROVE  /\ Without(Chan(f), OkType) => Without(Chan(f)', OkType)
               /\ OneOk(Chan(f)) => OneOk(Chan(f)')
    <2>1. PICK p, q, k : p = Chan(f) /\ q = Chan(f)' /\ Same(p, q, OkType, k) BY <1>1, <1>4
    <2>2. Without(p, OkType) => Without(q, OkType) BY <2>1, WithoutSame
    <2>3. OneOk(p) => OneOk(q) BY <2>1, OneOkSame
    <2>4. QED BY <2>1, <2>2, <2>3
  <1>5. open'[f] => (Unanswered(e) => Unanswered(e)')
    BY <1>1, <1>4 DEF Unanswered
  <1>6. CASE Rests(e)
    <2>1. open'[f] => (Answers(e) => Answers(e)')
      <3>1. SUFFICES ASSUME open'[f], Answers(e) PROVE Answers(e)' OBVIOUS
      <3>2. isSending[f] = "CHECKING" /\ Head(sendQueue[f]).filename = recvFilename[e]
        BY <1>1, <3>1 DEF Answers
      <3>3. isSending'[f] = "CHECKING" /\ Head(sendQueue'[f]).filename = recvFilename'[e]
        BY <1>1, <3>1, <3>2
      <3>4. \/ isRecving'[e] = "OK" /\ Without(Chan(f)', OkType)
            \/ isRecving'[e] # "OK" /\ OneOk(Chan(f)')
        BY <1>1, <1>4, <3>1 DEF Answers
      <3>5. QED BY <1>1, <3>3, <3>4 DEF Answers
    <2>2. Without(t, FileTypes) BY <1>1, <1>2, <1>3, <1>6 DEF Rests
    <2>3. QED BY <1>1, <1>5, <1>6, <2>1, <2>2 DEF Rests, Carries
  <1>7. CASE \E v, lo, hi : Content(v) = F /\ Moves(e, v, lo, hi)
    <2>1. PICK v, lo, hi : Content(v) = F /\ Moves(e, v, lo, hi) BY <1>7
    <2>2. PICK n : n = origin[v].name OBVIOUS
    <2>3. v \in 1 .. Len(origin') /\ origin'[v] = origin[v] BY <2>1 DEF Moves
    <2>4. Stream(s, v, n, lo, hi) BY <1>1, <2>1, <2>2 DEF Moves
    <2>5. Stream(t, v, n, lo, hi) BY <1>1, <2>4, StreamSame
    <2>6. Stores(e, v, n, lo)' BY <1>1, <1>2, <1>3, <2>1, <2>2 DEF Moves, Stores
    <2>7. open'[f] => Feeds(f, Chan(e), v, n, hi)'
      <3>1. SUFFICES ASSUME open'[f] PROVE Feeds(f, Chan(e), v, n, hi)' OBVIOUS
      <3>2. Feeds(f, s, v, n, hi) BY <1>1, <2>1, <2>2, <3>1 DEF Moves
      <3>3. Head(sendQueue'[f]) = Head(sendQueue[f]) /\ isSending'[f] = isSending[f]
            /\ fileToSend'[f] = fileToSend[f]
        BY <1>1, <3>1, <3>2 DEF Feeds
      <3>4. QED BY <1>1, <1>2, <1>3, <3>2, <3>3 DEF Feeds
    <2>8. open'[f] => Unanswered(e)' BY <1>1, <1>5, <2>1 DEF Moves
    <2>9. Moves(e, v, lo, hi)'
      BY <1>1, <2>1, <2>2, <2>3, <2>5, <2>6, <2>7, <2>8 DEF Moves
    <2>10. QED BY <2>1, <2>9, Carried
  <1>8. QED BY <1>6, <1>7 DEF Carries

\* Taking a packet that is not of a file, or not an answer.
LEMMA SameTaken ==
    ASSUME Kinds, NEW x \in Ends, wire[x] # <<>>, wire' = Consumed(x), unsent' = unsent,
           NEW T, Head(wire[x]).type \notin T
    PROVE  Same(Chan(x), Chan(x)', T, 1)
  <1>1. Chan(x) # <<>> /\ Head(Chan(x)) = Head(wire[x]) /\ Chan(x)' = Tail(Chan(x)) BY ChanPop
  <1>2. Chan(x) \in Seq(Packet) BY Channels
  <1>3. PICK s : s = Chan(x) OBVIOUS
  <1>4. Same(s, Tail(s), T, 1) BY <1>1, <1>2, <1>3, SameTail
  <1>5. QED BY <1>1, <1>3, <1>4

LEMMA SameSent ==
    ASSUME Kinds, NEW x \in Ends, NEW p \in Packet, unsent[x] = None, sendToClient(x, p),
           open[Peer(x)], NEW T, p.type \notin T
    PROVE  Same(Chan(Peer(x)), Chan(Peer(x))', T, 0)
  <1>1. PICK s : s = Chan(Peer(x)) OBVIOUS
  <1>2. Chan(Peer(x))' = Append(s, p) BY <1>1, ChanPush
  <1>3. s \in Seq(Packet) BY <1>1, EndFacts, Channels
  <1>4. Same(s, Append(s, p), T, 0) BY <1>3, SameAppend
  <1>5. QED BY <1>1, <1>2, <1>4

\* A step that leaves alone what Carries(e, F) says of both ends.
Untouched(e) ==
    /\ open' = open /\ origin' = origin
    /\ fileToRecv'[e] = fileToRecv[e] /\ recvFilename'[e] = recvFilename[e]
    /\ isRecving'[e] = isRecving[e]
    /\ isSending'[Peer(e)] = isSending[Peer(e)] /\ fileToSend'[Peer(e)] = fileToSend[Peer(e)]
    /\ isSending[Peer(e)] # "STARTING" => Head(sendQueue'[Peer(e)]) = Head(sendQueue[Peer(e)])

LEMMA UntouchedKeeps ==
    ASSUME Kinds, NEW e \in Ends, NEW F, Carries(e, F), Untouched(e),
           NEW d, Same(Chan(e), Chan(e)', FileTypes, d),
           NEW k, open[Peer(e)] => Same(Chan(Peer(e)), Chan(Peer(e))', OkType, k)
    PROVE  Carries(e, F)'
  <1>1. /\ fileToRecv'[e] = fileToRecv[e] /\ recvFilename'[e] = recvFilename[e]
        /\ \A v \in 1 .. Len(origin) : v \in 1 .. Len(origin') /\ origin'[v] = origin[v]
    BY DEF Untouched
  <1>2. open'[Peer(e)] =>
            /\ open[Peer(e)] /\ isRecving'[e] = isRecving[e]
            /\ isSending'[Peer(e)] = isSending[Peer(e)]
            /\ fileToSend'[Peer(e)] = fileToSend[Peer(e)]
            /\ isSending[Peer(e)] # "STARTING" =>
                   Head(sendQueue'[Peer(e)]) = Head(sendQueue[Peer(e)])
            /\ \E i : Same(Chan(Peer(e)), Chan(Peer(e))', OkType, i)
    BY DEF Untouched
  <1>3. QED BY <1>1, <1>2, Keep

LEMMA StillKeeps ==
    ASSUME Kinds, NEW e \in Ends, NEW F, Carries(e, F), Untouched(e), Chan(e)' = Chan(e),
           open[Peer(e)] => Chan(Peer(e))' = Chan(Peer(e))
    PROVE  Carries(e, F)'
  <1>1. Same(Chan(e), Chan(e)', FileTypes, 0) BY SameChans
  <1>2. Peer(e) \in Ends BY EndFacts
  <1>3. open[Peer(e)] => Same(Chan(Peer(e)), Chan(Peer(e))', OkType, 0) BY <1>2, SameChans
  <1>4. QED BY <1>1, <1>3, UntouchedKeeps

LEMMA PopKeeps ==
    ASSUME Kinds, NEW x \in Ends, wire[x] # <<>>, wire' = Consumed(x), unsent' = unsent,
           NEW e \in Ends, NEW F, Carries(e, F), Untouched(e),
           e = x => Head(wire[x]).type \notin FileTypes,
           e = Peer(x) => Head(wire[x]).type \notin OkType
    PROVE  Carries(e, F)'
  <1>1. PICK f : f = Peer(e) OBVIOUS
  <1>2. f \in Ends /\ Peer(f) = e /\ (f = x <=> e = Peer(x)) /\ (f = x => e # x)
    BY <1>1, EndFacts
  <1>3. \A g \in Ends : g # x => Chan(g)' = Chan(g) BY ChanPop
  <1>4. \E d : Same(Chan(e), Chan(e)', FileTypes, d)
    <2>1. CASE e = x BY <2>1, SameTaken
    <2>2. CASE e # x
      <3>1. Chan(e)' = Chan(e) BY <1>3, <2>2
      <3>2. QED BY <3>1, SameChans
    <2>3. QED BY <2>1, <2>2
  <1>5. \E k : Same(Chan(f), Chan(f)', OkType, k)
    <2>1. CASE f = x
      <3>1. Head(wire[x]).type \notin OkType BY <1>2, <2>1
      <3>2. Same(Chan(x), Chan(x)', OkType, 1) BY <3>1, SameTaken
      <3>3. QED BY <2>1, <3>2
    <2>2. CASE f # x
      <3>1. Chan(f)' = Chan(f) BY <1>2, <1>3, <2>2
      <3>2. Same(Chan(f), Chan(f)', OkType, 0) BY <1>2, <3>1, SameChans
      <3>3. QED BY <3>2
    <2>3. QED BY <2>1, <2>2
  <1>6. PICK d, k : Same(Chan(e), Chan(e)', FileTypes, d) /\ Same(Chan(f), Chan(f)', OkType, k)
    BY <1>4, <1>5
  <1>7. Same(Chan(Peer(e)), Chan(Peer(e))', OkType, k) BY <1>1, <1>6
  <1>8. QED BY <1>6, <1>7, UntouchedKeeps

LEMMA PushKeeps ==
    ASSUME Kinds, NEW x \in Ends, NEW p \in Packet, unsent[x] = None, sendToClient(x, p),
           NEW e \in Ends, open[e], NEW F, Carries(e, F), Untouched(e),
           e = Peer(x) => p.type \notin FileTypes,
           e = x => p.type \notin OkType
    PROVE  Carries(e, F)'
  <1>1. PICK f : f = Peer(e) OBVIOUS
  <1>2. f \in Ends /\ Peer(f) = e /\ (f = x <=> e = Peer(x)) /\ (e = x <=> f = Peer(x))
    BY <1>1, EndFacts
  <1>3. \A g \in Ends : g # Peer(x) => Chan(g)' = Chan(g) BY ChanPush
  <1>4. \E d : Same(Chan(e), Chan(e)', FileTypes, d)
    <2>1. CASE e = Peer(x)
      <3>1. p.type \notin FileTypes /\ open[Peer(x)] BY <2>1
      <3>2. Same(Chan(Peer(x)), Chan(Peer(x))', FileTypes, 0) BY <3>1, SameSent
      <3>3. QED BY <2>1, <3>2
    <2>2. CASE e # Peer(x)
      <3>1. Chan(e)' = Chan(e) BY <1>3, <2>2
      <3>2. QED BY <3>1, SameChans
    <2>3. QED BY <2>1, <2>2
  <1>5. open[f] => \E k : Same(Chan(f), Chan(f)', OkType, k)
    <2>1. SUFFICES ASSUME open[f] PROVE \E k : Same(Chan(f), Chan(f)', OkType, k) OBVIOUS
    <2>2. CASE f = Peer(x)
      <3>1. p.type \notin OkType /\ open[Peer(x)] BY <1>2, <2>1, <2>2
      <3>2. Same(Chan(Peer(x)), Chan(Peer(x))', OkType, 0) BY <3>1, SameSent
      <3>3. QED BY <2>2, <3>2
    <2>3. CASE f # Peer(x)
      <3>1. Chan(f)' = Chan(f) BY <1>2, <1>3, <2>3
      <3>2. Same(Chan(f), Chan(f)', OkType, 0) BY <1>2, <3>1, SameChans
      <3>3. QED BY <3>2
    <2>4. QED BY <2>2, <2>3
  <1>6. PICK d, k : /\ Same(Chan(e), Chan(e)', FileTypes, d)
                    /\ open[f] => Same(Chan(f), Chan(f)', OkType, k)
    BY <1>4, <1>5
  <1>7. open[Peer(e)] => Same(Chan(Peer(e)), Chan(Peer(e))', OkType, k) BY <1>1, <1>6
  <1>8. QED BY <1>6, <1>7, UntouchedKeeps

-----------------------------------------------------------------------------
(* Every step keeps every direction: receiving.                            *)

LEMMA DirRecvName ==
    ASSUME Kinds, NEW c \in Clients, RecvName(c), Arg(Server(c)) = UserOf[c],
           NEW e \in Ends, NEW F, Carries(e, F)
    PROVE  Carries(e, F)'
  <1>1. PICK x : x = Server(c) OBVIOUS
  <1>2. /\ x \in Ends /\ wire[x] # <<>> /\ wire' = Consumed(x) /\ Head(wire[x]).type = "NAME"
        /\ UNCHANGED <<open, isSending, fileToSend, recvVars, unsent, known, saved, disk, history>>
    BY <1>1, EndFacts DEF RecvName, Receives
  <1>3. \A f \in Ends : sendQueue[f] # <<>> => Head(sendQueue'[f]) = Head(sendQueue[f])
    BY KindsRecvName
  <1>4. isSending[Peer(e)] # "STARTING" => Head(sendQueue'[Peer(e)]) = Head(sendQueue[Peer(e)])
    BY <1>3, EndFacts DEF Kinds, TypeOK
  <1>5. Untouched(e) BY <1>2, <1>4 DEF Untouched, recvVars, history
  <1>6. Head(wire[x]).type \notin FileTypes /\ Head(wire[x]).type \notin OkType
    BY <1>2 DEF FileTypes, OkType
  <1>7. QED BY <1>2, <1>5, <1>6, PopKeeps

LEMMA DirRecvPut ==
    ASSUME Kinds, NEW x \in Ends, RecvPut(x), NEW e \in Ends, open[e], NEW F, Carries(e, F)
    PROVE  Carries(e, F)'
  <1>1. /\ wire[x] # <<>> /\ wire' = Consumed(x) /\ Head(wire[x]).type = "PUT"
        /\ recvFilename' = [recvFilename EXCEPT ![x] = Arg(x)]
        /\ isRecving' = [isRecving EXCEPT ![x] = "RECEIVING"]
        /\ \/ fileToRecv' = [fileToRecv EXCEPT ![x] = <<>>]
           \/ fileToRecv' = [fileToRecv EXCEPT ![x] = None]
        /\ UNCHANGED <<open, sendVars, pollOut, unsent, user, saved, disk, history>>
    BY DEF RecvPut, Receives
  <1>2. /\ isRecving \in [Ends -> {"NONE", "RECEIVING", "OK"}]
        /\ fileToRecv \in [Ends -> FileOr(Seq(Part))]
        /\ recvFilename \in [Ends -> FileOr(Names)]
    BY DEF Kinds, TypeOK
  <1>3. CASE e # x
    <2>1. Untouched(e) BY <1>1, <1>2, <1>3 DEF Untouched, sendVars, history
    <2>2. Head(wire[x]).type \notin OkType BY <1>1 DEF OkType
    <2>3. QED BY <1>1, <1>3, <2>1, <2>2, PopKeeps
  <1>4. CASE e = x
    <2>1. PICK ch, f : ch = Chan(x) /\ f = Peer(x) OBVIOUS
    <2>2. /\ ch # <<>> /\ Head(ch) = Head(wire[x]) /\ Chan(x)' = Tail(ch)
          /\ ch \in Seq(Packet) /\ f \in Ends /\ f # x /\ Peer(x) = f
          /\ Chan(f)' = Chan(f)
      BY <1>1, <2>1, ChanPop, Channels, EndFacts
    <2>3. ~Without(ch, FileTypes)
      <3>1. Head(ch) = ch[1] /\ 1 \in 1 .. Len(ch) BY <2>2, AtFront
      <3>2. QED BY <1>1, <2>2, <3>1 DEF Without, FileTypes
    <2>4. PICK v, lo, hi : Content(v) = F /\ Moves(x, v, lo, hi) BY <1>4, <2>1, <2>3 DEF Carries, Rests
    <2>5. PICK n : n = origin[v].name OBVIOUS
    <2>6. /\ v \in 1 .. Len(origin) /\ origin[v].user = UserOf[x[2]]
          /\ lo \in Nat /\ hi \in Nat /\ lo <= hi /\ hi <= Chunks[v]
          /\ Stream(ch, v, n, lo, hi)
          /\ open[f] => Unanswered(x) /\ Feeds(f, ch, v, n, hi)
      BY <2>1, <2>4, <2>5 DEF Moves
    <2>7. /\ lo = 0 /\ Head(ch).arg = n /\ Stream(Tail(ch), v, n, lo, hi)
          /\ Without(Tail(ch), {"PUT"})
          /\ Without(Tail(ch), {"CHECK"}) <=> Without(ch, {"CHECK"})
      BY <1>1, <2>2, <2>6, PopPut
    <2>8. recvFilename'[x] = n /\ isRecving'[x] = "RECEIVING"
          /\ (fileToRecv'[x] = <<>> \/ fileToRecv'[x] = None)
      BY <1>1, <1>2, <2>2, <2>7 DEF Arg
    <2>9. Stores(x, v, n, lo)'
      <3>1. Beginning(<<>>, v, 0) BY DEF Beginning
      <3>2. QED BY <2>2, <2>7, <2>8, <3>1 DEF Stores
    <2>10. open'[f] => Unanswered(x)' /\ Feeds(f, Chan(x), v, n, hi)'
      <3>1. SUFFICES ASSUME open'[f] PROVE Unanswered(x)' /\ Feeds(f, Chan(x), v, n, hi)' OBVIOUS
      <3>2. Unanswered(x) /\ Feeds(f, ch, v, n, hi) BY <1>1, <2>6, <3>1
      <3>3. Unanswered(x)' BY <2>2, <2>8, <3>2 DEF Unanswered
      <3>4. isSending' = isSending /\ sendQueue' = sendQueue /\ fileToSend' = fileToSend
        BY <1>1 DEF sendVars
      <3>5. Feeds(f, Chan(x), v, n, hi)' BY <2>2, <2>7, <3>2, <3>4 DEF Feeds
      <3>6. QED BY <3>3, <3>5
    <2>11. origin' = origin BY <1>1 DEF history
    <2>12. Moves(x, v, lo, hi)'
      BY <2>2, <2>5, <2>6, <2>7, <2>9, <2>10, <2>11 DEF Moves
    <2>13. QED BY <1>4, <2>4, <2>12, Carried
  <1>5. QED BY <1>3, <1>4

LEMMA DirRecvData ==
    ASSUME Kinds, NEW x \in Ends, RecvData(x), NEW e \in Ends, open[e], NEW F, Carries(e, F)
    PROVE  Carries(e, F)'
  <1>1. /\ wire[x] # <<>> /\ wire' = Consumed(x) /\ Head(wire[x]).type = "DATA"
        /\ fileToRecv' = IF fileToRecv[x] = None THEN fileToRecv
                         ELSE [fileToRecv EXCEPT ![x] = Append(@, Arg(x))]
        /\ UNCHANGED <<open, sendVars, isRecving, recvFilename, pollOut, unsent, fileVars, history>>
    BY DEF RecvData, Receives
  <1>2. fileToRecv \in [Ends -> FileOr(Seq(Part))] BY DEF Kinds, TypeOK
  <1>3. CASE e # x
    <2>1. fileToRecv'[e] = fileToRecv[e] BY <1>1, <1>2, <1>3
    <2>2. Untouched(e) BY <1>1, <2>1 DEF Untouched, sendVars, history
    <2>3. Head(wire[x]).type \notin OkType BY <1>1 DEF OkType
    <2>4. QED BY <1>1, <1>3, <2>2, <2>3, PopKeeps
  <1>4. CASE e = x
    <2>1. PICK ch, f : ch = Chan(x) /\ f = Peer(x) OBVIOUS
    <2>2. /\ ch # <<>> /\ Head(ch) = Head(wire[x]) /\ Chan(x)' = Tail(ch)
          /\ ch \in Seq(Packet) /\ f \in Ends /\ f # x /\ Peer(x) = f
          /\ Chan(f)' = Chan(f)
      BY <1>1, <2>1, ChanPop, Channels, EndFacts
    <2>3. ~Without(ch, FileTypes)
      <3>1. Head(ch) = ch[1] /\ 1 \in 1 .. Len(ch) BY <2>2, AtFront
      <3>2. QED BY <1>1, <2>2, <3>1 DEF Without, FileTypes
    <2>4. PICK v, lo, hi : Content(v) = F /\ Moves(x, v, lo, hi) BY <1>4, <2>1, <2>3 DEF Carries, Rests
    <2>5. PICK n : n = origin[v].name OBVIOUS
    <2>6. /\ v \in 1 .. Len(origin) /\ origin[v].user = UserOf[x[2]]
          /\ lo \in Nat /\ hi \in Nat /\ lo <= hi /\ hi <= Chunks[v]
          /\ Stream(ch, v, n, lo, hi) /\ Stores(x, v, n, lo)
          /\ open[f] => Unanswered(x) /\ Feeds(f, ch, v, n, hi)
      BY <2>1, <2>4, <2>5 DEF Moves
    <2>7. /\ lo + 1 <= hi /\ Head(ch).arg = <<v, lo + 1>>
          /\ Stream(Tail(ch), v, n, lo + 1, hi)
          /\ Without(Tail(ch), {"PUT"}) /\ Without(ch, {"PUT"})
          /\ Without(Tail(ch), {"CHECK"}) <=> Without(ch, {"CHECK"})
      BY <1>1, <2>2, <2>6, PopData
    <2>8. recvFilename[x] = n /\ (fileToRecv[x] # None => Beginning(fileToRecv[x], v, lo))
      BY <2>1, <2>6, <2>7 DEF Stores
    <2>9. fileToRecv'[x] # None => Beginning(fileToRecv'[x], v, lo + 1)
      <3>1. SUFFICES ASSUME fileToRecv'[x] # None PROVE Beginning(fileToRecv'[x], v, lo + 1)
        OBVIOUS
      <3>2. PICK s, t : s = fileToRecv[x] /\ t = fileToRecv'[x] OBVIOUS
      <3>3. s # None BY <1>1, <3>1, <3>2
      <3>4. s \in Seq(Part) /\ Len(s) = lo /\ \A k \in 1 .. lo : s[k] = <<v, k>>
        BY <1>2, <2>8, <3>2, <3>3 DEF FileOr, Beginning
      <3>5. t = Append(s, <<v, lo + 1>>)
        BY <1>1, <1>2, <2>2, <2>7, <3>2, <3>3 DEF Arg
      <3>6. <<v, lo + 1>> \in Part BY ZenonT(40), <1>1, <2>2, <2>7, PopKinds DEF Arg
      <3>7. Len(t) = lo + 1 /\ t[lo + 1] = <<v, lo + 1>> /\ \A k \in 1 .. lo : t[k] = s[k]
        BY <3>4, <3>5, <3>6, AppendProperties
      <3>8. \A k \in 1 .. lo + 1 : k = lo + 1 \/ k \in 1 .. lo BY <2>6
      <3>9. QED BY <3>2, <3>4, <3>7, <3>8 DEF Beginning
    <2>10. Stores(x, v, n, lo + 1)'
      <3>1. recvFilename'[x] = n BY <1>1, <2>8
      <3>2. QED BY <2>2, <2>7, <2>9, <3>1 DEF Stores
    <2>11. open'[f] => Unanswered(x)' /\ Feeds(f, Chan(x), v, n, hi)'
      <3>1. SUFFICES ASSUME open'[f] PROVE Unanswered(x)' /\ Feeds(f, Chan(x), v, n, hi)' OBVIOUS
      <3>2. Unanswered(x) /\ Feeds(f, ch, v, n, hi) BY <1>1, <2>6, <3>1
      <3>3. Unanswered(x)' BY <1>1, <2>2, <3>2 DEF Unanswered
      <3>4. isSending' = isSending /\ sendQueue' = sendQueue /\ fileToSend' = fileToSend
        BY <1>1 DEF sendVars
      <3>5. Feeds(f, Chan(x), v, n, hi)' BY <2>2, <2>7, <3>2, <3>4 DEF Feeds
      <3>6. QED BY <3>3, <3>5
    <2>12. origin' = origin BY <1>1 DEF history
    <2>13. lo + 1 \in Nat BY <2>6
    <2>14. Moves(x, v, lo + 1, hi)'
      BY <2>2, <2>5, <2>6, <2>7, <2>10, <2>11, <2>12, <2>13 DEF Moves
    <2>15. QED BY <1>4, <2>4, <2>14, Carried
  <1>5. QED BY <1>3, <1>4

\* When CHECK comes, the whole file has come, and its sender waits for the answer.
LEMMA CheckComes ==
    ASSUME Kinds, NEW x \in Ends, wire[x] # <<>>, Head(wire[x]).type = "CHECK",
           wire' = Consumed(x), unsent' = unsent, NEW F, Carries(x, F)
    PROVE  /\ Without(Chan(x)', FileTypes)
           /\ open[Peer(x)] => /\ Unanswered(x) /\ isSending[Peer(x)] = "CHECKING"
                               /\ Head(sendQueue[Peer(x)]).filename = recvFilename[x]
           /\ fileToRecv[x] # None =>
                  /\ fileToRecv[x] = F
                  /\ \E v \in 1 .. Len(origin) :
                         /\ origin[v] = [user |-> UserOf[x[2]], name |-> recvFilename[x]]
                         /\ fileToRecv[x] = Content(v)
  <1>1. PICK ch, f : ch = Chan(x) /\ f = Peer(x) OBVIOUS
  <1>2. /\ ch # <<>> /\ Head(ch) = Head(wire[x]) /\ Chan(x)' = Tail(ch) /\ ch \in Seq(Packet)
    BY <1>1, ChanPop, Channels
  <1>3. ~Without(ch, FileTypes)
    <2>1. Head(ch) = ch[1] /\ 1 \in 1 .. Len(ch) BY <1>2, AtFront
    <2>2. QED BY <1>2, <2>1 DEF Without, FileTypes
  <1>4. PICK v, lo, hi : Content(v) = F /\ Moves(x, v, lo, hi) BY <1>1, <1>3 DEF Carries, Rests
  <1>5. PICK n : n = origin[v].name OBVIOUS
  <1>6. /\ v \in 1 .. Len(origin) /\ origin[v].user = UserOf[x[2]]
        /\ lo \in Nat /\ hi \in Nat /\ lo <= hi /\ hi <= Chunks[v]
        /\ Stream(ch, v, n, lo, hi) /\ Stores(x, v, n, lo)
        /\ open[f] => Unanswered(x) /\ Feeds(f, ch, v, n, hi)
    BY <1>1, <1>4, <1>5 DEF Moves
  <1>7. /\ lo = Chunks[v] /\ Without(ch, {"PUT"}) /\ ~Without(ch, {"CHECK"})
        /\ Without(Tail(ch), FileTypes)
    BY <1>2, <1>6, PopCheck
  <1>8. recvFilename[x] = n /\ (fileToRecv[x] # None => Beginning(fileToRecv[x], v, lo))
    BY <1>1, <1>6, <1>7 DEF Stores
  <1>9. open[f] => /\ Unanswered(x) /\ isSending[f] = "CHECKING"
                   /\ Head(sendQueue[f]).filename = n
    BY <1>6, <1>7 DEF Feeds
  <1>10. fileToRecv[x] # None => fileToRecv[x] = Content(v)
    <2>1. SUFFICES ASSUME fileToRecv[x] # None PROVE fileToRecv[x] = Content(v) OBVIOUS
    <2>2. PICK s, t, m : s = fileToRecv[x] /\ t = Content(v) /\ m = Chunks[v] OBVIOUS
    <2>3. s \in Seq(Part) BY <2>1, <2>2 DEF Kinds, TypeOK, FileOr
    <2>4. Len(s) = m /\ \A k \in 1 .. m : s[k] = <<v, k>>
      BY <1>7, <1>8, <2>1, <2>2 DEF Beginning
    <2>5. t = [k \in 1 .. m |-> <<v, k>>] BY <2>2 DEF Content
    <2>6. s \in [1 .. m -> Part] BY <2>3, <2>4, LenProperties
    <2>7. s = t BY <2>4, <2>5, <2>6
    <2>8. QED BY <2>2, <2>7
  <1>11. origin[v] = [user |-> UserOf[x[2]], name |-> n]
    <2>1. origin[v] \in [user : Users, name : Names] BY <1>6, ElementOfSeq DEF Kinds
    <2>2. QED BY <1>5, <1>6, <2>1
  <1>12. QED BY <1>1, <1>2, <1>4, <1>6, <1>7, <1>8, <1>9, <1>10, <1>11

LEMMA DirRecvCheck ==
    ASSUME Kinds, NEW x \in Ends, RecvCheck(x), x[1] = "server" => user[x[2]] = UserOf[x[2]],
           \A d \in Clients : open[Server(d)] => user[d] \in {None, UserOf[d]},
           NEW e \in Ends, open[e], NEW F, Carries(e, F)
    PROVE  Carries(e, F)'
  <1>1. /\ wire[x] # <<>> /\ wire' = Consumed(x) /\ Head(wire[x]).type = "CHECK"
        /\ isRecving' = [isRecving EXCEPT ![x] = "OK"]
        /\ fileToRecv' = [fileToRecv EXCEPT ![x] = None]
        /\ UNCHANGED <<open, isSending, fileToSend, recvFilename, unsent, user, known, origin,
                       joins, puts>>
    BY DEF RecvCheck, Receives
  <1>2. \A f \in Ends : sendQueue[f] # <<>> => Head(sendQueue'[f]) = Head(sendQueue[f])
    BY KindsRecvCheck
  <1>3. \A f \in Ends : isSending[f] # "STARTING" => Head(sendQueue'[f]) = Head(sendQueue[f])
    BY <1>2 DEF Kinds, TypeOK
  <1>4. /\ isRecving \in [Ends -> {"NONE", "RECEIVING", "OK"}]
        /\ fileToRecv \in [Ends -> FileOr(Seq(Part))] /\ Peer(e) \in Ends
    BY EndFacts DEF Kinds, TypeOK
  <1>5. CASE e # x
    <2>1. fileToRecv'[e] = fileToRecv[e] /\ isRecving'[e] = isRecving[e] BY <1>1, <1>4, <1>5
    <2>2. Untouched(e) BY <1>1, <1>3, <1>4, <2>1 DEF Untouched
    <2>3. Head(wire[x]).type \notin OkType BY <1>1 DEF OkType
    <2>4. QED BY <1>1, <1>5, <2>2, <2>3, PopKeeps
  <1>6. CASE e = x
    <2>1. /\ Without(Chan(x)', FileTypes)
          /\ open[Peer(x)] => /\ Unanswered(x) /\ isSending[Peer(x)] = "CHECKING"
                              /\ Head(sendQueue[Peer(x)]).filename = recvFilename[x]
      BY <1>1, <1>6, CheckComes
    <2>2. PICK f : f = Peer(x) OBVIOUS
    <2>3. f \in Ends /\ f # x BY <2>2, EndFacts
    <2>4. Chan(f)' = Chan(f) BY <1>1, <2>3, ChanPop
    <2>5. fileToRecv'[x] = None /\ isRecving'[x] = "OK" BY <1>1, <1>4
    <2>6. ASSUME open'[f] PROVE isSending'[f] # "SENDING" /\ Answers(x)'
      <3>1. /\ Unanswered(x) /\ isSending[f] = "CHECKING"
            /\ Head(sendQueue[f]).filename = recvFilename[x]
        BY <1>1, <2>1, <2>2, <2>6
      <3>2. Without(Chan(f), OkType) BY <2>2, <3>1 DEF Unanswered
      <3>3. Head(sendQueue'[f]) = Head(sendQueue[f]) BY <1>3, <2>3, <3>1
      <3>4. isSending'[f] = "CHECKING" /\ Head(sendQueue'[f]).filename = recvFilename'[x]
            /\ Without(Chan(f)', OkType)
        BY <1>1, <2>4, <3>1, <3>2, <3>3
      <3>5. QED BY <2>2, <2>5, <3>4 DEF Answers
    <2>7. Rests(x)' BY <2>1, <2>2, <2>5, <2>6 DEF Rests
    <2>8. QED BY <1>6, <2>7 DEF Carries
  <1>7. QED BY <1>5, <1>6

LEMMA DirRecvCheckIgnored ==
    ASSUME Kinds, NEW x \in Ends, RecvCheckIgnored(x), NEW e \in Ends, open[e], NEW F, Carries(e, F)
    PROVE  Carries(e, F)'
  <1>1. /\ wire[x] # <<>> /\ wire' = Consumed(x) /\ Head(wire[x]).type = "CHECK"
        /\ fileToRecv[x] = None
        /\ UNCHANGED <<open, sendVars, recvVars, pollOut, unsent, fileVars, history>>
    BY DEF RecvCheckIgnored, Receives
  <1>2. CASE e # x
    <2>1. Untouched(e) BY <1>1 DEF Untouched, sendVars, recvVars, history
    <2>2. Head(wire[x]).type \notin OkType BY <1>1 DEF OkType
    <2>3. QED BY <1>1, <1>2, <2>1, <2>2, PopKeeps
  <1>3. CASE e = x
    <2>1. /\ Without(Chan(x)', FileTypes)
          /\ open[Peer(x)] => Unanswered(x) /\ isSending[Peer(x)] = "CHECKING"
      BY <1>1, <1>3, CheckComes
    <2>2. PICK f : f = Peer(x) OBVIOUS
    <2>3. f \in Ends /\ f # x BY <2>2, EndFacts
    <2>4. Chan(f)' = Chan(f) BY <1>1, <2>3, ChanPop
    <2>5. /\ fileToRecv'[x] = None /\ isRecving' = isRecving /\ isSending' = isSending
          /\ open' = open
      BY <1>1 DEF sendVars, recvVars
    <2>6. open'[f] => isSending'[f] # "SENDING" /\ Unanswered(x)'
      BY <2>1, <2>2, <2>4, <2>5 DEF Unanswered
    <2>7. Rests(x)' BY <2>1, <2>2, <2>5, <2>6 DEF Rests
    <2>8. QED BY <1>3, <2>7 DEF Carries
  <1>4. QED BY <1>2, <1>3

LEMMA LastOk ==
    ASSUME NEW s \in Seq(Packet), s # <<>>, OneOk(s), Head(s).type = "OK"
    PROVE  Without(Tail(s), OkType)
  <1>1. PICK n, t : n = Len(s) /\ t = Tail(s) OBVIOUS
  <1>2. /\ Head(s) = s[1] /\ 1 \in 1 .. n /\ n \in Nat /\ Len(t) = n - 1
        /\ \A i \in 1 .. Len(t) : i + 1 \in 1 .. n /\ t[i] = s[i + 1]
    BY <1>1, AtFront
  <1>3. \A j \in 1 .. n : s[j].type = "OK" => j = 1 BY <1>1, <1>2 DEF OneOk
  <1>4. \A i \in 1 .. Len(t) : i + 1 # 1 BY <1>2
  <1>5. \A i \in 1 .. Len(t) : t[i].type # "OK" BY <1>2, <1>3, <1>4
  <1>6. QED BY <1>1, <1>5 DEF Without, OkType

LEMMA DirRecvOk ==
    ASSUME Kinds, NEW x \in Ends, RecvOk(x), NEW e \in Ends, open[e], NEW F, Carries(e, F)
    PROVE  Carries(e, F)'
  <1>1. /\ open[x] /\ wire[x] # <<>> /\ wire' = Consumed(x) /\ Head(wire[x]).type = "OK"
        /\ UNCHANGED <<open, recvVars, unsent, fileVars, history>>
        /\ IF sendQueue[x] # <<>> /\ isSending[x] = "CHECKING"
           THEN /\ sendQueue' = [sendQueue EXCEPT ![x] = Tail(@)]
                /\ fileToSend' = [fileToSend EXCEPT ![x] = None]
                /\ isSending' = [isSending EXCEPT ![x] = "STARTING"]
           ELSE UNCHANGED <<sendVars, pollOut>>
    BY DEF RecvOk, Receives, SendingNext
  <1>2. /\ sendQueue \in [Ends -> Seq([filename : Names, owner : FileOr(Users)])]
        /\ isSending \in [Ends -> {"STARTING", "SENDING", "CHECKING"}]
        /\ fileToSend \in [Ends -> FileOr(Seq(Part))]
    BY DEF Kinds, TypeOK
  <1>3. CASE Peer(e) # x
    <2>1. Peer(e) \in Ends BY EndFacts
    <2>2. /\ isSending'[Peer(e)] = isSending[Peer(e)] /\ fileToSend'[Peer(e)] = fileToSend[Peer(e)]
          /\ sendQueue'[Peer(e)] = sendQueue[Peer(e)]
      BY <1>1, <1>2, <1>3, <2>1 DEF sendVars
    <2>3. Untouched(e) BY <1>1, <2>2 DEF Untouched, recvVars, history
    <2>4. Head(wire[x]).type \notin FileTypes BY <1>1 DEF FileTypes
    <2>5. e # Peer(x) BY <1>3, EndFacts
    <2>6. QED BY <1>1, <2>3, <2>4, <2>5, PopKeeps
  <1>4. CASE Peer(e) = x
    <2>1. PICK ch : ch = Chan(x) OBVIOUS
    <2>2. /\ ch # <<>> /\ Head(ch) = Head(wire[x]) /\ Chan(x)' = Tail(ch) /\ ch \in Seq(Packet)
          /\ e # x /\ Chan(e)' = Chan(e)
      BY <1>1, <1>4, <2>1, ChanPop, Channels, EndFacts
    <2>3. ~Without(ch, OkType)
      <3>1. Head(ch) = ch[1] /\ 1 \in 1 .. Len(ch) BY <2>2, AtFront
      <3>2. QED BY <1>1, <2>2, <3>1 DEF Without, OkType
    <2>4. ~Unanswered(e) BY <1>4, <2>1, <2>3 DEF Unanswered
    <2>5. Rests(e) BY <1>1, <1>4, <2>4 DEF Carries, Moves
    <2>6. Answers(e) BY <1>1, <1>4, <2>4, <2>5 DEF Rests
    <2>7. isSending[x] = "CHECKING" /\ isRecving[e] # "OK" /\ OneOk(ch)
      BY <1>4, <2>1, <2>3, <2>6 DEF Answers
    <2>8. Without(Tail(ch), OkType) BY <1>1, <2>2, <2>7, LastOk
    <2>9. sendQueue[x] # <<>> BY <2>7 DEF Kinds, TypeOK
    <2>10. isSending'[x] = "STARTING" BY <1>1, <1>2, <2>7, <2>9
    <2>11. fileToRecv' = fileToRecv /\ isRecving' = isRecving BY <1>1 DEF recvVars
    <2>12. Unanswered(e)' BY <1>4, <2>2, <2>7, <2>8, <2>11 DEF Unanswered
    <2>13. Rests(e)' BY <1>4, <2>2, <2>5, <2>10, <2>11, <2>12 DEF Rests
    <2>14. QED BY <2>13 DEF Carries
  <1>5. QED BY <1>3, <1>4

-----------------------------------------------------------------------------
(* Every step keeps every direction: sending.                              *)

LEMMA DirAgain ==
    ASSUME Kinds, NEW x \in Ends, trySendToClientAgain(x), NEW e \in Ends, open[e], NEW F, Carries(e, F)
    PROVE  Carries(e, F)'
  <1>1. UNCHANGED <<open, sendVars, recvVars, pollOut, fileVars, history>>
    BY DEF trySendToClientAgain
  <1>2. Untouched(e) BY <1>1 DEF Untouched, sendVars, recvVars, history
  <1>3. Chan(e)' = Chan(e) /\ (open[Peer(e)] => Chan(Peer(e))' = Chan(Peer(e)))
    BY EndFacts, ChanAgain
  <1>4. QED BY <1>2, <1>3, StillKeeps

LEMMA FirstOk ==
    ASSUME NEW s \in Seq(Packet), Without(s, OkType)
    PROVE  OneOk(Append(s, Message("OK", None)))
  <1>1. PICK p, n, t : p = Message("OK", None) /\ n = Len(s) /\ t = Append(s, p) OBVIOUS
  <1>2. p \in Packet /\ p.type = "OK" BY <1>1, PacketFacts
  <1>3. /\ n + 1 \in 1 .. Len(t) /\ t[n + 1] = p
        /\ \A i \in 1 .. n : t[i] = s[i]
        /\ \A i \in 1 .. Len(t) : i = n + 1 \/ i \in 1 .. n
    BY <1>1, <1>2, Behind
  <1>4. \A i \in 1 .. n : s[i].type # "OK" BY <1>1 DEF Without, OkType
  <1>5. OneOk(t) BY SMTT(30), <1>2, <1>3, <1>4 DEF OneOk
  <1>6. QED BY <1>1, <1>5

LEMMA DirCheckResult ==
    ASSUME Kinds, NEW x \in Ends, sendCheckResult(x), NEW e \in Ends, open[e], NEW F, Carries(e, F)
    PROVE  Carries(e, F)'
  <1>1. /\ unsent[x] = None /\ isRecving[x] = "OK" /\ sendToClient(x, Message("OK", None))
        /\ isRecving' = [isRecving EXCEPT ![x] = "NONE"]
        /\ UNCHANGED <<open, sendVars, fileToRecv, recvFilename, pollOut, fileVars, history>>
    BY DEF sendCheckResult, Free, Writes, Answered
  <1>2. PICK p : p = Message("OK", None) OBVIOUS
  <1>3. p \in Packet /\ p.type = "OK" /\ sendToClient(x, p) BY <1>1, <1>2, PacketFacts
  <1>4. isRecving \in [Ends -> {"NONE", "RECEIVING", "OK"}] BY DEF Kinds, TypeOK
  <1>5. CASE e # x
    <2>1. Untouched(e) BY <1>1, <1>4, <1>5 DEF Untouched, sendVars, history
    <2>2. p.type \notin FileTypes BY <1>3 DEF FileTypes
    <2>3. QED BY <1>1, <1>3, <1>5, <2>1, <2>2, PushKeeps
  <1>6. CASE e = x
    <2>1. PICK f : f = Peer(x) OBVIOUS
    <2>2. f \in Ends /\ f # x BY <2>1, EndFacts
    <2>3. Chan(x)' = Chan(x) BY <1>1, <1>3, <2>1, <2>2, ChanPush
    <2>4. open[f] => Chan(f)' = Append(Chan(f), p) BY <1>1, <1>3, <2>1, ChanPush
    <2>5. CASE ~open[f]
      <3>1. Same(Chan(x), Chan(x)', FileTypes, 0) BY <2>3, SameChans
      <3>2. ~open'[Peer(x)] BY <1>1, <2>1, <2>5
      <3>3. /\ fileToRecv'[x] = fileToRecv[x] /\ recvFilename'[x] = recvFilename[x]
            /\ \A v \in 1 .. Len(origin) : v \in 1 .. Len(origin') /\ origin'[v] = origin[v]
        BY <1>1 DEF history
      <3>4. QED BY <1>6, <3>1, <3>2, <3>3, Keep
    <2>6. CASE open[f]
      <3>1. Rests(x) /\ Answers(x)
        BY <1>1, <1>6, <2>1, <2>6 DEF Carries, Moves, Unanswered, Rests
      <3>2. Without(Chan(f), OkType) /\ isSending[f] = "CHECKING"
            /\ Head(sendQueue[f]).filename = recvFilename[x]
        BY <1>1, <2>1, <3>1 DEF Answers
      <3>3. Chan(f) \in Seq(Packet) BY <2>2, Channels
      <3>4. OneOk(Append(Chan(f), p)) BY <1>2, <3>2, <3>3, FirstOk
      <3>5. isRecving'[x] # "OK" /\ fileToRecv' = fileToRecv /\ recvFilename' = recvFilename
            /\ isSending' = isSending /\ sendQueue' = sendQueue
        BY <1>1, <1>4 DEF sendVars
      <3>6. Answers(x)' BY <2>1, <2>4, <2>6, <3>2, <3>4, <3>5 DEF Answers
      <3>7. Rests(x)' BY <2>1, <2>3, <3>1, <3>2, <3>5, <3>6 DEF Rests
      <3>8. QED BY <1>6, <3>7 DEF Carries
    <2>7. QED BY <2>5, <2>6
  <1>7. QED BY <1>5, <1>6

LEMMA DirStopWriting ==
    ASSUME Kinds, NEW x \in Ends, StopWriting(x), NEW e \in Ends, NEW F, Carries(e, F)
    PROVE  Carries(e, F)'
  <1>1. /\ sendQueue[x] = <<>> \/ isSending[x] = "CHECKING"
        /\ isSending' = [isSending EXCEPT ![x] = IF sendQueue[x] = <<>> THEN "STARTING" ELSE @]
        /\ UNCHANGED <<open, sendQueue, fileToSend, recvVars, unsent, wire, fileVars, history>>
    BY DEF StopWriting
  <1>2. isSending' = isSending BY <1>1 DEF Kinds, TypeOK
  <1>3. Untouched(e) BY <1>1, <1>2 DEF Untouched, recvVars, history
  <1>4. Chan(e)' = Chan(e) /\ Chan(Peer(e))' = Chan(Peer(e)) BY <1>1 DEF Chan
  <1>5. QED BY <1>3, <1>4, StillKeeps

LEMMA DirSkipFile ==
    ASSUME Kinds, NEW x \in Ends, SkipFile(x), NEW e \in Ends, NEW F, Carries(e, F)
    PROVE  Carries(e, F)'
  <1>1. /\ isSending[x] = "STARTING" /\ sendQueue' = [sendQueue EXCEPT ![x] = Tail(@)]
        /\ UNCHANGED <<open, isSending, fileToSend, recvVars, pollOut, unsent, wire, fileVars, history>>
    BY DEF SkipFile
  <1>2. isSending[Peer(e)] # "STARTING" => sendQueue'[Peer(e)] = sendQueue[Peer(e)]
    BY <1>1, EndFacts DEF Kinds, TypeOK
  <1>3. Untouched(e) BY <1>1, <1>2 DEF Untouched, recvVars, history
  <1>4. Chan(e)' = Chan(e) /\ Chan(Peer(e))' = Chan(Peer(e)) BY <1>1 DEF Chan
  <1>5. QED BY <1>3, <1>4, StillKeeps

\* What is opened to be sent is a whole file, of the user of the connection.
LEMMA Opened ==
    ASSUME Kinds, FilesAreWhole, NEW x \in Ends, sendQueue[x] # <<>>,
           NEW qi, qi = Head(sendQueue[x]), FileAt(x, qi) # None
    PROVE  /\ qi.filename \in Names
           /\ \E v \in 1 .. Len(origin) :
                  /\ origin[v] = [user |-> UserOf[x[2]], name |-> qi.filename]
                  /\ FileAt(x, qi) = Content(v)
  <1>1. qi \in [filename : Names, owner : FileOr(Users)]
    <2>1. sendQueue[x] \in Seq([filename : Names, owner : FileOr(Users)])
      BY DEF Kinds, TypeOK
    <2>2. QED BY <2>1, HeadTailProperties
  <1>2. CASE x[1] = "server"
    <2>1. x = Server(x[2]) /\ x[2] \in Clients /\ UserOf[x[2]] \in Users
      BY <1>2, EndFacts, NoneFacts
    <2>2. qi.owner = UserOf[x[2]]
      <3>1. PICK q : q = sendQueue[x] OBVIOUS
      <3>2. q \in Seq([filename : Names, owner : FileOr(Users)]) /\ q # <<>>
        BY <3>1 DEF Kinds, TypeOK
      <3>3. Len(q) \in Nat \ {0} BY <3>2, EmptySeq, LenProperties
      <3>4. 1 \in 1 .. Len(q) /\ Head(q) = q[1] BY <3>3
      <3>5. \A i \in 1 .. Len(q) : q[i].owner = UserOf[x[2]] BY <2>1, <3>1 DEF Kinds, Owned
      <3>6. QED BY <3>1, <3>4, <3>5
    <2>3. FileAt(x, qi) = saved[UserOf[x[2]]][qi.filename] BY <1>2, <2>2 DEF FileAt
    <2>4. Authentic(saved[UserOf[x[2]]][qi.filename], UserOf[x[2]], qi.filename)
      BY <1>1, <2>1 DEF FilesAreWhole
    <2>5. QED BY <1>1, <2>3, <2>4 DEF Authentic
  <1>3. CASE x[1] # "server"
    <2>1. x[2] \in Clients BY EndFacts
    <2>2. FileAt(x, qi) = disk[x[2]][qi.filename] BY <1>3 DEF FileAt
    <2>3. Authentic(disk[x[2]][qi.filename], UserOf[x[2]], qi.filename)
      BY <1>1, <2>1 DEF FilesAreWhole
    <2>4. QED BY <1>1, <2>2, <2>3 DEF Authentic
  <1>4. QED BY <1>2, <1>3

LEMMA DirStartFile ==
    ASSUME Kinds, FilesAreWhole, NEW x \in Ends, StartFile(x),
           NEW e \in Ends, open[e], NEW F, Carries(e, F)
    PROVE  /\ Peer(e) # x => Carries(e, F)'
           /\ Peer(e) = x => /\ Unanswered(e) /\ Unanswered(e)'
                             /\ \A G : G = FileAt(x, Head(sendQueue[x])) => Carries(e, G)'
  <1>1. PICK qi, p : qi = Head(sendQueue[x]) /\ p = Message("PUT", qi.filename) OBVIOUS
  <1>2. /\ open[x] /\ unsent[x] = None /\ sendQueue[x] # <<>> /\ isSending[x] = "STARTING"
        /\ FileAt(x, qi) # None
        /\ fileToSend' = [fileToSend EXCEPT ![x] = FileAt(x, qi)]
        /\ sendToClient(x, p)
        /\ isSending' = [isSending EXCEPT ![x] = "SENDING"]
        /\ UNCHANGED <<open, sendQueue, recvVars, pollOut, fileVars, history>>
    BY <1>1 DEF StartFile, Queued, Free, Writes
  <1>3. /\ qi.filename \in Names
        /\ \E v \in 1 .. Len(origin) :
               /\ origin[v] = [user |-> UserOf[x[2]], name |-> qi.filename]
               /\ FileAt(x, qi) = Content(v)
    BY <1>1, <1>2, Opened
  <1>4. p \in Packet /\ p.type = "PUT" BY <1>1, <1>3, PacketFacts
  <1>5. /\ isSending \in [Ends -> {"STARTING", "SENDING", "CHECKING"}]
        /\ fileToSend \in [Ends -> FileOr(Seq(Part))]
    BY DEF Kinds, TypeOK
  <1>6. CASE Peer(e) # x
    <2>1. Peer(e) \in Ends /\ e # Peer(x) BY <1>6, EndFacts
    <2>2. Untouched(e) BY <1>2, <1>5, <1>6, <2>1 DEF Untouched, recvVars, history
    <2>3. p.type \notin OkType BY <1>4 DEF OkType
    <2>4. Carries(e, F)' BY <1>2, <1>4, <2>1, <2>2, <2>3, PushKeeps
    <2>5. QED BY <1>6, <2>4
  <1>7. CASE Peer(e) = x
    <2>1. PICK v, n :
              /\ v \in 1 .. Len(origin)
              /\ n = qi.filename
              /\ origin[v] = [user |-> UserOf[x[2]], name |-> n]
              /\ FileAt(x, qi) = Content(v)
      BY <1>3
    <2>2. PICK ch : ch = Chan(e) OBVIOUS
    <2>3. /\ e = Peer(x) /\ x[2] = e[2] /\ e # x /\ ch \in Seq(Packet) /\ n \in Names
      BY <1>3, <1>7, <2>1, <2>2, EndFacts, Channels
    <2>4. Rests(e) /\ Unanswered(e)
      BY <1>2, <1>7 DEF Carries, Moves, Feeds, Rests, Answers
    <2>5. Without(ch, FileTypes) /\ fileToRecv[e] = None BY <2>2, <2>4 DEF Rests
    <2>6. Chan(e)' = Append(ch, p) /\ Chan(x)' = Chan(x)
      BY <1>2, <1>4, <2>2, <2>3, ChanPush
    <2>7. p = Message("PUT", n) BY <1>1, <2>1
    <2>8. /\ Stream(Append(ch, p), v, n, 0, 0)
          /\ Without(Append(ch, p), {"CHECK"}) /\ ~Without(Append(ch, p), {"PUT"})
      BY <2>3, <2>5, <2>7, PushPut
    <2>9. Stores(e, v, n, 0)'
      <3>1. fileToRecv'[e] = None BY <1>2, <2>5 DEF recvVars
      <3>2. QED BY <2>6, <2>8, <3>1 DEF Stores
    <2>10. isSending'[x] = "SENDING" /\ fileToSend'[x] = Content(v) /\ sendQueue' = sendQueue
      BY <1>2, <1>5, <2>1
    <2>11. Chunks[v] \in Nat
      <3>1. v \in Versions BY <2>1, NoneFacts, LenProperties DEF Kinds, Versions
      <3>2. QED BY <3>1, NoneFacts
    <2>12. Rest(Content(v), v, 0)
      <3>1. PICK m, s : m = Chunks[v] /\ s = Content(v) OBVIOUS
      <3>2. s = [k \in 1 .. m |-> <<v, k>>] /\ m \in Nat BY <2>11, <3>1 DEF Content
      <3>3. Len(s) = m BY <3>2
      <3>4. m - 0 = m /\ \A k \in 1 .. m : 0 + k = k BY <3>2
      <3>5. QED BY <3>1, <3>2, <3>3, <3>4 DEF Rest
    <2>13. Feeds(x, Chan(e), v, n, 0)'
      BY <1>1, <2>1, <2>6, <2>8, <2>10, <2>12 DEF Feeds
    <2>14. Unanswered(e)'
      <3>1. isRecving' = isRecving BY <1>2 DEF recvVars
      <3>2. QED BY <1>7, <2>4, <2>6, <3>1 DEF Unanswered
    <2>15. origin' = origin BY <1>2 DEF history
    <2>16. origin[v].name = n /\ origin[v].user = UserOf[e[2]] BY <2>1, <2>3
    <2>17. Moves(e, v, 0, 0)'
      BY <1>7, <2>1, <2>6, <2>8, <2>9, <2>11, <2>13, <2>14, <2>15, <2>16 DEF Moves
    <2>18. \A G : G = FileAt(x, qi) => Carries(e, G)' BY <2>1, <2>17, Carried
    <2>19. QED BY <1>1, <1>7, <2>4, <2>14, <2>18
  <1>8. QED BY <1>6, <1>7

LEMMA DirSendData ==
    ASSUME Kinds, NEW x \in Ends, SendData(x), NEW e \in Ends, open[e], NEW F, Carries(e, F)
    PROVE  Carries(e, F)'
  <1>1. PICK file, p : file = fileToSend[x] /\ p = Message("DATA", Head(file)) OBVIOUS
  <1>2. /\ open[x] /\ unsent[x] = None /\ isSending[x] = "SENDING" /\ file # <<>>
        /\ sendToClient(x, p)
        /\ fileToSend' = [fileToSend EXCEPT ![x] = Tail(@)]
        /\ UNCHANGED <<open, sendQueue, isSending, recvVars, pollOut, fileVars, history>>
    BY <1>1 DEF SendData, Queued, Free, Writes
  <1>3. fileToSend \in [Ends -> FileOr(Seq(Part))] /\ file \in Seq(Part)
    BY <1>1, <1>2 DEF Kinds, TypeOK, FileOr
  <1>4. /\ Head(file) \in Part /\ Tail(file) \in Seq(Part) /\ Len(Tail(file)) = Len(file) - 1
        /\ \A i \in 1 .. Len(Tail(file)) : Tail(file)[i] = file[i + 1]
    BY <1>2, <1>3, HeadTailProperties
  <1>5. p \in Packet /\ p.type = "DATA" BY <1>1, <1>4, PacketFacts
  <1>6. CASE Peer(e) # x
    <2>1. Peer(e) \in Ends /\ e # Peer(x) BY <1>6, EndFacts
    <2>2. Untouched(e) BY <1>2, <1>3, <1>6, <2>1 DEF Untouched, recvVars, history
    <2>3. p.type \notin OkType BY <1>5 DEF OkType
    <2>4. QED BY <1>2, <1>5, <2>1, <2>2, <2>3, PushKeeps
  <1>7. CASE Peer(e) = x
    <2>1. PICK v, lo, hi : Content(v) = F /\ Moves(e, v, lo, hi) BY <1>2, <1>7 DEF Carries, Rests
    <2>2. PICK ch, n : ch = Chan(e) /\ n = origin[v].name OBVIOUS
    <2>3. /\ e = Peer(x) /\ e # x /\ ch \in Seq(Packet)
      BY <1>7, <2>2, EndFacts, Channels
    <2>4. /\ v \in 1 .. Len(origin) /\ origin[v].user = UserOf[e[2]]
          /\ lo \in Nat /\ hi \in Nat /\ lo <= hi /\ hi <= Chunks[v]
          /\ Stream(ch, v, n, lo, hi) /\ Stores(e, v, n, lo)
          /\ Unanswered(e) /\ Feeds(x, ch, v, n, hi)
      BY <1>2, <1>7, <2>1, <2>2 DEF Moves
    <2>5. Without(ch, {"CHECK"}) /\ Rest(file, v, hi) /\ Head(sendQueue[x]).filename = n
      BY <1>1, <1>2, <2>4 DEF Feeds
    <2>6. PICK m, c : m = Len(file) /\ c = Chunks[v] OBVIOUS
    <2>7. c \in Nat
      <3>1. v \in Versions BY <2>4, NoneFacts, LenProperties DEF Kinds, Versions
      <3>2. QED BY <2>6, <3>1, NoneFacts
    <2>8. m \in Nat \ {0} /\ m = c - hi /\ \A k \in 1 .. m : file[k] = <<v, hi + k>>
      BY <1>2, <1>3, <2>5, <2>6, EmptySeq, LenProperties DEF Rest
    <2>9. Head(file) = <<v, hi + 1>>
      <3>1. 1 \in 1 .. m /\ Head(file) = file[1] BY <2>8
      <3>2. QED BY <2>8, <3>1
    <2>10. p = Message("DATA", <<v, hi + 1>>) /\ <<v, hi + 1>> \in Part
      BY <1>1, <1>4, <2>9
    <2>11. /\ Stream(Append(ch, p), v, n, lo, hi + 1) /\ Without(Append(ch, p), {"CHECK"})
           /\ Without(Append(ch, p), {"PUT"}) <=> Without(ch, {"PUT"})
      BY <2>3, <2>4, <2>5, <2>10, PushData
    <2>12. Chan(e)' = Append(ch, p) /\ Chan(x)' = Chan(x)
      BY <1>2, <1>5, <2>2, <2>3, ChanPush
    <2>13. Stores(e, v, n, lo)'
      <3>1. fileToRecv' = fileToRecv /\ recvFilename' = recvFilename BY <1>2 DEF recvVars
      <3>2. QED BY <2>2, <2>4, <2>11, <2>12, <3>1 DEF Stores
    <2>14. Rest(Tail(file), v, hi + 1)
      <3>1. PICK t : t = Tail(file) OBVIOUS
      <3>2. Len(t) = m - 1 /\ \A k \in 1 .. m - 1 : t[k] = file[k + 1] BY <1>4, <2>6, <3>1
      <3>3. \A k \in 1 .. m - 1 : k + 1 \in 1 .. m /\ hi + (k + 1) = hi + 1 + k BY <2>4, <2>8
      <3>4. \A k \in 1 .. m - 1 : t[k] = <<v, hi + 1 + k>> BY <2>8, <3>2, <3>3
      <3>5. m - 1 = c - (hi + 1) BY <2>4, <2>7, <2>8
      <3>6. QED BY <2>6, <3>1, <3>2, <3>4, <3>5 DEF Rest
    <2>15. Feeds(x, Chan(e), v, n, hi + 1)'
      <3>1. fileToSend'[x] = Tail(file) /\ isSending' = isSending /\ sendQueue' = sendQueue
        BY <1>1, <1>2, <1>3
      <3>2. QED BY <1>2, <2>5, <2>11, <2>12, <2>14, <3>1 DEF Feeds
    <2>16. Unanswered(e)'
      <3>1. isRecving' = isRecving BY <1>2 DEF recvVars
      <3>2. QED BY <1>7, <2>4, <2>12, <3>1 DEF Unanswered
    <2>17. origin' = origin BY <1>2 DEF history
    <2>18. hi + 1 \in Nat /\ lo <= hi + 1 /\ hi + 1 <= Chunks[v] BY <2>4, <2>6, <2>7, <2>8
    <2>19. Moves(e, v, lo, hi + 1)'
      BY <1>7, <2>2, <2>4, <2>11, <2>12, <2>13, <2>15, <2>16, <2>17, <2>18 DEF Moves
    <2>20. QED BY <2>1, <2>19, Carried
  <1>8. QED BY <1>6, <1>7

LEMMA DirSendCheck ==
    ASSUME Kinds, NEW x \in Ends, SendCheck(x), NEW e \in Ends, open[e], NEW F, Carries(e, F)
    PROVE  Carries(e, F)'
  <1>1. PICK p : p = Message("CHECK", None) OBVIOUS
  <1>2. /\ open[x] /\ unsent[x] = None /\ isSending[x] = "SENDING" /\ fileToSend[x] = <<>>
        /\ sendToClient(x, p)
        /\ isSending' = [isSending EXCEPT ![x] = "CHECKING"]
        /\ UNCHANGED <<open, sendQueue, fileToSend, recvVars, fileVars, history>>
    BY <1>1 DEF SendCheck, Queued, Free, Writes
  <1>3. p \in Packet /\ p.type = "CHECK" BY <1>1, PacketFacts
  <1>4. isSending \in [Ends -> {"STARTING", "SENDING", "CHECKING"}] BY DEF Kinds, TypeOK
  <1>5. CASE Peer(e) # x
    <2>1. Peer(e) \in Ends /\ e # Peer(x) BY <1>5, EndFacts
    <2>2. Untouched(e) BY <1>2, <1>4, <1>5, <2>1 DEF Untouched, recvVars, history
    <2>3. p.type \notin OkType BY <1>3 DEF OkType
    <2>4. QED BY <1>2, <1>3, <2>1, <2>2, <2>3, PushKeeps
  <1>6. CASE Peer(e) = x
    <2>1. PICK v, lo, hi : Content(v) = F /\ Moves(e, v, lo, hi) BY <1>2, <1>6 DEF Carries, Rests
    <2>2. PICK ch, n : ch = Chan(e) /\ n = origin[v].name OBVIOUS
    <2>3. /\ e = Peer(x) /\ e # x /\ ch \in Seq(Packet)
      BY <1>6, <2>2, EndFacts, Channels
    <2>4. /\ v \in 1 .. Len(origin) /\ origin[v].user = UserOf[e[2]]
          /\ lo \in Nat /\ hi \in Nat /\ lo <= hi /\ hi <= Chunks[v]
          /\ Stream(ch, v, n, lo, hi) /\ Stores(e, v, n, lo)
          /\ Unanswered(e) /\ Feeds(x, ch, v, n, hi)
      BY <1>2, <1>6, <2>1, <2>2 DEF Moves
    <2>5. Without(ch, {"CHECK"}) /\ Rest(<<>>, v, hi) /\ Head(sendQueue[x]).filename = n
      BY <1>2, <2>4 DEF Feeds
    <2>6. hi = Chunks[v]
      <3>1. v \in Versions BY <2>4, NoneFacts, LenProperties DEF Kinds, Versions
      <3>2. Chunks[v] \in Nat BY <3>1, NoneFacts
      <3>3. Len(<<>>) = 0 OBVIOUS
      <3>4. 0 = Chunks[v] - hi BY <2>5, <3>3 DEF Rest
      <3>5. QED BY <2>4, <3>2, <3>4
    <2>7. /\ Stream(Append(ch, p), v, n, lo, hi) /\ ~Without(Append(ch, p), {"CHECK"})
          /\ Without(Append(ch, p), {"PUT"}) <=> Without(ch, {"PUT"})
      BY <1>1, <2>3, <2>4, <2>5, <2>6, PushCheck
    <2>8. Chan(e)' = Append(ch, p) /\ Chan(x)' = Chan(x)
      BY <1>2, <1>3, <2>2, <2>3, ChanPush
    <2>9. Stores(e, v, n, lo)'
      <3>1. fileToRecv' = fileToRecv /\ recvFilename' = recvFilename BY <1>2 DEF recvVars
      <3>2. QED BY <2>2, <2>4, <2>7, <2>8, <3>1 DEF Stores
    <2>10. Feeds(x, Chan(e), v, n, hi)'
      <3>1. isSending'[x] = "CHECKING" /\ sendQueue' = sendQueue BY <1>2, <1>4
      <3>2. QED BY <2>5, <2>7, <2>8, <3>1 DEF Feeds
    <2>11. Unanswered(e)'
      <3>1. isRecving' = isRecving BY <1>2 DEF recvVars
      <3>2. QED BY <1>6, <2>4, <2>8, <3>1 DEF Unanswered
    <2>12. origin' = origin BY <1>2 DEF history
    <2>13. Moves(e, v, lo, hi)'
      BY <1>6, <2>2, <2>4, <2>7, <2>8, <2>9, <2>10, <2>11, <2>12 DEF Moves
    <2>14. QED BY <2>1, <2>13, Carried
  <1>7. QED BY <1>5, <1>6

-----------------------------------------------------------------------------
(* Every step keeps every direction: connections and users.                *)

LEMMA Elsewhere ==
    ASSUME Kinds, NEW e \in Ends, NEW F, Carries(e, F), origin' = origin,
           \A g \in {e, Peer(e)} :
               /\ open'[g] = open[g] /\ wire'[g] = wire[g] /\ unsent'[g] = unsent[g]
               /\ sendQueue'[g] = sendQueue[g] /\ isSending'[g] = isSending[g]
               /\ fileToSend'[g] = fileToSend[g] /\ isRecving'[g] = isRecving[g]
               /\ fileToRecv'[g] = fileToRecv[g] /\ recvFilename'[g] = recvFilename[g]
    PROVE  Carries(e, F)'
  <1>1. PICK f : f = Peer(e) OBVIOUS
  <1>2. f \in Ends /\ Peer(f) = e BY <1>1, EndFacts
  <1>3. Chan(e)' = Chan(e) /\ Chan(f)' = Chan(f) BY <1>1, <1>2 DEF Chan
  <1>4. Same(Chan(e), Chan(e)', FileTypes, 0) /\ Same(Chan(f), Chan(f)', OkType, 0)
    BY <1>2, <1>3, SameChans
  <1>5. open'[Peer(e)] =>
            /\ open[Peer(e)] /\ isRecving'[e] = isRecving[e]
            /\ isSending'[Peer(e)] = isSending[Peer(e)]
            /\ fileToSend'[Peer(e)] = fileToSend[Peer(e)]
            /\ isSending[Peer(e)] # "STARTING" =>
                   Head(sendQueue'[Peer(e)]) = Head(sendQueue[Peer(e)])
            /\ \E k : Same(Chan(Peer(e)), Chan(Peer(e))', OkType, k)
    <2>1. \E k : Same(Chan(Peer(e)), Chan(Peer(e))', OkType, k) BY <1>1, <1>4
    <2>2. QED BY <2>1
  <1>6. QED BY <1>4, <1>5, Keep

LEMMA DirJoin ==
    ASSUME Kinds, NEW c \in Clients, Join(c),
           NEW e \in Ends, open'[e], NEW F, open[e] => Carries(e, F)
    PROVE  Carries(e, F)'
  <1>1. PICK s, x, p : s = Server(c) /\ x = Client(c) /\ p = Message("NAME", UserOf[c]) OBVIOUS
  <1>2. /\ s \in Ends /\ x \in Ends /\ s # x /\ Peer(s) = x /\ Peer(x) = s
        /\ p \in Packet /\ p # None /\ p.type = "NAME"
        /\ \A g \in Ends : (Peer(g) = s <=> g = x) /\ (Peer(g) = x <=> g = s) /\ Peer(g) \in Ends
    BY <1>1, EndFacts, NoneFacts, PacketFacts
  <1>3. /\ ~open[x] /\ ~open[s] /\ open' = [open EXCEPT ![x] = TRUE, ![s] = TRUE]
        /\ \/ wire' = [wire EXCEPT ![s] = << p >>] /\ unsent' = unsent
           \/ unsent' = [unsent EXCEPT ![x] = p] /\ wire' = wire
        /\ UNCHANGED <<sendVars, recvVars, known, saved, disk, origin, uploader, puts>>
    BY <1>1 DEF Join
  <1>4. Closed(s) /\ Closed(x) BY <1>2, <1>3 DEF Kinds
  <1>5. /\ wire \in [Ends -> Seq(Packet)] /\ unsent \in [Ends -> FileOr(Packet)]
        /\ open \in [Ends -> BOOLEAN]
    BY DEF Kinds, TypeOK
  <1>6. Chan(s)' = << p >> /\ Chan(x)' = <<>>
    <2>1. CASE wire' = [wire EXCEPT ![s] = << p >>] /\ unsent' = unsent
      BY <1>2, <1>4, <1>5, <2>1 DEF Chan, Closed
    <2>2. CASE unsent' = [unsent EXCEPT ![x] = p] /\ wire' = wire
      <3>1. unsent'[x] = p /\ wire'[s] = <<>> /\ unsent'[s] = None /\ wire'[x] = <<>>
        BY <1>2, <1>4, <1>5, <2>2 DEF Closed
      <3>2. Append(<<>>, p) = << p >> OBVIOUS
      <3>3. QED BY <1>2, <3>1, <3>2 DEF Chan
    <2>3. QED BY <1>3, <2>1, <2>2
  <1>7. /\ Without(<< p >>, FileTypes) /\ Without(<< p >>, OkType)
        /\ Without(<<>>, FileTypes) /\ Without(<<>>, OkType)
    <2>1. /\ Len(<< p >>) = 1 /\ << p >>[1] = p /\ (\A i \in 1 .. 1 : i = 1)
          /\ Len(<<>>) = 0 /\ \A i \in 1 .. 0 : FALSE
      OBVIOUS
    <2>2. QED BY <1>2, <2>1 DEF Without, FileTypes, OkType
  <1>8. \A g \in {s, x} : /\ isSending'[g] = "STARTING" /\ isRecving'[g] = "NONE"
                          /\ fileToRecv'[g] = None
    BY <1>3, <1>4 DEF Closed, sendVars, recvVars
  <1>9. CASE e \in {s, x}
    <2>1. Rests(e)' BY <1>2, <1>6, <1>7, <1>8, <1>9 DEF Rests, Unanswered
    <2>2. QED BY <2>1 DEF Carries
  <1>10. CASE e \notin {s, x}
    <2>1. \A g \in {e, Peer(e)} : g \in Ends /\ g \notin {s, x} BY <1>2, <1>10
    <2>2. \A g \in {e, Peer(e)} : /\ open'[g] = open[g] /\ wire'[g] = wire[g]
                                  /\ unsent'[g] = unsent[g]
      BY <1>3, <1>5, <2>1
    <2>3. \A g \in {e, Peer(e)} :
              /\ sendQueue'[g] = sendQueue[g] /\ isSending'[g] = isSending[g]
              /\ fileToSend'[g] = fileToSend[g] /\ isRecving'[g] = isRecving[g]
              /\ fileToRecv'[g] = fileToRecv[g] /\ recvFilename'[g] = recvFilename[g]
      BY <1>3 DEF sendVars, recvVars
    <2>4. Carries(e, F) /\ origin' = origin BY <1>3, <2>2
    <2>5. QED BY <2>2, <2>3, <2>4, Elsewhere
  <1>11. QED BY <1>9, <1>10

\* What closing one end does to the others.
LEMMA ResetElsewhere ==
    ASSUME Kinds, NEW x \in Ends, Reset({x}),
           unsent' = [unsent EXCEPT ![x] = None], wire' = [wire EXCEPT ![x] = <<>>],
           NEW g \in Ends, g # x
    PROVE  /\ open'[g] = open[g] /\ wire'[g] = wire[g] /\ unsent'[g] = unsent[g]
           /\ sendQueue'[g] = sendQueue[g] /\ isSending'[g] = isSending[g]
           /\ fileToSend'[g] = fileToSend[g] /\ isRecving'[g] = isRecving[g]
           /\ fileToRecv'[g] = fileToRecv[g] /\ recvFilename'[g] = recvFilename[g]
  BY DEF Reset, Kinds, TypeOK

\* The packet that was left in the buffer is lost: what is on the way is still a
\* stream, or nothing of the file when it was PUT.
LEMMA DirLeave ==
    ASSUME Kinds, NEW c \in Clients, Leave(c), NEW e \in Ends, open'[e], NEW F, Carries(e, F)
    PROVE  Carries(e, F)'
  <1>1. PICK s, x : s = Server(c) /\ x = Client(c) OBVIOUS
  <1>2. /\ s \in Ends /\ x \in Ends /\ s # x /\ Peer(s) = x /\ Peer(x) = s
        /\ \A g \in Ends : (Peer(g) = x <=> g = s) /\ Peer(g) \in Ends
    BY <1>1, EndFacts
  <1>3. /\ Reset({x}) /\ unsent' = [unsent EXCEPT ![x] = None]
        /\ wire' = [wire EXCEPT ![x] = <<>>] /\ UNCHANGED <<fileVars, history>>
    BY <1>1 DEF Leave
  <1>4. origin' = origin BY <1>3 DEF history
  <1>5. \A g \in Ends : g # x =>
            /\ open'[g] = open[g] /\ wire'[g] = wire[g] /\ unsent'[g] = unsent[g]
            /\ sendQueue'[g] = sendQueue[g] /\ isSending'[g] = isSending[g]
            /\ fileToSend'[g] = fileToSend[g] /\ isRecving'[g] = isRecving[g]
            /\ fileToRecv'[g] = fileToRecv[g] /\ recvFilename'[g] = recvFilename[g]
    BY <1>2, <1>3, ResetElsewhere
  <1>6. ~open'[x] /\ unsent'[x] = None
    BY <1>2, <1>3 DEF Reset, Kinds, TypeOK
  <1>7. e # x BY <1>6
  <1>8. CASE e # s
    <2>1. \A g \in {e, Peer(e)} : g \in Ends /\ g # x BY <1>2, <1>7, <1>8
    <2>2. \A g \in {e, Peer(e)} :
              /\ open'[g] = open[g] /\ wire'[g] = wire[g] /\ unsent'[g] = unsent[g]
              /\ sendQueue'[g] = sendQueue[g] /\ isSending'[g] = isSending[g]
              /\ fileToSend'[g] = fileToSend[g] /\ isRecving'[g] = isRecving[g]
              /\ fileToRecv'[g] = fileToRecv[g] /\ recvFilename'[g] = recvFilename[g]
      BY <1>5, <2>1
    <2>3. QED BY <1>4, <2>2, Elsewhere
  <1>9. CASE e = s
    <2>1. /\ wire'[s] = wire[s] /\ fileToRecv'[s] = fileToRecv[s]
          /\ recvFilename'[s] = recvFilename[s]
      BY <1>2, <1>5
    <2>2. Chan(s)' = wire[s] BY <1>2, <1>6, <2>1 DEF Chan
    <2>3. ~open'[Peer(s)] BY <1>2, <1>6
    <2>4. CASE unsent[x] = None
      <3>1. Chan(s)' = Chan(s) BY <1>2, <2>2, <2>4 DEF Chan
      <3>2. Same(Chan(s), Chan(s)', FileTypes, 0) BY <1>2, <3>1, SameChans
      <3>3. QED BY <1>4, <1>9, <2>1, <2>3, <3>2, Keep
    <2>5. CASE unsent[x] # None
      <3>1. PICK w, p, ch : w = wire[s] /\ p = unsent[x] /\ ch = Chan(s) OBVIOUS
      <3>2. w \in Seq(Packet) /\ p \in Packet /\ ch = Append(w, p)
        BY <1>2, <2>5, <3>1, Channels DEF Chan
      <3>3. /\ Len(w) \in Nat /\ Len(w) + 1 \in 1 .. Len(ch) /\ ch[Len(w) + 1] = p
            /\ \A i \in 1 .. Len(w) : i \in 1 .. Len(ch) /\ i < Len(w) + 1 /\ ch[i] = w[i]
            /\ \A i \in 1 .. Len(ch) : i = Len(w) + 1 \/ i \in 1 .. Len(w)
        BY <3>2, Behind
      <3>4. CASE Rests(s)
        <4>1. Without(ch, FileTypes) /\ fileToRecv[s] = None BY <3>1, <3>4 DEF Rests
        <4>2. Without(w, FileTypes) BY <3>3, <4>1 DEF Without
        <4>3. Rests(s)' BY <2>1, <2>2, <2>3, <3>1, <4>1, <4>2 DEF Rests
        <4>4. QED BY <1>9, <4>3 DEF Carries
      <3>5. CASE \E v, lo, hi : Content(v) = F /\ Moves(s, v, lo, hi)
        <4>1. PICK v, lo, hi : Content(v) = F /\ Moves(s, v, lo, hi) BY <3>5
        <4>2. PICK n : n = origin[v].name OBVIOUS
        <4>3. /\ v \in 1 .. Len(origin) /\ origin[v].user = UserOf[s[2]]
              /\ lo \in Nat /\ hi \in Nat /\ lo <= hi /\ hi <= Chunks[v]
              /\ Stream(ch, v, n, lo, hi) /\ Stores(s, v, n, lo)
          BY <3>1, <4>1, <4>2 DEF Moves
        <4>4. CASE p.type = "PUT"
          <5>1. Without(w, FileTypes)
            BY <3>3, <4>3, <4>4 DEF Stream, PutFirst, Without
          <5>2. ~Without(ch, {"PUT"}) BY <3>3, <4>4 DEF Without
          <5>3. fileToRecv[s] = None BY <3>1, <4>3, <5>2 DEF Stores
          <5>4. Rests(s)' BY <2>1, <2>2, <2>3, <3>1, <5>1, <5>3 DEF Rests
          <5>5. QED BY <1>9, <5>4 DEF Carries
        <4>5. CASE p.type # "PUT"
          <5>1. PICK k \in lo .. hi : Stream(w, v, n, lo, k) BY <3>2, <4>3, DropLast
          <5>2. Without(w, {"PUT"}) <=> Without(ch, {"PUT"}) BY <3>3, <4>5 DEF Without
          <5>3. Stores(s, v, n, lo)' BY <2>1, <2>2, <3>1, <4>3, <5>2 DEF Stores
          <5>4. k \in Nat /\ lo <= k /\ k <= Chunks[v]
            <6>1. v \in Versions BY <4>3, NoneFacts, LenProperties DEF Kinds, Versions
            <6>2. Chunks[v] \in Nat BY <6>1, NoneFacts
            <6>3. QED BY <4>3, <6>2
          <5>5. Moves(s, v, lo, k)'
            BY <1>4, <2>2, <2>3, <3>1, <4>2, <4>3, <5>1, <5>3, <5>4 DEF Moves
          <5>6. QED BY <1>9, <4>1, <5>5, Carried
        <4>6. QED BY <4>4, <4>5
      <3>6. QED BY <1>9, <3>4, <3>5 DEF Carries
    <2>6. QED BY <2>4, <2>5
  <1>10. QED BY <1>8, <1>9

LEMMA DirDestroy ==
    ASSUME Kinds, NEW c \in Clients, destroyClient(c), NEW e \in Ends, open'[e], NEW F, Carries(e, F)
    PROVE  Carries(e, F)'
  <1>1. PICK s : s = Server(c) OBVIOUS
  <1>2. /\ s \in Ends /\ Peer(s) = Client(c) /\ Client(c) \in Ends /\ Client(c) # s
        /\ \A g \in Ends : (Peer(g) = s <=> g = Client(c)) /\ Peer(g) \in Ends
    BY <1>1, EndFacts
  <1>3. /\ Reset({s}) /\ unsent' = [unsent EXCEPT ![s] = None] /\ ~open[Client(c)]
        /\ wire' = [wire EXCEPT ![s] = <<>>] /\ UNCHANGED <<fileVars, history>>
    BY <1>1 DEF destroyClient
  <1>4. origin' = origin BY <1>3 DEF history
  <1>5. \A g \in Ends : g # s =>
            /\ open'[g] = open[g] /\ wire'[g] = wire[g] /\ unsent'[g] = unsent[g]
            /\ sendQueue'[g] = sendQueue[g] /\ isSending'[g] = isSending[g]
            /\ fileToSend'[g] = fileToSend[g] /\ isRecving'[g] = isRecving[g]
            /\ fileToRecv'[g] = fileToRecv[g] /\ recvFilename'[g] = recvFilename[g]
    BY <1>2, <1>3, ResetElsewhere
  <1>6. ~open'[s] BY <1>2, <1>3 DEF Reset
  <1>7. e # s /\ e # Client(c) BY <1>2, <1>3, <1>5, <1>6
  <1>8. \A g \in {e, Peer(e)} : g \in Ends /\ g # s BY <1>2, <1>7
  <1>9. \A g \in {e, Peer(e)} :
            /\ open'[g] = open[g] /\ wire'[g] = wire[g] /\ unsent'[g] = unsent[g]
            /\ sendQueue'[g] = sendQueue[g] /\ isSending'[g] = isSending[g]
            /\ fileToSend'[g] = fileToSend[g] /\ isRecving'[g] = isRecving[g]
            /\ fileToRecv'[g] = fileToRecv[g] /\ recvFilename'[g] = recvFilename[g]
    BY <1>5, <1>8
  <1>10. QED BY <1>4, <1>9, Elsewhere

LEMMA DirPut ==
    ASSUME Kinds, NEW c \in Clients, NEW n \in Names, Put(c, n), NEW e \in Ends, NEW F, Carries(e, F)
    PROVE  Carries(e, F)'
  <1>1. /\ origin' = Append(origin, [user |-> UserOf[c], name |-> n]) \/ origin' = origin
        /\ UNCHANGED <<open, isSending, fileToSend, recvVars, unsent, wire>>
    BY DEF Put
  <1>2. \A f \in Ends : sendQueue[f] # <<>> => Head(sendQueue'[f]) = Head(sendQueue[f])
    BY KindsPut
  <1>3. isSending[Peer(e)] # "STARTING" => Head(sendQueue'[Peer(e)]) = Head(sendQueue[Peer(e)])
    BY <1>2, EndFacts DEF Kinds, TypeOK
  <1>4. \A v \in 1 .. Len(origin) : v \in 1 .. Len(origin') /\ origin'[v] = origin[v]
    <2>1. PICK z, m : z = [user |-> UserOf[c], name |-> n] /\ m = Len(origin) OBVIOUS
    <2>2. origin \in Seq([user : Users, name : Names]) /\ z \in [user : Users, name : Names]
      BY <2>1, NoneFacts DEF Kinds
    <2>3. m \in Nat /\ Len(Append(origin, z)) = m + 1
          /\ \A v \in 1 .. m : Append(origin, z)[v] = origin[v]
      BY <2>1, <2>2, AppendProperties, LenProperties
    <2>4. \A v \in 1 .. m : v \in 1 .. m + 1 BY <2>3
    <2>5. QED BY <1>1, <2>1, <2>3, <2>4
  <1>5. PICK f : f = Peer(e) OBVIOUS
  <1>6. f \in Ends /\ Chan(e)' = Chan(e) /\ Chan(f)' = Chan(f) BY <1>1, <1>5, EndFacts DEF Chan
  <1>7. Same(Chan(e), Chan(e)', FileTypes, 0) /\ Same(Chan(f), Chan(f)', OkType, 0)
    BY <1>6, SameChans
  <1>8. \E k : Same(Chan(Peer(e)), Chan(Peer(e))', OkType, k) BY <1>5, <1>7
  <1>9. QED BY <1>1, <1>3, <1>4, <1>7, <1>8, Keep DEF recvVars

-----------------------------------------------------------------------------
(* The invariant.                                                          *)

WholeIn(o, f, u, n) ==
    f = None \/ \E v \in 1 .. Len(o) : o[v] = [user |-> u, name |-> n] /\ f = Content(v)

LEMMA WholeParts ==
    /\ FilesAreWhole <=>
           \A n \in Names : /\ \A u \in Users : WholeIn(origin, saved[u][n], u, n)
                            /\ \A c \in Clients : WholeIn(origin, disk[c][n], UserOf[c], n)
    /\ FilesAreWhole' <=>
           \A n \in Names : /\ \A u \in Users : WholeIn(origin', saved'[u][n], u, n)
                            /\ \A c \in Clients : WholeIn(origin', disk'[c][n], UserOf[c], n)
  BY DEF FilesAreWhole, Authentic, WholeIn, Content

LEMMA WholeGrows ==
    ASSUME NEW o, NEW p, NEW f, NEW u, NEW n, WholeIn(o, f, u, n),
           \A v \in 1 .. Len(o) : v \in 1 .. Len(p) /\ p[v] = o[v]
    PROVE  WholeIn(p, f, u, n)
  BY DEF WholeIn

\* Only a complete transfer, and the user, change a file.
LEMMA WholeKept ==
    ASSUME FilesAreWhole, saved' = saved, disk' = disk, origin' = origin
    PROVE  FilesAreWhole'
  BY WholeParts

LEMMA WholeRecvCheck ==
    ASSUME Kinds, FilesAreWhole, NEW x \in Ends, RecvCheck(x), Direction(x),
           x[1] = "server" => user[x[2]] = UserOf[x[2]]
    PROVE  FilesAreWhole'
  <1>1. /\ wire[x] # <<>> /\ wire' = Consumed(x) /\ Head(wire[x]).type = "CHECK"
        /\ fileToRecv[x] # None /\ unsent' = unsent /\ origin' = origin
        /\ IF x[1] = "server" THEN SaveAtServer(x[2]) ELSE SaveAtClient(x[2])
    BY DEF RecvCheck, Receives
  <1>2. PICK c, m, file : c = x[2] /\ m = recvFilename[x] /\ file = fileToRecv[x] OBVIOUS
  <1>3. WholeIn(origin, file, UserOf[c], m)
    <2>1. \E v \in 1 .. Len(origin) : /\ origin[v] = [user |-> UserOf[c], name |-> m]
                                      /\ file = Content(v)
      BY <1>1, <1>2, CheckComes DEF Direction
    <2>2. QED BY <2>1 DEF WholeIn
  <1>4. /\ saved \in [Users -> [Names -> FileOr(Seq(Part))]]
        /\ disk \in [Clients -> [Names -> FileOr(Seq(Part))]]
        /\ c \in Clients
    BY <1>2, EndFacts DEF Kinds, TypeOK
  <1>5. CASE x[1] = "server"
    <2>1. x = Server(c) BY <1>2, <1>5, EndFacts
    <2>2. saved' = [saved EXCEPT ![UserOf[c]][m] = file] /\ disk' = disk
      BY <1>1, <1>2, <1>5, <2>1 DEF SaveAtServer
    <2>3. ASSUME NEW n \in Names, NEW u \in Users PROVE WholeIn(origin, saved'[u][n], u, n)
      <3>1. saved'[u][n] = saved[u][n] \/ (u = UserOf[c] /\ n = m /\ saved'[u][n] = file)
        BY <1>4, <2>2
      <3>2. WholeIn(origin, saved[u][n], u, n) BY WholeParts
      <3>3. QED BY <1>3, <3>1, <3>2
    <2>4. \A n \in Names, d \in Clients : WholeIn(origin, disk'[d][n], UserOf[d], n)
      BY <2>2, WholeParts
    <2>5. QED BY <1>1, <2>3, <2>4, WholeParts
  <1>6. CASE x[1] # "server"
    <2>1. x = Client(c) BY <1>2, <1>6, EndFacts
    <2>2. disk' = [disk EXCEPT ![c][m] = file] /\ saved' = saved
      BY <1>1, <1>2, <1>6, <2>1 DEF SaveAtClient
    <2>3. ASSUME NEW n \in Names, NEW d \in Clients PROVE WholeIn(origin, disk'[d][n], UserOf[d], n)
      <3>1. disk'[d][n] = disk[d][n] \/ (d = c /\ n = m /\ disk'[d][n] = file)
        BY <1>4, <2>2
      <3>2. WholeIn(origin, disk[d][n], UserOf[d], n) BY WholeParts
      <3>3. QED BY <1>3, <3>1, <3>2
    <2>4. \A n \in Names, u \in Users : WholeIn(origin, saved'[u][n], u, n)
      BY <2>2, WholeParts
    <2>5. QED BY <1>1, <2>3, <2>4, WholeParts
  <1>7. QED BY <1>5, <1>6

LEMMA WholePut ==
    ASSUME Kinds, FilesAreWhole, NEW c \in Clients, NEW m \in Names, Put(c, m)
    PROVE  FilesAreWhole'
  <1>1. PICK z, k : z = [user |-> UserOf[c], name |-> m] /\ k = Len(origin) OBVIOUS
  <1>2. /\ \/ origin' = Append(origin, z) /\ disk' = [disk EXCEPT ![c][m] = Content(Len(origin'))]
           \/ origin' = origin /\ disk' = disk
        /\ saved' = saved
    BY <1>1 DEF Put
  <1>3. CASE origin' = origin /\ disk' = disk BY <1>2, <1>3, WholeKept
  <1>4. CASE origin' = Append(origin, z) /\ disk' = [disk EXCEPT ![c][m] = Content(Len(origin'))]
    <2>1. origin \in Seq([user : Users, name : Names]) /\ z \in [user : Users, name : Names]
      BY <1>1, NoneFacts DEF Kinds
    <2>2. /\ k \in Nat /\ Len(origin') = k + 1 /\ origin'[k + 1] = z
          /\ \A v \in 1 .. k : origin'[v] = origin[v]
      BY <1>1, <1>4, <2>1, AppendProperties, LenProperties
    <2>3. /\ \A v \in 1 .. Len(origin) : v \in 1 .. Len(origin') /\ origin'[v] = origin[v]
          /\ k + 1 \in 1 .. Len(origin')
      BY <1>1, <2>2
    <2>4. disk \in [Clients -> [Names -> FileOr(Seq(Part))]] BY DEF Kinds, TypeOK
    <2>5. ASSUME NEW n \in Names, NEW u \in Users PROVE WholeIn(origin', saved'[u][n], u, n)
      <3>1. WholeIn(origin, saved[u][n], u, n) BY WholeParts
      <3>2. WholeIn(origin', saved[u][n], u, n) BY <2>3, <3>1, WholeGrows
      <3>3. QED BY <1>2, <3>2
    <2>6. ASSUME NEW n \in Names, NEW d \in Clients
          PROVE  WholeIn(origin', disk'[d][n], UserOf[d], n)
      <3>1. WholeIn(origin, disk[d][n], UserOf[d], n) BY WholeParts
      <3>2. WholeIn(origin', disk[d][n], UserOf[d], n) BY <2>3, <3>1, WholeGrows
      <3>3. CASE d = c /\ n = m
        <4>1. disk'[d][n] = Content(k + 1) BY <1>4, <2>2, <2>4, <3>3
        <4>2. origin'[k + 1] = [user |-> UserOf[d], name |-> n] BY <1>1, <2>2, <3>3
        <4>3. QED BY <2>3, <4>1, <4>2 DEF WholeIn
      <3>4. CASE ~(d = c /\ n = m)
        <4>1. disk'[d][n] = disk[d][n] BY <1>4, <2>4, <3>4
        <4>2. QED BY <3>2, <4>1
      <3>5. QED BY <3>3, <3>4
    <2>7. QED BY <2>5, <2>6, WholeParts
  <1>5. QED BY <1>2, <1>3, <1>4

Nameds == \A c \in Clients : open[Server(c)] => Named(c)

Directions == \A e \in Ends : open[e] => Direction(e)

LEMMA IInvParts ==
    /\ IInv <=> Kinds /\ FilesAreWhole /\ Nameds /\ Directions
    /\ IInv' <=> Kinds' /\ FilesAreWhole' /\ Nameds' /\ Directions'
  BY DEF IInv, Nameds, Directions

LEMMA UserKnown ==
    ASSUME Kinds, Nameds, NEW x \in Ends, wire[x] # <<>>, Head(wire[x]).type # "NAME", open[x]
    PROVE  x[1] = "server" => user[x[2]] = UserOf[x[2]] /\ user[x[2]] \in Users
  <1>1. SUFFICES ASSUME x[1] = "server" PROVE user[x[2]] = UserOf[x[2]]
    BY EndFacts, NoneFacts
  <1>2. PICK c : c = x[2] OBVIOUS
  <1>3. c \in Clients /\ x = Server(c) BY <1>1, <1>2, EndFacts
  <1>4. Named(c) BY <1>3 DEF Nameds
  <1>5. user[c] = UserOf[c] BY <1>3, <1>4, NamedBefore
  <1>6. QED BY <1>2, <1>5

LEMMA NamedsAfterPop ==
    ASSUME Kinds, Nameds, NEW x \in Ends, wire[x] # <<>>, Head(wire[x]).type # "NAME", open[x],
           wire' = Consumed(x), unsent' = unsent, user' = user, open' = open,
           \A e \in Ends : e # x => fileToRecv'[e] = fileToRecv[e]
    PROVE  Nameds'
  <1>1. SUFFICES ASSUME NEW c \in Clients, open[Server(c)] PROVE Named(c)'
    BY DEF Nameds
  <1>2. Named(c) /\ Server(c) \in Ends BY <1>1, EndFacts DEF Nameds
  <1>3. CASE Server(c) = x
    <2>1. user[c] = UserOf[c] BY <1>2, <1>3, NamedBefore
    <2>2. PICK ch : ch = Chan(Server(c)) OBVIOUS
    <2>3. ch # <<>> /\ Chan(Server(c))' = Tail(ch) BY <1>3, <2>2, ChanPop
    <2>4. QED BY <1>2, <2>1, <2>2, <2>3, NamedPop
  <1>4. CASE Server(c) # x
    <2>1. Chan(Server(c))' = Chan(Server(c)) BY <1>2, <1>4, ChanPop
    <2>2. user[c] = None => fileToRecv'[Server(c)] = None BY <1>2, <1>4 DEF Named
    <2>3. QED BY <1>2, <2>1, <2>2, NamedSame
  <1>5. QED BY <1>3, <1>4

LEMMA NamedsAfterPush ==
    ASSUME Kinds, Nameds, NEW x \in Ends, NEW p \in Packet, p.type # "NAME", open[x],
           unsent[x] = None, sendToClient(x, p),
           user' = user, open' = open, fileToRecv' = fileToRecv
    PROVE  Nameds'
  <1>1. SUFFICES ASSUME NEW c \in Clients, open[Server(c)] PROVE Named(c)'
    BY DEF Nameds
  <1>2. Named(c) /\ Server(c) \in Ends BY <1>1, EndFacts DEF Nameds
  <1>3. CASE Server(c) = Peer(x)
    <2>1. x = Client(c) /\ open[Peer(x)] BY <1>1, <1>3, EndFacts
    <2>2. PICK ch : ch = Chan(Server(c)) OBVIOUS
    <2>3. Chan(Server(c))' = Append(ch, p) BY <1>3, <2>1, <2>2, ChanPush
    <2>4. QED BY <1>2, <2>1, <2>2, <2>3, NamedPush
  <1>4. CASE Server(c) # Peer(x)
    <2>1. Chan(Server(c))' = Chan(Server(c)) BY <1>2, <1>4, ChanPush
    <2>2. user[c] = None => fileToRecv'[Server(c)] = None BY <1>2 DEF Named
    <2>3. QED BY <1>2, <2>1, <2>2, NamedSame
  <1>5. QED BY <1>3, <1>4

LEMMA NamedsStill ==
    ASSUME Nameds, user' = user, open' = open, fileToRecv' = fileToRecv,
           \A e \in Ends : open[e] => Chan(e)' = Chan(e)
    PROVE  Nameds'
  <1>1. SUFFICES ASSUME NEW c \in Clients, open[Server(c)] PROVE Named(c)'
    BY DEF Nameds
  <1>2. Named(c) /\ Server(c) \in Ends BY <1>1, EndFacts DEF Nameds
  <1>3. Chan(Server(c))' = Chan(Server(c)) BY <1>1, <1>2
  <1>4. user[c] = None => fileToRecv'[Server(c)] = None BY <1>2 DEF Named
  <1>5. QED BY <1>2, <1>3, <1>4, NamedSame

LEMMA NamedsRecvName ==
    ASSUME Kinds, Nameds, NEW c \in Clients, RecvName(c)
    PROVE  Arg(Server(c)) = UserOf[c] /\ Nameds'
  <1>1. PICK x : x = Server(c) OBVIOUS
  <1>2. /\ x \in Ends /\ open[x] /\ wire[x] # <<>> /\ wire' = Consumed(x)
        /\ Head(wire[x]).type = "NAME" /\ user' = [user EXCEPT ![c] = Arg(x)]
        /\ unsent' = unsent /\ open' = open /\ fileToRecv' = fileToRecv
    BY <1>1, EndFacts DEF RecvName, Receives, recvVars
  <1>3. Named(c) BY <1>1, <1>2 DEF Nameds
  <1>4. Arg(x) = UserOf[c] BY <1>1, <1>2, <1>3, NamedBefore
  <1>5. user \in [Clients -> FileOr(Users)] BY DEF Kinds, TypeOK
  <1>6. ASSUME NEW d \in Clients, open[Server(d)] PROVE Named(d)'
    <2>1. Named(d) /\ Server(d) \in Ends BY <1>6, EndFacts DEF Nameds
    <2>2. CASE d = c
      <3>1. user'[d] = UserOf[d] BY <1>2, <1>4, <1>5, <2>2
      <3>2. PICK ch : ch = Chan(Server(d)) OBVIOUS
      <3>3. ch # <<>> /\ Chan(Server(d))' = Tail(ch) BY <1>1, <1>2, <2>2, <3>2, ChanPop
      <3>4. QED BY <2>1, <3>1, <3>2, <3>3, NamedPop
    <2>3. CASE d # c
      <3>1. Server(d) # x BY <1>1, <2>3, EndFacts
      <3>2. Chan(Server(d))' = Chan(Server(d)) BY <1>2, <2>1, <3>1, ChanPop
      <3>3. user'[d] = user[d] BY <1>2, <1>5, <2>3
      <3>4. user[d] = None => fileToRecv'[Server(d)] = None BY <1>2, <2>1 DEF Named
      <3>5. QED BY <1>2, <2>1, <3>2, <3>3, <3>4, NamedSame
    <2>4. QED BY <2>2, <2>3
  <1>7. Nameds' BY <1>2, <1>6 DEF Nameds
  <1>8. QED BY <1>1, <1>4, <1>7

LEMMA NamedsJoin ==
    ASSUME Kinds, Nameds, NEW c \in Clients, Join(c)
    PROVE  Nameds'
  <1>1. PICK s, x : s = Server(c) /\ x = Client(c) OBVIOUS
  <1>2. /\ s \in Ends /\ x \in Ends /\ open' = [open EXCEPT ![x] = TRUE, ![s] = TRUE]
        /\ user' = [user EXCEPT ![c] = None] /\ fileToRecv' = fileToRecv
        /\ \/ \E w : wire' = [wire EXCEPT ![s] = w] /\ unsent' = unsent
           \/ \E p : unsent' = [unsent EXCEPT ![x] = p] /\ wire' = wire
    BY <1>1, EndFacts DEF Join, recvVars
  <1>3. /\ wire \in [Ends -> Seq(Packet)] /\ unsent \in [Ends -> FileOr(Packet)]
        /\ user \in [Clients -> FileOr(Users)] /\ open \in [Ends -> BOOLEAN]
    BY DEF Kinds, TypeOK
  <1>4. ASSUME NEW d \in Clients, open'[Server(d)] PROVE Named(d)'
    <2>1. CASE d = c BY <2>1, NamedJoin
    <2>2. CASE d # c
      <3>1. /\ Server(d) \in Ends /\ Client(d) \in Ends /\ Peer(Server(d)) = Client(d)
            /\ Server(d) \notin {s, x} /\ Client(d) \notin {s, x}
        BY <1>1, <2>2, EndFacts
      <3>2. open'[Server(d)] = open[Server(d)] /\ open'[Client(d)] = open[Client(d)]
        BY <1>2, <1>3, <3>1
      <3>3. wire'[Server(d)] = wire[Server(d)] /\ unsent'[Client(d)] = unsent[Client(d)]
        BY <1>2, <1>3, <3>1
      <3>4. user'[d] = user[d] BY <1>2, <1>3, <2>2
      <3>5. Named(d) BY <1>4, <3>2 DEF Nameds
      <3>6. Chan(Server(d))' = Chan(Server(d)) BY <3>1, <3>3 DEF Chan
      <3>7. user[d] = None => fileToRecv'[Server(d)] = None BY <1>2, <3>5 DEF Named
      <3>8. QED BY <3>2, <3>4, <3>5, <3>6, <3>7, NamedSame
    <2>3. QED BY <2>1, <2>2
  <1>5. QED BY <1>4 DEF Nameds

LEMMA NamedsReset ==
    ASSUME Kinds, Nameds, NEW x \in Ends, Reset({x}), unsent' = [unsent EXCEPT ![x] = None],
           wire' = [wire EXCEPT ![x] = <<>>], user' = user
    PROVE  Nameds'
  <1>1. ~open'[x] /\ unsent'[x] = None BY DEF Reset, Kinds, TypeOK
  <1>2. ASSUME NEW d \in Clients, open'[Server(d)] PROVE Named(d)'
    <2>1. /\ Server(d) \in Ends /\ Client(d) \in Ends /\ Peer(Server(d)) = Client(d)
          /\ Server(d) # x
      BY <1>1, <1>2, EndFacts
    <2>2. /\ open'[Server(d)] = open[Server(d)] /\ wire'[Server(d)] = wire[Server(d)]
          /\ fileToRecv'[Server(d)] = fileToRecv[Server(d)]
      BY <2>1, ResetElsewhere
    <2>3. Named(d) BY <1>2, <2>2 DEF Nameds
    <2>4. CASE Client(d) # x
      <3>1. open'[Client(d)] = open[Client(d)] /\ unsent'[Client(d)] = unsent[Client(d)]
        BY <2>1, <2>4, ResetElsewhere
      <3>2. Chan(Server(d))' = Chan(Server(d)) BY <2>1, <2>2, <3>1 DEF Chan
      <3>3. user[d] = None => fileToRecv'[Server(d)] = None BY <2>2, <2>3 DEF Named
      <3>4. QED BY <2>3, <3>1, <3>2, <3>3, NamedSame
    <2>5. CASE Client(d) = x
      <3>1. Chan(Server(d))' = wire[Server(d)] BY <1>1, <2>1, <2>2, <2>5 DEF Chan
      <3>2. CASE unsent[x] = None
        <4>1. Chan(Server(d))' = Chan(Server(d)) BY <2>1, <2>5, <3>1, <3>2 DEF Chan
        <4>2. user[d] = None => fileToRecv'[Server(d)] = None BY <2>2, <2>3 DEF Named
        <4>3. open'[Client(d)] => open[Client(d)] BY <1>1, <2>5
        <4>4. QED BY <2>3, <4>1, <4>2, <4>3, NamedSame
      <3>3. CASE unsent[x] # None
        <4>1. PICK w, p : w = wire[Server(d)] /\ p = unsent[x] OBVIOUS
        <4>2. w \in Seq(Packet) /\ p \in Packet BY <2>1, <3>3, <4>1, Channels
        <4>3. Chan(Server(d)) = Append(w, p) /\ Chan(Server(d))' = w
          BY <2>1, <2>5, <3>1, <3>3, <4>1 DEF Chan
        <4>4. ~open'[Client(d)] BY <1>1, <2>5
        <4>5. QED BY <2>2, <2>3, <4>2, <4>3, <4>4, NamedDrop
      <3>4. QED BY <3>2, <3>3
    <2>6. QED BY <2>4, <2>5
  <1>3. QED BY <1>2 DEF Nameds

LEMMA StepReceive ==
    ASSUME IInv, NEW x \in Ends, Receive(x)
    PROVE  IInv'
  <1>1. Kinds /\ FilesAreWhole /\ Nameds /\ Directions BY IInvParts
  <1>2. \A d \in Clients : open[Server(d)] => user[d] \in {None, UserOf[d]}
    BY <1>1 DEF Nameds, Named
  <1>3. CASE x[1] = "server" /\ RecvName(x[2])
    <2>1. PICK c : c = x[2] OBVIOUS
    <2>2. c \in Clients /\ RecvName(c) BY <1>3, <2>1, EndFacts
    <2>3. Arg(Server(c)) = UserOf[c] /\ Nameds' BY <1>1, <2>2, NamedsRecvName
    <2>4. Kinds' BY <1>1, <2>2, <2>3, KindsRecvName
    <2>5. open' = open /\ saved' = saved /\ disk' = disk /\ origin' = origin
      BY <2>2 DEF RecvName, history
    <2>6. FilesAreWhole' BY <1>1, <2>5, WholeKept
    <2>7. Directions' BY <1>1, <2>2, <2>3, <2>5, DirRecvName DEF Directions, Direction
    <2>8. QED BY <2>3, <2>4, <2>6, <2>7, IInvParts
  <1>4. CASE RecvPut(x)
    <2>1. /\ wire[x] # <<>> /\ Head(wire[x]).type = "PUT" /\ open[x]
          /\ wire' = Consumed(x) /\ unsent' = unsent /\ user' = user /\ open' = open
          /\ saved' = saved /\ disk' = disk /\ origin' = origin
          /\ \A e \in Ends : e # x => fileToRecv'[e] = fileToRecv[e]
      <3>1. /\ wire[x] # <<>> /\ Head(wire[x]).type = "PUT" /\ open[x]
            /\ wire' = Consumed(x) /\ unsent' = unsent /\ user' = user /\ open' = open
            /\ saved' = saved /\ disk' = disk /\ origin' = origin
        BY <1>4 DEF RecvPut, Receives, history
      <3>2. \/ fileToRecv' = [fileToRecv EXCEPT ![x] = <<>>]
            \/ fileToRecv' = [fileToRecv EXCEPT ![x] = None]
        BY <1>4 DEF RecvPut
      <3>3. \A e \in Ends : e # x => fileToRecv'[e] = fileToRecv[e]
        BY <1>1, <3>2 DEF Kinds, TypeOK
      <3>4. QED BY <3>1, <3>3
    <2>2. x[1] = "server" => user[x[2]] \in Users BY <1>1, <2>1, UserKnown
    <2>3. Kinds' BY <1>1, <1>4, <2>2, KindsRecvPut
    <2>4. FilesAreWhole' BY <1>1, <2>1, WholeKept
    <2>5. Nameds' BY <1>1, <2>1, NamedsAfterPop
    <2>6. Directions' BY <1>1, <1>4, <2>1, DirRecvPut DEF Directions, Direction
    <2>7. QED BY <2>3, <2>4, <2>5, <2>6, IInvParts
  <1>5. CASE RecvData(x)
    <2>1. /\ wire[x] # <<>> /\ Head(wire[x]).type = "DATA" /\ open[x]
          /\ wire' = Consumed(x) /\ unsent' = unsent /\ user' = user /\ open' = open
          /\ saved' = saved /\ disk' = disk /\ origin' = origin
      BY <1>5 DEF RecvData, Receives, fileVars, history
    <2>2. \A e \in Ends : e # x => fileToRecv'[e] = fileToRecv[e]
      <3>1. fileToRecv' = IF fileToRecv[x] = None THEN fileToRecv
                          ELSE [fileToRecv EXCEPT ![x] = Append(@, Arg(x))]
        BY <1>5 DEF RecvData
      <3>2. QED BY <1>1, <3>1 DEF Kinds, TypeOK
    <2>3. Kinds' BY <1>1, <1>5, KindsRecvData
    <2>4. FilesAreWhole' BY <1>1, <2>1, WholeKept
    <2>5. Nameds' BY <1>1, <2>1, <2>2, NamedsAfterPop
    <2>6. Directions' BY <1>1, <1>5, <2>1, DirRecvData DEF Directions, Direction
    <2>7. QED BY <2>3, <2>4, <2>5, <2>6, IInvParts
  <1>6. CASE RecvCheck(x)
    <2>1. /\ wire[x] # <<>> /\ Head(wire[x]).type = "CHECK" /\ open[x]
          /\ wire' = Consumed(x) /\ unsent' = unsent /\ user' = user /\ open' = open
          /\ fileToRecv' = [fileToRecv EXCEPT ![x] = None]
      BY <1>6 DEF RecvCheck, Receives
    <2>2. \A e \in Ends : e # x => fileToRecv'[e] = fileToRecv[e]
      BY <1>1, <2>1 DEF Kinds, TypeOK
    <2>3. x[1] = "server" => user[x[2]] = UserOf[x[2]] BY <1>1, <2>1, UserKnown
    <2>4. Direction(x) BY <1>1, <2>1 DEF Directions
    <2>5. Kinds' BY <1>1, <1>2, <1>6, <2>3, KindsRecvCheck
    <2>6. FilesAreWhole' BY <1>1, <1>6, <2>3, <2>4, WholeRecvCheck
    <2>7. Nameds' BY <1>1, <2>1, <2>2, NamedsAfterPop
    <2>8. Directions' BY <1>1, <1>2, <1>6, <2>1, <2>3, DirRecvCheck DEF Directions, Direction
    <2>9. QED BY <2>5, <2>6, <2>7, <2>8, IInvParts
  <1>7. CASE RecvCheckIgnored(x)
    <2>1. /\ wire[x] # <<>> /\ Head(wire[x]).type = "CHECK" /\ open[x]
          /\ wire' = Consumed(x) /\ unsent' = unsent /\ user' = user /\ open' = open
          /\ saved' = saved /\ disk' = disk /\ origin' = origin
          /\ \A e \in Ends : e # x => fileToRecv'[e] = fileToRecv[e]
      BY <1>7 DEF RecvCheckIgnored, Receives, recvVars, fileVars, history
    <2>2. Kinds' BY <1>1, <1>7, KindsRecvCheckIgnored
    <2>3. FilesAreWhole' BY <1>1, <2>1, WholeKept
    <2>4. Nameds' BY <1>1, <2>1, NamedsAfterPop
    <2>5. Directions' BY <1>1, <1>7, <2>1, DirRecvCheckIgnored DEF Directions, Direction
    <2>6. QED BY <2>2, <2>3, <2>4, <2>5, IInvParts
  <1>8. CASE RecvOk(x)
    <2>1. /\ wire[x] # <<>> /\ Head(wire[x]).type = "OK" /\ open[x]
          /\ wire' = Consumed(x) /\ unsent' = unsent /\ user' = user /\ open' = open
          /\ saved' = saved /\ disk' = disk /\ origin' = origin
          /\ \A e \in Ends : e # x => fileToRecv'[e] = fileToRecv[e]
      BY <1>8 DEF RecvOk, Receives, recvVars, fileVars, history
    <2>2. Kinds' BY <1>1, <1>8, KindsRecvOk
    <2>3. FilesAreWhole' BY <1>1, <2>1, WholeKept
    <2>4. Nameds' BY <1>1, <2>1, NamedsAfterPop
    <2>5. Directions' BY <1>1, <1>8, <2>1, DirRecvOk DEF Directions, Direction
    <2>6. QED BY <2>2, <2>3, <2>4, <2>5, IInvParts
  <1>9. QED BY <1>3, <1>4, <1>5, <1>6, <1>7, <1>8 DEF Receive

LEMMA StepWrite ==
    ASSUME IInv, NEW x \in Ends, Write(x)
    PROVE  IInv'
  <1>1. Kinds /\ FilesAreWhole /\ Nameds /\ Directions BY IInvParts
  <1>2. UNCHANGED <<open, fileToRecv, recvFilename, fileVars, history>>
    BY DEF Write, trySendToClientAgain, sendCheckResult, StopWriting, StartFile, SkipFile,
           SendData, SendCheck, recvVars
  <1>3. /\ open' = open /\ fileToRecv' = fileToRecv /\ user' = user
        /\ saved' = saved /\ disk' = disk /\ origin' = origin
    BY <1>2 DEF fileVars, history
  <1>4. FilesAreWhole' BY <1>1, <1>3, WholeKept
  <1>5. CASE trySendToClientAgain(x)
    <2>1. Kinds' BY <1>1, <1>5, KindsAgain
    <2>2. \A e \in Ends : open[e] => Chan(e)' = Chan(e) BY <1>1, <1>5, ChanAgain
    <2>3. Nameds' BY <1>1, <1>3, <2>2, NamedsStill
    <2>4. Directions' BY <1>1, <1>3, <1>5, DirAgain DEF Directions, Direction
    <2>5. QED BY <1>4, <2>1, <2>3, <2>4, IInvParts
  <1>6. CASE sendCheckResult(x)
    <2>1. Kinds' BY <1>1, <1>6, KindsCheckResult
    <2>2. open[x] /\ unsent[x] = None /\ sendToClient(x, Message("OK", None))
      BY <1>6 DEF sendCheckResult, Free, Writes
    <2>3. Message("OK", None) \in Packet /\ Message("OK", None).type # "NAME" BY PacketFacts
    <2>4. Nameds' BY <1>1, <1>3, <2>2, <2>3, NamedsAfterPush
    <2>5. Directions' BY <1>1, <1>3, <1>6, DirCheckResult DEF Directions, Direction
    <2>6. QED BY <1>4, <2>1, <2>4, <2>5, IInvParts
  <1>7. CASE StopWriting(x)
    <2>1. Kinds' BY <1>1, <1>7, KindsStopWriting
    <2>2. \A e \in Ends : Chan(e)' = Chan(e) BY <1>7 DEF StopWriting, Chan
    <2>3. Nameds' BY <1>1, <1>3, <2>2, NamedsStill
    <2>4. Directions' BY <1>1, <1>3, <1>7, DirStopWriting DEF Directions, Direction
    <2>5. QED BY <1>4, <2>1, <2>3, <2>4, IInvParts
  <1>8. CASE StartFile(x)
    <2>1. Kinds' BY <1>1, <1>8, KindsStartFile
    <2>2. PICK qi, p : qi = Head(sendQueue[x]) /\ p = Message("PUT", qi.filename) OBVIOUS
    <2>3. /\ open[x] /\ unsent[x] = None /\ sendToClient(x, p)
          /\ sendQueue[x] # <<>> /\ FileAt(x, qi) # None
      BY <1>8, <2>2 DEF StartFile, Queued, Free, Writes
    <2>4. qi.filename \in Names BY <1>1, <2>2, <2>3, Opened
    <2>5. p \in Packet /\ p.type # "NAME" BY <2>2, <2>4, PacketFacts
    <2>6. Nameds' BY <1>1, <1>3, <2>3, <2>5, NamedsAfterPush
    <2>7. Directions' BY <1>1, <1>3, <1>8, DirStartFile DEF Directions, Direction
    <2>8. QED BY <1>4, <2>1, <2>6, <2>7, IInvParts
  <1>9. CASE SkipFile(x)
    <2>1. Kinds' BY <1>1, <1>9, KindsSkipFile
    <2>2. \A e \in Ends : Chan(e)' = Chan(e) BY <1>9 DEF SkipFile, Chan
    <2>3. Nameds' BY <1>1, <1>3, <2>2, NamedsStill
    <2>4. Directions' BY <1>1, <1>3, <1>9, DirSkipFile DEF Directions, Direction
    <2>5. QED BY <1>4, <2>1, <2>3, <2>4, IInvParts
  <1>10. CASE SendData(x)
    <2>1. Kinds' BY <1>1, <1>10, KindsSendData
    <2>2. PICK file, p : file = fileToSend[x] /\ p = Message("DATA", Head(file)) OBVIOUS
    <2>3. /\ open[x] /\ unsent[x] = None /\ sendToClient(x, p)
          /\ isSending[x] = "SENDING" /\ file # <<>>
      BY <1>10, <2>2 DEF SendData, Queued, Free, Writes
    <2>4. file \in Seq(Part) BY <1>1, <2>2, <2>3 DEF Kinds, TypeOK, FileOr
    <2>5. Head(file) \in Part BY <2>3, <2>4, HeadTailProperties
    <2>6. p \in Packet /\ p.type # "NAME" BY <2>2, <2>5, PacketFacts
    <2>7. Nameds' BY <1>1, <1>3, <2>3, <2>6, NamedsAfterPush
    <2>8. Directions' BY <1>1, <1>3, <1>10, DirSendData DEF Directions, Direction
    <2>9. QED BY <1>4, <2>1, <2>7, <2>8, IInvParts
  <1>11. CASE SendCheck(x)
    <2>1. Kinds' BY <1>1, <1>11, KindsSendCheck
    <2>2. open[x] /\ unsent[x] = None /\ sendToClient(x, Message("CHECK", None))
      BY <1>11 DEF SendCheck, Queued, Free, Writes
    <2>3. Message("CHECK", None) \in Packet /\ Message("CHECK", None).type # "NAME"
      BY PacketFacts
    <2>4. Nameds' BY <1>1, <1>3, <2>2, <2>3, NamedsAfterPush
    <2>5. Directions' BY <1>1, <1>3, <1>11, DirSendCheck DEF Directions, Direction
    <2>6. QED BY <1>4, <2>1, <2>4, <2>5, IInvParts
  <1>12. QED BY <1>5, <1>6, <1>7, <1>8, <1>9, <1>10, <1>11 DEF Write

LEMMA StepUsers ==
    ASSUME IInv, NEW c \in Clients,
           Join(c) \/ Leave(c) \/ destroyClient(c) \/ \E n \in Names : Put(c, n)
    PROVE  IInv'
  <1>1. Kinds /\ FilesAreWhole /\ Nameds /\ Directions BY IInvParts
  <1>2. Server(c) \in Ends /\ Client(c) \in Ends BY EndFacts
  <1>3. open \in [Ends -> BOOLEAN] BY <1>1 DEF Kinds, TypeOK
  <1>4. CASE Join(c)
    <2>1. saved' = saved /\ disk' = disk /\ origin' = origin BY <1>4 DEF Join
    <2>2. Kinds' /\ FilesAreWhole' /\ Nameds'
      BY <1>1, <1>4, <2>1, KindsJoin, WholeKept, NamedsJoin
    <2>3. Directions' BY <1>1, <1>4, DirJoin DEF Directions, Direction
    <2>4. QED BY <2>2, <2>3, IInvParts
  <1>5. CASE Leave(c)
    <2>1. /\ saved' = saved /\ disk' = disk /\ origin' = origin /\ user' = user
          /\ Reset({Client(c)}) /\ unsent' = [unsent EXCEPT ![Client(c)] = None]
          /\ wire' = [wire EXCEPT ![Client(c)] = <<>>]
      BY <1>5 DEF Leave, fileVars, history
    <2>2. Kinds' /\ FilesAreWhole' /\ Nameds'
      BY <1>1, <1>2, <1>5, <2>1, KindsLeave, WholeKept, NamedsReset
    <2>3. \A e \in Ends : open'[e] => open[e] BY <2>1 DEF Reset
    <2>4. Directions' BY <1>1, <1>5, <2>3, DirLeave DEF Directions, Direction
    <2>5. QED BY <2>2, <2>4, IInvParts
  <1>6. CASE destroyClient(c)
    <2>1. /\ saved' = saved /\ disk' = disk /\ origin' = origin /\ user' = user
          /\ Reset({Server(c)}) /\ unsent' = [unsent EXCEPT ![Server(c)] = None]
          /\ wire' = [wire EXCEPT ![Server(c)] = <<>>]
      BY <1>6 DEF destroyClient, fileVars, history
    <2>2. Kinds' /\ FilesAreWhole' /\ Nameds'
      BY <1>1, <1>2, <1>6, <2>1, KindsDestroy, WholeKept, NamedsReset
    <2>3. \A e \in Ends : open'[e] => open[e] BY <2>1 DEF Reset
    <2>4. Directions' BY <1>1, <1>6, <2>3, DirDestroy DEF Directions, Direction
    <2>5. QED BY <2>2, <2>4, IInvParts
  <1>7. CASE \E n \in Names : Put(c, n)
    <2>1. PICK n \in Names : Put(c, n) BY <1>7
    <2>2. /\ open' = open /\ user' = user /\ fileToRecv' = fileToRecv /\ wire' = wire
          /\ unsent' = unsent
      BY <2>1 DEF Put, recvVars
    <2>3. \A e \in Ends : Chan(e)' = Chan(e) BY <2>2 DEF Chan
    <2>4. Kinds' /\ FilesAreWhole' BY <1>1, <2>1, KindsPut, WholePut
    <2>5. Nameds' BY <1>1, <2>2, <2>3, NamedsStill
    <2>6. Directions' BY <1>1, <2>1, <2>2, DirPut DEF Directions, Direction
    <2>7. QED BY <2>4, <2>5, <2>6, IInvParts
  <1>8. QED BY <1>4, <1>5, <1>6, <1>7

LEMMA InitIInv ==
    ASSUME Init
    PROVE  IInv
  <1>1. /\ <<>> \in Seq(Packet) /\ <<>> \in Seq([filename : Names, owner : FileOr(Users)])
        /\ <<>> \in Seq([user : Users, name : Names]) /\ Len(<<>>) = 0
    BY EmptySeq
  <1>2. TypeOK
    <2>1. Underway BY DEF Init, Underway
    <2>2. QED BY <1>1, <2>1 DEF Init, TypeOK, Underway, FileOr
  <1>3. Others
    <2>1. \A e \in Ends : ~open[e] /\ Closed(e) /\ fileToRecv[e] = None
      BY DEF Init, Closed
    <2>2. \A c \in Clients : ~open[Client(c)] BY <2>1, EndFacts
    <2>3. \A c \in Clients : Owned(c)
      <3>1. SUFFICES ASSUME NEW c \in Clients PROVE Owned(c) OBVIOUS
      <3>2. sendQueue[Server(c)] = <<>> BY EndFacts DEF Init
      <3>3. QED BY <1>1, <3>2 DEF Owned
    <2>4. \A u \in Users : IsFiniteSet(known[u]) BY FS_EmptySet DEF Init
    <2>5. \A c \in Clients : open[Client(c)] => open[Server(c)] BY <2>2
    <2>6. origin = <<>> /\ puts = 0 BY DEF Init
    <2>7. puts \in Nat /\ puts <= MaxPuts /\ Len(origin) <= puts
      BY <1>1, <2>6, DropboxAssumption DEF DropboxAssumption
    <2>8. origin \in Seq([user : Users, name : Names]) BY <1>1, <2>6
    <2>9. QED BY <2>1, <2>3, <2>4, <2>5, <2>7, <2>8 DEF Others
  <1>4. Kinds BY <1>2, <1>3 DEF Kinds, Others
  <1>5. FilesAreWhole BY DEF Init, FilesAreWhole, Authentic
  <1>6. \A e \in Ends : ~open[e] BY DEF Init
  <1>7. Nameds /\ Directions BY <1>6, EndFacts DEF Nameds, Directions
  <1>8. QED BY <1>4, <1>5, <1>7, IInvParts

LEMMA StepIInv ==
    ASSUME IInv, [Next]_vars
    PROVE  IInv'
  <1>1. CASE UNCHANGED vars
    <2>1. UNCHANGED <<open, sendQueue, isSending, fileToSend, isRecving, fileToRecv, recvFilename,
                      pollOut, unsent, wire, user, known, saved, disk, origin, uploader, joins, puts>>
      BY <1>1 DEF vars, connVars, sendVars, recvVars, fileVars, history
    <2>2. Kinds /\ FilesAreWhole /\ Nameds /\ Directions BY IInvParts
    <2>3. \A e \in Ends : Chan(e)' = Chan(e) BY <2>1 DEF Chan
    <2>4. Kinds' BY <2>1, <2>2 DEF Kinds, TypeOK, Closed, Owned
    <2>5. FilesAreWhole' BY <2>1, <2>2, WholeKept
    <2>6. Nameds' BY <2>1, <2>2, <2>3, NamedsStill
    <2>7. ASSUME NEW e \in Ends, open[e] PROVE Direction(e)'
      <3>1. Direction(e) BY <2>2, <2>7 DEF Directions
      <3>2. QED BY <2>1, <2>2, <3>1, Elsewhere DEF Direction
    <2>8. Directions' BY <2>1, <2>7 DEF Directions
    <2>9. QED BY <2>4, <2>5, <2>6, <2>8, IInvParts
  <1>2. CASE Next
    <2>1. CASE \E e \in Ends : Receive(e) \/ Write(e) BY <2>1, StepReceive, StepWrite
    <2>2. CASE \E c \in Clients : destroyClient(c) \/ Join(c) \/ Leave(c) BY <2>2, StepUsers
    <2>3. CASE \E c \in Clients, n \in Names : Put(c, n) BY <2>3, StepUsers
    <2>4. QED BY <1>2, <2>1, <2>2, <2>3 DEF Next, Work
  <1>3. QED BY <1>1, <1>2

LEMMA Answering ==
    ASSUME IInv
    PROVE  OkIsForHead
  <1>1. Kinds /\ Directions BY IInvParts
  <1>2. SUFFICES ASSUME NEW e \in Ends, open[e], open[Peer(e)], OkFor(e)
                 PROVE  /\ isSending[e] = "CHECKING" /\ sendQueue[e] # <<>>
                        /\ Head(sendQueue[e]).filename = recvFilename[Peer(e)]
    BY DEF OkIsForHead
  <1>3. PICK d : d = Peer(e) OBVIOUS
  <1>4. d \in Ends /\ Peer(d) = e /\ open[d] BY <1>2, <1>3, EndFacts
  <1>5. Direction(d) BY <1>1, <1>4 DEF Directions
  <1>6. ~Unanswered(d)
    <2>1. SUFFICES ASSUME Unanswered(d) PROVE FALSE OBVIOUS
    <2>2. PICK w, ch : w = wire[e] /\ ch = Chan(e) OBVIOUS
    <2>3. isRecving[d] # "OK" /\ \A i \in 1 .. Len(ch) : ch[i].type # "OK"
      BY <1>4, <2>1, <2>2 DEF Unanswered, Without, OkType
    <2>4. w \in Seq(Packet) BY <1>1, <2>2 DEF Kinds, TypeOK
    <2>5. CASE unsent[d] = None
      <3>1. ch = w BY <1>3, <2>2, <2>5 DEF Chan
      <3>2. DOMAIN w = 1 .. Len(w) BY <2>4, LenProperties
      <3>3. QED BY <1>2, <1>3, <2>2, <2>3, <2>5, <3>1, <3>2 DEF OkFor
    <2>6. CASE unsent[d] # None
      <3>1. PICK p : p = unsent[d] OBVIOUS
      <3>2. p \in Packet /\ ch = Append(w, p) BY <1>1, <1>3, <1>4, <2>2, <2>6, <3>1, Channels DEF Chan
      <3>3. /\ Len(w) + 1 \in 1 .. Len(ch) /\ ch[Len(w) + 1] = p
            /\ \A i \in 1 .. Len(w) : i \in 1 .. Len(ch) /\ ch[i] = w[i]
        BY <2>4, <3>2, Behind
      <3>4. DOMAIN w = 1 .. Len(w) BY <2>4, LenProperties
      <3>5. p.type # "OK" /\ \A i \in DOMAIN w : w[i].type # "OK" BY <2>3, <3>3, <3>4
      <3>6. QED BY <1>2, <1>3, <2>2, <2>3, <3>1, <3>5 DEF OkFor
    <2>7. QED BY <2>5, <2>6
  <1>7. Answers(d) BY <1>2, <1>4, <1>5, <1>6 DEF Direction, Carries, Rests, Moves
  <1>8. isSending[e] = "CHECKING" /\ Head(sendQueue[e]).filename = recvFilename[d]
    BY <1>4, <1>7 DEF Answers
  <1>9. sendQueue[e] # <<>> BY <1>1, <1>8 DEF Kinds, TypeOK
  <1>10. QED BY <1>3, <1>8, <1>9

-----------------------------------------------------------------------------
(* Everybody gets the server's version.                                    *)

Item == [filename : Names, owner : FileOr(Users)]

\* End f has still to begin with file n, or is in the middle of it.
ToSend(f, n) == \E i \in 1 .. Len(sendQueue[f]) :
                    sendQueue[f][i].filename = n /\ (i > 1 \/ isSending[f] = "STARTING")
Busy(f, n) == isSending[f] # "STARTING" /\ Head(sendQueue[f]).filename = n

\* The file that client c has put under the name n has still to be saved.
Uploading(c, n) ==
    /\ disk[c][n] # None
    /\ \/ ToSend(Client(c), n)
       \/ Busy(Client(c), n) /\ Unanswered(Server(c))

\* Client c has F under the name n, or is about to have it, and no older version is
\* underway.
Fresh(c, n, F) ==
    /\ Busy(Server(c), n) => Carries(Client(c), F)
    /\ disk[c][n] = F \/ (Busy(Server(c), n) /\ Unanswered(Client(c)))

Told(c, n) ==
    \/ saved[UserOf[c]][n] = None
    \/ uploader[UserOf[c]][n] = c
    \/ user[c] = None
    \/ Uploading(c, n)
    \/ ToSend(Server(c), n)
    \/ \E F : F = saved[UserOf[c]][n] /\ Fresh(c, n, F)

AllTold == \A c \in Clients, n \in Names : open[Client(c)] => Told(c, n)

\* Every file that is saved, or is being received, has its FileEntry.
Entered ==
    /\ \A u \in Users, n \in Names : saved[u][n] # None => n \in known[u]
    /\ \A c \in Clients : fileToRecv[Server(c)] # None =>
                              recvFilename[Server(c)] \in known[UserOf[c]]

Uploaders == uploader \in [Users -> [Names -> FileOr(Clients)]]

SInv == IInv /\ Uploaders /\ Entered /\ AllTold

LEMMA Queues ==
    ASSUME Kinds, NEW f \in Ends
    PROVE  /\ sendQueue[f] \in Seq(Item) /\ Len(sendQueue[f]) \in Nat
           /\ isSending[f] # "STARTING" => sendQueue[f] # <<>> /\ Len(sendQueue[f]) # 0
  <1>1. PICK q : q = sendQueue[f] OBVIOUS
  <1>2. q \in Seq(Item) BY <1>1 DEF Kinds, TypeOK, Item
  <1>3. Len(q) \in Nat /\ (q # <<>> => Len(q) # 0) BY <1>2, EmptySeq, LenProperties
  <1>4. isSending[f] # "STARTING" => q # <<>> BY <1>1 DEF Kinds, TypeOK
  <1>5. QED BY <1>1, <1>2, <1>3, <1>4

LEMMA QueueSame ==
    ASSUME NEW f, NEW n, sendQueue'[f] = sendQueue[f],
           isSending'[f] = "STARTING" <=> isSending[f] = "STARTING"
    PROVE  (ToSend(f, n) <=> ToSend(f, n)') /\ (Busy(f, n) <=> Busy(f, n)')
  BY DEF ToSend, Busy

LEMMA QueueGrows ==
    ASSUME Kinds, NEW f \in Ends, NEW n, NEW more \in Seq(Item),
           sendQueue'[f] = sendQueue[f] \o more, isSending'[f] = isSending[f]
    PROVE  /\ ToSend(f, n) => ToSend(f, n)'
           /\ Busy(f, n) <=> Busy(f, n)'
           /\ \A j \in 1 .. Len(more) : more[j].filename = n => ToSend(f, n)'
  <1>1. PICK q, r, a, b : q = sendQueue[f] /\ r = sendQueue'[f] /\ a = Len(q) /\ b = Len(more)
    OBVIOUS
  <1>2. /\ q \in Seq(Item) /\ a \in Nat /\ b \in Nat /\ (isSending[f] # "STARTING" => a # 0)
    BY <1>1, Queues, LenProperties
  <1>3. /\ Len(r) = a + b
        /\ \A i \in 1 .. a + b : r[i] = IF i <= a THEN q[i] ELSE more[i - a]
    BY <1>1, <1>2, ConcatProperties
  <1>4. \A i \in 1 .. a : i \in 1 .. a + b /\ r[i] = q[i]
    <2>1. \A i \in 1 .. a : i \in 1 .. a + b /\ i <= a BY <1>2
    <2>2. QED BY <1>3, <2>1
  <1>5. \A j \in 1 .. b : a + j \in 1 .. a + b /\ r[a + j] = more[j]
    <2>1. \A j \in 1 .. b : a + j \in 1 .. a + b /\ ~(a + j <= a) /\ (a + j) - a = j BY <1>2
    <2>2. QED BY <1>3, <2>1
  <1>6. ToSend(f, n) => ToSend(f, n)'
    <2>1. SUFFICES ASSUME ToSend(f, n) PROVE ToSend(f, n)' OBVIOUS
    <2>2. PICK i \in 1 .. a : q[i].filename = n /\ (i > 1 \/ isSending[f] = "STARTING")
      BY <1>1, <2>1 DEF ToSend
    <2>3. i \in 1 .. Len(r) /\ r[i].filename = n BY <1>3, <1>4, <2>2
    <2>4. QED BY <1>1, <2>2, <2>3 DEF ToSend
  <1>7. Busy(f, n) <=> Busy(f, n)'
    <2>1. CASE isSending[f] = "STARTING" BY <2>1 DEF Busy
    <2>2. CASE isSending[f] # "STARTING"
      <3>1. 1 \in 1 .. a BY <1>2, <2>2
      <3>2. r[1] = q[1] BY <1>4, <3>1
      <3>3. Head(r) = r[1] /\ Head(q) = q[1] OBVIOUS
      <3>4. QED BY <1>1, <3>2, <3>3 DEF Busy
    <2>3. QED BY <2>1, <2>2
  <1>8. ASSUME NEW j \in 1 .. b, more[j].filename = n PROVE ToSend(f, n)'
    <2>1. a + j \in 1 .. Len(r) /\ r[a + j].filename = n BY <1>3, <1>5, <1>8
    <2>2. a + j > 1 \/ isSending'[f] = "STARTING" BY <1>2
    <2>3. QED BY <1>1, <2>1, <2>2 DEF ToSend
  <1>9. QED BY <1>1, <1>6, <1>7, <1>8

LEMMA QueueAppends ==
    ASSUME Kinds, NEW f \in Ends, NEW n, NEW x \in Item,
           sendQueue'[f] = Append(sendQueue[f], x), isSending'[f] = isSending[f]
    PROVE  /\ ToSend(f, n) => ToSend(f, n)'
           /\ Busy(f, n) <=> Busy(f, n)'
           /\ x.filename = n => ToSend(f, n)'
  <1>1. PICK q, a, r : q = sendQueue[f] /\ a = Len(q) /\ r = Append(q, x) OBVIOUS
  <1>2. q \in Seq(Item) /\ a \in Nat /\ (isSending[f] # "STARTING" => a # 0) BY <1>1, Queues
  <1>3. Len(r) = a + 1 /\ r[a + 1] = x /\ \A i \in 1 .. a : r[i] = q[i]
    BY <1>1, <1>2, AppendProperties
  <1>4. \A i \in 1 .. a : i \in 1 .. a + 1 BY <1>2
  <1>5. ToSend(f, n) => ToSend(f, n)'
    <2>1. SUFFICES ASSUME ToSend(f, n) PROVE ToSend(f, n)' OBVIOUS
    <2>2. PICK i \in 1 .. a : q[i].filename = n /\ (i > 1 \/ isSending[f] = "STARTING")
      BY <1>1, <2>1 DEF ToSend
    <2>3. i \in 1 .. Len(r) /\ r[i].filename = n BY <1>3, <1>4, <2>2
    <2>4. QED BY <1>1, <2>2, <2>3 DEF ToSend
  <1>6. Busy(f, n) <=> Busy(f, n)'
    <2>1. CASE isSending[f] = "STARTING" BY <2>1 DEF Busy
    <2>2. CASE isSending[f] # "STARTING"
      <3>1. 1 \in 1 .. a BY <1>2, <2>2
      <3>2. r[1] = q[1] BY <1>3, <3>1
      <3>3. Head(r) = r[1] /\ Head(q) = q[1] OBVIOUS
      <3>4. QED BY <1>1, <3>2, <3>3 DEF Busy
    <2>3. QED BY <2>1, <2>2
  <1>7. ASSUME x.filename = n PROVE ToSend(f, n)'
    <2>1. a + 1 \in 1 .. Len(r) /\ (a + 1 > 1 \/ isSending'[f] = "STARTING") BY <1>2, <1>3
    <2>2. QED BY <1>1, <1>3, <1>7, <2>1 DEF ToSend
  <1>8. QED BY <1>5, <1>6, <1>7

\* The first file is done with.
LEMMA QueuePops ==
    ASSUME Kinds, NEW f \in Ends, NEW n, sendQueue[f] # <<>>,
           sendQueue'[f] = Tail(sendQueue[f]), isSending'[f] = "STARTING",
           ToSend(f, n)
    PROVE  \/ ToSend(f, n)'
           \/ isSending[f] = "STARTING" /\ Head(sendQueue[f]).filename = n
  <1>1. PICK q, a : q = sendQueue[f] /\ a = Len(q) OBVIOUS
  <1>2. q \in Seq(Item) /\ a \in Nat BY <1>1, Queues
  <1>3. PICK i \in 1 .. a : q[i].filename = n /\ (i > 1 \/ isSending[f] = "STARTING")
    BY <1>1 DEF ToSend
  <1>4. Len(Tail(q)) = a - 1 /\ \A j \in 1 .. a - 1 : Tail(q)[j] = q[j + 1]
    BY <1>1, <1>2, HeadTailProperties
  <1>5. CASE i = 1
    <2>1. Head(q) = q[1] OBVIOUS
    <2>2. QED BY <1>1, <1>3, <1>5, <2>1
  <1>6. CASE i # 1
    <2>1. i - 1 \in 1 .. a - 1 /\ (i - 1) + 1 = i BY <1>2, <1>6
    <2>2. Tail(q)[i - 1].filename = n BY <1>3, <1>4, <2>1
    <2>3. QED BY <1>1, <1>4, <2>1, <2>2 DEF ToSend
  <1>7. QED BY <1>5, <1>6

\* What leaves an end unanswered.
LEMMA UnansweredChan ==
    ASSUME NEW g, Unanswered(g), isRecving'[g] # "OK",
           Without(Chan(Peer(g)), OkType) => Without(Chan(Peer(g))', OkType)
    PROVE  Unanswered(g)'
  BY DEF Unanswered

LEMMA UnansweredPop ==
    ASSUME Kinds, NEW y \in Ends, wire[y] # <<>>, wire' = Consumed(y), unsent' = unsent,
           NEW g \in Ends, Unanswered(g), isRecving'[g] = isRecving[g] \/ isRecving'[g] # "OK"
    PROVE  Unanswered(g)'
  <1>1. PICK f, s, t : f = Peer(g) /\ s = Chan(f) /\ t = Chan(f)' OBVIOUS
  <1>2. f \in Ends /\ isRecving'[g] # "OK" /\ Without(s, OkType)
    BY <1>1, EndFacts DEF Unanswered
  <1>3. CASE f # y
    <2>1. t = s BY <1>1, <1>2, <1>3, ChanPop
    <2>2. QED BY <1>1, <1>2, <2>1, UnansweredChan
  <1>4. CASE f = y
    <2>1. s # <<>> /\ s \in Seq(Packet) /\ t = Tail(s) BY <1>1, <1>2, <1>4, ChanPop, Channels
    <2>2. Head(s) = s[1] /\ 1 \in 1 .. Len(s) BY <2>1, AtFront
    <2>3. Head(s).type \notin OkType BY <1>2, <2>2 DEF Without
    <2>4. Same(s, t, OkType, 1) BY <2>1, <2>3, SameTail
    <2>5. Without(t, OkType) BY <1>2, <2>4, WithoutSame
    <2>6. QED BY <1>1, <1>2, <2>5, UnansweredChan
  <1>5. QED BY <1>3, <1>4

LEMMA UnansweredPush ==
    ASSUME Kinds, NEW y \in Ends, NEW p \in Packet, unsent[y] = None, sendToClient(y, p),
           NEW g \in Ends, Unanswered(g), isRecving' = isRecving, open[Peer(y)],
           p.type \notin OkType
    PROVE  Unanswered(g)'
  <1>1. PICK f, s, t : f = Peer(g) /\ s = Chan(f) /\ t = Chan(f)' OBVIOUS
  <1>2. f \in Ends /\ isRecving'[g] # "OK" /\ Without(s, OkType)
    BY <1>1, EndFacts DEF Unanswered
  <1>3. CASE f # Peer(y)
    <2>1. t = s BY <1>1, <1>2, <1>3, ChanPush
    <2>2. QED BY <1>1, <1>2, <2>1, UnansweredChan
  <1>4. CASE f = Peer(y)
    <2>1. Same(Chan(Peer(y)), Chan(Peer(y))', OkType, 0) BY SameSent
    <2>2. Same(s, t, OkType, 0) BY <1>1, <1>4, <2>1
    <2>3. Without(t, OkType) BY <1>2, <2>2, WithoutSame
    <2>4. QED BY <1>1, <1>2, <2>3, UnansweredChan
  <1>5. QED BY <1>3, <1>4

LEMMA UnansweredStill ==
    ASSUME NEW g, Unanswered(g), isRecving'[g] = isRecving[g], Chan(Peer(g))' = Chan(Peer(g))
    PROVE  Unanswered(g)'
  BY DEF Unanswered

LEMMA ToldKept ==
    ASSUME NEW c \in Clients, NEW n \in Names, Told(c, n),
           saved'[UserOf[c]][n] = saved[UserOf[c]][n],
           uploader'[UserOf[c]][n] = uploader[UserOf[c]][n],
           user'[c] = user[c], disk'[c][n] = disk[c][n],
           ToSend(Server(c), n) => ToSend(Server(c), n)',
           ToSend(Client(c), n) => ToSend(Client(c), n)',
           Busy(Server(c), n) <=> Busy(Server(c), n)',
           Busy(Client(c), n) => Busy(Client(c), n)',
           Unanswered(Server(c)) => Unanswered(Server(c))',
           Unanswered(Client(c)) => Unanswered(Client(c))',
           \A F : Carries(Client(c), F) => Carries(Client(c), F)'
    PROVE  Told(c, n)'
  <1>1. CASE \/ saved[UserOf[c]][n] = None \/ uploader[UserOf[c]][n] = c \/ user[c] = None
             \/ ToSend(Server(c), n)
    BY <1>1 DEF Told
  <1>2. CASE Uploading(c, n)
    <2>1. Uploading(c, n)' BY <1>2 DEF Uploading
    <2>2. QED BY <2>1 DEF Told
  <1>3. CASE \E F : F = saved[UserOf[c]][n] /\ Fresh(c, n, F)
    <2>1. PICK F : F = saved[UserOf[c]][n] /\ Fresh(c, n, F) BY <1>3
    <2>2. Fresh(c, n, F)' BY <2>1 DEF Fresh
    <2>3. F = saved'[UserOf[c]][n] BY <2>1
    <2>4. QED BY <2>2, <2>3 DEF Told
  <1>4. QED BY <1>1, <1>2, <1>3 DEF Told

\* Both ends of a client that is connected.
LEMMA BothOpen ==
    ASSUME Kinds, NEW c \in Clients, open[Client(c)]
    PROVE  /\ Server(c) \in Ends /\ Client(c) \in Ends /\ open[Server(c)]
           /\ Peer(Server(c)) = Client(c) /\ Peer(Client(c)) = Server(c)
  BY EndFacts DEF Kinds

\* Steps that change no file, and no queue beyond the file at its head.
LEMMA AllToldStill ==
    ASSUME Kinds, AllTold, open' = open, saved' = saved, disk' = disk, user' = user,
           uploader' = uploader, sendQueue' = sendQueue,
           \A f \in Ends : isSending'[f] = "STARTING" <=> isSending[f] = "STARTING",
           \A g \in Ends : open[g] /\ open[Peer(g)] => (Unanswered(g) => Unanswered(g)'),
           \A e \in Ends : \A F : open[e] => (Carries(e, F) => Carries(e, F)')
    PROVE  AllTold'
  <1>1. SUFFICES ASSUME NEW c \in Clients, NEW n \in Names, open[Client(c)] PROVE Told(c, n)'
    BY DEF AllTold
  <1>2. /\ Server(c) \in Ends /\ Client(c) \in Ends /\ open[Server(c)]
        /\ Peer(Server(c)) = Client(c) /\ Peer(Client(c)) = Server(c)
    BY <1>1, BothOpen
  <1>3. \A f \in {Server(c), Client(c)} : /\ ToSend(f, n) <=> ToSend(f, n)'
                                          /\ Busy(f, n) <=> Busy(f, n)'
    BY <1>2, QueueSame
  <1>4. /\ Unanswered(Server(c)) => Unanswered(Server(c))'
        /\ Unanswered(Client(c)) => Unanswered(Client(c))'
    BY <1>1, <1>2
  <1>5. \A F : Carries(Client(c), F) => Carries(Client(c), F)' BY <1>1, <1>2
  <1>6. Told(c, n) BY <1>1 DEF AllTold
  <1>7. QED BY <1>3, <1>4, <1>5, <1>6, ToldKept

LEMMA ToldRecvPut ==
    ASSUME Kinds, AllTold, NEW x \in Ends, RecvPut(x)
    PROVE  AllTold'
  <1>1. /\ wire[x] # <<>> /\ wire' = Consumed(x) /\ unsent' = unsent
        /\ isRecving' = [isRecving EXCEPT ![x] = "RECEIVING"]
        /\ open' = open /\ saved' = saved /\ disk' = disk /\ user' = user
        /\ uploader' = uploader /\ sendQueue' = sendQueue /\ isSending' = isSending
    BY DEF RecvPut, Receives, sendVars, history
  <1>2. \A g \in Ends : isRecving'[g] = isRecving[g] \/ isRecving'[g] # "OK"
    BY <1>1 DEF Kinds, TypeOK
  <1>3. \A g \in Ends : Unanswered(g) => Unanswered(g)' BY <1>1, <1>2, UnansweredPop
  <1>4. \A e \in Ends : \A F : open[e] => (Carries(e, F) => Carries(e, F)') BY DirRecvPut
  <1>5. QED BY <1>1, <1>3, <1>4, AllToldStill

LEMMA ToldRecvData ==
    ASSUME Kinds, AllTold, NEW x \in Ends, RecvData(x)
    PROVE  AllTold'
  <1>1. /\ wire[x] # <<>> /\ wire' = Consumed(x) /\ unsent' = unsent
        /\ isRecving' = isRecving
        /\ open' = open /\ saved' = saved /\ disk' = disk /\ user' = user
        /\ uploader' = uploader /\ sendQueue' = sendQueue /\ isSending' = isSending
    BY DEF RecvData, Receives, sendVars, fileVars, history
  <1>2. \A g \in Ends : Unanswered(g) => Unanswered(g)' BY <1>1, UnansweredPop
  <1>3. \A e \in Ends : \A F : open[e] => (Carries(e, F) => Carries(e, F)') BY DirRecvData
  <1>4. QED BY <1>1, <1>2, <1>3, AllToldStill

LEMMA ToldRecvCheckIgnored ==
    ASSUME Kinds, AllTold, NEW x \in Ends, RecvCheckIgnored(x)
    PROVE  AllTold'
  <1>1. /\ wire[x] # <<>> /\ wire' = Consumed(x) /\ unsent' = unsent
        /\ isRecving' = isRecving
        /\ open' = open /\ saved' = saved /\ disk' = disk /\ user' = user
        /\ uploader' = uploader /\ sendQueue' = sendQueue /\ isSending' = isSending
    BY DEF RecvCheckIgnored, Receives, sendVars, recvVars, fileVars, history
  <1>2. \A g \in Ends : Unanswered(g) => Unanswered(g)' BY <1>1, UnansweredPop
  <1>3. \A e \in Ends : \A F : open[e] => (Carries(e, F) => Carries(e, F)') BY DirRecvCheckIgnored
  <1>4. QED BY <1>1, <1>2, <1>3, AllToldStill

LEMMA ToldAgain ==
    ASSUME Kinds, AllTold, NEW x \in Ends, trySendToClientAgain(x)
    PROVE  AllTold'
  <1>1. /\ isRecving' = isRecving
        /\ open' = open /\ saved' = saved /\ disk' = disk /\ user' = user
        /\ uploader' = uploader /\ sendQueue' = sendQueue /\ isSending' = isSending
    BY DEF trySendToClientAgain, sendVars, recvVars, fileVars, history
  <1>2. \A g \in Ends : open[g] /\ open[Peer(g)] => (Unanswered(g) => Unanswered(g)')
    BY <1>1, ChanAgain, EndFacts, UnansweredStill
  <1>3. \A e \in Ends : \A F : open[e] => (Carries(e, F) => Carries(e, F)') BY DirAgain
  <1>4. QED BY <1>1, <1>2, <1>3, AllToldStill

\* The answer was underway already, in the shape of isRecving.
LEMMA ToldCheckResult ==
    ASSUME Kinds, AllTold, NEW x \in Ends, sendCheckResult(x)
    PROVE  AllTold'
  <1>1. /\ unsent[x] = None /\ isRecving[x] = "OK" /\ sendToClient(x, Message("OK", None))
        /\ isRecving' = [isRecving EXCEPT ![x] = "NONE"]
        /\ open' = open /\ saved' = saved /\ disk' = disk /\ user' = user
        /\ uploader' = uploader /\ sendQueue' = sendQueue /\ isSending' = isSending
    BY DEF sendCheckResult, Free, Writes, Answered, sendVars, fileVars, history
  <1>2. Message("OK", None) \in Packet BY PacketFacts
  <1>3. ASSUME NEW g \in Ends, Unanswered(g) PROVE Unanswered(g)'
    <2>1. g # x BY <1>1, <1>3 DEF Unanswered
    <2>2. Peer(g) # Peer(x) /\ Peer(g) \in Ends BY <2>1, EndFacts
    <2>3. Chan(Peer(g))' = Chan(Peer(g)) BY <1>1, <1>2, <2>2, ChanPush
    <2>4. isRecving'[g] = isRecving[g] BY <1>1, <2>1 DEF Kinds, TypeOK
    <2>5. QED BY <1>3, <2>3, <2>4, UnansweredStill
  <1>4. \A e \in Ends : \A F : open[e] => (Carries(e, F) => Carries(e, F)') BY DirCheckResult
  <1>5. QED BY <1>1, <1>3, <1>4, AllToldStill

LEMMA ToldStopWriting ==
    ASSUME Kinds, AllTold, NEW x \in Ends, StopWriting(x)
    PROVE  AllTold'
  <1>1. /\ isRecving' = isRecving /\ wire' = wire /\ unsent' = unsent
        /\ open' = open /\ saved' = saved /\ disk' = disk /\ user' = user
        /\ uploader' = uploader /\ sendQueue' = sendQueue
        /\ isSending' = [isSending EXCEPT ![x] = IF sendQueue[x] = <<>> THEN "STARTING" ELSE @]
    BY DEF StopWriting, recvVars, fileVars, history
  <1>2. isSending' = isSending BY <1>1 DEF Kinds, TypeOK
  <1>3. \A g \in Ends : Unanswered(g) => Unanswered(g)' BY <1>1, UnansweredStill DEF Chan
  <1>4. \A e \in Ends : \A F : open[e] => (Carries(e, F) => Carries(e, F)') BY DirStopWriting
  <1>5. QED BY <1>1, <1>2, <1>3, <1>4, AllToldStill

LEMMA ToldSendData ==
    ASSUME Kinds, AllTold, NEW x \in Ends, SendData(x)
    PROVE  AllTold'
  <1>1. PICK file, p : file = fileToSend[x] /\ p = Message("DATA", Head(file)) OBVIOUS
  <1>2. /\ unsent[x] = None /\ isSending[x] = "SENDING" /\ file # <<>> /\ sendToClient(x, p)
        /\ isRecving' = isRecving /\ open[x]
        /\ open' = open /\ saved' = saved /\ disk' = disk /\ user' = user
        /\ uploader' = uploader /\ sendQueue' = sendQueue /\ isSending' = isSending
    BY <1>1 DEF SendData, Queued, Free, Writes, recvVars, fileVars, history
  <1>3. file \in Seq(Part) BY <1>1, <1>2 DEF Kinds, TypeOK, FileOr
  <1>4. Head(file) \in Part BY <1>2, <1>3, HeadTailProperties
  <1>5. p \in Packet /\ p.type \notin OkType BY <1>1, <1>4, PacketFacts DEF OkType
  <1>6. \A g \in Ends : open[g] /\ open[Peer(g)] => (Unanswered(g) => Unanswered(g)')
    <2>1. SUFFICES ASSUME NEW g \in Ends, open[Peer(g)], Unanswered(g) PROVE Unanswered(g)'
      OBVIOUS
    <2>2. CASE g = x BY <1>2, <1>5, <2>1, <2>2, UnansweredPush
    <2>3. CASE g # x
      <3>1. Peer(g) \in Ends /\ Peer(g) # Peer(x) BY <2>3, EndFacts
      <3>2. Chan(Peer(g))' = Chan(Peer(g)) BY <1>2, <1>5, <3>1, ChanPush
      <3>3. QED BY <1>2, <2>1, <3>2, UnansweredStill
    <2>4. QED BY <2>2, <2>3
  <1>7. \A e \in Ends : \A F : open[e] => (Carries(e, F) => Carries(e, F)') BY DirSendData
  <1>8. QED BY <1>2, <1>6, <1>7, AllToldStill

LEMMA ToldSendCheck ==
    ASSUME Kinds, AllTold, NEW x \in Ends, SendCheck(x)
    PROVE  AllTold'
  <1>1. PICK p : p = Message("CHECK", None) OBVIOUS
  <1>2. /\ unsent[x] = None /\ isSending[x] = "SENDING" /\ sendToClient(x, p)
        /\ isRecving' = isRecving /\ isSending' = [isSending EXCEPT ![x] = "CHECKING"]
        /\ open' = open /\ saved' = saved /\ disk' = disk /\ user' = user
        /\ uploader' = uploader /\ sendQueue' = sendQueue
    BY <1>1 DEF SendCheck, Queued, Free, Writes, recvVars, fileVars, history
  <1>3. p \in Packet /\ p.type \notin OkType BY <1>1, PacketFacts DEF OkType
  <1>4. \A f \in Ends : isSending'[f] = "STARTING" <=> isSending[f] = "STARTING"
    BY <1>2 DEF Kinds, TypeOK
  <1>5. \A g \in Ends : open[g] /\ open[Peer(g)] => (Unanswered(g) => Unanswered(g)')
    <2>1. SUFFICES ASSUME NEW g \in Ends, open[Peer(g)], Unanswered(g) PROVE Unanswered(g)'
      OBVIOUS
    <2>2. CASE g = x BY <1>2, <1>3, <2>1, <2>2, UnansweredPush
    <2>3. CASE g # x
      <3>1. Peer(g) \in Ends /\ Peer(g) # Peer(x) BY <2>3, EndFacts
      <3>2. Chan(Peer(g))' = Chan(Peer(g)) BY <1>2, <1>3, <3>1, ChanPush
      <3>3. QED BY <1>2, <2>1, <3>2, UnansweredStill
    <2>4. QED BY <2>2, <2>3
  <1>6. \A e \in Ends : \A F : open[e] => (Carries(e, F) => Carries(e, F)') BY DirSendCheck
  <1>7. QED BY <1>2, <1>4, <1>5, <1>6, AllToldStill

\* The ways in which a client is told, one by one.
LEMMA ToldCases ==
    ASSUME NEW c \in Clients, NEW n \in Names, Told(c, n),
           saved'[UserOf[c]][n] = saved[UserOf[c]][n],
           uploader'[UserOf[c]][n] = uploader[UserOf[c]][n], user'[c] = user[c],
           Uploading(c, n) => Told(c, n)', ToSend(Server(c), n) => Told(c, n)',
           \A F : F = saved[UserOf[c]][n] /\ Fresh(c, n, F) => Told(c, n)'
    PROVE  Told(c, n)'
  <1>1. CASE saved[UserOf[c]][n] = None \/ uploader[UserOf[c]][n] = c \/ user[c] = None
    BY <1>1 DEF Told
  <1>2. CASE \/ Uploading(c, n) \/ ToSend(Server(c), n)
             \/ \E F : F = saved[UserOf[c]][n] /\ Fresh(c, n, F)
    BY <1>2
  <1>3. QED BY <1>1, <1>2 DEF Told

LEMMA UploadingKept ==
    ASSUME NEW c, NEW n, Uploading(c, n), disk'[c][n] # None,
           ToSend(Client(c), n) => ToSend(Client(c), n)',
           Busy(Client(c), n) => Busy(Client(c), n)',
           Unanswered(Server(c)) => Unanswered(Server(c))'
    PROVE  Told(c, n)'
  <1>1. Uploading(c, n)' BY DEF Uploading
  <1>2. QED BY <1>1 DEF Told

LEMMA FreshKept ==
    ASSUME NEW c, NEW n, NEW F, Fresh(c, n, F), saved'[UserOf[c]][n] = F,
           disk'[c][n] = disk[c][n],
           Busy(Server(c), n) <=> Busy(Server(c), n)',
           Busy(Server(c), n) /\ Unanswered(Client(c)) => Unanswered(Client(c))',
           Busy(Server(c), n) /\ Carries(Client(c), F) => Carries(Client(c), F)'
    PROVE  Told(c, n)'
  <1>1. Fresh(c, n, F)' BY DEF Fresh
  <1>2. F = saved'[UserOf[c]][n] OBVIOUS
  <1>3. QED BY <1>1, <1>2 DEF Told

\* The queue of an end that begins with its first file.
LEMMA QueueStarts ==
    ASSUME Kinds, NEW f \in Ends, NEW n, sendQueue[f] # <<>>, sendQueue' = sendQueue,
           isSending[f] = "STARTING", isSending'[f] = "SENDING"
    PROVE  /\ ~Busy(f, n)
           /\ Busy(f, n)' <=> Head(sendQueue[f]).filename = n
           /\ ToSend(f, n) => ToSend(f, n)' \/ Head(sendQueue[f]).filename = n
  <1>1. PICK q, a : q = sendQueue[f] /\ a = Len(q) OBVIOUS
  <1>2. ~Busy(f, n) /\ (Busy(f, n)' <=> Head(q).filename = n) BY <1>1 DEF Busy
  <1>3. ASSUME ToSend(f, n), Head(q).filename # n PROVE ToSend(f, n)'
    <2>1. PICK i \in 1 .. a : q[i].filename = n BY <1>1, <1>3 DEF ToSend
    <2>2. Head(q) = q[1] OBVIOUS
    <2>3. i # 1 BY <1>3, <2>1, <2>2
    <2>4. a \in Nat BY <1>1, Queues
    <2>5. i > 1 BY <2>3, <2>4
    <2>6. QED BY <1>1, <2>1, <2>5 DEF ToSend
  <1>4. QED BY <1>1, <1>2, <1>3

LEMMA ToldStartFile ==
    ASSUME Kinds, FilesAreWhole, Directions, AllTold, NEW x \in Ends, StartFile(x)
    PROVE  AllTold'
  <1>1. PICK qi, p : qi = Head(sendQueue[x]) /\ p = Message("PUT", qi.filename) OBVIOUS
  <1>2. /\ unsent[x] = None /\ isSending[x] = "STARTING" /\ sendToClient(x, p)
        /\ sendQueue[x] # <<>> /\ FileAt(x, qi) # None
        /\ isRecving' = isRecving /\ isSending' = [isSending EXCEPT ![x] = "SENDING"]
        /\ open' = open /\ saved' = saved /\ disk' = disk /\ user' = user
        /\ uploader' = uploader /\ sendQueue' = sendQueue
    BY <1>1 DEF StartFile, Queued, Free, Writes, recvVars, fileVars, history
  <1>3. p \in Packet /\ p.type \notin OkType
    <2>1. qi.filename \in Names BY <1>1, <1>2, Opened
    <2>2. QED BY <1>1, <2>1, PacketFacts DEF OkType
  <1>4. isSending'[x] = "SENDING" /\ \A f \in Ends : f # x => isSending'[f] = isSending[f]
    BY <1>2 DEF Kinds, TypeOK
  <1>5. SUFFICES ASSUME NEW c \in Clients, NEW n \in Names, open[Client(c)] PROVE Told(c, n)'
    BY <1>2 DEF AllTold
  <1>6. Told(c, n) BY <1>5 DEF AllTold
  <1>7. PICK s, e : s = Server(c) /\ e = Client(c) OBVIOUS
  <1>8. /\ s \in Ends /\ e \in Ends /\ open[s] /\ open[e] /\ Peer(s) = e /\ Peer(e) = s /\ s # e
        /\ s[2] = c /\ e[2] = c /\ s[1] = "server"
    BY <1>5, <1>7, BothOpen, EndFacts
  <1>9. \A g \in {s, e} : Unanswered(g) => Unanswered(g)'
    <2>1. SUFFICES ASSUME NEW g \in {s, e}, Unanswered(g) PROVE Unanswered(g)' OBVIOUS
    <2>2. g \in Ends /\ open[g] /\ open[Peer(g)] BY <1>8
    <2>3. CASE g = x BY <1>2, <1>3, <2>1, <2>2, <2>3, UnansweredPush
    <2>4. CASE g # x
      <3>1. Peer(g) \in Ends /\ Peer(g) # Peer(x) BY <2>2, <2>4, EndFacts
      <3>2. Chan(Peer(g))' = Chan(Peer(g)) BY <1>2, <1>3, <3>1, ChanPush
      <3>3. QED BY <1>2, <2>1, <3>2, UnansweredStill
    <2>5. QED BY <2>3, <2>4
  <1>10. PICK F0, F1 : Carries(e, F0) /\ Carries(s, F1) BY <1>8 DEF Directions, Direction
  <1>11. ~Busy(x, n) BY <1>2 DEF Busy
  <1>12. \A f \in {s, e} : f # x => /\ ToSend(f, n) <=> ToSend(f, n)'
                                    /\ Busy(f, n) <=> Busy(f, n)'
    BY <1>2, <1>4, <1>8, QueueSame
  <1>13. ASSUME x # s PROVE \A F : Carries(e, F) => Carries(e, F)'
    BY <1>8, <1>13, DirStartFile
  <1>14. /\ ~Busy(x, n)
         /\ Busy(x, n)' <=> qi.filename = n
         /\ ToSend(x, n) => ToSend(x, n)' \/ qi.filename = n
    BY <1>1, <1>2, <1>4, QueueStarts
  <1>15. CASE x # e /\ x # s
    <2>1. QED BY <1>2, <1>6, <1>7, <1>9, <1>12, <1>13, <1>15, ToldKept
  <1>16. CASE x = s
    <2>1. CASE qi.filename = n
      <3>1. FileAt(x, qi) = saved[UserOf[c]][n]
        <4>1. Owned(c) BY DEF Kinds
        <4>2. Len(sendQueue[x]) # 0 /\ Len(sendQueue[x]) \in Nat BY <1>2, Queues, LenProperties, EmptySeq
        <4>3. qi = sendQueue[x][1] /\ 1 \in 1 .. Len(sendQueue[x]) BY <1>1, <4>2
        <4>4. qi.owner = UserOf[c] BY <1>7, <1>16, <4>1, <4>3 DEF Owned
        <4>5. QED BY <1>8, <1>16, <2>1, <4>4 DEF FileAt
      <3>2. Unanswered(e)' /\ \A G : G = FileAt(x, qi) => Carries(e, G)'
        BY <1>1, <1>8, <1>10, <1>16, DirStartFile
      <3>3. PICK G : G = saved[UserOf[c]][n] OBVIOUS
      <3>4. Fresh(c, n, G)' BY <1>7, <1>14, <1>16, <2>1, <3>1, <3>2, <3>3 DEF Fresh
      <3>5. G = saved'[UserOf[c]][n] BY <1>2, <3>3
      <3>6. QED BY <3>4, <3>5 DEF Told
    <2>2. CASE qi.filename # n
      <3>1. /\ ToSend(s, n) => Told(c, n)'
        BY <1>7, <1>14, <1>16, <2>2 DEF Told
      <3>2. Uploading(c, n) => Told(c, n)'
        <4>1. ASSUME Uploading(c, n) PROVE Told(c, n)'
          <5>1. disk'[c][n] # None BY <1>2, <4>1 DEF Uploading
          <5>2. QED BY <1>7, <1>8, <1>9, <1>12, <1>16, <4>1, <5>1, UploadingKept
        <4>2. QED BY <4>1
      <3>3. ASSUME NEW F, F = saved[UserOf[c]][n], Fresh(c, n, F) PROVE Told(c, n)'
        BY <1>2, <1>7, <1>14, <1>16, <2>2, <3>3, FreshKept
      <3>4. QED BY <1>2, <1>6, <1>7, <3>1, <3>2, <3>3, ToldCases
    <2>3. QED BY <2>1, <2>2
  <1>17. CASE x = e
    <2>1. ToSend(s, n) => Told(c, n)' BY <1>7, <1>8, <1>12, <1>17 DEF Told
    <2>2. ASSUME NEW F, F = saved[UserOf[c]][n], Fresh(c, n, F) PROVE Told(c, n)'
      BY <1>2, <1>7, <1>8, <1>9, <1>12, <1>13, <1>17, <2>2, FreshKept
    <2>3. ASSUME Uploading(c, n) PROVE Told(c, n)'
      <3>1. disk'[c][n] # None BY <1>2, <2>3 DEF Uploading
      <3>2. ToSend(e, n) BY <1>7, <1>14, <1>17, <2>3 DEF Uploading
      <3>3. CASE qi.filename # n
        <4>1. ToSend(e, n)' BY <1>14, <1>17, <3>2, <3>3
        <4>2. QED BY <1>7, <3>1, <4>1 DEF Told, Uploading
      <3>4. CASE qi.filename = n
        <4>1. Busy(e, n)' BY <1>14, <1>17, <3>4
        <4>2. Unanswered(s)' BY <1>8, <1>10, <1>17, DirStartFile
        <4>3. QED BY <1>7, <3>1, <4>1, <4>2 DEF Told, Uploading
      <3>5. QED BY <3>3, <3>4
    <2>4. QED BY <1>2, <1>6, <1>7, <2>1, <2>2, <2>3, ToldCases
  <1>18. QED BY <1>15, <1>16, <1>17

\* What is skipped is nothing that anybody waits for.
LEMMA ToldSkipFile ==
    ASSUME Kinds, AllTold, NEW x \in Ends, SkipFile(x)
    PROVE  AllTold'
  <1>1. PICK qi : qi = Head(sendQueue[x]) OBVIOUS
  <1>2. /\ isSending[x] = "STARTING" /\ sendQueue[x] # <<>> /\ FileAt(x, qi) = None
        /\ isRecving' = isRecving /\ isSending' = isSending /\ unsent' = unsent /\ wire' = wire
        /\ open' = open /\ saved' = saved /\ disk' = disk /\ user' = user
        /\ uploader' = uploader /\ sendQueue' = [sendQueue EXCEPT ![x] = Tail(@)]
    BY <1>1 DEF SkipFile, Queued, recvVars, fileVars, history
  <1>3. sendQueue'[x] = Tail(sendQueue[x]) /\ \A f \in Ends : f # x => sendQueue'[f] = sendQueue[f]
    BY <1>2 DEF Kinds, TypeOK
  <1>4. SUFFICES ASSUME NEW c \in Clients, NEW n \in Names, open[Client(c)] PROVE Told(c, n)'
    BY <1>2 DEF AllTold
  <1>5. Told(c, n) BY <1>4 DEF AllTold
  <1>6. PICK s, e : s = Server(c) /\ e = Client(c) OBVIOUS
  <1>7. /\ s \in Ends /\ e \in Ends /\ open[s] /\ open[e] /\ Peer(s) = e /\ Peer(e) = s /\ s # e
        /\ s[1] = "server" /\ e[1] = "client" /\ s[2] = c /\ e[2] = c
    BY <1>4, <1>6, BothOpen, EndFacts
  <1>8. \A g \in Ends : Unanswered(g) => Unanswered(g)' BY <1>2, UnansweredStill DEF Chan
  <1>9. \A F : Carries(e, F) => Carries(e, F)' BY <1>7, DirSkipFile
  <1>10. \A f \in {s, e} : f # x => /\ ToSend(f, n) <=> ToSend(f, n)'
                                    /\ Busy(f, n) <=> Busy(f, n)'
    BY <1>2, <1>3, <1>7, QueueSame
  <1>11. /\ ToSend(x, n) => ToSend(x, n)' \/ qi.filename = n
         /\ ~Busy(x, n) /\ ~Busy(x, n)'
    <2>1. ~Busy(x, n) /\ ~Busy(x, n)' BY <1>2 DEF Busy
    <2>2. isSending'[x] = "STARTING" BY <1>2
    <2>3. QED BY <1>1, <1>2, <1>3, <2>1, <2>2, QueuePops
  <1>12. \A f \in {s, e} : Busy(f, n) <=> Busy(f, n)' BY <1>10, <1>11
  <1>13. ASSUME ToSend(s, n) PROVE Told(c, n)'
    <2>1. CASE ToSend(s, n)' BY <1>6, <2>1 DEF Told
    <2>2. CASE x = s /\ qi.filename = n
      <3>1. Owned(c) BY DEF Kinds
      <3>2. Len(sendQueue[x]) # 0 /\ Len(sendQueue[x]) \in Nat
        BY <1>2, Queues, LenProperties, EmptySeq
      <3>3. qi = sendQueue[x][1] /\ 1 \in 1 .. Len(sendQueue[x]) BY <1>1, <3>2
      <3>4. qi.owner = UserOf[c] BY <1>6, <2>2, <3>1, <3>3 DEF Owned
      <3>5. saved'[UserOf[c]][n] = None BY <1>2, <1>7, <2>2, <3>4 DEF FileAt
      <3>6. QED BY <3>5 DEF Told
    <2>3. QED BY <1>10, <1>11, <1>13, <2>1, <2>2
  <1>14. ASSUME Uploading(c, n) PROVE Told(c, n)'
    <2>1. disk'[c][n] # None BY <1>2, <1>14 DEF Uploading
    <2>2. x = e => qi.filename # n
      <3>1. SUFFICES ASSUME x = e, qi.filename = n PROVE FALSE OBVIOUS
      <3>2. disk[c][n] = None BY <1>2, <1>7, <3>1 DEF FileAt
      <3>3. QED BY <1>2, <2>1, <3>2
    <2>3. ToSend(e, n) => ToSend(e, n)' BY <1>10, <1>11, <2>2
    <2>4. QED BY <1>6, <1>7, <1>8, <1>12, <1>14, <2>1, <2>3, UploadingKept
  <1>15. ASSUME NEW F, F = saved[UserOf[c]][n], Fresh(c, n, F) PROVE Told(c, n)'
    <2>1. saved'[UserOf[c]][n] = F /\ disk'[c][n] = disk[c][n] BY <1>2, <1>15
    <2>2. QED BY <1>6, <1>7, <1>8, <1>9, <1>12, <1>15, <2>1, FreshKept
  <1>16. QED BY <1>2, <1>5, <1>6, <1>13, <1>14, <1>15, ToldCases

\* The file that is confirmed has arrived.
LEMMA ToldRecvOk ==
    ASSUME Kinds, AllTold, NEW x \in Ends, RecvOk(x)
    PROVE  AllTold'
  <1>1. /\ wire[x] # <<>> /\ wire' = Consumed(x) /\ Head(wire[x]).type = "OK"
        /\ isRecving' = isRecving /\ unsent' = unsent
        /\ open' = open /\ saved' = saved /\ disk' = disk /\ user' = user /\ uploader' = uploader
        /\ IF sendQueue[x] # <<>> /\ isSending[x] = "CHECKING"
           THEN /\ sendQueue' = [sendQueue EXCEPT ![x] = Tail(@)]
                /\ isSending' = [isSending EXCEPT ![x] = "STARTING"]
           ELSE sendQueue' = sendQueue /\ isSending' = isSending
    BY DEF RecvOk, Receives, SendingNext, recvVars, sendVars, fileVars, history
  <1>2. \A g \in Ends : Unanswered(g) => Unanswered(g)' BY <1>1, UnansweredPop
  <1>3. \A e \in Ends : \A F : open[e] => (Carries(e, F) => Carries(e, F)') BY DirRecvOk
  <1>4. CASE ~(sendQueue[x] # <<>> /\ isSending[x] = "CHECKING")
    BY <1>1, <1>2, <1>3, <1>4, AllToldStill
  <1>5. CASE sendQueue[x] # <<>> /\ isSending[x] = "CHECKING"
    <2>1. /\ sendQueue'[x] = Tail(sendQueue[x]) /\ isSending'[x] = "STARTING"
          /\ \A f \in Ends : f # x => sendQueue'[f] = sendQueue[f] /\ isSending'[f] = isSending[f]
      BY <1>1, <1>5 DEF Kinds, TypeOK
    <2>2. ~Unanswered(Peer(x))
      <3>1. PICK ch : ch = Chan(x) OBVIOUS
      <3>2. ch # <<>> /\ Head(ch) = Head(wire[x]) /\ ch \in Seq(Packet)
        BY <1>1, <3>1, ChanPop, Channels
      <3>3. Head(ch) = ch[1] /\ 1 \in 1 .. Len(ch) BY <3>2, AtFront
      <3>4. ~Without(ch, OkType) BY <1>1, <3>2, <3>3 DEF Without, OkType
      <3>5. QED BY <3>1, <3>4, EndFacts DEF Unanswered
    <2>3. SUFFICES ASSUME NEW c \in Clients, NEW n \in Names, open[Client(c)] PROVE Told(c, n)'
      BY <1>1 DEF AllTold
    <2>4. Told(c, n) BY <2>3 DEF AllTold
    <2>5. PICK s, e : s = Server(c) /\ e = Client(c) OBVIOUS
    <2>6. /\ s \in Ends /\ e \in Ends /\ open[s] /\ open[e] /\ Peer(s) = e /\ Peer(e) = s /\ s # e
      BY <2>3, <2>5, BothOpen, EndFacts
    <2>7. \A F : Carries(e, F) => Carries(e, F)' BY <1>3, <2>6
    <2>8. \A f \in {s, e} : f # x => /\ ToSend(f, n) <=> ToSend(f, n)'
                                     /\ Busy(f, n) <=> Busy(f, n)'
      BY <2>1, <2>6, QueueSame
    <2>9. (ToSend(x, n) => ToSend(x, n)') /\ ~Busy(x, n)'
      <3>1. ~Busy(x, n)' BY <2>1 DEF Busy
      <3>2. QED BY <1>5, <2>1, <3>1, QueuePops
    <2>10. \A f \in {s, e} : ToSend(f, n) => ToSend(f, n)' BY <2>8, <2>9
    <2>11. ToSend(s, n) => Told(c, n)' BY <2>5, <2>10 DEF Told
    <2>12. ASSUME Uploading(c, n) PROVE Told(c, n)'
      <3>1. disk'[c][n] # None BY <1>1, <2>12 DEF Uploading
      <3>2. CASE ToSend(e, n)
        <4>1. ToSend(e, n)' BY <2>10, <3>2
        <4>2. QED BY <2>5, <3>1, <4>1 DEF Told, Uploading
      <3>3. CASE ~ToSend(e, n)
        <4>1. Unanswered(s) /\ Busy(e, n) BY <2>5, <2>12, <3>3 DEF Uploading
        <4>2. x # e BY <2>2, <2>6, <4>1
        <4>3. Unanswered(s)' /\ Busy(e, n)' BY <1>2, <2>6, <2>8, <4>1, <4>2
        <4>4. QED BY <2>5, <3>1, <4>3 DEF Told, Uploading
      <3>4. QED BY <3>2, <3>3
    <2>13. ASSUME NEW F, F = saved[UserOf[c]][n], Fresh(c, n, F) PROVE Told(c, n)'
      <3>1. saved'[UserOf[c]][n] = F /\ disk'[c][n] = disk[c][n] BY <1>1, <2>13
      <3>2. CASE x = s
        <4>1. ~Unanswered(e) BY <2>2, <2>6, <3>2
        <4>2. disk[c][n] = F BY <2>5, <2>13, <4>1 DEF Fresh
        <4>3. Fresh(c, n, F)' BY <2>5, <2>9, <3>1, <3>2, <4>2 DEF Fresh
        <4>4. QED BY <3>1, <4>3 DEF Told
      <3>3. CASE x # s
        BY <1>2, <2>5, <2>6, <2>7, <2>8, <2>13, <3>1, <3>3, FreshKept
      <3>4. QED BY <3>2, <3>3
    <2>14. QED BY <1>1, <2>4, <2>5, <2>11, <2>12, <2>13, ToldCases
  <1>6. QED BY <1>4, <1>5

\* The server has saved a file: the others of the user have it in their queue.
LEMMA ToldServerSaves ==
    ASSUME Kinds, Uploaders, Nameds, Directions, AllTold, NEW d \in Clients, RecvCheck(Server(d))
    PROVE  AllTold'
  <1>1. PICK x, u, m, G : /\ x = Server(d) /\ u = UserOf[d] /\ m = recvFilename[x]
                          /\ G = fileToRecv[x]
    OBVIOUS
  <1>2. x \in Ends /\ x[1] = "server" /\ x[2] = d /\ u \in Users BY <1>1, EndFacts, NoneFacts
  <1>3. /\ wire[x] # <<>> /\ wire' = Consumed(x) /\ Head(wire[x]).type = "CHECK" /\ G # None
        /\ isRecving' = [isRecving EXCEPT ![x] = "OK"] /\ open[x]
        /\ open' = open /\ isSending' = isSending /\ unsent' = unsent /\ user' = user
        /\ SaveAtServer(d)
    BY <1>1, <1>2 DEF RecvCheck, Receives
  <1>4. user[d] = u
    <2>1. Head(wire[x]).type # "NAME" BY <1>3
    <2>2. QED BY <1>1, <1>2, <1>3, <2>1, UserKnown
  <1>5. m \in Names BY <1>1, <1>2, <1>3 DEF Kinds, TypeOK, FileOr
  <1>6. PICK it : it = QueueItem(m, u) OBVIOUS
  <1>7. it \in Item /\ it.filename = m BY <1>2, <1>5, <1>6 DEF Item, QueueItem, FileOr
  <1>8. /\ saved' = [saved EXCEPT ![u][m] = G] /\ disk' = disk
        /\ uploader' = [uploader EXCEPT ![u][m] = d]
        /\ \A f \in Ends : sendQueue'[f] = IF f \in {Server(c) : c \in Peers(d)}
                                           THEN Append(sendQueue[f], it) ELSE sendQueue[f]
    BY <1>1, <1>3, <1>4, <1>6 DEF SaveAtServer
  <1>9. SUFFICES ASSUME NEW c \in Clients, NEW n \in Names, open[Client(c)] PROVE Told(c, n)'
    BY <1>3 DEF AllTold
  <1>10. Told(c, n) BY <1>9 DEF AllTold
  <1>11. PICK s, e : s = Server(c) /\ e = Client(c) OBVIOUS
  <1>12. /\ s \in Ends /\ e \in Ends /\ open[s] /\ open[e] /\ Peer(s) = e /\ Peer(e) = s /\ s # e
         /\ s[1] = "server" /\ s[2] = c /\ e[1] = "client" /\ e # x /\ (c # d => s # x)
    BY <1>1, <1>9, <1>11, BothOpen, EndFacts
  <1>13. /\ \A f \in {s, e} : /\ ToSend(f, n) => ToSend(f, n)'
                              /\ Busy(f, n) <=> Busy(f, n)'
         /\ sendQueue'[s] = Append(sendQueue[s], it) /\ n = m => ToSend(s, n)'
    <2>1. \A f \in {s, e} : \/ sendQueue'[f] = sendQueue[f]
                            \/ sendQueue'[f] = Append(sendQueue[f], it)
      BY <1>8, <1>12
    <2>2. ASSUME NEW f \in {s, e}, sendQueue'[f] = sendQueue[f]
          PROVE  (ToSend(f, n) => ToSend(f, n)') /\ (Busy(f, n) <=> Busy(f, n)')
      BY <1>3, <2>2, QueueSame
    <2>3. ASSUME NEW f \in {s, e}, sendQueue'[f] = Append(sendQueue[f], it)
          PROVE  /\ ToSend(f, n) => ToSend(f, n)'
                 /\ Busy(f, n) <=> Busy(f, n)'
                 /\ it.filename = n => ToSend(f, n)'
      <3>1. f \in Ends /\ isSending'[f] = isSending[f] BY <1>3, <1>12
      <3>2. QED BY <1>7, <2>3, <3>1, QueueAppends
    <2>4. QED BY <1>7, <2>1, <2>2, <2>3
  <1>14. isRecving'[x] = "OK" /\ \A g \in Ends : g # x => isRecving'[g] = isRecving[g]
    BY <1>2, <1>3 DEF Kinds, TypeOK
  <1>15. \A g \in {s, e} : g # x => (Unanswered(g) => Unanswered(g)')
    BY <1>2, <1>3, <1>12, <1>14, UnansweredPop
  <1>16. \A F : Carries(e, F) => Carries(e, F)'
    <2>1. \A c1 \in Clients : open[Server(c1)] => user[c1] \in {None, UserOf[c1]}
      BY DEF Nameds, Named
    <2>2. x[1] = "server" => user[x[2]] = UserOf[x[2]] BY <1>1, <1>2, <1>4
    <2>3. RecvCheck(x) BY <1>1
    <2>4. QED BY <1>2, <1>12, <2>1, <2>2, <2>3, DirRecvCheck
  <1>17. CASE UserOf[c] = u /\ n = m
    <2>1. CASE c = d
      <3>1. uploader'[u][m] = d
        BY <1>2, <1>5, <1>8 DEF Uploaders
      <3>2. QED BY <1>17, <2>1, <3>1 DEF Told
    <2>2. CASE c # d /\ user[c] = None BY <1>3, <2>2 DEF Told
    <2>3. CASE c # d /\ user[c] # None
      <3>1. user[c] = u BY <1>11, <1>12, <1>17, <2>3 DEF Nameds, Named
      <3>2. c \in Peers(d) BY <1>4, <1>11, <1>12, <2>3, <3>1 DEF Peers
      <3>3. sendQueue'[s] = Append(sendQueue[s], it) BY <1>8, <1>11, <1>12, <3>2
      <3>4. ToSend(s, n)' BY <1>13, <1>17, <3>3
      <3>5. QED BY <1>11, <3>4 DEF Told
    <2>4. QED BY <2>1, <2>2, <2>3
  <1>18. CASE ~(UserOf[c] = u /\ n = m)
    <2>1. /\ saved'[UserOf[c]][n] = saved[UserOf[c]][n]
          /\ uploader'[UserOf[c]][n] = uploader[UserOf[c]][n]
      BY <1>2, <1>5, <1>8, <1>18, NoneFacts DEF Kinds, TypeOK, Uploaders
    <2>2. ToSend(s, n) => Told(c, n)' BY <1>11, <1>13 DEF Told
    <2>3. ASSUME Uploading(c, n) PROVE Told(c, n)'
      <3>1. disk'[c][n] # None BY <1>8, <2>3 DEF Uploading
      <3>2. CASE ToSend(e, n)
        <4>1. ToSend(e, n)' BY <1>13, <3>2
        <4>2. QED BY <1>11, <3>1, <4>1 DEF Told, Uploading
      <3>3. CASE ~ToSend(e, n)
        <4>1. Unanswered(s) /\ Busy(e, n) BY <1>11, <2>3, <3>3 DEF Uploading
        <4>2. s # x
          <5>1. SUFFICES ASSUME s = x PROVE FALSE OBVIOUS
          <5>2. PICK F : Carries(x, F) BY <1>2, <1>3 DEF Directions, Direction
          <5>3. Head(sendQueue[e]).filename = m
            BY <1>1, <1>2, <1>3, <1>12, <5>1, <5>2, CheckComes
          <5>4. c = d BY <1>2, <1>12, <5>1
          <5>5. QED BY <1>1, <1>18, <4>1, <5>3, <5>4 DEF Busy
        <4>3. Unanswered(s)' /\ Busy(e, n)' BY <1>13, <1>15, <4>1, <4>2
        <4>4. QED BY <1>11, <3>1, <4>3 DEF Told, Uploading
      <3>4. QED BY <3>2, <3>3
    <2>4. ASSUME NEW F, F = saved[UserOf[c]][n], Fresh(c, n, F) PROVE Told(c, n)'
      <3>1. saved'[UserOf[c]][n] = F /\ disk'[c][n] = disk[c][n] BY <1>8, <2>1, <2>4
      <3>2. QED BY <1>11, <1>12, <1>13, <1>15, <1>16, <2>4, <3>1, FreshKept
    <2>5. QED BY <1>3, <1>10, <1>11, <2>1, <2>2, <2>3, <2>4, ToldCases
  <1>19. QED BY <1>17, <1>18

\* A client has saved a file: it is the one that was underway.
LEMMA ToldClientSaves ==
    ASSUME Kinds, Directions, AllTold, NEW d \in Clients, RecvCheck(Client(d)),
           \A c \in Clients : open[Server(c)] => user[c] \in {None, UserOf[c]}
    PROVE  AllTold'
  <1>1. PICK x, m, G : x = Client(d) /\ m = recvFilename[x] /\ G = fileToRecv[x] OBVIOUS
  <1>2. x \in Ends /\ x[1] # "server" /\ x[2] = d BY <1>1, EndFacts
  <1>3. /\ wire[x] # <<>> /\ wire' = Consumed(x) /\ Head(wire[x]).type = "CHECK" /\ G # None
        /\ isRecving' = [isRecving EXCEPT ![x] = "OK"] /\ open[x]
        /\ open' = open /\ isSending' = isSending /\ unsent' = unsent /\ user' = user
        /\ saved' = saved /\ uploader' = uploader /\ sendQueue' = sendQueue
        /\ disk' = [disk EXCEPT ![d][m] = G]
    BY <1>1, <1>2 DEF RecvCheck, Receives, SaveAtClient
  <1>4. m \in Names BY <1>1, <1>2, <1>3 DEF Kinds, TypeOK, FileOr
  <1>5. PICK y : y = Server(d) OBVIOUS
  <1>6. y \in Ends /\ Peer(x) = y /\ open[y] BY <1>1, <1>3, <1>5, BothOpen
  <1>7. /\ Unanswered(x) /\ isSending[y] = "CHECKING" /\ Head(sendQueue[y]).filename = m
        /\ \A F : Carries(x, F) => G = F
    <2>1. PICK F : Carries(x, F) BY <1>2, <1>3 DEF Directions, Direction
    <2>2. /\ Unanswered(x) /\ isSending[Peer(x)] = "CHECKING"
          /\ Head(sendQueue[Peer(x)]).filename = recvFilename[x]
      BY <1>2, <1>3, <1>6, <2>1, CheckComes
    <2>3. ASSUME NEW H, Carries(x, H) PROVE G = H
      <3>1. fileToRecv[x] # None => fileToRecv[x] = H BY <1>2, <1>3, <2>3, CheckComes
      <3>2. QED BY <1>1, <1>3, <3>1
    <2>4. QED BY <1>1, <1>6, <2>2, <2>3
  <1>8. SUFFICES ASSUME NEW c \in Clients, NEW n \in Names, open[Client(c)] PROVE Told(c, n)'
    BY <1>3 DEF AllTold
  <1>9. Told(c, n) BY <1>8 DEF AllTold
  <1>10. PICK s, e : s = Server(c) /\ e = Client(c) OBVIOUS
  <1>11. /\ s \in Ends /\ e \in Ends /\ open[s] /\ open[e] /\ Peer(s) = e /\ Peer(e) = s
         /\ s # x /\ (c # d => e # x)
    BY <1>1, <1>2, <1>8, <1>10, BothOpen, EndFacts
  <1>12. \A f \in {s, e} : /\ ToSend(f, n) <=> ToSend(f, n)'
                           /\ Busy(f, n) <=> Busy(f, n)'
    BY <1>3, QueueSame
  <1>13. \A g \in Ends : g # x => isRecving'[g] = isRecving[g] BY <1>2, <1>3 DEF Kinds, TypeOK
  <1>14. \A g \in {s, e} : g # x => (Unanswered(g) => Unanswered(g)')
    BY <1>2, <1>3, <1>11, <1>13, UnansweredPop
  <1>15. \A F : Carries(e, F) => Carries(e, F)'
    <2>1. x[1] = "server" => user[x[2]] = UserOf[x[2]] BY <1>2
    <2>2. RecvCheck(x) BY <1>1
    <2>3. QED BY <1>2, <1>11, <2>1, <2>2, DirRecvCheck
  <1>16. /\ c = d /\ n = m => disk'[c][n] = G
         /\ ~(c = d /\ n = m) => disk'[c][n] = disk[c][n]
    BY <1>3, <1>4 DEF Kinds, TypeOK
  <1>17. ToSend(s, n) => Told(c, n)' BY <1>10, <1>12 DEF Told
  <1>18. ASSUME Uploading(c, n) PROVE Told(c, n)'
    <2>1. disk'[c][n] # None BY <1>3, <1>16, <1>18 DEF Uploading
    <2>2. QED BY <1>10, <1>11, <1>12, <1>14, <1>18, <2>1, UploadingKept
  <1>19. ASSUME NEW F, F = saved[UserOf[c]][n], Fresh(c, n, F) PROVE Told(c, n)'
    <2>1. saved'[UserOf[c]][n] = F BY <1>3, <1>19
    <2>2. CASE c = d /\ n = m
      <3>1. Busy(s, n) BY <1>5, <1>7, <1>10, <2>2 DEF Busy
      <3>2. Carries(e, F) BY <1>10, <1>19, <3>1 DEF Fresh
      <3>3. disk'[c][n] = F BY <1>1, <1>7, <1>10, <1>16, <2>2, <3>2
      <3>4. Fresh(c, n, F)' BY <1>10, <1>15, <3>2, <3>3 DEF Fresh
      <3>5. QED BY <2>1, <3>4 DEF Told
    <2>3. CASE ~(c = d /\ n = m)
      <3>1. disk'[c][n] = disk[c][n] BY <1>16, <2>3
      <3>2. Busy(s, n) => e # x BY <1>5, <1>7, <1>10, <1>11, <2>3 DEF Busy
      <3>3. QED BY <1>10, <1>12, <1>14, <1>15, <1>19, <2>1, <3>1, <3>2, FreshKept
    <2>4. QED BY <2>2, <2>3
  <1>20. QED BY <1>3, <1>9, <1>10, <1>17, <1>18, <1>19, ToldCases

\* A client that logs in is sent every file there is.
LEMMA ToldRecvName ==
    ASSUME Kinds, Entered, AllTold, NEW d \in Clients, RecvName(d), Arg(Server(d)) = UserOf[d]
    PROVE  AllTold'
  <1>1. PICK x, u : x = Server(d) /\ u = UserOf[d] OBVIOUS
  <1>2. x \in Ends /\ x[1] = "server" /\ x[2] = d /\ u \in Users BY <1>1, EndFacts, NoneFacts
  <1>3. /\ wire[x] # <<>> /\ wire' = Consumed(x) /\ user' = [user EXCEPT ![d] = u]
        /\ isRecving' = isRecving /\ unsent' = unsent /\ isSending' = isSending
        /\ open' = open /\ saved' = saved /\ disk' = disk /\ uploader' = uploader
    BY <1>1 DEF RecvName, Receives, recvVars, history
  <1>4. PICK S : S = {QueueItem(n, Arg(Server(d))) : n \in known[Arg(Server(d))]} OBVIOUS
  <1>5. PICK order \in SetToSeqs(S) : sendQueue' = [sendQueue EXCEPT ![x] = @ \o order]
    <2>1. \E order \in SetToSeqs({QueueItem(n, Arg(Server(d))) : n \in known[Arg(Server(d))]}) :
              sendQueue' = [sendQueue EXCEPT ![Server(d)] = @ \o order]
      BY DEF RecvName
    <2>2. QED BY <1>1, <1>4, <2>1
  <1>6. /\ order \in Seq(Item)
        /\ \A n \in known[u] : \E i \in 1 .. Len(order) : order[i].filename = n
    <2>1. \A y : y \in S <=> \E n \in known[u] : y = QueueItem(n, u) BY <1>1, <1>4
    <2>2. order \in SetToSeqs(S) OBVIOUS
    <2>3. /\ order \in Seq([filename : Names, owner : FileOr(Users)])
          /\ \A i \in 1 .. Len(order) : order[i].owner = u
          /\ HasAll(order, known[u])
      BY <1>2, <2>1, <2>2, OrderFacts
    <2>4. QED BY <2>3 DEF Item, HasAll
  <1>7. /\ sendQueue'[x] = sendQueue[x] \o order
        /\ \A f \in Ends : f # x => sendQueue'[f] = sendQueue[f]
    BY <1>2, <1>5 DEF Kinds, TypeOK
  <1>8. SUFFICES ASSUME NEW c \in Clients, NEW n \in Names, open[Client(c)] PROVE Told(c, n)'
    BY <1>3 DEF AllTold
  <1>9. Told(c, n) BY <1>8 DEF AllTold
  <1>10. PICK s, e : s = Server(c) /\ e = Client(c) OBVIOUS
  <1>11. /\ s \in Ends /\ e \in Ends /\ open[s] /\ open[e] /\ Peer(s) = e /\ Peer(e) = s
         /\ e # x /\ (c # d => s # x)
    BY <1>1, <1>8, <1>10, BothOpen, EndFacts
  <1>12. \A f \in {s, e} : f # x => /\ ToSend(f, n) <=> ToSend(f, n)'
                                    /\ Busy(f, n) <=> Busy(f, n)'
    BY <1>3, <1>7, <1>11, QueueSame
  <1>13. \A g \in Ends : Unanswered(g) => Unanswered(g)' BY <1>2, <1>3, UnansweredPop
  <1>14. \A F : Carries(e, F) => Carries(e, F)' BY <1>11, DirRecvName
  <1>15. CASE c # d
    <2>1. user'[c] = user[c] BY <1>3, <1>15 DEF Kinds, TypeOK
    <2>2. QED BY <1>3, <1>9, <1>10, <1>11, <1>12, <1>13, <1>14, <1>15, <2>1, ToldKept
  <1>16. CASE c = d
    <2>1. CASE saved[UserOf[c]][n] = None BY <1>3, <2>1 DEF Told
    <2>2. CASE saved[UserOf[c]][n] # None
      <3>1. n \in known[u] BY <1>1, <1>2, <1>16, <2>2 DEF Entered
      <3>2. PICK i \in 1 .. Len(order) : order[i].filename = n BY <1>6, <3>1
      <3>3. ToSend(x, n)' BY <1>2, <1>3, <1>6, <1>7, <3>2, QueueGrows
      <3>4. QED BY <1>1, <1>16, <3>3 DEF Told
    <2>3. QED BY <2>1, <2>2
  <1>17. QED BY <1>15, <1>16

\* Connections begin without a user, and end.
LEMMA ToldElsewhere ==
    ASSUME Kinds, NEW c \in Clients, NEW n \in Names, Told(c, n), open[Client(c)],
           open'[Client(c)], user'[c] = user[c],
           saved' = saved, disk' = disk, uploader' = uploader, origin' = origin,
           NEW x \in Ends, x[2] # c,
           \A g \in Ends : g[2] # x[2] =>
               /\ open'[g] = open[g] /\ wire'[g] = wire[g] /\ unsent'[g] = unsent[g]
               /\ sendQueue'[g] = sendQueue[g] /\ isSending'[g] = isSending[g]
               /\ fileToSend'[g] = fileToSend[g] /\ isRecving'[g] = isRecving[g]
               /\ fileToRecv'[g] = fileToRecv[g] /\ recvFilename'[g] = recvFilename[g]
    PROVE  Told(c, n)'
  <1>1. PICK s, e : s = Server(c) /\ e = Client(c) OBVIOUS
  <1>2. /\ s \in Ends /\ e \in Ends /\ open[s] /\ open[e] /\ Peer(s) = e /\ Peer(e) = s
        /\ s[2] = c /\ e[2] = c
    BY <1>1, BothOpen, EndFacts
  <1>3. \A g \in {s, e} :
            /\ open'[g] = open[g] /\ wire'[g] = wire[g] /\ unsent'[g] = unsent[g]
            /\ sendQueue'[g] = sendQueue[g] /\ isSending'[g] = isSending[g]
            /\ fileToSend'[g] = fileToSend[g] /\ isRecving'[g] = isRecving[g]
            /\ fileToRecv'[g] = fileToRecv[g] /\ recvFilename'[g] = recvFilename[g]
    BY <1>2
  <1>4. \A f \in {s, e} : /\ ToSend(f, n) <=> ToSend(f, n)'
                          /\ Busy(f, n) <=> Busy(f, n)'
    BY <1>3, QueueSame
  <1>5. \A g \in {s, e} : Unanswered(g) => Unanswered(g)'
    <2>1. Chan(s)' = Chan(s) /\ Chan(e)' = Chan(e) BY <1>2, <1>3 DEF Chan
    <2>2. QED BY <1>2, <1>3, <2>1, UnansweredStill
  <1>6. \A F : Carries(e, F) => Carries(e, F)' BY <1>2, <1>3, Elsewhere
  <1>7. QED BY <1>1, <1>4, <1>5, <1>6, ToldKept

LEMMA ToldJoin ==
    ASSUME Kinds, AllTold, NEW d \in Clients, Join(d)
    PROVE  AllTold'
  <1>1. PICK x, y : x = Client(d) /\ y = Server(d) OBVIOUS
  <1>2. x \in Ends /\ y \in Ends /\ x[2] = d /\ y[2] = d BY <1>1, EndFacts
  <1>3. /\ open' = [open EXCEPT ![x] = TRUE, ![y] = TRUE] /\ user' = [user EXCEPT ![d] = None]
        /\ saved' = saved /\ disk' = disk /\ uploader' = uploader /\ origin' = origin
        /\ UNCHANGED <<sendVars, recvVars>>
        /\ wire' = wire \/ wire' = [wire EXCEPT ![y] = << Message("NAME", UserOf[d]) >>]
        /\ unsent' = unsent \/ unsent' = [unsent EXCEPT ![x] = Message("NAME", UserOf[d])]
    BY <1>1 DEF Join
  <1>4. SUFFICES ASSUME NEW c \in Clients, NEW n \in Names, open'[Client(c)] PROVE Told(c, n)'
    BY DEF AllTold
  <1>5. CASE c = d
    <2>1. user'[c] = None BY <1>3, <1>5 DEF Kinds, TypeOK
    <2>2. QED BY <2>1 DEF Told
  <1>6. CASE c # d
    <2>1. Client(c) \in Ends /\ Client(c)[2] = c BY EndFacts
    <2>2. \A g \in Ends : g[2] # x[2] =>
               open'[g] = open[g] /\ wire'[g] = wire[g] /\ unsent'[g] = unsent[g]
      <3>1. \A g \in Ends : g[2] # x[2] => g # x /\ g # y BY <1>2
      <3>2. \A g \in Ends : g # x /\ g # y => open'[g] = open[g] BY <1>3 DEF Kinds, TypeOK
      <3>3. \A g \in Ends : g # x /\ g # y => wire'[g] = wire[g] BY <1>3 DEF Kinds, TypeOK
      <3>4. \A g \in Ends : g # x /\ g # y => unsent'[g] = unsent[g] BY <1>3 DEF Kinds, TypeOK
      <3>5. QED BY <3>1, <3>2, <3>3, <3>4
    <2>3. \A g \in Ends : g[2] # x[2] =>
               /\ open'[g] = open[g] /\ wire'[g] = wire[g] /\ unsent'[g] = unsent[g]
               /\ sendQueue'[g] = sendQueue[g] /\ isSending'[g] = isSending[g]
               /\ fileToSend'[g] = fileToSend[g] /\ isRecving'[g] = isRecving[g]
               /\ fileToRecv'[g] = fileToRecv[g] /\ recvFilename'[g] = recvFilename[g]
      BY <1>3, <2>2 DEF sendVars, recvVars
    <2>4. open[Client(c)] BY <1>2, <1>4, <1>6, <2>1, <2>2
    <2>5. user'[c] = user[c] BY <1>3, <1>6 DEF Kinds, TypeOK
    <2>6. Told(c, n) BY <2>4 DEF AllTold
    <2>7. x[2] # c BY <1>2, <1>6
    <2>8. QED BY <1>2, <1>3, <1>4, <2>3, <2>4, <2>5, <2>6, <2>7, ToldElsewhere
  <1>7. QED BY <1>5, <1>6

LEMMA ToldReset ==
    ASSUME Kinds, AllTold, NEW x \in Ends, Reset({x}), ~open'[Client(x[2])],
           unsent' = [unsent EXCEPT ![x] = None], wire' = [wire EXCEPT ![x] = <<>>],
           user' = user, saved' = saved, disk' = disk, uploader' = uploader, origin' = origin
    PROVE  AllTold'
  <1>1. SUFFICES ASSUME NEW c \in Clients, NEW n \in Names, open'[Client(c)] PROVE Told(c, n)'
    BY DEF AllTold
  <1>2. x[2] # c BY <1>1
  <1>3. Client(c) \in Ends /\ Client(c)[2] = c BY EndFacts
  <1>4. \A g \in Ends : g[2] # x[2] =>
             /\ open'[g] = open[g] /\ wire'[g] = wire[g] /\ unsent'[g] = unsent[g]
             /\ sendQueue'[g] = sendQueue[g] /\ isSending'[g] = isSending[g]
             /\ fileToSend'[g] = fileToSend[g] /\ isRecving'[g] = isRecving[g]
             /\ fileToRecv'[g] = fileToRecv[g] /\ recvFilename'[g] = recvFilename[g]
    BY ResetElsewhere
  <1>5. open[Client(c)] BY <1>1, <1>2, <1>3, <1>4
  <1>6. Told(c, n) BY <1>5 DEF AllTold
  <1>7. QED BY <1>1, <1>2, <1>4, <1>5, <1>6, ToldElsewhere

\* A file that is put is one that the client has still to send.
LEMMA ToldPut ==
    ASSUME Kinds, AllTold, NEW d \in Clients, NEW m \in Names, Put(d, m)
    PROVE  AllTold'
  <1>1. PICK x, it : x = Client(d) /\ it = QueueItem(m, None) OBVIOUS
  <1>2. x \in Ends /\ x[2] = d /\ it \in Item /\ it.filename = m
    BY <1>1, EndFacts DEF Item, QueueItem, FileOr
  <1>3. /\ sendQueue' = [sendQueue EXCEPT ![x] = Append(@, it)]
        /\ isRecving' = isRecving /\ unsent' = unsent /\ wire' = wire /\ isSending' = isSending
        /\ open' = open /\ saved' = saved /\ user' = user /\ uploader' = uploader
        /\ disk' = disk \/ \E v : disk' = [disk EXCEPT ![d][m] = Content(v)] /\ Content(v) # None
    <2>1. \/ disk' = disk
          \/ /\ disk' = [disk EXCEPT ![d][m] = Content(Len(origin'))]
             /\ origin' = Append(origin, [user |-> UserOf[d], name |-> m])
      BY DEF Put
    <2>2. ASSUME origin' = Append(origin, [user |-> UserOf[d], name |-> m])
          PROVE  Content(Len(origin')) # None
      <3>1. PICK k : k = Len(origin) OBVIOUS
      <3>2. k \in Nat /\ Len(origin') = k + 1 /\ k <= puts /\ puts < MaxPuts /\ puts \in Nat
        <4>1. origin \in Seq([user : Users, name : Names]) /\ puts \in Nat /\ k <= puts
          BY <3>1 DEF Kinds
        <4>2. [user |-> UserOf[d], name |-> m] \in [user : Users, name : Names] BY NoneFacts
        <4>3. Len(origin') = k + 1 BY <2>2, <3>1, <4>1, <4>2, AppendProperties
        <4>4. k \in Nat BY <3>1, <4>1, LenProperties
        <4>5. QED BY <4>1, <4>3, <4>4 DEF Put
      <3>3. k + 1 \in Versions BY <3>2, NoneFacts DEF Versions
      <3>4. Content(k + 1) \in Seq(Part)
        <4>1. PICK z : z = Chunks[k + 1] OBVIOUS
        <4>2. z \in Nat BY <3>3, <4>1, NoneFacts
        <4>3. Content(k + 1) = [i \in 1 .. z |-> <<k + 1, i>>] BY <4>1 DEF Content
        <4>4. \A i \in 1 .. z : <<k + 1, i>> \in Part BY <3>3, <4>2 DEF Part
        <4>5. Content(k + 1) \in [1 .. z -> Part] BY <4>3, <4>4
        <4>6. QED BY <4>2, <4>5, SeqDef
      <3>5. QED BY <3>2, <3>4, NoneFacts
    <2>3. QED BY <1>1, <2>1, <2>2 DEF Put, recvVars
  <1>4. SUFFICES ASSUME NEW c \in Clients, NEW n \in Names, open[Client(c)] PROVE Told(c, n)'
    BY <1>3 DEF AllTold
  <1>5. Told(c, n) BY <1>4 DEF AllTold
  <1>6. PICK s, e : s = Server(c) /\ e = Client(c) OBVIOUS
  <1>7. /\ s \in Ends /\ e \in Ends /\ open[s] /\ open[e] /\ Peer(s) = e /\ Peer(e) = s
        /\ s # x /\ (c # d => e # x)
    BY <1>1, <1>4, <1>6, BothOpen, EndFacts
  <1>8. /\ sendQueue'[x] = Append(sendQueue[x], it)
        /\ \A f \in Ends : f # x => sendQueue'[f] = sendQueue[f]
    BY <1>2, <1>3 DEF Kinds, TypeOK
  <1>9. \A f \in {s, e} : f # x => /\ ToSend(f, n) <=> ToSend(f, n)'
                                   /\ Busy(f, n) <=> Busy(f, n)'
    BY <1>3, <1>7, <1>8, QueueSame
  <1>10. /\ ToSend(x, n) => ToSend(x, n)'
         /\ Busy(x, n) <=> Busy(x, n)'
         /\ m = n => ToSend(x, n)'
    <2>1. isSending'[x] = isSending[x] BY <1>3
    <2>2. QED BY <1>2, <1>8, <2>1, QueueAppends
  <1>11. \A g \in Ends : Unanswered(g) => Unanswered(g)' BY <1>3, UnansweredStill DEF Chan
  <1>12. \A F : Carries(e, F) => Carries(e, F)' BY <1>7, DirPut
  <1>13. CASE disk'[c][n] = disk[c][n]
    BY <1>3, <1>5, <1>6, <1>7, <1>9, <1>10, <1>11, <1>12, <1>13, ToldKept
  <1>14. CASE disk'[c][n] # disk[c][n]
    <2>1. c = d /\ n = m /\ disk'[c][n] # None BY <1>3, <1>14 DEF Kinds, TypeOK
    <2>2. QED BY <1>1, <1>10, <2>1 DEF Told, Uploading
  <1>15. QED BY <1>13, <1>14

-----------------------------------------------------------------------------
(* Entries and uploaders.                                                  *)

LEMMA EnteredStill ==
    ASSUME Entered, saved' = saved, \A u \in Users : known[u] \subseteq known'[u],
           \A c \in Clients : fileToRecv'[Server(c)] # None =>
               /\ fileToRecv[Server(c)] # None
               /\ recvFilename'[Server(c)] = recvFilename[Server(c)]
    PROVE  Entered'
  <1>1. \A u \in Users, n \in Names : saved'[u][n] # None => n \in known'[u] BY DEF Entered
  <1>2. ASSUME NEW c \in Clients, fileToRecv'[Server(c)] # None
        PROVE  recvFilename'[Server(c)] \in known'[UserOf[c]]
    BY <1>2, NoneFacts DEF Entered
  <1>3. QED BY <1>1, <1>2 DEF Entered

LEMMA EnteredRecvPut ==
    ASSUME Kinds, Entered, NEW x \in Ends, RecvPut(x),
           x[1] = "server" => user[x[2]] = UserOf[x[2]]
    PROVE  Entered'
  <1>1. /\ recvFilename' = [recvFilename EXCEPT ![x] = Arg(x)] /\ saved' = saved
        /\ fileToRecv' = [fileToRecv EXCEPT ![x] = <<>>]
               \/ fileToRecv' = [fileToRecv EXCEPT ![x] = None]
        /\ known' = IF x[1] = "server" THEN getFileId(user[x[2]], Arg(x)) ELSE known
    BY DEF RecvPut
  <1>2. \A e \in Ends : e # x => /\ fileToRecv'[e] = fileToRecv[e]
                                 /\ recvFilename'[e] = recvFilename[e]
    BY <1>1 DEF Kinds, TypeOK
  <1>3. recvFilename'[x] = Arg(x) BY <1>1 DEF Kinds, TypeOK
  <1>4. CASE x[1] # "server"
    <2>1. \A c \in Clients : Server(c) # x /\ Server(c) \in Ends BY <1>4, EndFacts
    <2>2. known' = known BY <1>1, <1>4
    <2>3. QED BY <1>1, <1>2, <2>1, <2>2, EnteredStill
  <1>5. CASE x[1] = "server"
    <2>1. PICK d, u, m : d = x[2] /\ u = UserOf[d] /\ m = Arg(x) OBVIOUS
    <2>2. d \in Clients /\ u \in Users /\ x = Server(d) BY <1>5, <2>1, EndFacts, NoneFacts
    <2>3. known' = [known EXCEPT ![u] = @ \cup {m}] BY <1>1, <1>5, <2>1 DEF getFileId
    <2>4. m \in known'[u] /\ \A v \in Users : known[v] \subseteq known'[v]
      BY <2>2, <2>3 DEF Kinds, TypeOK
    <2>5. \A v \in Users, n \in Names : saved'[v][n] # None => n \in known'[v]
      BY <1>1, <2>4 DEF Entered
    <2>6. ASSUME NEW c \in Clients, fileToRecv'[Server(c)] # None
          PROVE  recvFilename'[Server(c)] \in known'[UserOf[c]]
      <3>1. CASE c = d BY <1>3, <2>1, <2>2, <2>4, <3>1
      <3>2. CASE c # d
        <4>1. Server(c) # x /\ Server(c) \in Ends BY <2>2, <3>2, EndFacts
        <4>2. recvFilename[Server(c)] \in known[UserOf[c]] BY <1>2, <2>6, <4>1 DEF Entered
        <4>3. QED BY <1>2, <2>4, <4>1, <4>2, NoneFacts
      <3>3. QED BY <3>1, <3>2
    <2>7. QED BY <2>5, <2>6 DEF Entered
  <1>6. QED BY <1>4, <1>5

LEMMA EnteredRecvCheck ==
    ASSUME Kinds, Entered, Uploaders, NEW x \in Ends, RecvCheck(x),
           x[1] = "server" => user[x[2]] = UserOf[x[2]]
    PROVE  Entered' /\ Uploaders'
  <1>1. /\ fileToRecv[x] # None /\ fileToRecv' = [fileToRecv EXCEPT ![x] = None]
        /\ recvFilename' = recvFilename /\ known' = known
        /\ IF x[1] = "server" THEN SaveAtServer(x[2]) ELSE SaveAtClient(x[2])
    BY DEF RecvCheck
  <1>2. \A c \in Clients : fileToRecv'[Server(c)] # None => fileToRecv[Server(c)] # None
    BY <1>1, EndFacts DEF Kinds, TypeOK
  <1>3. CASE x[1] # "server"
    <2>1. saved' = saved /\ uploader' = uploader BY <1>1, <1>3 DEF SaveAtClient
    <2>2. QED BY <1>1, <1>2, <2>1, EnteredStill DEF Uploaders
  <1>4. CASE x[1] = "server"
    <2>1. PICK d, u, m : d = x[2] /\ u = UserOf[d] /\ m = recvFilename[x] OBVIOUS
    <2>2. d \in Clients /\ u \in Users /\ x = Server(d) BY <1>4, <2>1, EndFacts, NoneFacts
    <2>3. /\ saved' = [saved EXCEPT ![u][m] = fileToRecv[x]]
          /\ uploader' = [uploader EXCEPT ![u][m] = d]
      BY <1>1, <1>4, <2>1, <2>2 DEF SaveAtServer
    <2>4. m \in known[u] BY <1>1, <2>1, <2>2 DEF Entered
    <2>5. \A v \in Users, n \in Names : v # u \/ n # m => saved'[v][n] = saved[v][n]
      BY <2>2, <2>3 DEF Kinds, TypeOK
    <2>6. \A v \in Users, n \in Names : saved'[v][n] # None => n \in known'[v]
      BY <1>1, <2>4, <2>5 DEF Entered
    <2>7. \A c \in Clients : fileToRecv'[Server(c)] # None =>
                                 recvFilename'[Server(c)] \in known'[UserOf[c]]
      BY <1>1, <1>2 DEF Entered
    <2>8. Uploaders' BY <2>2, <2>3 DEF Uploaders, FileOr
    <2>9. QED BY <2>6, <2>7, <2>8 DEF Entered
  <1>5. QED BY <1>3, <1>4

LEMMA EnteredReset ==
    ASSUME Kinds, Entered, NEW x \in Ends, Reset({x}), saved' = saved, known' = known
    PROVE  Entered'
  <1>1. \A c \in Clients : fileToRecv'[Server(c)] # None =>
            /\ fileToRecv[Server(c)] # None
            /\ recvFilename'[Server(c)] = recvFilename[Server(c)]
    BY EndFacts DEF Reset
  <1>2. QED BY <1>1, EnteredStill

-----------------------------------------------------------------------------
(* Every step tells everybody.                                             *)

LEMMA SyncReceive ==
    ASSUME SInv, NEW x \in Ends, Receive(x)
    PROVE  Uploaders' /\ Entered' /\ AllTold'
  <1>1. Kinds /\ Nameds /\ Directions /\ Uploaders /\ Entered /\ AllTold BY IInvParts DEF SInv
  <1>2. \A c \in Clients : open[Server(c)] => user[c] \in {None, UserOf[c]}
    BY <1>1 DEF Nameds, Named
  <1>3. CASE x[1] = "server" /\ RecvName(x[2])
    <2>1. PICK c \in Clients : c = x[2] BY EndFacts
    <2>2. RecvName(c) BY <1>3, <2>1
    <2>3. Arg(Server(c)) = UserOf[c] BY <1>1, <2>2, NamedsRecvName
    <2>4. saved' = saved /\ known' = known /\ uploader' = uploader
          /\ fileToRecv' = fileToRecv /\ recvFilename' = recvFilename
      BY <2>2 DEF RecvName, recvVars, history
    <2>5. AllTold' BY <1>1, <2>2, <2>3, ToldRecvName
    <2>6. Entered' BY <1>1, <2>4, EnteredStill
    <2>7. QED BY <1>1, <2>4, <2>5, <2>6 DEF Uploaders
  <1>4. CASE RecvPut(x) \/ RecvCheck(x)
    <2>1. wire[x] # <<>> /\ Head(wire[x]).type # "NAME" /\ open[x]
      BY <1>4 DEF RecvPut, RecvCheck, Receives
    <2>2. x[1] = "server" => user[x[2]] = UserOf[x[2]] BY <1>1, <2>1, UserKnown
    <2>3. CASE RecvPut(x)
      <3>1. uploader' = uploader BY <2>3 DEF RecvPut, history
      <3>2. QED BY <1>1, <2>2, <2>3, <3>1, EnteredRecvPut, ToldRecvPut DEF Uploaders
    <2>4. CASE RecvCheck(x)
      <3>1. Entered' /\ Uploaders' BY <1>1, <2>2, <2>4, EnteredRecvCheck
      <3>2. PICK c \in Clients : x = Server(c) \/ x = Client(c) BY EndFacts
      <3>3. AllTold' BY <1>1, <1>2, <2>4, <3>2, ToldServerSaves, ToldClientSaves
      <3>4. QED BY <3>1, <3>3
    <2>5. QED BY <1>4, <2>3, <2>4
  <1>5. CASE RecvData(x)
    <2>1. /\ saved' = saved /\ known' = known /\ uploader' = uploader
          /\ recvFilename' = recvFilename
          /\ \A e \in Ends : fileToRecv'[e] # None => fileToRecv[e] # None
      BY <1>1, <1>5 DEF RecvData, fileVars, history, Kinds, TypeOK
    <2>2. \A c \in Clients : Server(c) \in Ends BY EndFacts
    <2>3. Entered' BY <1>1, <2>1, <2>2, EnteredStill
    <2>4. QED BY <1>1, <1>5, <2>1, <2>3, ToldRecvData DEF Uploaders
  <1>6. CASE RecvCheckIgnored(x) \/ RecvOk(x)
    <2>1. /\ saved' = saved /\ known' = known /\ uploader' = uploader
          /\ recvFilename' = recvFilename /\ fileToRecv' = fileToRecv
      BY <1>6 DEF RecvCheckIgnored, RecvOk, fileVars, recvVars, history
    <2>2. Entered' BY <1>1, <2>1, EnteredStill
    <2>3. AllTold' BY <1>1, <1>6, ToldRecvCheckIgnored, ToldRecvOk
    <2>4. QED BY <1>1, <2>1, <2>2, <2>3 DEF Uploaders
  <1>7. QED BY <1>3, <1>4, <1>5, <1>6 DEF Receive

LEMMA SyncWrite ==
    ASSUME SInv, NEW x \in Ends, Write(x)
    PROVE  Uploaders' /\ Entered' /\ AllTold'
  <1>1. Kinds /\ FilesAreWhole /\ Directions /\ Uploaders /\ Entered /\ AllTold
    BY IInvParts DEF SInv
  <1>2. /\ saved' = saved /\ known' = known /\ uploader' = uploader
        /\ recvFilename' = recvFilename /\ fileToRecv' = fileToRecv
    BY DEF Write, trySendToClientAgain, sendCheckResult, StopWriting, StartFile, SkipFile,
           SendData, SendCheck, fileVars, recvVars, history
  <1>3. Uploaders' /\ Entered' BY <1>1, <1>2, EnteredStill DEF Uploaders
  <1>4. AllTold'
    BY <1>1, ToldAgain, ToldCheckResult, ToldStopWriting, ToldStartFile, ToldSkipFile,
       ToldSendData, ToldSendCheck DEF Write
  <1>5. QED BY <1>3, <1>4

LEMMA SyncUsers ==
    ASSUME SInv, NEW c \in Clients,
           Join(c) \/ Leave(c) \/ destroyClient(c) \/ \E n \in Names : Put(c, n)
    PROVE  Uploaders' /\ Entered' /\ AllTold'
  <1>1. Kinds /\ Uploaders /\ Entered /\ AllTold BY IInvParts DEF SInv
  <1>2. CASE Join(c)
    <2>1. /\ saved' = saved /\ known' = known /\ uploader' = uploader
          /\ recvFilename' = recvFilename /\ fileToRecv' = fileToRecv
      BY <1>2 DEF Join, recvVars
    <2>2. QED BY <1>1, <1>2, <2>1, EnteredStill, ToldJoin DEF Uploaders
  <1>3. ASSUME NEW x \in Ends, Reset({x}), ~open'[Client(x[2])],
               unsent' = [unsent EXCEPT ![x] = None], wire' = [wire EXCEPT ![x] = <<>>],
               UNCHANGED <<fileVars, history>>
        PROVE  Uploaders' /\ Entered' /\ AllTold'
    <2>1. /\ user' = user /\ saved' = saved /\ known' = known /\ disk' = disk
          /\ uploader' = uploader /\ origin' = origin
      BY <1>3 DEF fileVars, history
    <2>2. QED BY <1>1, <1>3, <2>1, EnteredReset, ToldReset DEF Uploaders
  <1>4. CASE Leave(c)
    <2>1. PICK x : x = Client(c) OBVIOUS
    <2>2. x \in Ends /\ Client(x[2]) = x BY <2>1, EndFacts
    <2>3. /\ Reset({x}) /\ unsent' = [unsent EXCEPT ![x] = None]
          /\ wire' = [wire EXCEPT ![x] = <<>>] /\ UNCHANGED <<fileVars, history>>
      BY <1>4, <2>1 DEF Leave
    <2>4. ~open'[Client(x[2])] BY <2>2, <2>3 DEF Reset
    <2>5. QED BY <1>3, <2>2, <2>3, <2>4
  <1>5. CASE destroyClient(c)
    <2>1. PICK x : x = Server(c) OBVIOUS
    <2>2. x \in Ends /\ Client(x[2]) = Client(c) /\ Client(c) \in Ends BY <2>1, EndFacts
    <2>3. /\ Reset({x}) /\ unsent' = [unsent EXCEPT ![x] = None] /\ ~open[Client(c)]
          /\ wire' = [wire EXCEPT ![x] = <<>>] /\ UNCHANGED <<fileVars, history>>
      BY <1>5, <2>1 DEF destroyClient
    <2>4. ~open'[Client(x[2])] BY <2>2, <2>3 DEF Reset
    <2>5. QED BY <1>3, <2>2, <2>3, <2>4
  <1>6. CASE \E n \in Names : Put(c, n)
    <2>1. PICK n \in Names : Put(c, n) BY <1>6
    <2>2. /\ saved' = saved /\ known' = known /\ uploader' = uploader
          /\ recvFilename' = recvFilename /\ fileToRecv' = fileToRecv
      BY <2>1 DEF Put, recvVars
    <2>3. QED BY <1>1, <2>1, <2>2, EnteredStill, ToldPut DEF Uploaders
  <1>7. QED BY <1>2, <1>4, <1>5, <1>6

LEMMA InitSInv ==
    ASSUME Init
    PROVE  SInv
  <1>1. Uploaders BY DEF Init, Uploaders, FileOr
  <1>2. Entered BY EndFacts DEF Init, Entered
  <1>3. AllTold BY EndFacts DEF Init, AllTold
  <1>4. QED BY <1>1, <1>2, <1>3, InitIInv DEF SInv

LEMMA StepSInv ==
    ASSUME SInv, [Next]_vars
    PROVE  SInv'
  <1>1. IInv' BY StepIInv DEF SInv
  <1>2. CASE UNCHANGED vars
    <2>1. UNCHANGED <<open, sendQueue, isSending, fileToSend, isRecving, fileToRecv, recvFilename,
                      pollOut, unsent, wire, user, known, saved, disk, origin, uploader, joins, puts>>
      BY <1>2 DEF vars, connVars, sendVars, recvVars, fileVars, history
    <2>2. Kinds /\ Uploaders /\ Entered /\ AllTold BY IInvParts DEF SInv
    <2>3. \A g \in Ends : Unanswered(g) => Unanswered(g)' BY <2>1, UnansweredStill DEF Chan
    <2>4. \A e \in Ends : \A F : Carries(e, F) => Carries(e, F)'
      <3>1. SUFFICES ASSUME NEW e \in Ends, NEW F, Carries(e, F) PROVE Carries(e, F)' OBVIOUS
      <3>2. QED BY <2>1, <2>2, <3>1, Elsewhere
    <2>5. AllTold' BY <2>1, <2>2, <2>3, <2>4, AllToldStill
    <2>6. Uploaders' /\ Entered' BY <2>1, <2>2, EnteredStill DEF Uploaders
    <2>7. QED BY <1>1, <2>5, <2>6 DEF SInv
  <1>3. CASE Next
    <2>1. CASE \E e \in Ends : Receive(e) \/ Write(e)
      BY <1>1, <2>1, SyncReceive, SyncWrite DEF SInv
    <2>2. CASE \E c \in Clients : destroyClient(c) \/ Join(c) \/ Leave(c)
      BY <1>1, <2>2, SyncUsers DEF SInv
    <2>3. CASE \E c \in Clients, n \in Names : Put(c, n)
      BY <1>1, <2>3, SyncUsers DEF SInv
    <2>4. QED BY <1>3, <2>1, <2>2, <2>3 DEF Next, Work
  <1>4. QED BY <1>2, <1>3

\* With nothing underway, what a client was told is what it has.
LEMMA TellingSyncs ==
    ASSUME SInv
    PROVE  Synced
  <1>1. Kinds /\ Nameds /\ AllTold BY IInvParts DEF SInv
  <1>2. SUFFICES ASSUME Quiet, NEW c \in Clients, NEW n \in Names, open[Client(c)],
                        saved[UserOf[c]][n] # None, uploader[UserOf[c]][n] # c
                 PROVE  disk[c][n] = saved[UserOf[c]][n]
    BY DEF Synced
  <1>3. PICK s, e : s = Server(c) /\ e = Client(c) OBVIOUS
  <1>4. s \in Ends /\ e \in Ends /\ open[s] /\ Peer(s) = e BY <1>1, <1>2, <1>3, BothOpen
  <1>5. \A f \in {s, e} : sendQueue[f] = <<>> /\ unsent[f] = None /\ wire[f] = <<>>
    BY <1>2, <1>4 DEF Quiet
  <1>6. \A f \in {s, e} : ~ToSend(f, n) /\ ~Busy(f, n)
    <2>1. \A f \in {s, e} : isSending[f] = "STARTING" BY <1>1, <1>4, <1>5 DEF Kinds, TypeOK
    <2>2. Len(<<>>) = 0 /\ 1 .. 0 = {} BY EmptySeq
    <2>3. QED BY <1>5, <2>1, <2>2 DEF ToSend, Busy
  <1>7. user[c] # None
    <2>1. SUFFICES ASSUME user[c] = None PROVE FALSE OBVIOUS
    <2>2. Chan(s) = <<>> BY <1>4, <1>5 DEF Chan
    <2>3. Named(c) BY <1>1, <1>3, <1>4 DEF Nameds
    <2>4. QED BY <1>2, <1>3, <2>1, <2>2, <2>3 DEF Named
  <1>8. Told(c, n) BY <1>1, <1>2 DEF AllTold
  <1>9. ~Uploading(c, n) BY <1>3, <1>6 DEF Uploading
  <1>10. \E F : F = saved[UserOf[c]][n] /\ Fresh(c, n, F)
    BY <1>2, <1>3, <1>6, <1>7, <1>8, <1>9 DEF Told
  <1>11. QED BY <1>3, <1>6, <1>10 DEF Fresh

-----------------------------------------------------------------------------

\* The invariant holds of every reachable state of the server and its clients
\* (connection.c, server.c, client.c of 3/).
THEOREM Invariant == Spec => []IInv
  <1>1. Init => IInv BY InitIInv
  <1>2. IInv /\ [Next]_vars => IInv' BY StepIInv
  <1>3. QED BY <1>1, <1>2, PTL DEF Spec

\* Every variable keeps its type, and a transfer under way has its open file and
\* its entry in the queue: sendQueuedData and recvPacket never use what is not there.
THEOREM Typed == Spec => []TypeOK
  <1>1. IInv => TypeOK BY DEF IInv, Kinds
  <1>2. QED BY <1>1, Invariant, PTL

\* What renameReceived puts in the place of a file is one whole version of it, put
\* by the same user under that name: never a part, never a mixture of two uploads,
\* whoever uploads at the same time, replaces the file or disappears in the middle.
THEOREM WholeFiles == Spec => []FilesAreWhole
  <1>1. IInv => FilesAreWhole BY DEF IInv
  <1>2. QED BY <1>1, Invariant, PTL

\* The OK that recvOk receives is for the file at the head of the queue, although
\* the packet does not say which file it is for.
THEOREM OkForHead == Spec => []OkIsForHead
  <1>1. IInv => OkIsForHead BY Answering
  <1>2. QED BY <1>1, Invariant, PTL

\* When nothing is going on, every client that is connected has the server's version
\* of every file of its user, unless it has uploaded that version itself: sendToPeers
\* and the queue that a login fills leave nobody out, whatever overlaps.
THEOREM EverybodySynced == Spec => []Synced
  <1>1. Init => SInv BY InitSInv
  <1>2. SInv /\ [Next]_vars => SInv' BY StepSInv
  <1>3. SInv => Synced BY TellingSyncs
  <1>4. QED BY <1>1, <1>2, <1>3, PTL DEF Spec
=============================================================================
