-------------------------- MODULE ChatServerProofs --------------------------
(***************************************************************************)
(* The chat server of 1/, for every number of slots and every set of       *)
(* names: names are unique, a round that nready ends early has passed over *)
(* nobody, every client gets whole messages, what waits for a socket is    *)
(* watched, and the server ends no connection without a reason.            *)
(***************************************************************************)
EXTENDS ChatServer, FiniteSetTheorems, SequenceTheorems, Induction

\* The table of slots, and that a visit is to a connected client.
TableInv ==
    /\ maxi \in {1} \cup Slots
    /\ open \subseteq 2 .. maxi
    /\ cur \in {1} \cup Slots
    /\ phase = "visit" => cur \in open
    /\ name \in [Slots -> Names \cup {Anonymous}]

\* What poll has reported and nobody has looked at yet.
Reported == {s \in open \ junk : s > cur /\ revents[s] # {}}

\* nready is no less than what is still to be handled.  A slot that poll has
\* never written may be visited as well, but only as the last one.
Counted ==
    \/ phase = "visit" /\ cur \in junk
    \/ phase = "visit" /\ Cardinality(Reported) + 1 <= nready
    \/ phase = "ready" /\ Cardinality(events) + Cardinality(Reported) <= nready

\* While a connection may still be accepted, no free slot has anything in
\* revents but those that poll has never written, and these are behind maxi.
FreeIsClean ==
    /\ \A s \in junk : s > maxi
    /\ \A s \in Slots \ (open \cup junk) : revents[s] = {}

RoundInv ==
    /\ nready \in Nat
    /\ events \subseteq {"stdin", "listen"}
    /\ phase # "ready" => events = {}
    /\ \A s \in Slots : s > maxi => s \in junk
    /\ phase # "poll" => \A s \in junk \cap open : s = maxi
    /\ phase = "ready" /\ "listen" \in events => FreeIsClean
    /\ phase \in {"ready", "visit"} => Counted

\* What the messages are made of, and the output of a slot.
Unit == {"own", "news"} \X {0, 1, 2}
Kinds == {"own", "news", "text", "lines"}

OutType(c) ==
    /\ c \in [buf : Seq(Unit), finished : Nat, closed : BOOLEAN, wr : BOOLEAN, wire : Unit \cup {Torn}]
    /\ c.finished <= Len(c.buf)

Watched(c) == ~c.closed => (c.wr <=> Waiting(c))
LineWaits(c) == Waiting(c) => IsNewline(Last(c.buf))
InAll(c) == Got(c.wire, ToCome(c))

\* Between two handlers, the output of a client is whole messages.
Tidy(c) == OutType(c) /\ Watched(c) /\ LineWaits(c) /\ InAll(c) = Ended

\* Every slot's output is well formed; that of a connected client is in order,
\* and it is closed only when the client has gone or has said exit.
OutInv ==
    /\ out = [s \in Slots |-> out[s]]
    /\ peer \in [Slots -> {"up", "left", "gone"}]
    /\ \A s \in Slots : OutType(out[s])
    /\ \A s \in open : /\ Tidy(out[s])
                       /\ out[s].closed => peer[s] # "up"
    /\ phase # "down" => \A s \in Slots \ open : peer[s] = "up"

\* A slot that is still to be visited in this round, or is being visited.
Ahead(s) == s > cur \/ (phase = "visit" /\ s = cur)

\* poll reports "wr" for a client only if there is output for it, and nothing
\* takes that away before the visit.
WriteReported ==
    phase \in {"ready", "visit"} =>
        \A s \in open \ junk : Ahead(s) /\ "wr" \in revents[s] => Waiting(out[s]) \/ out[s].closed

\* The rest of the types.
LoopType ==
    /\ phase \in {"poll", "ready", "visit", "down"}
    /\ cur <= maxi
    /\ junk \subseteq Slots
    /\ revents \in [Slots -> SUBSET {"rd", "wr"}]

IInv == TableInv /\ UniqueNames /\ RoundInv /\ OutInv /\ WriteReported /\ LoopType

-----------------------------------------------------------------------------
LEMMA OpenMaxNat == OpenMax \in Nat
  BY ChatAssumption DEF ChatAssumption

\* Finite sets.

LEMMA SlotsFinite == ASSUME NEW S, S \subseteq Slots
                     PROVE  IsFiniteSet(S) /\ Cardinality(S) \in Nat
  <1>1. IsFiniteSet(Slots)
    BY FS_Interval, OpenMaxNat DEF Slots
  <1> QED
    BY <1>1, FS_Subset, FS_CardinalityType

LEMMA SmallerSet == ASSUME NEW T, T \subseteq Slots, NEW S, S \subseteq T
                    PROVE  Cardinality(S) <= Cardinality(T)
  BY SlotsFinite, FS_Subset

LEMMA OneLess == ASSUME NEW T, T \subseteq Slots, NEW x \in T, NEW S, S \subseteq T \ {x}
                 PROVE  Cardinality(S) + 1 <= Cardinality(T)
  <1>1. Cardinality(T \ {x}) = Cardinality(T) - 1
    BY SlotsFinite, FS_RemoveElement
  <1>2. Cardinality(S) <= Cardinality(T \ {x})
    BY SmallerSet
  <1>3. Cardinality(S) \in Nat /\ Cardinality(T) \in Nat /\ Cardinality(T \ {x}) \in Nat
    BY SlotsFinite
  <1> QED
    BY <1>1, <1>2, <1>3

LEMMA EmptySlots == ASSUME NEW S, S \subseteq Slots, Cardinality(S) <= 0
                    PROVE  S = {}
  <1>1. Cardinality(S) = 0
    BY SlotsFinite
  <1> QED
    BY <1>1, SlotsFinite, FS_EmptySet

LEMMA EventsFinite == ASSUME NEW E, E \subseteq {"stdin", "listen"}
                      PROVE  IsFiniteSet(E) /\ Cardinality(E) \in Nat
  <1>1. IsFiniteSet({"stdin"}) /\ IsFiniteSet({"stdin"} \cup {"listen"})
    BY FS_Singleton, FS_AddElement
  <1>2. IsFiniteSet({"stdin", "listen"})
    <2>1. {"stdin", "listen"} = {"stdin"} \cup {"listen"}
      OBVIOUS
    <2> QED
      BY <1>1, <2>1
  <1> QED
    BY <1>2, FS_Subset, FS_CardinalityType

LEMMA OpenSlots ==
    ASSUME TableInv
    PROVE  /\ maxi \in Int /\ cur \in Int
           /\ \A s \in open : s \in Slots /\ s \in Int /\ s <= maxi
  <1>1. maxi < 2 \/ maxi <= OpenMax - 1
    BY OpenMaxNat DEF TableInv, Slots
  <1>2. maxi \in Int /\ cur \in Int
    BY OpenMaxNat DEF TableInv, Slots
  <1>3. ASSUME NEW s \in open PROVE s \in Slots /\ s \in Int /\ s <= maxi
    <2>1. s \in 2 .. maxi
      BY <1>3 DEF TableInv
    <2> QED
      BY <2>1, <1>1, <1>2, OpenMaxNat DEF Slots
  <1> QED
    BY <1>2, <1>3

LEMMA Connects == TableInv => Connected = open
  BY OpenSlots DEF Connected

LEMMA ReportedSlots == TableInv => Reported \subseteq Slots
  BY OpenSlots DEF Reported

-----------------------------------------------------------------------------
\* Names.

\* The commands change no name, or that of the client to one nobody has.
LEMMA NewNameIsUnique ==
    ASSUME TableInv, UniqueNames, phase = "visit", processMessage(cur), open' = open
    PROVE  /\ name' \in [Slots -> Names \cup {Anonymous}]
           /\ UniqueNames'
  <1>1. CASE UNCHANGED name
    BY <1>1 DEF TableInv, UniqueNames
  <1>2. CASE \E arg \in Names : Unused(cur, arg) /\ name' = [name EXCEPT ![cur] = arg]
    <2>1. PICK arg \in Names : Unused(cur, arg) /\ name' = [name EXCEPT ![cur] = arg]
      BY <1>2
    <2>2. \A s \in open \ {cur} : name[s] # arg
      BY <2>1, Connects DEF Unused
    <2>3. cur \in open /\ open \subseteq Slots
      BY OpenMaxNat DEF TableInv, Slots
    <2>4. \A s \in open : name'[s] = IF s = cur THEN arg ELSE name[s]
      BY <2>1, <2>3 DEF TableInv
    <2>5. UniqueNames'
      BY <2>2, <2>4 DEF UniqueNames
    <2> QED
      BY <2>1, <2>3, <2>5 DEF TableInv
  <1> QED
    BY <1>1, <1>2 DEF processMessage, whoCommand, errorCommand, nameCommand, tellCommand, yellCommand

LEMMA TableInit == Init => TableInv /\ UniqueNames
  BY OpenMaxNat DEF Init, TableInv, UniqueNames

LEMMA AcceptKeepsTable ==
    ASSUME TableInv, UniqueNames, NEW i \in Slots, Accept(i)
    PROVE  TableInv' /\ UniqueNames'
  <1>1. maxi \in Int /\ maxi' \in {1} \cup Slots /\ maxi <= maxi' /\ i <= maxi'
    BY OpenMaxNat DEF TableInv, Accept, Slots
  <1>2. open' \subseteq 2 .. maxi'
    BY <1>1, OpenMaxNat DEF TableInv, Accept, Slots
  <1>3. cur' \in {1} \cup Slots /\ phase' # "visit"
    BY DEF TableInv, Accept, CountDown, EndRound
  <1>4. name' = [name EXCEPT ![i] = Anonymous] /\ i \notin open /\ open' = open \cup {i}
    BY DEF Accept, NewName
  <1>5. name' \in [Slots -> Names \cup {Anonymous}]
    BY <1>4 DEF TableInv
  <1>6. \A s \in open' : name'[s] = IF s = i THEN Anonymous ELSE name[s]
    BY <1>4, OpenMaxNat DEF TableInv, Slots
  <1>7. UniqueNames'
    BY <1>4, <1>6 DEF UniqueNames
  <1> QED
    BY <1>1, <1>2, <1>3, <1>5, <1>7 DEF TableInv

LEMMA TableStep == TableInv /\ UniqueNames /\ [Next]_vars => TableInv' /\ UniqueNames'
  <1> SUFFICES ASSUME TableInv, UniqueNames, [Next]_vars
               PROVE  TableInv' /\ UniqueNames'
    OBVIOUS
  <1>1. CASE Poll
    BY <1>1 DEF TableInv, UniqueNames, Poll, table
  <1>2. CASE Admin
    BY <1>2 DEF TableInv, UniqueNames, Admin, table
  <1>3. CASE Shutdown
    BY <1>3 DEF TableInv, UniqueNames, Shutdown
  <1>4. CASE AcceptNobody
    BY <1>4 DEF TableInv, UniqueNames, AcceptNobody, table
  <1>5. CASE EndOfRound
    BY <1>5 DEF TableInv, UniqueNames, EndOfRound, EndRound
  <1>6. ASSUME NEW i \in Slots, Accept(i) PROVE TableInv' /\ UniqueNames'
    BY <1>6, AcceptKeepsTable
  <1>7. ASSUME NEW i \in Slots, Visit(i) PROVE TableInv' /\ UniqueNames'
    BY <1>7, Connects DEF TableInv, UniqueNames, Visit, Due, table
  <1>8. CASE ReadLine
    <2>1. phase = "visit" /\ phase' = phase /\ cur' = cur /\ open' = open /\ maxi' = maxi
      BY <1>8 DEF ReadLine, loop
    <2>2. CASE processMessage(cur)
      BY <2>1, <2>2, NewNameIsUnique DEF TableInv
    <2>3. CASE exitCommand(cur)
      BY <2>1, <2>3 DEF exitCommand, TableInv, UniqueNames
    <2> QED
      BY <1>8, <2>2, <2>3 DEF ReadLine
  <1>9. CASE LeaveClient
    <2>1. open' \subseteq open /\ UNCHANGED <<maxi, name>>
      BY <1>9 DEF LeaveClient
    <2>2. phase' # "visit" /\ cur' \in {1, cur}
      BY <1>9 DEF LeaveClient, CountDown, EndRound
    <2> QED
      BY <2>1, <2>2 DEF TableInv, UniqueNames
  <1>10. ASSUME NEW s \in Slots, PeerGone(s) PROVE TableInv' /\ UniqueNames'
    BY <1>10 DEF TableInv, UniqueNames, PeerGone, loop, table
  <1>11. CASE UNCHANGED vars
    BY <1>11 DEF TableInv, UniqueNames, vars
  <1> QED
    BY <1>1, <1>2, <1>3, <1>4, <1>5, <1>6, <1>7, <1>8, <1>9, <1>10, <1>11 DEF Next

-----------------------------------------------------------------------------
\* Rounds.

LEMMA RoundInit == Init => RoundInv
  BY DEF Init, RoundInv

\* poll counts every slot it reports.
LEMMA PollCounts ==
    ASSUME TableInv, RoundInv, Poll
    PROVE  RoundInv'
  <1>1. PICK rd \in SUBSET Connected, wr \in SUBSET {s \in Connected : out[s].wr} :
            /\ events' \in SUBSET {"stdin", "listen"}
            /\ nready' = Cardinality(events') + Cardinality(rd \cup wr)
            /\ revents' = [s \in Slots |-> IF s > maxi THEN revents[s]
                                           ELSE {x \in {"rd", "wr"} : s \in IF x = "rd" THEN rd ELSE wr}]
    BY DEF Poll
  <1>2. /\ phase' = "ready" /\ cur' = 1 /\ maxi' = maxi /\ open' = open
        /\ junk' = {s \in junk : s > maxi}
    BY DEF Poll, table
  <1>3. rd \cup wr \subseteq open /\ rd \cup wr \subseteq Slots
    BY <1>1, Connects, OpenSlots
  <1>4. ASSUME NEW s \in open' \ junk', revents'[s] # {} PROVE s \in rd \cup wr
    <2>1. s \in Slots /\ ~(s > maxi)
      BY <1>2, <1>4, OpenSlots
    <2>2. {x \in {"rd", "wr"} : s \in IF x = "rd" THEN rd ELSE wr} # {}
      BY <1>1, <1>4, <2>1
    <2> QED
      BY <2>2
  <1>5. Reported' \subseteq rd \cup wr
    BY <1>4 DEF Reported
  <1>6. Cardinality(Reported') <= Cardinality(rd \cup wr)
    BY <1>3, <1>5, SmallerSet
  <1>7. Cardinality(events') \in Nat /\ Cardinality(rd \cup wr) \in Nat /\ Cardinality(Reported') \in Nat
    <2>1. Reported' \subseteq Slots
      BY <1>3, <1>5
    <2> QED
      BY <1>1, <1>3, <2>1, EventsFinite, SlotsFinite
  <1>8. Counted'
    BY <1>1, <1>2, <1>6, <1>7 DEF Counted
  <1>9. \A s \in Slots : s > maxi => s \in junk'
    BY <1>2 DEF RoundInv
  <1>10. FreeIsClean'
    <2>1. ASSUME NEW s \in Slots \ (open \cup junk') PROVE revents'[s] = {}
      <3>1. ~(s > maxi)
        BY <1>9, <2>1
      <3>2. s \notin rd /\ s \notin wr
        BY <1>3, <2>1
      <3> QED
        BY <1>1, <2>1, <3>1, <3>2
    <2> QED
      BY <1>2, <2>1 DEF FreeIsClean
  <1>11. \A s \in junk' \cap open' : s = maxi'
    BY <1>2, OpenSlots
  <1>12. nready' \in Nat
    BY <1>1, <1>7
  <1> QED
    BY <1>1, <1>2, <1>8, <1>9, <1>10, <1>11, <1>12 DEF RoundInv

\* A visit begins: one slot less to look at.
LEMMA VisitCounts ==
    ASSUME TableInv, RoundInv, NEW i \in Slots, Visit(i)
    PROVE  RoundInv'
  <1>1. /\ phase = "ready" /\ events = {} /\ phase' = "visit" /\ cur' = i
        /\ UNCHANGED <<events, nready, revents, junk, open, maxi>>
    BY DEF Visit, table
  <1>2. i \in open /\ i > cur /\ revents[i] # {} /\ i \in Int /\ cur \in Int
    BY Connects, OpenSlots DEF Visit, Due
  <1>3. Counted'
    <2>1. CASE i \in junk
      BY <1>1, <2>1 DEF Counted
    <2>2. CASE i \notin junk
      <3>1. i \in Reported
        BY <1>2, <2>2 DEF Reported
      <3>2. Reported' \subseteq Reported \ {i}
        <4>1. ASSUME NEW s \in Reported' PROVE s \in Reported \ {i}
          <5>0. s \in open' \ junk' /\ s > cur' /\ revents'[s] # {}
            BY <4>1 DEF Reported
          <5>1. s \in open \ junk /\ s > i /\ revents[s] # {}
            BY <1>1, <5>0
          <5>2. s \in Int
            BY <5>1, OpenSlots
          <5>3. s > cur /\ s # i
            BY <1>2, <5>1, <5>2
          <5> QED
            BY <5>1, <5>3 DEF Reported
        <4> QED
          BY <4>1
      <3>3. Cardinality(Reported') + 1 <= Cardinality(Reported)
        BY <3>1, <3>2, ReportedSlots, OneLess
      <3>4. Cardinality(events) + Cardinality(Reported) <= nready
        BY <1>1 DEF RoundInv, Counted
      <3>5. Cardinality(events) = 0
        BY <1>1, FS_EmptySet
      <3>6. Cardinality(Reported) \in Nat /\ Cardinality(Reported') \in Nat /\ nready \in Nat
        <4>1. Reported' \subseteq Slots
          BY <3>2, ReportedSlots
        <4> QED
          BY <4>1, ReportedSlots, SlotsFinite DEF RoundInv
      <3>7. Cardinality(Reported') + 1 <= nready
        BY <3>3, <3>4, <3>5, <3>6
      <3> QED
        BY <1>1, <3>7 DEF Counted
    <2> QED
      BY <2>1, <2>2
  <1> QED
    BY <1>1, <1>3 DEF RoundInv

\* A slot that nobody has written is the last one: behind it there is nothing.
LEMMA JunkIsLast ==
    ASSUME TableInv, RoundInv, phase = "visit", cur \in junk
    PROVE  Reported = {}
  <1>1. cur = maxi
    BY DEF TableInv, RoundInv
  <1> QED
    BY <1>1, OpenSlots DEF Reported

\* A visit ends, with as many slots to look at as before or less.
LEMMA LeaveCounts ==
    ASSUME TableInv, RoundInv, LeaveClient
    PROVE  RoundInv'
  <1>1. /\ phase = "visit" /\ events = {} /\ events' = {}
        /\ junk' = junk /\ maxi' = maxi /\ open' \subseteq open
    BY DEF LeaveClient, RoundInv
  <1>2. CASE nready <= 1 /\ EndRound
    BY <1>1, <1>2 DEF EndRound, RoundInv
  <1>3. CASE nready > 1 /\ phase' = "ready" /\ nready' = nready - 1 /\ UNCHANGED <<cur, revents>>
    <2>1. Reported' \subseteq Reported
      BY <1>1, <1>3 DEF Reported
    <2>2. Cardinality(Reported') <= Cardinality(Reported)
      BY <2>1, ReportedSlots, SmallerSet
    <2>3. Cardinality(Reported) \in Nat /\ Cardinality(Reported') \in Nat /\ nready \in Nat
      <3>1. Reported' \subseteq Slots
        BY <2>1, ReportedSlots
      <3> QED
        BY <3>1, ReportedSlots, SlotsFinite DEF RoundInv
    <2>4. Cardinality(events') = 0
      BY <1>1, FS_EmptySet
    <2>5. Cardinality(Reported') <= nready'
      <3>1. CASE cur \in junk
        <4>1. Cardinality(Reported) = 0
          BY <1>1, <3>1, JunkIsLast, FS_EmptySet
        <4> QED
          BY <1>3, <2>2, <2>3, <4>1
      <3>2. CASE cur \notin junk
        <4>1. Cardinality(Reported) + 1 <= nready
          BY <1>1, <3>2 DEF RoundInv, Counted
        <4> QED
          BY <1>3, <2>2, <2>3, <4>1
      <3> QED
        BY <3>1, <3>2
    <2>6. Counted'
      BY <1>3, <2>3, <2>4, <2>5 DEF Counted
    <2>7. nready' \in Nat
      BY <1>3, <2>3
    <2> QED
      BY <1>1, <1>3, <2>6, <2>7 DEF RoundInv
  <1> QED
    BY <1>2, <1>3 DEF LeaveClient, CountDown

\* A connection is accepted: it has nothing to be looked at, unless it is in a
\* slot that was never used.
LEMMA AcceptCounts ==
    ASSUME TableInv, RoundInv, NEW i \in Slots, Accept(i)
    PROVE  RoundInv'
  <1>1. /\ phase = "ready" /\ events = {"listen"} /\ events' = {} /\ i \notin open
        /\ open' = open \cup {i} /\ junk' = junk
        /\ maxi' = IF i > maxi THEN i ELSE maxi
    BY DEF Accept
  <1>2. FreeIsClean
    BY <1>1 DEF RoundInv
  <1>3. i \in Int /\ maxi \in Int
    BY OpenSlots DEF Slots
  <1>4. \A s \in Slots : s > maxi' => s \in junk'
    BY <1>1, <1>3 DEF RoundInv, Slots
  <1>5. \A s \in junk' \cap open' : s = maxi'
    <2>1. ASSUME NEW s \in junk' \cap open' PROVE s = maxi'
      <3>1. s > maxi
        BY <1>1, <1>2, <2>1 DEF FreeIsClean
      <3>2. s = i
        BY <1>1, <2>1, <3>1, OpenSlots
      <3> QED
        BY <1>1, <3>1, <3>2
    <2> QED
      BY <2>1
  <1>6. CASE nready <= 1 /\ EndRound
    BY <1>1, <1>4, <1>5, <1>6 DEF EndRound, RoundInv
  <1>7. CASE nready > 1 /\ phase' = "ready" /\ nready' = nready - 1 /\ UNCHANGED <<cur, revents>>
    <2>1. Reported' \subseteq Reported
      BY <1>1, <1>2, <1>7 DEF Reported, FreeIsClean
    <2>2. Cardinality(Reported') <= Cardinality(Reported)
      BY <2>1, ReportedSlots, SmallerSet
    <2>3. Cardinality(Reported) \in Nat /\ Cardinality(Reported') \in Nat /\ nready \in Nat
      <3>1. Reported' \subseteq Slots
        BY <2>1, ReportedSlots
      <3> QED
        BY <3>1, ReportedSlots, SlotsFinite DEF RoundInv
    <2>4. Cardinality(events) = 1 /\ Cardinality(events') = 0
      BY <1>1, FS_Singleton, FS_EmptySet
    <2>5. Cardinality(events) + Cardinality(Reported) <= nready
      BY <1>1 DEF RoundInv, Counted
    <2>6. Counted'
      BY <1>7, <2>2, <2>3, <2>4, <2>5 DEF Counted
    <2>7. nready' \in Nat
      BY <1>7, <2>3
    <2> QED
      BY <1>1, <1>4, <1>5, <1>7, <2>6, <2>7 DEF RoundInv
  <1> QED
    BY <1>6, <1>7 DEF Accept, CountDown

\* The administrator, or a connection that cannot be accepted, takes an event
\* away and does not count it.
LEMMA EventTaken ==
    ASSUME TableInv, RoundInv, phase = "ready", NEW e, events' = events \ {e},
           UNCHANGED <<phase, cur, nready, revents, junk, open, maxi>>
    PROVE  RoundInv'
  <1>1. Reported' = Reported
    BY DEF Reported
  <1>2. Cardinality(events') <= Cardinality(events)
    BY EventsFinite, FS_Subset DEF RoundInv
  <1>3. /\ Cardinality(events) \in Nat /\ Cardinality(events') \in Nat
        /\ Cardinality(Reported) \in Nat /\ nready \in Nat
    <2>1. events \subseteq {"stdin", "listen"} /\ events' \subseteq {"stdin", "listen"}
      BY DEF RoundInv
    <2> QED
      BY <2>1, EventsFinite, ReportedSlots, SlotsFinite DEF RoundInv
  <1>4. Cardinality(events) + Cardinality(Reported) <= nready
    BY DEF RoundInv, Counted
  <1>5. Cardinality(events') + Cardinality(Reported') <= nready'
    BY <1>1, <1>2, <1>3, <1>4
  <1>6. Counted'
    BY <1>5 DEF Counted
  <1>7. FreeIsClean => FreeIsClean'
    BY DEF FreeIsClean
  <1> QED
    BY <1>6, <1>7 DEF RoundInv

LEMMA RoundStep == TableInv /\ RoundInv /\ [Next]_vars => RoundInv'
  <1> SUFFICES ASSUME TableInv, RoundInv, [Next]_vars
               PROVE  RoundInv'
    OBVIOUS
  <1> USE DEF loop, table
  <1>1. CASE Poll
    BY <1>1, PollCounts
  <1>2. CASE Admin
    BY <1>2, EventTaken DEF Admin
  <1>3. CASE Shutdown
    BY <1>3 DEF Shutdown, RoundInv
  <1>4. CASE AcceptNobody
    <2>1. events' = events \ {"listen"}
      BY <1>4 DEF AcceptNobody
    <2> QED
      BY <1>4, <2>1, EventTaken DEF AcceptNobody
  <1>5. CASE EndOfRound
    BY <1>5 DEF EndOfRound, EndRound, RoundInv
  <1>6. ASSUME NEW i \in Slots, Accept(i) PROVE RoundInv'
    BY <1>6, AcceptCounts
  <1>7. ASSUME NEW i \in Slots, Visit(i) PROVE RoundInv'
    BY <1>7, VisitCounts
  <1>8. CASE LeaveClient
    BY <1>8, LeaveCounts
  <1>9. CASE UNCHANGED <<phase, events, cur, nready, revents, junk, open, maxi>>
    <2>1. Reported' = Reported
      BY <1>9 DEF Reported
    <2> QED
      BY <1>9, <2>1 DEF RoundInv, Counted, FreeIsClean
  <1> QED
    BY <1>1, <1>2, <1>3, <1>4, <1>5, <1>6, <1>7, <1>8, <1>9
    DEF Next, ReadLine, PeerGone, vars

-----------------------------------------------------------------------------
\* The output of one client.

LEMMA UnitFacts ==
    /\ Ended \in Unit /\ Torn \notin Unit
    /\ \A v \in Unit : /\ Seen(v) \in Unit
                       /\ \A w \in Unit : Follows(Seen(v), w) <=> Follows(v, w)
  BY DEF Unit, Ended, Torn, Seen, Follows

LEMMA GotType ==
    ASSUME NEW u \in Unit \cup {Torn}, NEW s \in Seq(Unit)
    PROVE  Got(u, s) \in Unit \cup {Torn}
  <1>1. s # <<>> => Last(s) \in Unit
    BY DEF Last
  <1> QED
    BY <1>1, UnitFacts DEF Got

LEMMA GotCat ==
    ASSUME NEW u \in Unit \cup {Torn}, NEW s \in Seq(Unit), NEW t \in Seq(Unit)
    PROVE  Got(u, s \o t) = Got(Got(u, s), t)
  <1>1. CASE s = <<>>
    BY <1>1 DEF Got
  <1>2. CASE t = <<>>
    <2>1. s \o t = s
      BY <1>2
    <2> QED
      BY <1>2, <2>1 DEF Got
  <1>3. CASE s # <<>> /\ t # <<>>
    <2>1. /\ Len(s) \in Nat \ {0} /\ Len(t) \in Nat \ {0}
          /\ s \o t \in Seq(Unit) /\ s \o t # <<>> /\ Len(s \o t) = Len(s) + Len(t)
          /\ \A i \in 1 .. Len(s) : (s \o t)[i] = s[i]
          /\ \A i \in 1 .. Len(t) : (s \o t)[Len(s) + i] = t[i]
      BY <1>3
    <2>2. /\ Head(s \o t) = Head(s) /\ Head(t) = t[1] /\ Last(s) = s[Len(s)] /\ Last(s) \in Unit
          /\ Last(s \o t) = Last(t) /\ t[1] \in Unit
      BY <1>3, <2>1 DEF Last
    <2>3. ASSUME NEW i \in 2 .. Len(s)
          PROVE  Follows((s \o t)[i - 1], (s \o t)[i]) <=> Follows(s[i - 1], s[i])
      <3>1. i \in 1 .. Len(s) /\ i - 1 \in 1 .. Len(s)
        BY <2>1
      <3> QED
        BY <2>1, <3>1
    <2>4. ASSUME NEW i \in 2 .. Len(t)
          PROVE  /\ Len(s) + i \in 2 .. Len(s) + Len(t)
                 /\ Follows((s \o t)[Len(s) + i - 1], (s \o t)[Len(s) + i]) <=> Follows(t[i - 1], t[i])
      <3>1. i \in 1 .. Len(t) /\ i - 1 \in 1 .. Len(t) /\ Len(s) + i - 1 = Len(s) + (i - 1)
        BY <2>1
      <3> QED
        BY <2>1, <3>1
    <2>5. /\ Len(s) + 1 \in 2 .. Len(s) + Len(t)
          /\ Follows((s \o t)[Len(s) + 1 - 1], (s \o t)[Len(s) + 1]) <=> Follows(Last(s), Head(t))
      <3>1. Len(s) + 1 - 1 = Len(s) /\ Len(s) \in 1 .. Len(s) /\ 1 \in 1 .. Len(t)
        BY <2>1
      <3> QED
        BY <2>1, <2>2, <3>1
    <2>6. (\A i \in 2 .. Len(s) + Len(t) : Follows((s \o t)[i - 1], (s \o t)[i]))
          <=> /\ \A i \in 2 .. Len(s) : Follows(s[i - 1], s[i])
              /\ Follows(Last(s), Head(t))
              /\ \A i \in 2 .. Len(t) : Follows(t[i - 1], t[i])
      <3>1. ASSUME \A i \in 2 .. Len(s) + Len(t) : Follows((s \o t)[i - 1], (s \o t)[i])
            PROVE  /\ \A i \in 2 .. Len(s) : Follows(s[i - 1], s[i])
                   /\ Follows(Last(s), Head(t))
                   /\ \A i \in 2 .. Len(t) : Follows(t[i - 1], t[i])
        <4>1. ASSUME NEW i \in 2 .. Len(s) PROVE Follows(s[i - 1], s[i])
          <5>1. i \in 2 .. Len(s) + Len(t)
            BY <2>1
          <5> QED
            BY <2>3, <3>1, <5>1
        <4>2. ASSUME NEW i \in 2 .. Len(t) PROVE Follows(t[i - 1], t[i])
          <5>1. Len(s) + i \in 2 .. Len(s) + Len(t)
            BY <2>4
          <5>2. Follows((s \o t)[Len(s) + i - 1], (s \o t)[Len(s) + i])
            BY <3>1, <5>1
          <5> QED
            BY <2>4, <5>2
        <4> QED
          BY <2>5, <3>1, <4>1, <4>2
      <3>2. ASSUME \A i \in 2 .. Len(s) : Follows(s[i - 1], s[i]),
                   Follows(Last(s), Head(t)),
                   \A i \in 2 .. Len(t) : Follows(t[i - 1], t[i]),
                   NEW j \in 2 .. Len(s) + Len(t)
            PROVE  Follows((s \o t)[j - 1], (s \o t)[j])
        <4>1. CASE j <= Len(s)
          <5>1. j \in 2 .. Len(s)
            BY <2>1, <4>1
          <5> QED
            BY <2>3, <3>2, <5>1
        <4>2. CASE j = Len(s) + 1
          BY <2>5, <3>2, <4>2
        <4>3. CASE j > Len(s) + 1
          <5>1. j - Len(s) \in 2 .. Len(t) /\ Len(s) + (j - Len(s)) = j
            BY <2>1, <4>3
          <5> QED
            BY <2>4, <3>2, <5>1
        <4> QED
          BY <2>1, <4>1, <4>2, <4>3
      <3> QED
        BY <3>1, <3>2
    <2>7. CASE u = Torn
      BY <1>3, <2>1, <2>7 DEF Got
    <2>8. CASE u # Torn
      <3>1. Seen(Last(s)) # Torn /\ (Follows(Seen(Last(s)), Head(t)) <=> Follows(Last(s), Head(t)))
        BY <2>2, UnitFacts
      <3> QED
        BY <1>3, <2>1, <2>2, <2>6, <2>8, <3>1 DEF Got
    <2> QED
      BY <2>7, <2>8
  <1> QED
    BY <1>1, <1>2, <1>3

-----------------------------------------------------------------------------
\* What a send of n units of a piece leads to, in one way or the other.
Cut(piece, n) == SubSeq(piece, 1, n) \o FirstLine(SubSeq(piece, n + 1, Len(piece)))

Sending(a) ==
    /\ a = [c |-> a.c, room |-> a.room]
    /\ OutType(a.c) /\ Watched(a.c) /\ LineWaits(a.c)
    /\ a.room \in Nat \cup {Broken}

LEMMA FirstLineType ==
    ASSUME NEW units \in Seq(Unit)
    PROVE  /\ FirstLine(units) \in Seq(Unit)
           /\ units # <<>> => FirstLine(units) # <<>>
  <1> DEFINE ends == {i \in DOMAIN units : IsNewline(units[i])}
             e == CHOOSE i \in ends : \A j \in ends : i <= j
  <1>1. CASE ends = {}
    BY <1>1 DEF FirstLine
  <1>2. CASE ends # {}
    <2>1. \E i \in ends : \A j \in ends : i <= j
      <3>1. PICK B : B = ends
        OBVIOUS
      <3>2. B # {} /\ B \subseteq Nat
        BY <1>2, <3>1
      <3>3. \E i \in B : \A j \in B : i <= j
        BY <3>2, SmallestNat
      <3> QED
        BY <3>1, <3>3
    <2>2. e \in 1 .. Len(units)
      BY <2>1
    <2>3. FirstLine(units) = SubSeq(units, 1, e)
      BY <1>2 DEF FirstLine
    <2> HIDE DEF e
    <2>4. SubSeq(units, 1, e) \in Seq(Unit) /\ Len(SubSeq(units, 1, e)) = e
      BY <2>2, SubSeqProperties
    <2> QED
      BY <2>2, <2>3, <2>4
  <1> QED
    BY <1>1, <1>2

LEMMA GotNothing == \A u : Got(u, <<>>) = u
  BY DEF Got

\* Parts of sequences.
LEMMA Parts ==
    ASSUME NEW s \in Seq(Unit), NEW n \in 0 .. Len(s)
    PROVE  /\ SubSeq(s, 1, n) \in Seq(Unit) /\ SubSeq(s, n + 1, Len(s)) \in Seq(Unit)
           /\ Len(SubSeq(s, 1, n)) = n /\ Len(SubSeq(s, n + 1, Len(s))) = Len(s) - n
           /\ SubSeq(s, 1, n) \o SubSeq(s, n + 1, Len(s)) = s
           /\ n < Len(s) => SubSeq(s, n + 1, Len(s)) # <<>>
  <1>1. n \in Nat /\ Len(s) \in Nat /\ n <= Len(s)
    OBVIOUS
  <1>2. SubSeq(s, 1, n) \in Seq(Unit) /\ Len(SubSeq(s, 1, n)) = n
        /\ \A i \in 1 .. n : SubSeq(s, 1, n)[i] = s[i]
    BY <1>1
  <1>3. SubSeq(s, n + 1, Len(s)) \in Seq(Unit) /\ Len(SubSeq(s, n + 1, Len(s))) = Len(s) - n
        /\ \A i \in 1 .. Len(s) - n : SubSeq(s, n + 1, Len(s))[i] = s[n + i]
    BY <1>1
  <1>4. SubSeq(s, 1, n) \o SubSeq(s, n + 1, Len(s)) = s
    <2> DEFINE x == SubSeq(s, 1, n)
               y == SubSeq(s, n + 1, Len(s))
    <2>1. x \in Seq(Unit) /\ y \in Seq(Unit) /\ Len(x) = n /\ Len(y) = Len(s) - n
      BY <1>2, <1>3
    <2>2. \A i \in 1 .. n : x[i] = s[i]
      BY <1>2
    <2>3. \A i \in 1 .. Len(s) - n : y[i] = s[n + i]
      BY <1>3
    <2> HIDE DEF x, y
    <2>4. x \o y \in Seq(Unit) /\ Len(x \o y) = Len(s)
      BY <1>1, <2>1
    <2>5. ASSUME NEW i \in 1 .. Len(s) PROVE (x \o y)[i] = s[i]
      <3>1. CASE i <= n
        BY <1>1, <2>1, <2>2, <3>1
      <3>2. CASE i > n
        <4>1. i - n \in 1 .. Len(s) - n /\ n + (i - n) = i
          BY <1>1, <3>2
        <4>2. (x \o y)[i] = y[i - n]
          BY <1>1, <2>1, <3>2, <4>1
        <4> QED
          BY <2>3, <4>1, <4>2
      <3>3. i <= n \/ i > n
        BY <1>1
      <3> QED
        BY <3>1, <3>2, <3>3
    <2>6. x \o y = s
      BY <2>4, <2>5, SeqEqual
    <2> QED
      BY <2>6 DEF x, y
  <1>5. ASSUME n < Len(s) PROVE SubSeq(s, n + 1, Len(s)) # <<>>
    <2>1. PICK y : y = SubSeq(s, n + 1, Len(s))
      OBVIOUS
    <2>2. y \in Seq(Unit) /\ Len(y) # 0
      BY <1>1, <1>3, <1>5, <2>1
    <2>3. y # <<>>
      BY <2>2
    <2> QED
      BY <2>1, <2>3
  <1> QED
    BY <1>2, <1>3, <1>4, <1>5

\* What a send leads to when nothing is waiting and the connection is not found
\* to be broken.
LEMMA SendPiece ==
    ASSUME NEW a, Sending(a), ~Waiting(a.c), NEW piece \in Seq(Unit), piece # <<>>,
           ~(a.c.buf = <<>> /\ a.room = Broken),
           NEW r, r = sendToClient(a, piece)
    PROVE  \E n \in 0 .. Len(piece) :
             /\ Sending(r)
             /\ InAll(r.c) = Got(InAll(a.c), Cut(piece, n))
             /\ r.c.closed = a.c.closed
             /\ r.room = Broken => a.room = Broken /\ r.c.buf # <<>>
             /\ Waiting(r.c) <=> /\ n < Len(piece)
                                /\ IsNewline(Last(FirstLine(SubSeq(piece, n + 1, Len(piece)))))
  <1>1. PICK b, f, k, q, u, room :
            /\ b = a.c.buf /\ f = a.c.finished /\ k = a.c.closed /\ q = a.c.wr /\ u = a.c.wire
            /\ room = a.room
    OBVIOUS
  <1>2. /\ a = [c |-> [buf |-> b, finished |-> f, closed |-> k, wr |-> q, wire |-> u], room |-> room]
        /\ b \in Seq(Unit) /\ Len(b) \in Nat /\ f \in Nat /\ f <= Len(b)
        /\ k \in BOOLEAN /\ q \in BOOLEAN
        /\ u \in Unit \cup {Torn} /\ room \in Nat \cup {Broken}
    BY <1>1 DEF Sending, OutType
  <1>3. f = Len(b) /\ (~k => ~q) /\ InAll(a.c) = Got(u, b)
    BY <1>1, <1>2 DEF Sending, Watched, Waiting, InAll, ToCome
  <1>4. PICK m : m = IF b = <<>> /\ room < Len(piece) THEN room
                     ELSE IF b = <<>> THEN Len(piece) ELSE 0
    OBVIOUS
  <1>5. PICK rest : rest = FirstLine(SubSeq(piece, m + 1, Len(piece)))
    OBVIOUS
  <1>6. Len(piece) \in Nat \ {0} /\ room \in Int /\ (room = -1 \/ room >= 0)
    BY <1>2 DEF Broken
  <1>7. m \in 0 .. Len(piece) /\ (b # <<>> => m = 0) /\ (m # Len(piece) /\ b = <<>> => m = room)
    BY <1>1, <1>4, <1>6 DEF Broken
  <1>8. /\ SubSeq(piece, 1, m) \in Seq(Unit)
        /\ SubSeq(piece, m + 1, Len(piece)) \in Seq(Unit)
        /\ rest \in Seq(Unit)
        /\ m < Len(piece) => rest # <<>>
    BY <1>5, <1>7, Parts, FirstLineType
  <1>9. PICK v : v = Got(u, SubSeq(piece, 1, m))
    OBVIOUS
  <1>10. v \in Unit \cup {Torn}
    BY <1>2, <1>8, <1>9, GotType
  <1>15. PICK nl \in BOOLEAN : nl <=> IsNewline(Last(rest))
    OBVIOUS
  <1>16. PICK f2, q2 : f2 = (IF nl THEN 0 ELSE Len(b) + Len(rest)) /\ q2 = (q \/ nl)
    OBVIOUS
  <1>17. q2 \in BOOLEAN /\ (q2 <=> q \/ nl)
    BY <1>2, <1>16
  <1>18. Buffered([buf |-> b, finished |-> f, closed |-> k, wr |-> q, wire |-> v], rest)
         = [buf |-> b \o rest, finished |-> f2, closed |-> k, wr |-> q2, wire |-> v]
    <2>1. PICK z : z = [buf |-> b, finished |-> f, closed |-> k, wr |-> q, wire |-> v]
      OBVIOUS
    <2>2. Buffered(z, rest) = [z EXCEPT !.buf = b \o rest, !.finished = f2, !.wr = q2]
      <3>1. z.buf = b /\ z.wr = q
        BY <2>1
      <3>2. (z.wr \/ IsNewline(Last(rest))) = q2
        BY <3>1, <1>2, <1>15, <1>17
      <3>3. (IF IsNewline(Last(rest)) THEN 0 ELSE Len(z.buf) + Len(rest)) = f2
        BY <3>1, <1>15, <1>16
      <3> QED
        BY <3>1, <3>2, <3>3, Zenon DEF Buffered
    <2> QED
      BY <2>1, <2>2
  <1>11. r = [c |-> IF m = Len(piece)
                    THEN [buf |-> b, finished |-> f, closed |-> k, wr |-> q, wire |-> v]
                    ELSE [buf |-> b \o rest, finished |-> f2, closed |-> k, wr |-> q2, wire |-> v],
              room |-> room - m]
    <2>1. ~Waiting(a.c) /\ ~(a.c.buf = <<>> /\ a.room = Broken)
      OBVIOUS
    <2>2. [a.c EXCEPT !.wire = Got(@, SubSeq(piece, 1, m))]
          = [buf |-> b, finished |-> f, closed |-> k, wr |-> q, wire |-> v]
      BY <1>2, <1>9, SMTT(20)
    <2> QED
      BY <1>1, <1>4, <1>5, <2>1, <2>2, <1>18 DEF sendToClient
  <1>12. room - m \in Nat \cup {Broken} /\ (room - m = Broken => room = Broken /\ m = 0 /\ b # <<>>)
    <2>1. m = 0 \/ (m <= room /\ m >= 0)
      BY <1>1, <1>4, <1>6, <1>7
    <2>2. m = 0 => room - m = room
      BY <1>6
    <2>3. m # 0 => room - m \in Nat /\ room - m # -1
      BY <1>6, <1>7, <2>1
    <2>4. ~(room = Broken /\ b = <<>>)
      BY <1>1
    <2> QED
      BY <1>2, <2>2, <2>3, <2>4, <1>7 DEF Broken
  <1>13. CASE m = Len(piece)
    <2>1. /\ r = [c |-> r.c, room |-> r.room] /\ r.room = room - m
          /\ r.c = [buf |-> b, finished |-> f, closed |-> k, wr |-> q, wire |-> v]
      BY <1>11, <1>13
    <2>2. b = <<>>
      BY <1>6, <1>7, <1>13
    <2>3. ~Waiting(r.c) /\ ToCome(r.c) = <<>>
      BY <1>2, <1>3, <2>1, <2>2 DEF Waiting, ToCome
    <2>4. Cut(piece, m) = piece
      <3>1. SubSeq(piece, m + 1, Len(piece)) = <<>>
        BY <1>6, <1>13
      <3>2. FirstLine(<<>>) = <<>>
        BY DEF FirstLine
      <3>3. SubSeq(piece, 1, m) = piece /\ piece \o <<>> = piece
        BY <1>13
      <3> QED
        BY <3>1, <3>2, <3>3 DEF Cut
    <2>5. InAll(r.c) = Got(InAll(a.c), Cut(piece, m))
      <3>1. InAll(r.c) = v
        BY <2>1, <2>3, GotNothing DEF InAll
      <3>2. InAll(a.c) = u
        BY <1>3, <2>2, GotNothing
      <3>3. SubSeq(piece, 1, m) = piece
        BY <1>13
      <3> QED
        BY <1>9, <2>4, <3>1, <3>2, <3>3
    <2>6. OutType(r.c)
      BY <1>2, <1>10, <2>1 DEF OutType
    <2>7. Watched(r.c) /\ LineWaits(r.c)
      BY <1>3, <2>1, <2>3 DEF Watched, LineWaits
    <2>8. Sending(r) /\ r.c.closed = a.c.closed
      BY <1>1, <1>12, <2>1, <2>6, <2>7 DEF Sending
    <2>9. r.room # Broken
      BY <1>6, <1>12, <1>13, <2>1
    <2>10. ~(m < Len(piece))
      BY <1>6, <1>13
    <2> QED
      BY <1>7, <2>3, <2>5, <2>8, <2>9, <2>10
  <1>14. CASE m # Len(piece)
    <2>1. m < Len(piece) /\ rest # <<>>
      BY <1>6, <1>7, <1>8, <1>14
    <2>5. /\ r = [c |-> r.c, room |-> r.room] /\ r.room = room - m
          /\ r.c = [buf |-> b \o rest, finished |-> f2, closed |-> k, wr |-> q2, wire |-> v]
      BY <1>11, <1>14
    <2>2. /\ r.c.buf = b \o rest /\ r.c.finished = f2 /\ r.c.closed = k
          /\ r.c.wr = q2 /\ r.c.wire = v
      BY <2>5
    <2>6. /\ b \o rest \in Seq(Unit) /\ b \o rest # <<>>
          /\ Len(b \o rest) = Len(b) + Len(rest)
          /\ Len(rest) \in Nat \ {0}
          /\ Last(b \o rest) = Last(rest)
      BY <1>2, <1>8, <2>1 DEF Last
    <2>7. Waiting(r.c) <=> nl
      BY <1>2, <1>16, <2>2, <2>6 DEF Waiting
    <2>8. ToCome(r.c) = b \o rest
      <3>1. CASE nl
        <4>1. SubSeq(b \o rest, 1, Len(b \o rest)) = b \o rest
          BY <2>6
        <4>2. r.c.finished + 1 = 1
          BY <1>16, <2>2, <3>1
        <4> QED
          BY <2>2, <2>7, <3>1, <4>1, <4>2, Zenon DEF ToCome
      <3>2. CASE ~nl
        BY <2>2, <2>7, <3>2, Zenon DEF ToCome
      <3> QED
        BY <3>1, <3>2
    <2>9. InAll(r.c) = Got(v, b \o rest)
      BY <2>2, <2>8 DEF InAll
    <2>10. InAll(r.c) = Got(InAll(a.c), Cut(piece, m))
      <3>1. CASE b = <<>>
        <4>1. b \o rest = rest
          BY <1>8, <3>1
        <4>2. Got(v, rest) = Got(u, Cut(piece, m))
          BY <1>2, <1>5, <1>8, <1>9, GotCat DEF Cut
        <4> QED
          BY <1>3, <2>9, <3>1, <4>1, <4>2, GotNothing
      <3>2. CASE b # <<>>
        <4>1. m = 0 /\ SubSeq(piece, 1, m) = <<>>
          BY <1>7, <3>2
        <4>2. Cut(piece, m) = rest
          <5>1. <<>> \o rest = rest
            BY <1>8
          <5> QED
            BY <1>5, <4>1, <5>1 DEF Cut
        <4>3. Got(u, b \o rest) = Got(Got(u, b), rest)
          BY <1>2, <1>8, GotCat
        <4> QED
          BY <1>3, <1>9, <2>9, <4>1, <4>2, <4>3, GotNothing
      <3> QED
        BY <3>1, <3>2
    <2>11. f2 \in Nat /\ f2 <= Len(b \o rest) /\ q2 \in BOOLEAN
      BY <1>2, <1>16, <1>17, <2>6
    <2>12. OutType(r.c)
      <3>1. r.c \in [buf : Seq(Unit), finished : Nat, closed : BOOLEAN, wr : BOOLEAN, wire : Unit \cup {Torn}]
        <4>1. PICK z : z = r.c
          OBVIOUS
        <4>2. PICK bb : bb = b \o rest
          OBVIOUS
        <4>3. z = [buf |-> bb, finished |-> f2, closed |-> k, wr |-> q2, wire |-> v]
          BY <2>5, <4>1, <4>2
        <4>4. bb \in Seq(Unit)
          BY <2>6, <4>2
        <4> QED
          BY <1>2, <1>10, <1>17, <2>11, <4>1, <4>3, <4>4
      <3> QED
        BY <2>2, <2>11, <3>1 DEF OutType
    <2>13. Watched(r.c) /\ LineWaits(r.c)
      BY <1>3, <1>15, <1>17, <2>2, <2>6, <2>7 DEF Watched, LineWaits
    <2>14. Sending(r) /\ r.c.closed = a.c.closed
      BY <1>1, <1>12, <2>2, <2>5, <2>12, <2>13 DEF Sending
    <2>15. r.room = Broken => a.room = Broken /\ r.c.buf # <<>>
      BY <1>1, <1>12, <2>2, <2>5, <2>6
    <2> QED
      BY <1>5, <1>7, <1>15, <2>1, <2>7, <2>10, <2>14, <2>15
  <1> QED
    BY <1>13, <1>14

LEMMA FirstLineEnds ==
    ASSUME NEW units \in Seq(Unit), NEW e \in 1 .. Len(units), IsNewline(units[e]),
           \A j \in 1 .. Len(units) : IsNewline(units[j]) => e <= j
    PROVE  FirstLine(units) = SubSeq(units, 1, e)
  <1> DEFINE ends == {i \in DOMAIN units : IsNewline(units[i])}
  <1>1. e \in ends /\ (\A j \in ends : e <= j) /\ ends \subseteq Nat
    OBVIOUS
  <1>2. FirstLine(units) = SubSeq(units, 1, CHOOSE i \in ends : \A j \in ends : i <= j)
    BY <1>1 DEF FirstLine
  <1> HIDE DEF ends
  <1>3. (CHOOSE i \in ends : \A j \in ends : i <= j) = e
    <2>1. PICK x : x = CHOOSE i \in ends : \A j \in ends : i <= j
      OBVIOUS
    <2>2. x \in ends /\ \A j \in ends : x <= j
      BY <1>1, <2>1
    <2>3. x <= e /\ e <= x /\ x \in Nat /\ e \in Nat
      BY <1>1, <2>2
    <2> QED
      BY <2>1, <2>3
  <1> QED
    BY <1>2, <1>3

LEMMA BehindJoin ==
    ASSUME NEW X, NEW u \in Seq(X), NEW v \in Seq(X), NEW k \in 1 .. Len(v), NEW q, q = Len(u) + k
    PROVE  (u \o v)[q] = v[k]
  <1>1. Len(u) \in Nat /\ Len(v) \in Nat /\ k \in Nat
    OBVIOUS
  <1>2. q \in 1 .. Len(u) + Len(v) /\ ~(q <= Len(u)) /\ q - Len(u) = k
    BY <1>1
  <1>3. (u \o v)[q] = IF q <= Len(u) THEN u[q] ELSE v[q - Len(u)]
    BY <1>2, ConcatProperties
  <1> QED
    BY <1>2, <1>3

\* What goes on its way of a piece is a beginning of it: the whole piece, or as
\* far as a newline.
LEMMA CutPrefix ==
    ASSUME NEW piece \in Seq(Unit), piece # <<>>, NEW n \in 0 .. Len(piece)
    PROVE  \E e \in 1 .. Len(piece) :
             /\ e = Len(piece) \/ IsNewline(piece[e])
             /\ Cut(piece, n) = SubSeq(piece, 1, e)
             /\ n < Len(piece) => Last(FirstLine(SubSeq(piece, n + 1, Len(piece)))) = piece[e]
  <1>1. Len(piece) \in Nat \ {0} /\ n \in Nat /\ n <= Len(piece)
    OBVIOUS
  <1>2. PICK x, y : x = SubSeq(piece, 1, n) /\ y = SubSeq(piece, n + 1, Len(piece))
    OBVIOUS
  <1>3. x \in Seq(Unit) /\ y \in Seq(Unit) /\ Len(x) = n /\ Len(y) = Len(piece) - n /\ x \o y = piece
    BY <1>2, Parts
  <1>4. ASSUME NEW d \in 0 .. Len(y), n + d > 0
        PROVE  x \o SubSeq(y, 1, d) = SubSeq(piece, 1, n + d)
    <2>1. PICK z, p : z = SubSeq(y, 1, d) /\ p = SubSeq(piece, 1, n + d)
      OBVIOUS
    <2>2. z \in Seq(Unit) /\ Len(z) = d /\ \A i \in 1 .. d : z[i] = y[i]
      BY <1>3, <2>1
    <2>3. n + d \in 0 .. Len(piece)
      BY <1>1, <1>3
    <2>4. p \in Seq(Unit) /\ Len(p) = n + d /\ \A i \in 1 .. n + d : p[i] = piece[i]
      BY <2>1, <2>3
    <2>5. x \o z \in Seq(Unit) /\ Len(x \o z) = n + d
      BY <1>3, <2>2, ConcatProperties
    <2>6. ASSUME NEW i \in 1 .. n + d PROVE (x \o z)[i] = p[i]
      <3>1. p[i] = (x \o y)[i]
        BY <1>3, <2>4
      <3>2. CASE i <= n
        <4>1. (x \o z)[i] = x[i] /\ (x \o y)[i] = x[i]
          BY <1>3, <2>2, <3>2
        <4> QED
          BY <3>1, <4>1
      <3>3. CASE i > n
        <4>1. i - n \in 1 .. d /\ i - n \in 1 .. Len(y)
          BY <1>1, <1>3, <3>3
        <4>2. PICK k : k = i - n /\ k \in 1 .. d /\ k \in 1 .. Len(y) /\ n + k = i
          BY <1>1, <4>1
        <4>3. (x \o z)[i] = z[k]
          <5>1. x \in Seq(Unit) /\ z \in Seq(Unit) /\ k \in 1 .. Len(z) /\ i = Len(x) + k
            BY <1>3, <2>2, <4>2
          <5> QED
            BY <5>1, BehindJoin
        <4>4. (x \o y)[i] = y[k]
          <5>1. x \in Seq(Unit) /\ y \in Seq(Unit) /\ k \in 1 .. Len(y) /\ i = Len(x) + k
            BY <1>3, <4>2
          <5> QED
            BY <5>1, BehindJoin
        <4> QED
          BY <2>2, <3>1, <4>2, <4>3, <4>4
      <3>4. i <= n \/ i > n
        BY <1>1
      <3> QED
        BY <3>2, <3>3, <3>4
    <2>7. x \o z = p
      BY <2>4, <2>5, <2>6, SeqEqual
    <2> QED
      BY <2>1, <2>7
  <1>5. Cut(piece, n) = x \o FirstLine(y)
    BY <1>2 DEF Cut
  <1>6. y = SubSeq(y, 1, Len(y))
    BY <1>3
  <1>7. CASE \A i \in DOMAIN y : ~IsNewline(y[i])
    <2>1. FirstLine(y) = y
      <3>1. {i \in DOMAIN y : IsNewline(y[i])} = {}
        BY <1>7
      <3> QED
        BY <3>1, Zenon DEF FirstLine
    <2>2. Len(y) \in 0 .. Len(y) /\ n + Len(y) = Len(piece) /\ n + Len(y) > 0
      BY <1>1, <1>3
    <2>3. x \o FirstLine(y) = SubSeq(piece, 1, Len(piece))
      <3>1. x \o SubSeq(y, 1, Len(y)) = SubSeq(piece, 1, n + Len(y))
        BY <1>4, <2>2
      <3> QED
        BY <1>6, <2>1, <2>2, <3>1
    <2>4. ASSUME n < Len(piece) PROVE Last(y) = piece[Len(piece)]
      <3>1. (x \o y)[Len(piece)] = y[Len(y)]
        BY <1>1, <1>3, <2>4
      <3> QED
        BY <1>3, <3>1 DEF Last
    <2>5. n < Len(piece) => Last(FirstLine(y)) = piece[Len(piece)]
      BY <2>1, <2>4
    <2>6. Len(piece) \in 1 .. Len(piece) /\ Cut(piece, n) = SubSeq(piece, 1, Len(piece))
      BY <1>1, <1>5, <2>3
    <2> QED
      BY <1>2, <2>5, <2>6
  <1>8. CASE \E i \in DOMAIN y : IsNewline(y[i])
    <2>1. PICK B : B = {i \in 1 .. Len(y) : IsNewline(y[i])}
      OBVIOUS
    <2>2. B # {} /\ B \subseteq Nat
      BY <1>3, <1>8, <2>1
    <2>3. PICK d \in B : \A j \in B : d <= j
      BY <2>2, SmallestNat
    <2>4. d \in 1 .. Len(y) /\ IsNewline(y[d])
      BY <2>1, <2>3
    <2>5. FirstLine(y) = SubSeq(y, 1, d)
      <3>1. \A j \in 1 .. Len(y) : IsNewline(y[j]) => d <= j
        BY <2>1, <2>3
      <3> QED
        BY <1>3, <2>4, <3>1, FirstLineEnds
    <2>6. d \in 0 .. Len(y) /\ n + d > 0 /\ n + d \in 1 .. Len(piece)
      BY <1>1, <1>3, <2>4
    <2>7. x \o FirstLine(y) = SubSeq(piece, 1, n + d)
      BY <1>4, <2>5, <2>6
    <2>8. piece[n + d] = y[d]
      <3>1. PICK i : i = n + d
        OBVIOUS
      <3>2. i \in 1 .. Len(x) + Len(y) /\ ~(i <= Len(x)) /\ i - Len(x) = d
        BY <1>1, <1>3, <2>4, <3>1
      <3>3. (x \o y)[i] = y[d]
        BY <1>3, <3>2, ConcatProperties
      <3> QED
        BY <1>3, <3>1, <3>3
    <2>9. Last(FirstLine(y)) = y[d]
      <3>1. PICK z : z = SubSeq(y, 1, d)
        OBVIOUS
      <3>2. Len(z) = d /\ z[d] = y[d]
        BY <1>3, <2>4, <3>1
      <3> QED
        BY <2>5, <3>1, <3>2 DEF Last
    <2> QED
      BY <1>2, <1>5, <2>4, <2>6, <2>7, <2>8, <2>9
  <1> QED
    BY <1>7, <1>8

\* Units of which each follows the one before.
LEMMA GotChain ==
    ASSUME NEW u \in Unit, NEW s \in Seq(Unit), NEW e \in 1 .. Len(s), Follows(u, s[1]),
           \A i \in 2 .. e : Follows(s[i - 1], s[i])
    PROVE  Got(u, SubSeq(s, 1, e)) = Seen(s[e])
  <1>1. PICK z : z = SubSeq(s, 1, e)
    OBVIOUS
  <1>2. z \in Seq(Unit) /\ Len(z) = e /\ \A i \in 1 .. e : z[i] = s[i]
    BY <1>1
  <1>3. e \in Nat /\ e >= 1
    OBVIOUS
  <1>4. z # <<>> /\ Head(z) = s[1] /\ Last(z) = s[e]
    BY <1>2, <1>3 DEF Last
  <1>5. ASSUME NEW i \in 2 .. Len(z) PROVE Follows(z[i - 1], z[i])
    <2>1. i \in 1 .. e /\ i - 1 \in 1 .. e /\ i \in 2 .. e
      BY <1>2, <1>3
    <2> QED
      BY <1>2, <2>1
  <1>6. Got(u, z) = Seen(s[e])
    BY <1>4, <1>5, UnitFacts DEF Got
  <1> QED
    BY <1>1, <1>6

\* A message is a piece, or two of which the second ends in a newline.
Whole(p) == \A e \in 1 .. Len(p) : e = Len(p) \/ IsNewline(p[e]) => Got(Ended, SubSeq(p, 1, e)) = Ended

LEMMA WholePieces ==
    /\ << <<"own", 2>> >> \in Seq(Unit) /\ Whole(<< <<"own", 2>> >>)
    /\ Pieces("lines")[1] \in Seq(Unit) /\ Pieces("lines")[1] # <<>> /\ Whole(Pieces("lines")[1])
  <1>1. PICK p : p = << <<"own", 2>> >>
    OBVIOUS
  <1>2. p \in Seq(Unit) /\ Len(p) = 1 /\ p[1] = <<"own", 2>>
    BY <1>1 DEF Unit
  <1>3. Whole(p)
    <2>1. ASSUME NEW e \in 1 .. Len(p) PROVE Got(Ended, SubSeq(p, 1, e)) = Ended
      <3>1. e = 1 /\ e \in 1 .. Len(p) /\ Follows(Ended, p[1]) /\ Seen(p[e]) = Ended
            /\ \A i \in 2 .. e : Follows(p[i - 1], p[i])
        BY <1>2 DEF Follows, Seen, Ended
      <3> QED
        BY <1>2, <3>1, GotChain, UnitFacts
    <2> QED
      BY <2>1 DEF Whole
  <1>4. PICK q : q = Pieces("lines")[1]
    OBVIOUS
  <1>5. /\ q \in Seq(Unit) /\ Len(q) = 4
        /\ q[1] = <<"own", 1>> /\ q[2] = <<"own", 0>> /\ q[3] = <<"own", 1>> /\ q[4] = <<"own", 0>>
    BY <1>4 DEF Pieces, Unit
  <1>6. Whole(q)
    <2>1. ASSUME NEW e \in 1 .. Len(q), e = Len(q) \/ IsNewline(q[e])
          PROVE  Got(Ended, SubSeq(q, 1, e)) = Ended
      <3>1. e \in {1, 2, 3, 4} /\ e # 1 /\ e # 3
        BY <1>5, <2>1 DEF IsNewline
      <3>2. Follows(Ended, q[1]) /\ Seen(q[e]) = Ended
        BY <1>5, <3>1 DEF Follows, Seen, Ended
      <3>3. ASSUME NEW i \in 2 .. e PROVE Follows(q[i - 1], q[i])
        <4>1. i \in {2, 3, 4}
          BY <3>1
        <4> QED
          BY <1>5, <4>1 DEF Follows
      <3> QED
        BY <1>5, <3>2, <3>3, GotChain, UnitFacts
    <2> QED
      BY <2>1 DEF Whole
  <1> QED
    BY <1>1, <1>2, <1>3, <1>4, <1>5, <1>6

Calm(a) == Sending(a) /\ InAll(a.c) = Ended

\* What a send may not do besides.
Harmless(a, r) ==
    /\ Waiting(a.c) => r.c = a.c
    /\ a.c.closed => r.c.closed
    /\ r.c.closed => a.c.closed \/ a.room = Broken
    /\ r.room = Broken => a.room = Broken

LEMMA SendInVain ==
    ASSUME NEW a, Calm(a), Waiting(a.c) \/ (a.c.buf = <<>> /\ a.room = Broken),
           NEW piece, NEW r, r = sendToClient(a, piece)
    PROVE  /\ Calm(r) /\ Harmless(a, r)
           /\ Waiting(r.c) \/ (r.c.buf = <<>> /\ r.room = Broken)
  <1>1. CASE Waiting(a.c)
    <2>1. r = a
      BY <1>1 DEF sendToClient
    <2> QED
      BY <1>1, <2>1 DEF Harmless
  <1>2. CASE ~Waiting(a.c)
    <2>1. r = [a EXCEPT !.c.closed = TRUE] /\ a.c.buf = <<>> /\ a.room = Broken
      BY <1>2 DEF sendToClient
    <2>2. PICK c, ro : c = a.c /\ ro = a.room
      OBVIOUS
    <2>3. /\ c \in [buf : Seq(Unit), finished : Nat, closed : BOOLEAN, wr : BOOLEAN, wire : Unit \cup {Torn}]
          /\ c.finished <= Len(c.buf) /\ c.buf = <<>>
          /\ a = [c |-> c, room |-> ro] /\ ro \in Nat \cup {Broken}
      BY <2>1, <2>2 DEF Calm, Sending, OutType
    <2>4. r = [c |-> [c EXCEPT !.closed = TRUE], room |-> ro]
      BY <2>1, <2>3
    <2>5. PICK d : d = [c EXCEPT !.closed = TRUE]
      OBVIOUS
    <2>6. /\ r = [c |-> d, room |-> a.room] /\ r.c = d /\ r.room = a.room
          /\ d \in [buf : Seq(Unit), finished : Nat, closed : BOOLEAN, wr : BOOLEAN, wire : Unit \cup {Torn}]
          /\ d.buf = c.buf /\ d.finished = c.finished /\ d.wire = c.wire /\ d.closed
      <3>1. r = [c |-> d, room |-> ro] /\ r.c = d /\ r.room = ro
        BY <2>4, <2>5
      <3>2. /\ d \in [buf : Seq(Unit), finished : Nat, closed : BOOLEAN, wr : BOOLEAN, wire : Unit \cup {Torn}]
            /\ d.buf = c.buf /\ d.finished = c.finished /\ d.wire = c.wire /\ d.closed
        BY <2>3, <2>5
      <3> QED
        BY <2>2, <3>1, <3>2
    <2>7. OutType(d) /\ ~Waiting(d) /\ InAll(d) = InAll(c)
      BY <1>2, <2>2, <2>3, <2>6 DEF OutType, Waiting, InAll, ToCome
    <2>8. Watched(d) /\ LineWaits(d)
      BY <2>6, <2>7 DEF Watched, LineWaits
    <2>9. Calm(r)
      BY <2>2, <2>3, <2>6, <2>7, <2>8 DEF Calm, Sending
    <2> QED
      BY <1>2, <2>1, <2>3, <2>6, <2>9 DEF Harmless
  <1> QED
    BY <1>1, <1>2

LEMMA SendWhole ==
    ASSUME NEW a, Calm(a), NEW piece \in Seq(Unit), piece # <<>>, Whole(piece),
           NEW r, r = sendToClient(a, piece)
    PROVE  Calm(r) /\ Harmless(a, r)
  <1>1. CASE Waiting(a.c) \/ (a.c.buf = <<>> /\ a.room = Broken)
    BY <1>1, SendInVain
  <1>2. CASE ~(Waiting(a.c) \/ (a.c.buf = <<>> /\ a.room = Broken))
    <2>1. PICK n \in 0 .. Len(piece) :
             /\ Sending(r)
             /\ InAll(r.c) = Got(InAll(a.c), Cut(piece, n))
             /\ r.c.closed = a.c.closed
             /\ r.room = Broken => a.room = Broken /\ r.c.buf # <<>>
      <3>1. Sending(a) /\ ~Waiting(a.c) /\ ~(a.c.buf = <<>> /\ a.room = Broken)
        BY <1>2 DEF Calm
      <3> QED
        BY <3>1, SendPiece
    <2>2. PICK e \in 1 .. Len(piece) : (e = Len(piece) \/ IsNewline(piece[e])) /\ Cut(piece, n) = SubSeq(piece, 1, e)
      BY CutPrefix
    <2>3. InAll(r.c) = Ended
      BY <2>1, <2>2 DEF Calm, Whole
    <2> QED
      BY <1>2, <2>1, <2>3 DEF Calm, Harmless
  <1> QED
    BY <1>1, <1>2

LEMMA SendMessage ==
    ASSUME NEW a, Calm(a), NEW kind \in Kinds, NEW r, r = sendMessage(a, kind)
    PROVE  Calm(r) /\ Harmless(a, r)
  <1>1. CASE kind = "text" \/ kind = "lines"
    <2>1. Len(Pieces(kind)) = 1 /\ (kind = "text" => Pieces(kind)[1] = << <<"own", 2>> >>)
      BY <1>1 DEF Pieces
    <2>2. r = sendToClient(a, Pieces(kind)[1])
      BY <2>1 DEF sendMessage
    <2>3. Pieces(kind)[1] \in Seq(Unit) /\ Pieces(kind)[1] # <<>> /\ Whole(Pieces(kind)[1])
      <3>1. CASE kind = "text"
        <4>1. Pieces(kind)[1] = << <<"own", 2>> >>
          BY <2>1, <3>1
        <4>2. << <<"own", 2>> >> # <<>>
          OBVIOUS
        <4> QED
          BY <4>1, <4>2, WholePieces, Zenon
      <3>2. CASE kind = "lines"
        BY <3>2, WholePieces
      <3> QED
        BY <1>1, <3>1, <3>2
    <2> QED
      BY <2>2, <2>3, SendWhole
  <1>2. CASE kind \in {"own", "news"}
    <2>1. PICK p, q : p = << <<kind, 1>> >> /\ q = << <<kind, 0>> >>
      OBVIOUS
    <2>2. Len(Pieces(kind)) = 2 /\ Pieces(kind)[1] = p /\ Pieces(kind)[2] = q
      BY <1>2, <2>1 DEF Pieces
    <2>3. PICK b : b = sendToClient(a, p)
      OBVIOUS
    <2>4. r = sendToClient(b, q)
      BY <2>2, <2>3 DEF sendMessage
    <2>5. CASE Waiting(a.c) \/ (a.c.buf = <<>> /\ a.room = Broken)
      <3>1. Calm(b) /\ Harmless(a, b) /\ (Waiting(b.c) \/ (b.c.buf = <<>> /\ b.room = Broken))
        BY <2>3, <2>5, SendInVain
      <3>2. Calm(r) /\ Harmless(b, r)
        BY <2>4, <3>1, SendInVain
      <3>3. Waiting(a.c) => b.c = a.c
        BY <3>1 DEF Harmless
      <3> QED
        BY <3>1, <3>2, <3>3 DEF Harmless
    <2>6. CASE ~(Waiting(a.c) \/ (a.c.buf = <<>> /\ a.room = Broken))
      <3>1. /\ p \in Seq(Unit) /\ p # <<>> /\ Len(p) = 1 /\ p[1] = <<kind, 1>> /\ <<kind, 1>> \in Unit
            /\ q \in Seq(Unit) /\ q # <<>> /\ Len(q) = 1 /\ q[1] = <<kind, 0>> /\ <<kind, 0>> \in Unit
        BY <1>2, <2>1 DEF Unit
      <3>2. PICK n \in 0 .. Len(p) :
               /\ Sending(b)
               /\ InAll(b.c) = Got(InAll(a.c), Cut(p, n))
               /\ b.c.closed = a.c.closed
               /\ b.room = Broken => a.room = Broken /\ b.c.buf # <<>>
               /\ Waiting(b.c) <=> n < Len(p) /\ IsNewline(Last(FirstLine(SubSeq(p, n + 1, Len(p)))))
        <4>1. Sending(a) /\ ~Waiting(a.c) /\ ~(a.c.buf = <<>> /\ a.room = Broken)
          BY <2>6 DEF Calm
        <4> QED
          BY <2>3, <3>1, <4>1, SendPiece
      <3>3. PICK e \in 1 .. Len(p) : /\ Cut(p, n) = SubSeq(p, 1, e)
                                     /\ n < Len(p) => Last(FirstLine(SubSeq(p, n + 1, Len(p)))) = p[e]
        BY <3>1, CutPrefix
      <3>4. e = 1
        BY <3>1, <3>3
      <3>5. ~Waiting(b.c)
        <4>1. ~IsNewline(p[e])
          BY <3>1, <3>4 DEF IsNewline
        <4>2. ASSUME Waiting(b.c) PROVE FALSE
          <5>1. n < Len(p) /\ IsNewline(Last(FirstLine(SubSeq(p, n + 1, Len(p)))))
            BY <3>2, <4>2
          <5>2. Last(FirstLine(SubSeq(p, n + 1, Len(p)))) = p[e]
            BY <3>3, <5>1
          <5> QED
            BY <4>1, <5>1, <5>2, Zenon
        <4> QED
          BY <4>2
      <3>6. InAll(b.c) = <<kind, 1>>
        <4>1. Follows(Ended, p[1]) /\ Seen(p[e]) = <<kind, 1>> /\ \A i \in 2 .. e : Follows(p[i - 1], p[i])
          BY <3>1, <3>4 DEF Follows, Seen, Ended
        <4>2. Ended \in Unit
          BY UnitFacts
        <4>3. Got(Ended, SubSeq(p, 1, e)) = <<kind, 1>>
          BY <3>1, <3>3, <4>1, <4>2, GotChain
        <4>4. InAll(a.c) = Ended
          BY DEF Calm
        <4> QED
          BY <3>2, <3>3, <4>3, <4>4, Zenon
      <3>7. PICK n2 \in 0 .. Len(q) :
               /\ Sending(r)
               /\ InAll(r.c) = Got(InAll(b.c), Cut(q, n2))
               /\ r.c.closed = b.c.closed
               /\ r.room = Broken => b.room = Broken /\ r.c.buf # <<>>
        <4>1. ~(b.c.buf = <<>> /\ b.room = Broken)
          BY <3>2
        <4> QED
          BY <2>4, <3>1, <3>2, <3>5, <4>1, SendPiece
      <3>8. PICK e2 \in 1 .. Len(q) : Cut(q, n2) = SubSeq(q, 1, e2)
        BY <3>1, CutPrefix
      <3>9. InAll(r.c) = Ended
        <4>0. e2 = 1
          BY <3>1, <3>8
        <4>1. Follows(<<kind, 1>>, q[1]) /\ Seen(q[e2]) = Ended /\ \A i \in 2 .. e2 : Follows(q[i - 1], q[i])
          BY <3>1, <4>0 DEF Follows, Seen, Ended
        <4>2. Got(<<kind, 1>>, SubSeq(q, 1, e2)) = Ended
          BY <3>1, <3>8, <4>1, GotChain
        <4> QED
          BY <3>6, <3>7, <3>8, <4>2
      <3> QED
        BY <2>6, <3>2, <3>7, <3>9 DEF Calm, Harmless
    <2> QED
      BY <2>5, <2>6
  <1> QED
    BY <1>1, <1>2 DEF Kinds

LEMMA SendAllCalm ==
    ASSUME NEW c, NEW kinds \in Seq(Kinds), NEW room, Calm([c |-> c, room |-> room])
    PROVE  \E r : /\ r.c = SendAll(c, kinds, room)
                  /\ Calm(r) /\ Harmless([c |-> c, room |-> room], r)
  <1>1. PICK a : a = [c |-> c, room |-> room]
    OBVIOUS
  <1>2. PICK N : N = Len(kinds) /\ N \in Nat
    OBVIOUS
  <1>3. PICK T : T = {n \in Nat : n <= N =>
                        \E f : /\ f = [k \in 0 .. n |-> IF k = 0 THEN a ELSE sendMessage(f[k - 1], kinds[k])]
                               /\ Calm(f[n]) /\ Harmless(a, f[n])}
    OBVIOUS
  <1>4. 0 \in T
    <2>1. PICK f : f = [k \in 0 .. 0 |-> a]
      OBVIOUS
    <2>2. f = [k \in 0 .. 0 |-> IF k = 0 THEN a ELSE sendMessage(f[k - 1], kinds[k])]
      BY <2>1
    <2>3. f[0] = a /\ Calm(a)
      BY <1>1, <2>1
    <2>4. Harmless(a, a)
      BY DEF Harmless
    <2> QED
      BY <1>3, <2>2, <2>3, <2>4
  <1>5. ASSUME NEW n \in Nat, n \in T PROVE n + 1 \in T
    <2>1. SUFFICES ASSUME n + 1 <= N
                   PROVE  \E f : /\ f = [k \in 0 .. n + 1 |-> IF k = 0 THEN a ELSE sendMessage(f[k - 1], kinds[k])]
                                 /\ Calm(f[n + 1]) /\ Harmless(a, f[n + 1])
      BY <1>3
    <2>2. n <= N
      BY <1>2, <2>1
    <2>3. PICK f : /\ f = [k \in 0 .. n |-> IF k = 0 THEN a ELSE sendMessage(f[k - 1], kinds[k])]
                   /\ Calm(f[n]) /\ Harmless(a, f[n])
      BY <1>3, <1>5, <2>2
    <2>4. PICK g : g = [k \in 0 .. n + 1 |-> IF k = n + 1 THEN sendMessage(f[n], kinds[n + 1]) ELSE f[k]]
      OBVIOUS
    <2>5. \A k \in 0 .. n : g[k] = f[k] /\ k \in 0 .. n + 1 /\ k # n + 1
      BY <2>4
    <2>6. g[n + 1] = sendMessage(g[n], kinds[n + 1]) /\ g[n] = f[n]
      BY <2>4, <2>5
    <2>7. ASSUME NEW k \in 0 .. n + 1
          PROVE  g[k] = IF k = 0 THEN a ELSE sendMessage(g[k - 1], kinds[k])
      <3>1. CASE k = n + 1
        BY <2>6, <3>1
      <3>2. CASE k # n + 1
        <4>1. k \in 0 .. n /\ (k # 0 => k - 1 \in 0 .. n)
          BY <3>2
        <4>2. g[k] = f[k] /\ (k # 0 => g[k - 1] = f[k - 1])
          BY <2>5, <4>1
        <4>3. f[k] = IF k = 0 THEN a ELSE sendMessage(f[k - 1], kinds[k])
          BY <2>3, <4>1
        <4> QED
          BY <4>2, <4>3
      <3> QED
        BY <3>1, <3>2
    <2>8. g = [k \in 0 .. n + 1 |-> IF k = 0 THEN a ELSE sendMessage(g[k - 1], kinds[k])]
      BY <2>4, <2>7
    <2>9. kinds[n + 1] \in Kinds
      BY <1>2, <2>1
    <2>10. Calm(g[n + 1]) /\ Harmless(f[n], g[n + 1])
      BY <2>3, <2>6, <2>9, SendMessage
    <2>11. Harmless(a, g[n + 1])
      BY <2>3, <2>10 DEF Harmless
    <2> QED
      BY <2>8, <2>10, <2>11
  <1>6. N \in T
    BY <1>2, <1>4, <1>5, SetInduction
  <1>7. \E f : /\ f = [k \in 0 .. N |-> IF k = 0 THEN a ELSE sendMessage(f[k - 1], kinds[k])]
               /\ Calm(f[N]) /\ Harmless(a, f[N])
    BY <1>2, <1>3, <1>6
  <1>8. PICK f : /\ f = [k \in 0 .. N |-> IF k = 0 THEN a ELSE sendMessage(f[k - 1], kinds[k])]
                 /\ Calm(f[N]) /\ Harmless(a, f[N])
    BY <1>7
  <1>9. PICK h : h = CHOOSE g : g = [k \in 0 .. N |-> IF k = 0 THEN a ELSE sendMessage(g[k - 1], kinds[k])]
    OBVIOUS
  <1>10. h = [k \in 0 .. N |-> IF k = 0 THEN a ELSE sendMessage(h[k - 1], kinds[k])]
    BY <1>8, <1>9
  <1>11. SendAll(c, kinds, room) = h[N].c
    BY <1>1, <1>2, <1>9 DEF SendAll
  <1>12. PICK U : U = {n \in Nat : n <= N => h[n] = f[n]}
    OBVIOUS
  <1>13. 0 \in U
    BY <1>2, <1>8, <1>10, <1>12
  <1>14. ASSUME NEW n \in Nat, n \in U PROVE n + 1 \in U
    <2>1. SUFFICES ASSUME n + 1 <= N PROVE h[n + 1] = f[n + 1]
      BY <1>12
    <2>2. n <= N /\ n + 1 \in 0 .. N /\ n + 1 # 0 /\ (n + 1) - 1 = n
      BY <1>2, <2>1
    <2>3. h[n] = f[n]
      BY <1>12, <1>14, <2>2
    <2>4. h[n + 1] = sendMessage(h[n], kinds[n + 1])
      BY <1>10, <2>2
    <2>5. f[n + 1] = sendMessage(f[n], kinds[n + 1])
      BY <1>8, <2>2
    <2> QED
      BY <2>3, <2>4, <2>5
  <1>15. N \in U
    BY <1>2, <1>13, <1>14, SetInduction
  <1>16. h[N] = f[N]
    BY <1>2, <1>12, <1>15
  <1> QED
    BY <1>1, <1>8, <1>11, <1>16

LEMMA SendAllNone ==
    ASSUME NEW c, NEW room
    PROVE  SendAll(c, <<>>, room) = c
  <1>1. PICK a : a = [c |-> c, room |-> room]
    OBVIOUS
  <1>2. PICK h : h = CHOOSE g : g = [k \in 0 .. 0 |-> IF k = 0 THEN a ELSE sendMessage(g[k - 1], <<>>[k])]
    OBVIOUS
  <1>3. PICK f : f = [k \in 0 .. 0 |-> a]
    OBVIOUS
  <1>4. f = [k \in 0 .. 0 |-> IF k = 0 THEN a ELSE sendMessage(f[k - 1], <<>>[k])]
    BY <1>3
  <1>5. h = [k \in 0 .. 0 |-> IF k = 0 THEN a ELSE sendMessage(h[k - 1], <<>>[k])]
    BY <1>2, <1>4
  <1>6. h[0] = a
    BY <1>5
  <1>7. Len(<<>>) = 0
    OBVIOUS
  <1>8. SendAll(c, <<>>, room) = h[0].c
    BY <1>1, <1>2, <1>7 DEF SendAll
  <1> QED
    BY <1>1, <1>6, <1>8

-----------------------------------------------------------------------------
\* What a handler may not do to the output c of a client besides, in making it d.
Kept(c, d) == /\ Waiting(c) => d = c
              /\ c.closed => d.closed

Proper(msgs, S) ==
    \A s \in Slots : msgs[s] \in Seq(Kinds) /\ (s \notin S => msgs[s] = <<>>)

LEMMA SendsTidy ==
    ASSUME NEW o, NEW msgs, NEW S, Proper(msgs, S), SendsFrom(o, msgs)
    PROVE  /\ out' = [s \in Slots |-> out'[s]]
           /\ \A s \in Slots \ S : out'[s] = o[s]
           /\ \A s \in Slots : Tidy(o[s]) =>
                  /\ Tidy(out'[s]) /\ Kept(o[s], out'[s])
                  /\ out'[s].closed => o[s].closed \/ peer[s] = "gone"
  <1>1. PICK room : /\ \A s \in Slots : room[s] \in Rooms(s, o[s], msgs[s])
                    /\ out' = [s \in Slots |-> SendAll(o[s], msgs[s], room[s])]
    BY DEF SendsFrom
  <1>2. \A s \in Slots \ S : out'[s] = o[s]
    BY <1>1, SendAllNone DEF Proper
  <1>3. ASSUME NEW s \in Slots, Tidy(o[s])
        PROVE  /\ Tidy(out'[s]) /\ Kept(o[s], out'[s])
               /\ out'[s].closed => o[s].closed \/ peer[s] = "gone"
    <2>1. PICK c, kinds, n : c = o[s] /\ kinds = msgs[s] /\ n = room[s]
      OBVIOUS
    <2>2. kinds \in Seq(Kinds) /\ n \in Rooms(s, c, kinds) /\ out'[s] = SendAll(c, kinds, n)
      BY <1>1, <2>1 DEF Proper
    <2>3. n \in Nat \cup {Broken} /\ (n = Broken => peer[s] = "gone")
      <3>1. Units(kinds) \in Nat
        BY <2>2 DEF Units
      <3> QED
        BY <2>2, <3>1 DEF Rooms, Broken
    <2>4. PICK a : a = [c |-> c, room |-> n]
      OBVIOUS
    <2>5. Calm(a) /\ a.c = c /\ a.room = n
      BY <1>3, <2>1, <2>3, <2>4 DEF Calm, Sending, Tidy
    <2>6. PICK r : r.c = SendAll(c, kinds, n) /\ Calm(r) /\ Harmless(a, r)
      BY <2>2, <2>4, <2>5, SendAllCalm
    <2> QED
      BY <2>1, <2>2, <2>3, <2>5, <2>6 DEF Calm, Sending, Harmless, Tidy, Kept
  <1> QED
    BY <1>1, <1>2, <1>3

\* trySendToClientAgain, or nothing.
LEMMA WrittenTidy ==
    ASSUME NEW c, Tidy(c), NEW i \in Slots, NEW d \in Written(c, i)
    PROVE  /\ d.wr \in BOOLEAN
           /\ ~d.closed => Tidy(d)
           /\ d.closed => c.closed \/ peer[i] = "gone" \/ ("wr" \in revents[i] /\ ~Waiting(c))
  <1>1. CASE c.closed \/ "wr" \notin revents[i]
    <2>1. d = c
      BY <1>1 DEF Written
    <2>2. c.wr \in BOOLEAN
      BY DEF Tidy, OutType
    <2> QED
      BY <2>1, <2>2
  <1>2. CASE ~(c.closed \/ "wr" \notin revents[i])
    <2>1. PICK n \in 0 .. Len(c.buf) - c.finished \cup IF peer[i] = "gone" THEN {Broken} ELSE {} :
             d = trySendToClientAgain(c, n)
      BY <1>2 DEF Written
    <2>2. PICK b, f, k, q, u :
              b = c.buf /\ f = c.finished /\ k = c.closed /\ q = c.wr /\ u = c.wire
      OBVIOUS
    <2>3. /\ c = [buf |-> b, finished |-> f, closed |-> k, wr |-> q, wire |-> u]
          /\ b \in Seq(Unit) /\ Len(b) \in Nat /\ f \in Nat /\ f <= Len(b)
          /\ k \in BOOLEAN /\ q \in BOOLEAN /\ u \in Unit \cup {Torn}
      BY <2>2 DEF Tidy, OutType
    <2>4. CASE n = Broken \/ ~Waiting(c)
      <3>1. d = [c EXCEPT !.closed = TRUE, !.wr = FALSE]
        BY <2>1, <2>4 DEF trySendToClientAgain
      <3>2. d.closed = TRUE /\ d.wr = FALSE
        BY <2>3, <3>1
      <3>3. n = Broken => peer[i] = "gone"
        BY <2>1, <2>2, <2>3 DEF Broken
      <3>4. "wr" \in revents[i]
        BY <1>2
      <3> QED
        BY <2>4, <3>2, <3>3, <3>4
    <2>5. CASE n # Broken /\ Waiting(c)
      <3>1. n \in 0 .. Len(b) - f /\ f < Len(b)
        BY <2>1, <2>2, <2>5 DEF Waiting
      <3>2. PICK t : t = SubSeq(b, f + 1, Len(b))
        OBVIOUS
      <3>3. t \in Seq(Unit) /\ Len(t) = Len(b) - f /\ n \in 0 .. Len(t)
        BY <2>3, <3>1, <3>2
      <3>4. PICK units, tail : units = SubSeq(t, 1, n) /\ tail = SubSeq(t, n + 1, Len(t))
        OBVIOUS
      <3>5. units \in Seq(Unit) /\ tail \in Seq(Unit) /\ units \o tail = t
        BY <3>3, <3>4, Parts
      <3>6. SubSeq(c.buf, c.finished + 1, c.finished + n) = units
        <4>1. PICK y : y = SubSeq(b, f + 1, f + n)
          OBVIOUS
        <4>8. PICK e : e = f + n
          OBVIOUS
        <4>9. e \in Nat /\ e <= Len(b) /\ n \in Nat /\ n = e - f /\ f <= e
          BY <2>3, <3>1, <4>8
        <4>10. y \in Seq(Unit) /\ Len(y) = e - f /\ \A j \in 1 .. e - f : y[j] = b[f + j]
          <5>1. e \in 0 .. Len(b) /\ f \in 0 .. Len(b)
            BY <2>3, <4>9
          <5>2. y = SubSeq(b, f + 1, e)
            BY <4>1, <4>8
          <5> QED
            BY <2>3, <4>9, <5>1, <5>2
        <4>2. y \in Seq(Unit) /\ Len(y) = n /\ \A j \in 1 .. n : y[j] = b[f + j]
          BY <4>9, <4>10
        <4>3. \A j \in 1 .. Len(t) : t[j] = b[f + j]
          BY <2>3, <3>1, <3>2
        <4>4. Len(units) = n /\ \A j \in 1 .. n : units[j] = t[j]
          BY <3>3, <3>4
        <4>5. \A j \in 1 .. n : j \in 1 .. Len(t)
          BY <3>3
        <4>6. \A j \in 1 .. n : y[j] = units[j]
          BY <4>2, <4>3, <4>4, <4>5
        <4>7. y = units
          BY <3>5, <4>2, <4>4, <4>6, SeqEqual
        <4> QED
          BY <2>2, <4>1, <4>7
      <3>7. PICK v : v = Got(u, units)
        OBVIOUS
      <3>8. v \in Unit \cup {Torn}
        BY <2>3, <3>5, <3>7, GotType
      <3>9. Got(v, tail) = Ended
        <4>1. InAll(c) = Got(u, t)
          BY <2>2, <2>5, <3>2 DEF InAll, ToCome
        <4>2. Got(u, units \o tail) = Got(Got(u, units), tail)
          BY <2>3, <3>5, GotCat
        <4> QED
          BY <3>5, <3>7, <4>1, <4>2 DEF Tidy
      <3>10. PICK moved : moved = [buf |-> b, finished |-> f + n, closed |-> k, wr |-> q, wire |-> v]
        OBVIOUS
      <3>11. [c EXCEPT !.wire = Got(@, units), !.finished = @ + n] = moved
        <4>1. PICK e : e = f + n
          OBVIOUS
        <4>2. [c EXCEPT !.wire = v, !.finished = e]
              = [buf |-> b, finished |-> e, closed |-> k, wr |-> q, wire |-> v]
          <5>1. c = [buf |-> b, finished |-> f, closed |-> k, wr |-> q, wire |-> u]
            BY <2>3
          <5>2. PICK z : z = [c EXCEPT !.wire = v]
            OBVIOUS
          <5>3. z = [buf |-> b, finished |-> f, closed |-> k, wr |-> q, wire |-> v]
            BY <5>1, <5>2
          <5>4. [c EXCEPT !.wire = v, !.finished = e] = [z EXCEPT !.finished = e]
            BY <5>2
          <5> QED
            BY <5>3, <5>4
        <4>3. [c EXCEPT !.wire = Got(@, units), !.finished = @ + n] = [c EXCEPT !.wire = v, !.finished = e]
          BY <2>2, <3>7, <4>1
        <4> QED
          BY <3>10, <4>1, <4>2, <4>3
      <3>12. d = IF f + n = Len(b) THEN Sent(moved) ELSE moved
        <4>1. moved.finished = f + n
          BY <3>10
        <4> QED
          BY <2>1, <2>2, <2>5, <3>6, <3>11, <4>1 DEF trySendToClientAgain
      <3>13. ~k /\ (q <=> Waiting(c)) /\ IsNewline(Last(b))
        BY <1>2, <2>2, <2>5 DEF Tidy, Watched, LineWaits
      <3>14. CASE f + n = Len(b)
        <4>1. d = [buf |-> <<>>, finished |-> 0, closed |-> k, wr |-> FALSE, wire |-> v]
          BY <3>10, <3>12, <3>14 DEF Sent
        <4>2. d.buf = <<>> /\ d.finished = 0 /\ d.closed = k /\ d.wr = FALSE /\ d.wire = v
          BY <4>1
        <4>3. ~Waiting(d) /\ ToCome(d) = <<>>
          BY <4>2 DEF Waiting, ToCome
        <4>4. tail = <<>>
          <5>1. n = Len(t)
            BY <2>3, <3>3, <3>14
          <5> QED
            BY <3>3, <3>4, <5>1
        <4>5. InAll(d) = Ended
          BY <3>9, <4>2, <4>3, <4>4 DEF InAll
        <4>6. OutType(d)
          <5>1. <<>> \in Seq(Unit) /\ Len(<<>>) = 0
            OBVIOUS
          <5> QED
            BY <2>3, <3>8, <4>1, <4>2, <5>1 DEF OutType
        <4> QED
          BY <3>13, <4>2, <4>3, <4>5, <4>6 DEF Tidy, Watched, LineWaits
      <3>15. CASE f + n # Len(b)
        <4>1. d = moved
          BY <3>12, <3>15
        <4>2. d.buf = b /\ d.finished = f + n /\ d.closed = k /\ d.wr = q /\ d.wire = v
          BY <3>10, <4>1
        <4>3. f + n \in Nat /\ f + n < Len(b)
          BY <2>3, <3>1, <3>15
        <4>4. Waiting(d)
          BY <4>2, <4>3 DEF Waiting
        <4>5. ToCome(d) = tail
          <5>1. PICK y : y = SubSeq(b, (f + n) + 1, Len(b))
            OBVIOUS
          <5>2. y \in Seq(Unit) /\ Len(y) = Len(b) - (f + n) /\ \A j \in 1 .. Len(b) - (f + n) : y[j] = b[(f + n) + j]
            BY <2>3, <4>3, <5>1
          <5>3. \A j \in 1 .. Len(t) : t[j] = b[f + j]
            BY <2>3, <3>1, <3>2
          <5>4. Len(tail) = Len(b) - (f + n) /\ \A j \in 1 .. Len(b) - (f + n) : tail[j] = t[n + j]
            BY <2>3, <3>1, <3>3, <3>4, <4>3, SMTT(20)
          <5>5. \A j \in 1 .. Len(b) - (f + n) : n + j \in 1 .. Len(t) /\ f + (n + j) = (f + n) + j
            BY <2>3, <3>1, <3>3, <4>3
          <5>6. \A j \in 1 .. Len(b) - (f + n) : y[j] = tail[j]
            BY <5>2, <5>3, <5>4, <5>5
          <5>7. y = tail
            BY <3>5, <5>2, <5>4, <5>6, SeqEqual
          <5> QED
            BY <4>2, <4>4, <5>1, <5>7 DEF ToCome
        <4>6. InAll(d) = Ended
          BY <3>9, <4>2, <4>5 DEF InAll
        <4>7. OutType(d)
          BY <2>3, <3>8, <3>10, <4>1, <4>2, <4>3 DEF OutType
        <4> QED
          BY <2>5, <3>13, <4>2, <4>4, <4>6, <4>7 DEF Tidy, Watched, LineWaits
      <3> QED
        BY <3>13, <3>14, <3>15, <2>2 DEF Tidy, OutType
    <2> QED
      BY <2>4, <2>5
  <1> QED
    BY <1>1, <1>2

-----------------------------------------------------------------------------
\* The output of all slots, step by step.

LEMMA FreshTidy ==
    /\ Tidy(Fresh) /\ Fresh.closed = FALSE
    /\ \A q \in BOOLEAN : OutType([Fresh EXCEPT !.wr = q])
  <1>1. <<>> \in Seq(Unit) /\ Len(<<>>) = 0 /\ Ended \in Unit
    BY UnitFacts
  <1>2. PICK z : z = Fresh
    OBVIOUS
  <1>3. z = [buf |-> <<>>, finished |-> 0, closed |-> FALSE, wr |-> FALSE, wire |-> Ended]
    BY <1>2 DEF Fresh
  <1>4. /\ z.buf = <<>> /\ z.finished = 0 /\ z.closed = FALSE /\ z.wr = FALSE /\ z.wire = Ended
        /\ OutType(z)
    BY <1>1, <1>3 DEF OutType
  <1>5. ~Waiting(z) /\ ToCome(z) = <<>>
    BY <1>1, <1>4 DEF Waiting, ToCome
  <1>6. InAll(z) = Ended
    BY <1>4, <1>5, GotNothing DEF InAll
  <1>7. Tidy(z)
    BY <1>4, <1>5, <1>6 DEF Tidy, Watched, LineWaits
  <1>8. ASSUME NEW q \in BOOLEAN PROVE OutType([Fresh EXCEPT !.wr = q])
    <2>1. PICK d : d = [Fresh EXCEPT !.wr = q]
      OBVIOUS
    <2>2. d = [buf |-> <<>>, finished |-> 0, closed |-> FALSE, wr |-> q, wire |-> Ended]
      BY <2>1 DEF Fresh
    <2>3. d \in [buf : Seq(Unit), finished : Nat, closed : BOOLEAN, wr : BOOLEAN, wire : Unit \cup {Torn}]
      BY <1>1, <2>2
    <2>4. d.finished = 0 /\ d.buf = <<>>
      BY <2>2
    <2> QED
      BY <1>1, <2>1, <2>3, <2>4 DEF OutType
  <1> QED
    BY <1>2, <1>4, <1>7, <1>8

\* A step that sends: what the connected clients have stays in order.
LEMMA AfterSends ==
    ASSUME NEW o, NEW msgs, Proper(msgs, open'), SendsFrom(o, msgs),
           \A s \in Slots : OutType(o[s]),
           \A s \in open' : Tidy(o[s]) /\ (o[s].closed => peer[s] # "up"),
           open' \subseteq Slots
    PROVE  /\ out' = [s \in Slots |-> out'[s]]
           /\ \A s \in Slots : OutType(out'[s])
           /\ \A s \in open' : /\ Tidy(out'[s]) /\ Kept(o[s], out'[s])
                               /\ out'[s].closed => peer[s] # "up"
  <1>1. /\ out' = [s \in Slots |-> out'[s]]
        /\ \A s \in Slots \ open' : out'[s] = o[s]
        /\ \A s \in Slots : Tidy(o[s]) =>
               /\ Tidy(out'[s]) /\ Kept(o[s], out'[s])
               /\ out'[s].closed => o[s].closed \/ peer[s] = "gone"
    BY SendsTidy
  <1>2. ASSUME NEW s \in open'
        PROVE  /\ Tidy(out'[s]) /\ Kept(o[s], out'[s])
               /\ out'[s].closed => peer[s] # "up"
    <2>1. s \in Slots /\ Tidy(o[s]) /\ (o[s].closed => peer[s] # "up")
      OBVIOUS
    <2> QED
      BY <1>1, <2>1
  <1>3. ASSUME NEW s \in Slots PROVE OutType(out'[s])
    <2>1. CASE s \in open'
      BY <1>2, <2>1 DEF Tidy
    <2>2. CASE s \notin open'
      BY <1>1, <2>2
    <2> QED
      BY <2>1, <2>2
  <1> QED
    BY <1>1, <1>2, <1>3

\* Which messages the handlers have.

LEMMA OnlyProper ==
    ASSUME NEW i \in Slots, NEW kinds \in Seq(Kinds), NEW S, i \in S
    PROVE  Proper(Only(i, kinds), S)
  <1>1. <<>> \in Seq(Kinds)
    OBVIOUS
  <1> QED
    BY <1>1 DEF Proper, Only, Silent

LEMMA OthersProper ==
    ASSUME TableInv, NEW i \in Slots, NEW S, open \ {i} \subseteq S
    PROVE  /\ Proper(ToOthers(i, "news"), S)
           /\ i \in S => Proper([ToOthers(i, "news") EXCEPT ![i] = <<"own">>], S)
  <1>1. <<>> \in Seq(Kinds) /\ <<"news">> \in Seq(Kinds) /\ <<"own">> \in Seq(Kinds)
    BY DEF Kinds
  <1>2. PICK m : m = ToOthers(i, "news")
    OBVIOUS
  <1>3. /\ m = [s \in Slots |-> m[s]]
        /\ \A s \in Slots : m[s] = IF s \in open \ {i} THEN <<"news">> ELSE <<>>
    BY <1>2, Connects DEF ToOthers
  <1>4. Proper(m, S)
    BY <1>1, <1>3 DEF Proper
  <1>5. ASSUME i \in S PROVE Proper([m EXCEPT ![i] = <<"own">>], S)
    <2>1. \A s \in Slots : [m EXCEPT ![i] = <<"own">>][s] = IF s = i THEN <<"own">> ELSE m[s]
      BY <1>3
    <2> QED
      BY <1>1, <1>4, <1>5, <2>1 DEF Proper
  <1> QED
    BY <1>2, <1>4, <1>5

\* A command has messages for connected clients only.
LEMMA CommandSends ==
    ASSUME TableInv, phase = "visit", processMessage(cur)
    PROVE  \E msgs : Proper(msgs, open) /\ Sends(msgs)
  <1>1. cur \in open /\ cur \in Slots /\ Connected = open /\ open \subseteq Slots
    BY Connects, OpenSlots DEF TableInv
  <1>2. <<>> \in Seq(Kinds) /\ <<"news">> \in Seq(Kinds) /\ <<"own">> \in Seq(Kinds)
    BY DEF Kinds
  <1>3. Proper(Only(cur, <<"own">>), open)
    BY <1>1, <1>2, OnlyProper
  <1>4. CASE whoCommand(cur)
    <2>1. PICK k : k = Cardinality(Connected)
      OBVIOUS
    <2>2. k \in Nat
      BY <1>1, <2>1, SlotsFinite
    <2>3. PICK kinds : kinds = [n \in 1 .. k |-> "own"]
      OBVIOUS
    <2>4. kinds \in Seq(Kinds)
      BY <2>2, <2>3 DEF Kinds
    <2>5. Proper(Only(cur, kinds), open)
      BY <1>1, <2>4, OnlyProper
    <2> QED
      BY <1>4, <2>1, <2>3, <2>5 DEF whoCommand
  <1>5. CASE errorCommand(cur)
    BY <1>3, <1>5 DEF errorCommand
  <1>6. ASSUME NEW arg, nameCommand(cur, arg)
        PROVE  \E msgs : Proper(msgs, open) /\ Sends(msgs)
    <2>1. Proper([ToOthers(cur, "news") EXCEPT ![cur] = <<"own">>], open)
      BY <1>1, OthersProper
    <2> QED
      BY <1>3, <1>6, <2>1 DEF nameCommand
  <1>7. ASSUME NEW arg, NEW message \in BOOLEAN, tellCommand(cur, arg, message)
        PROVE  \E msgs : Proper(msgs, open) /\ Sends(msgs)
    <2>1. PICK rcvr : rcvr = IF name[cur] = Anonymous \/ arg \in {None, Anonymous} \/ ~message THEN {}
                             ELSE FirstNamed(arg)
      OBVIOUS
    <2>2. rcvr \subseteq open
      BY <1>1, <2>1 DEF FirstNamed
    <2>3. PICK msgs : msgs = [s \in Slots |-> (IF s \in rcvr THEN <<"news">> ELSE <<>>) \o
                                              (IF s = cur THEN <<"own">> ELSE <<>>)]
      OBVIOUS
    <2>4. Sends(msgs)
      BY <1>7, <2>1, <2>3 DEF tellCommand
    <2>5. ASSUME NEW s \in Slots
          PROVE  msgs[s] \in Seq(Kinds) /\ (s \notin open => msgs[s] = <<>>)
      <3>1. PICK x, y : x = (IF s \in rcvr THEN <<"news">> ELSE <<>>) /\ y = (IF s = cur THEN <<"own">> ELSE <<>>)
        OBVIOUS
      <3>2. x \in Seq(Kinds) /\ y \in Seq(Kinds) /\ msgs[s] = x \o y
        BY <1>2, <2>3, <3>1
      <3>3. s \notin open => x = <<>> /\ y = <<>>
        BY <1>1, <2>2, <3>1
      <3>4. x \o y \in Seq(Kinds) /\ <<>> \o <<>> = <<>>
        BY <3>2
      <3> QED
        BY <3>2, <3>3, <3>4
    <2> QED
      BY <2>4, <2>5 DEF Proper
  <1>8. ASSUME NEW message \in BOOLEAN, yellCommand(cur, message)
        PROVE  \E msgs : Proper(msgs, open) /\ Sends(msgs)
    <2>1. PICK msgs : msgs = [s \in Slots |-> IF s \in Connected THEN <<"news">> ELSE <<>>]
      OBVIOUS
    <2>2. Proper(msgs, open)
      BY <1>1, <1>2, <2>1 DEF Proper
    <2> QED
      BY <1>3, <1>8, <2>1, <2>2 DEF yellCommand
  <1> QED
    BY <1>4, <1>5, <1>6, <1>7, <1>8 DEF processMessage

LEMMA OutInit == Init => OutInv /\ WriteReported /\ LoopType
  <1> SUFFICES ASSUME Init PROVE OutInv /\ WriteReported /\ LoopType
    OBVIOUS
  <1>1. \A s \in Slots : out[s] = Fresh
    BY DEF Init
  <1>2. out = [s \in Slots |-> out[s]]
    BY <1>1 DEF Init
  <1>3. OutInv
    BY <1>1, <1>2, FreshTidy DEF Init, OutInv, Tidy
  <1> QED
    BY <1>3 DEF Init, WriteReported, LoopType

\* Steps that send to connected clients and leave the table as it is.
LEMMA SendStep ==
    ASSUME TableInv, OutInv, NEW msgs, Proper(msgs, open), Sends(msgs),
           UNCHANGED <<open, phase, peer>>
    PROVE  /\ OutInv'
           /\ \A s \in open : Kept(out[s], out'[s])
  <1>1. Proper(msgs, open') /\ SendsFrom(out, msgs) /\ open' \subseteq Slots
    BY OpenSlots DEF Sends
  <1>2. /\ \A s \in Slots : OutType(out[s])
        /\ \A s \in open' : Tidy(out[s]) /\ (out[s].closed => peer[s] # "up")
    BY DEF OutInv
  <1>3. /\ out' = [s \in Slots |-> out'[s]]
        /\ \A s \in Slots : OutType(out'[s])
        /\ \A s \in open' : /\ Tidy(out'[s]) /\ Kept(out[s], out'[s])
                            /\ out'[s].closed => peer[s] # "up"
    BY <1>1, <1>2, AfterSends
  <1> QED
    BY <1>3 DEF OutInv

\* Nothing takes away what a client is to be written, and the rounds stay as
\* they are, or look at less.
LEMMA WriteKept ==
    ASSUME WriteReported, NEW S, open' \cap S \subseteq open, junk' = junk,
           phase' \in {"ready", "visit"} => phase \in {"ready", "visit"},
           \A s \in open' \cap S : revents'[s] = revents[s] /\ (Ahead(s)' => Ahead(s)),
           \A s \in open' \cap S : Kept(out[s], out'[s])
    PROVE  phase' \in {"ready", "visit"} =>
               \A s \in (open' \cap S) \ junk' :
                   Ahead(s)' /\ "wr" \in revents'[s] => Waiting(out'[s]) \/ out'[s].closed
  BY DEF WriteReported, Kept

\* A step that leaves the rounds alone and gives or takes nothing but what the
\* sockets allow.
LEMMA SameRound ==
    ASSUME WriteReported, UNCHANGED <<phase, cur, revents, junk, open>>,
           \A s \in open : Kept(out[s], out'[s])
    PROVE  WriteReported'
  BY DEF WriteReported, Kept, Ahead

LEMMA AdminOut ==
    ASSUME TableInv, OutInv, WriteReported, Admin
    PROVE  OutInv' /\ WriteReported'
  <1>1. UNCHANGED <<phase, cur, revents, junk, open, peer>>
    BY DEF Admin, table
  <1>2. CASE UNCHANGED out
    BY <1>1, <1>2 DEF OutInv, WriteReported, Ahead
  <1>3. CASE \E f \in Connected, kind \in AdminTexts : Sends(Only(f, <<kind>>))
    <2>1. PICK f \in Connected, kind \in AdminTexts : Sends(Only(f, <<kind>>))
      BY <1>3
    <2>2. f \in open /\ f \in Slots /\ <<kind>> \in Seq(Kinds)
      BY ChatAssumption, Connects, OpenSlots DEF ChatAssumption, Kinds
    <2>3. Proper(Only(f, <<kind>>), open)
      BY <2>2, OnlyProper
    <2>4. OutInv' /\ \A s \in open : Kept(out[s], out'[s])
      BY <1>1, <2>1, <2>3, SendStep
    <2> QED
      BY <1>1, <2>4, SameRound
  <1> QED
    BY <1>2, <1>3 DEF Admin

LEMMA ReadOut ==
    ASSUME TableInv, OutInv, WriteReported, ReadLine
    PROVE  OutInv' /\ WriteReported'
  <1>1. phase = "visit" /\ UNCHANGED <<phase, cur, revents, junk, open>> /\ cur \in open /\ cur \in Slots
    BY OpenSlots DEF ReadLine, loop, TableInv
  <1>2. CASE processMessage(cur) /\ UNCHANGED peer
    <2>1. PICK msgs : Proper(msgs, open) /\ Sends(msgs)
      BY <1>1, <1>2, CommandSends
    <2>2. OutInv' /\ \A s \in open : Kept(out[s], out'[s])
      BY <1>1, <1>2, <2>1, SendStep
    <2> QED
      BY <1>1, <2>2, SameRound
  <1>3. CASE exitCommand(cur) /\ peer' = [peer EXCEPT ![cur] = IF @ = "up" THEN "left" ELSE @]
    <2>1. PICK c, d : c = out[cur] /\ d = [c EXCEPT !.closed = TRUE]
      OBVIOUS
    <2>2. out' = [s \in Slots |-> out'[s]] /\ \A s \in Slots : out'[s] = IF s = cur THEN d ELSE out[s]
      BY <1>1, <1>3, <2>1 DEF exitCommand, OutInv
    <2>3. Tidy(c)
      BY <1>1, <2>1 DEF OutInv
    <2>4. /\ d.buf = c.buf /\ d.finished = c.finished /\ d.closed = TRUE /\ d.wr = c.wr /\ d.wire = c.wire
          /\ d \in [buf : Seq(Unit), finished : Nat, closed : BOOLEAN, wr : BOOLEAN, wire : Unit \cup {Torn}]
      BY <2>1, <2>3 DEF Tidy, OutType
    <2>5. Waiting(d) = Waiting(c) /\ ToCome(d) = ToCome(c)
      BY <2>4 DEF Waiting, ToCome
    <2>6. Tidy(d)
      BY <2>3, <2>4, <2>5 DEF Tidy, OutType, Watched, LineWaits, InAll
    <2>7. peer' \in [Slots -> {"up", "left", "gone"}] /\ \A s \in Slots : peer'[s] = IF s = cur THEN (IF peer[cur] = "up" THEN "left" ELSE peer[cur]) ELSE peer[s]
      BY <1>1, <1>3 DEF OutInv
    <2>8. \A s \in Slots : OutType(out'[s])
      BY <2>2, <2>6 DEF OutInv, Tidy
    <2>9. \A s \in open' : Tidy(out'[s]) /\ (out'[s].closed => peer'[s] # "up")
      BY <1>1, <2>2, <2>6, <2>7, OpenSlots DEF OutInv
    <2>10. phase' # "down" => \A s \in Slots \ open' : peer'[s] = "up"
      BY <1>1, <2>7 DEF OutInv
    <2>11. OutInv'
      BY <2>2, <2>7, <2>8, <2>9, <2>10 DEF OutInv
    <2>12. WriteReported'
      BY <1>1, <2>2, <2>4, OpenSlots DEF WriteReported, Ahead
    <2> QED
      BY <2>11, <2>12
  <1> QED
    BY <1>2, <1>3 DEF ReadLine

LEMMA PollOut ==
    ASSUME TableInv, RoundInv, OutInv, Poll
    PROVE  OutInv' /\ WriteReported'
  <1>1. PICK rd \in SUBSET Connected, wr \in SUBSET {s \in Connected : out[s].wr} :
            revents' = [s \in Slots |-> IF s > maxi THEN revents[s]
                                        ELSE {x \in {"rd", "wr"} : s \in IF x = "rd" THEN rd ELSE wr}]
    BY DEF Poll
  <1>2. phase = "poll" /\ phase' = "ready" /\ UNCHANGED <<open, maxi, out, peer>>
    BY DEF Poll, table
  <1>3. OutInv'
    BY <1>2 DEF OutInv
  <1>4. ASSUME NEW s \in open', "wr" \in revents'[s]
        PROVE  Waiting(out'[s]) \/ out'[s].closed
    <2>1. s \in Slots /\ ~(s > maxi) /\ s \in open
      BY <1>2, OpenSlots
    <2>2. s \in wr
      BY <1>1, <1>4, <2>1
    <2>3. out[s].wr /\ Tidy(out[s])
      BY <2>1, <2>2 DEF OutInv
    <2> QED
      BY <1>2, <2>3 DEF Tidy, Watched
  <1> QED
    BY <1>3, <1>4 DEF WriteReported

LEMMA LeaveOut ==
    ASSUME TableInv, OutInv, WriteReported, LeaveClient
    PROVE  /\ OutInv' /\ WriteReported'
           /\ cur \notin open' => peer[cur] # "up" \/ cur \in junk
  <1>1. /\ phase = "visit" /\ cur \in open /\ cur \in Slots /\ cur \in Int /\ open \subseteq Slots
        /\ junk' = junk /\ phase' \in {"ready", "poll"}
        /\ phase' = "ready" => UNCHANGED <<cur, revents>>
    BY OpenSlots DEF TableInv, LeaveClient, CountDown, EndRound
  <1>0. PICK ended \in IF peer[cur] = "gone" THEN BOOLEAN ELSE {FALSE} :
          \E c \in Written([out[cur] EXCEPT !.closed = @ \/ ended], cur) :
          \/ /\ ~c.closed
             /\ out' = [out EXCEPT ![cur] = c]
             /\ UNCHANGED <<open, peer>>
          \/ /\ c.closed
             /\ SendsFrom([out EXCEPT ![cur] = [Fresh EXCEPT !.wr = c.wr]], ToOthers(cur, "news"))
             /\ open' = open \ {cur}
             /\ peer' = [peer EXCEPT ![cur] = "up"]
    BY DEF LeaveClient
  <1>2. PICK c \in Written([out[cur] EXCEPT !.closed = @ \/ ended], cur) :
          \/ /\ ~c.closed
             /\ out' = [out EXCEPT ![cur] = c]
             /\ UNCHANGED <<open, peer>>
          \/ /\ c.closed
             /\ SendsFrom([out EXCEPT ![cur] = [Fresh EXCEPT !.wr = c.wr]], ToOthers(cur, "news"))
             /\ open' = open \ {cur}
             /\ peer' = [peer EXCEPT ![cur] = "up"]
    BY <1>0
  <1>3. PICK b, d : b = out[cur] /\ d = [b EXCEPT !.closed = @ \/ ended]
    OBVIOUS
  <1>4. Tidy(b) /\ (b.closed => peer[cur] # "up") /\ b.closed \in BOOLEAN
    BY <1>1, <1>3 DEF OutInv, Tidy, OutType
  <1>5. ended \in BOOLEAN /\ (ended => peer[cur] = "gone")
    BY <1>0
  <1>6. Tidy(d) /\ Waiting(d) = Waiting(b) /\ d.closed = (b.closed \/ ended)
    <2>1. PICK k : k = (b.closed \/ ended)
      OBVIOUS
    <2>2. k \in BOOLEAN
      BY <1>4, <1>5, <2>1
    <2>3. d = [b EXCEPT !.closed = k]
      BY <1>3, <2>1
    <2>4. /\ d.buf = b.buf /\ d.finished = b.finished /\ d.closed = k /\ d.wr = b.wr /\ d.wire = b.wire
          /\ d \in [buf : Seq(Unit), finished : Nat, closed : BOOLEAN, wr : BOOLEAN, wire : Unit \cup {Torn}]
      BY <1>4, <2>2, <2>3 DEF Tidy, OutType
    <2>5. Waiting(d) = Waiting(b) /\ ToCome(d) = ToCome(b)
      BY <2>4 DEF Waiting, ToCome
    <2>6. ~k => ~b.closed
      BY <2>1
    <2> QED
      BY <1>4, <2>1, <2>4, <2>5, <2>6 DEF Tidy, OutType, Watched, LineWaits, InAll
  <1>7. /\ c.wr \in BOOLEAN
        /\ ~c.closed => Tidy(c)
        /\ c.closed => d.closed \/ peer[cur] = "gone" \/ ("wr" \in revents[cur] /\ ~Waiting(d))
    <2>1. c \in Written(d, cur)
      BY <1>2, <1>3
    <2> QED
      BY <1>1, <1>6, <2>1, WrittenTidy
  <1>8. c.closed => peer[cur] # "up" \/ cur \in junk
    <2>1. ASSUME cur \notin junk, "wr" \in revents[cur] PROVE Waiting(b) \/ b.closed
      BY <1>1, <1>3, <2>1 DEF WriteReported, Ahead
    <2> QED
      BY <1>4, <1>5, <1>6, <1>7, <2>1
  <1>9. CASE ~c.closed /\ out' = [out EXCEPT ![cur] = c] /\ UNCHANGED <<open, peer>>
    <2>1. out' = [s \in Slots |-> out'[s]] /\ \A s \in Slots : out'[s] = IF s = cur THEN c ELSE out[s]
      BY <1>1, <1>9 DEF OutInv
    <2>2. Tidy(c)
      BY <1>7, <1>9
    <2>3. \A s \in Slots : OutType(out'[s])
      BY <2>1, <2>2 DEF OutInv, Tidy
    <2>4. \A s \in open' : Tidy(out'[s]) /\ (out'[s].closed => peer'[s] # "up")
      BY <1>1, <1>9, <2>1, <2>2 DEF OutInv
    <2>5. OutInv'
      BY <1>1, <1>9, <2>1, <2>3, <2>4 DEF OutInv
    <2>6. WriteReported'
      <3>1. ASSUME phase' = "ready", NEW s \in open' \ junk', Ahead(s)', "wr" \in revents'[s]
            PROVE  Waiting(out'[s]) \/ out'[s].closed
        <4>1. s > cur /\ s # cur /\ s \in open \ junk /\ s \in Slots /\ "wr" \in revents[s]
          BY <1>1, <1>9, <3>1, OpenSlots DEF Ahead
        <4> QED
          BY <1>1, <2>1, <4>1 DEF WriteReported, Ahead
      <3> QED
        BY <1>1, <3>1 DEF WriteReported
    <2> QED
      BY <1>1, <1>9, <2>5, <2>6
  <1>10. CASE /\ c.closed
              /\ SendsFrom([out EXCEPT ![cur] = [Fresh EXCEPT !.wr = c.wr]], ToOthers(cur, "news"))
              /\ open' = open \ {cur}
              /\ peer' = [peer EXCEPT ![cur] = "up"]
    <2>1. PICK z, o : z = [Fresh EXCEPT !.wr = c.wr] /\ o = [out EXCEPT ![cur] = z]
      OBVIOUS
    <2>2. OutType(z) /\ \A s \in Slots : o[s] = IF s = cur THEN z ELSE out[s]
      BY <1>1, <1>7, <2>1, FreshTidy DEF OutInv
    <2>3. open' = open \ {cur} /\ open' \subseteq Slots
      BY <1>1, <1>10
    <2>4. Proper(ToOthers(cur, "news"), open')
      BY <1>1, <2>3, OthersProper
    <2>5. SendsFrom(o, ToOthers(cur, "news"))
      BY <1>10, <2>1
    <2>6. /\ \A s \in Slots : OutType(o[s])
          /\ \A s \in open' : o[s] = out[s] /\ Tidy(o[s]) /\ (o[s].closed => peer[s] # "up")
      BY <2>2, <2>3 DEF OutInv
    <2>7. /\ out' = [s \in Slots |-> out'[s]]
          /\ \A s \in Slots : OutType(out'[s])
          /\ \A s \in open' : /\ Tidy(out'[s]) /\ Kept(o[s], out'[s])
                              /\ out'[s].closed => peer[s] # "up"
      BY <2>3, <2>4, <2>5, <2>6, AfterSends
    <2>8. peer' \in [Slots -> {"up", "left", "gone"}] /\ \A s \in Slots : peer'[s] = IF s = cur THEN "up" ELSE peer[s]
      BY <1>1, <1>10 DEF OutInv
    <2>9. \A s \in Slots \ open' : peer'[s] = "up"
      BY <1>1, <2>3, <2>8 DEF OutInv
    <2>10. OutInv'
      BY <2>3, <2>7, <2>8, <2>9 DEF OutInv
    <2>11. WriteReported'
      <3>1. ASSUME phase' = "ready", NEW s \in open' \ junk', Ahead(s)', "wr" \in revents'[s]
            PROVE  Waiting(out'[s]) \/ out'[s].closed
        <4>1. s > cur /\ s \in open \ junk /\ s \in Slots /\ "wr" \in revents[s]
          BY <1>1, <2>3, <3>1 DEF Ahead
        <4>2. Waiting(out[s]) \/ out[s].closed
          BY <1>1, <4>1 DEF WriteReported, Ahead
        <4>3. Kept(out[s], out'[s])
          BY <2>6, <2>7
        <4> QED
          BY <4>2, <4>3 DEF Kept
      <3> QED
        BY <1>1, <3>1 DEF WriteReported
    <2> QED
      BY <1>8, <1>10, <2>10, <2>11
  <1> QED
    BY <1>2, <1>9, <1>10

LEMMA AcceptOut ==
    ASSUME TableInv, RoundInv, OutInv, WriteReported, NEW i \in Slots, Accept(i)
    PROVE  OutInv' /\ WriteReported'
  <1>1. /\ phase = "ready" /\ "listen" \in events /\ i \notin open /\ open' = open \cup {i}
        /\ junk' = junk /\ phase' \in {"ready", "poll"} /\ open' \subseteq Slots
        /\ phase' = "ready" => UNCHANGED <<cur, revents>>
        /\ peer' = [peer EXCEPT ![i] = "up"]
    BY OpenSlots DEF TableInv, Accept, CountDown, EndRound
  <1>2. peer[i] = "up" /\ peer' = peer
    BY <1>1 DEF OutInv
  <1>3. PICK o : o = [out EXCEPT ![i] = Fresh]
    OBVIOUS
  <1>4. \A s \in Slots : o[s] = IF s = i THEN Fresh ELSE out[s]
    BY <1>3 DEF OutInv
  <1>5. Proper(Hello(i), open')
    <2>1. open \ {i} \subseteq open' /\ i \in open'
      BY <1>1
    <2> QED
      BY <2>1, OthersProper DEF Hello
  <1>6. SendsFrom(o, Hello(i))
    BY <1>3 DEF Accept, NewClient
  <1>7. /\ \A s \in Slots : OutType(o[s])
        /\ \A s \in open' : Tidy(o[s]) /\ (o[s].closed => peer[s] # "up")
    BY <1>1, <1>4, FreshTidy DEF OutInv, Tidy
  <1>8. /\ out' = [s \in Slots |-> out'[s]]
        /\ \A s \in Slots : OutType(out'[s])
        /\ \A s \in open' : /\ Tidy(out'[s]) /\ Kept(o[s], out'[s])
                            /\ out'[s].closed => peer[s] # "up"
    BY <1>1, <1>5, <1>6, <1>7, AfterSends
  <1>9. OutInv'
    BY <1>1, <1>2, <1>8 DEF OutInv
  <1>10. WriteReported'
    <2>1. ASSUME phase' = "ready", NEW s \in open' \ junk', Ahead(s)', "wr" \in revents'[s]
          PROVE  Waiting(out'[s]) \/ out'[s].closed
      <3>1. revents[i] = {} \/ i \in junk
        BY <1>1 DEF RoundInv, FreeIsClean
      <3>2. s # i /\ s \in open \ junk /\ "wr" \in revents[s] /\ Ahead(s)
        BY <1>1, <2>1, <3>1 DEF Ahead
      <3>3. Waiting(out[s]) \/ out[s].closed
        BY <1>1, <3>2 DEF WriteReported
      <3>4. o[s] = out[s] /\ Kept(o[s], out'[s])
        BY <1>1, <1>4, <1>8, <3>2
      <3> QED
        BY <3>3, <3>4 DEF Kept
    <2> QED
      BY <1>1, <2>1 DEF WriteReported
  <1> QED
    BY <1>9, <1>10

LEMMA OutStep ==
    TableInv /\ RoundInv /\ OutInv /\ WriteReported /\ [Next]_vars => OutInv' /\ WriteReported'
  <1> SUFFICES ASSUME TableInv, RoundInv, OutInv, WriteReported, [Next]_vars
               PROVE  OutInv' /\ WriteReported'
    OBVIOUS
  <1>1. CASE Poll
    BY <1>1, PollOut
  <1>2. CASE Admin
    BY <1>2, AdminOut
  <1>3. CASE Shutdown
    BY <1>3 DEF Shutdown, OutInv, WriteReported
  <1>4. CASE AcceptNobody
    BY <1>4 DEF AcceptNobody, table, OutInv, WriteReported, Ahead
  <1>5. CASE EndOfRound
    BY <1>5 DEF EndOfRound, EndRound, OutInv, WriteReported
  <1>6. ASSUME NEW i \in Slots, Accept(i) PROVE OutInv' /\ WriteReported'
    BY <1>6, AcceptOut
  <1>7. ASSUME NEW i \in Slots, Visit(i) PROVE OutInv' /\ WriteReported'
    <2>1. /\ phase = "ready" /\ phase' = "visit" /\ cur' = i /\ i > cur
          /\ UNCHANGED <<revents, junk, open, out, peer>>
      BY <1>7 DEF Visit, Due, table
    <2>2. ASSUME NEW s \in open, Ahead(s)' PROVE Ahead(s)
      <3>1. s \in Int /\ cur \in Int /\ i \in Int
        BY OpenSlots DEF Slots
      <3>2. s > i \/ s = i
        BY <2>1, <2>2 DEF Ahead
      <3> QED
        BY <2>1, <3>1, <3>2 DEF Ahead
    <2>3. WriteReported'
      BY <2>1, <2>2 DEF WriteReported
    <2> QED
      BY <2>1, <2>3 DEF OutInv
  <1>8. CASE ReadLine
    BY <1>8, ReadOut
  <1>9. CASE LeaveClient
    BY <1>9, LeaveOut
  <1>10. ASSUME NEW s \in Slots, PeerGone(s) PROVE OutInv' /\ WriteReported'
    <2>1. s \in open /\ UNCHANGED <<phase, cur, revents, junk, open, out>>
      BY <1>10 DEF PeerGone, loop, table
    <2>2. /\ peer' \in [Slots -> {"up", "left", "gone"}]
          /\ \A t \in Slots : peer'[t] = IF t = s THEN "gone" ELSE peer[t]
      BY <1>10 DEF PeerGone, OutInv
    <2>3. \A t \in open' : out'[t].closed => peer'[t] # "up"
      BY <2>1, <2>2, OpenSlots DEF OutInv
    <2>4. OutInv'
      BY <2>1, <2>2, <2>3 DEF OutInv
    <2> QED
      BY <2>1, <2>4 DEF WriteReported, Ahead
  <1>11. CASE UNCHANGED vars
    BY <1>11 DEF vars, OutInv, WriteReported, Ahead
  <1> QED
    BY <1>1, <1>2, <1>3, <1>4, <1>5, <1>6, <1>7, <1>8, <1>9, <1>10, <1>11 DEF Next

LEMMA LoopStep == TableInv /\ RoundInv /\ LoopType /\ [Next]_vars => LoopType'
  <1> SUFFICES ASSUME TableInv, RoundInv, LoopType, [Next]_vars
               PROVE  LoopType'
    OBVIOUS
  <1> USE DEF loop, table
  <1>0. maxi \in Int /\ cur \in Int /\ 1 <= maxi
    BY OpenSlots DEF TableInv, Slots
  <1>1. CASE Poll
    <2>1. revents' \in [Slots -> SUBSET {"rd", "wr"}]
      BY <1>1 DEF Poll, LoopType
    <2> QED
      BY <1>0, <1>1, <2>1 DEF Poll, LoopType
  <1>2. CASE Admin \/ Shutdown \/ AcceptNobody \/ ReadLine
    BY <1>2 DEF Admin, Shutdown, AcceptNobody, ReadLine, LoopType
  <1>3. ASSUME phase' \in {"ready", "poll"}, maxi' \in Int, maxi <= maxi', junk' = junk,
               CountDown \/ EndRound
        PROVE  LoopType'
    <2>1. CASE UNCHANGED <<cur, revents>>
      BY <1>0, <1>3, <2>1 DEF LoopType
    <2>2. CASE EndRound
      <3>1. revents' \in [Slots -> SUBSET {"rd", "wr"}]
        BY <2>2 DEF EndRound, Forgotten, LoopType
      <3> QED
        BY <1>0, <1>3, <2>2, <3>1 DEF EndRound, LoopType
    <2> QED
      BY <1>3, <2>1, <2>2 DEF CountDown
  <1>4. CASE EndOfRound
    BY <1>0, <1>3, <1>4 DEF EndOfRound, EndRound
  <1>5. ASSUME NEW i \in Slots, Accept(i) PROVE LoopType'
    <2>1. i \in Int
      BY DEF Slots
    <2> QED
      BY <1>0, <1>3, <1>5, <2>1 DEF Accept, CountDown, EndRound
  <1>6. ASSUME NEW i \in Slots, Visit(i) PROVE LoopType'
    BY <1>6, Connects, OpenSlots DEF Visit, Due, LoopType
  <1>7. CASE LeaveClient
    BY <1>0, <1>3, <1>7 DEF LeaveClient, CountDown, EndRound
  <1>8. ASSUME NEW s \in Slots, PeerGone(s) PROVE LoopType'
    BY <1>8 DEF PeerGone, LoopType
  <1>9. CASE UNCHANGED vars
    BY <1>9 DEF vars, LoopType
  <1> QED
    BY <1>1, <1>2, <1>4, <1>5, <1>6, <1>7, <1>8, <1>9 DEF Next

-----------------------------------------------------------------------------

LEMMA IInvInductive == Spec => []IInv
  <1>1. Init => IInv
    BY TableInit, RoundInit, OutInit DEF IInv
  <1>2. IInv /\ [Next]_vars => IInv'
    BY TableStep, RoundStep, OutStep, LoopStep DEF IInv
  <1> QED
    BY <1>1, <1>2, PTL DEF Spec

\* For every number of slots: the table, the rounds and the output of a slot
\* have their types, and every slot in use is within what the loops look at.
THEOREM Typed == Spec => []TypeOK
  <1>1. ASSUME IInv PROVE TypeOK
    <2>1. /\ maxi \in Int /\ cur \in Int /\ cur <= maxi /\ 1 <= cur /\ maxi \in {1} \cup Slots
          /\ open \subseteq 2 .. maxi
      BY <1>1, OpenSlots DEF IInv, TableInv, LoopType, Slots
    <2>2. ASSUME NEW s \in Slots
          PROVE  out[s].finished \in 0 .. Len(out[s].buf) /\ {out[s].closed, out[s].wr} \subseteq BOOLEAN
      <3>1. PICK c : c = out[s]
        OBVIOUS
      <3>2. OutType(c)
        BY <1>1, <3>1 DEF IInv, OutInv
      <3> QED
        BY <3>1, <3>2 DEF OutType
    <2> QED
      BY <1>1, <2>1, <2>2 DEF IInv, TableInv, RoundInv, OutInv, LoopType, TypeOK
  <1> QED
    BY <1>1, IInvInductive, PTL

\* For every number of slots, however little the sockets take at a time: what a
\* client has got and what waits for it is a sequence of whole messages.
THEOREM MessagesAreWhole == Spec => []WholeMessages
  <1>1. IInv => WholeMessages
    <2>1. Ended # Torn
      BY DEF Ended, Torn
    <2> QED
      BY <2>1 DEF IInv, OutInv, Tidy, LineWaits, InAll, WholeMessages
  <1> QED
    BY <1>1, IInvInductive, PTL

\* For every number of slots: poll watches a socket for writing exactly while
\* output waits for it.
THEOREM OutputIsWatched == Spec => []WaitingIsWatched
  <1>1. IInv => WaitingIsWatched
    BY DEF IInv, OutInv, Tidy, Watched, WaitingIsWatched
  <1> QED
    BY <1>1, IInvInductive, PTL

\* For every number of slots and every set of names: two connected clients have
\* the same name only if it is "anonymous".
THEOREM NamesAreUnique == Spec => []UniqueNames
  <1>1. IInv => UniqueNames
    BY DEF IInv
  <1> QED
    BY <1>1, IInvInductive, PTL

\* What is left of Reported when a round ends would still be counted by nready.
LEMMA RoundEnd ==
    ASSUME IInv, Next, phase # "poll", phase' = "poll",
           NEW s \in (open \cap open') \ junk, revents[s] # {}
    PROVE  s <= cur
  <1> USE DEF loop, table
  <1>0. TableInv /\ RoundInv
    BY DEF IInv
  <1>1. s \in Int /\ cur \in Int /\ nready \in Nat
    BY <1>0, OpenSlots DEF RoundInv
  <1>2. SUFFICES ASSUME s > cur PROVE FALSE
    BY <1>1
  <1>3. s \in Reported
    BY <1>2 DEF Reported
  <1>4. Cardinality(Reported) \in Nat /\ Cardinality(Reported) > 0
    <2>1. Cardinality(Reported) \in Nat
      BY <1>0, ReportedSlots, SlotsFinite
    <2>2. ~(Cardinality(Reported) <= 0)
      BY <1>0, <1>3, ReportedSlots, EmptySlots
    <2> QED
      BY <2>1, <2>2
  <1>5. CASE EndOfRound
    BY <1>0, <1>2, <1>5, Connects DEF EndOfRound, Due
  <1>6. CASE LeaveClient
    <2>1. phase = "visit" /\ nready <= 1
      BY <1>6 DEF LeaveClient, CountDown
    <2>2. cur \notin junk
      BY <1>0, <1>3, <2>1, JunkIsLast
    <2>3. Cardinality(Reported) + 1 <= nready
      BY <1>0, <2>1, <2>2 DEF RoundInv, Counted
    <2> QED
      BY <1>1, <1>4, <2>1, <2>3
  <1>7. ASSUME NEW i \in Slots, Accept(i) PROVE FALSE
    <2>1. phase = "ready" /\ nready <= 1 /\ events = {"listen"}
      BY <1>7 DEF Accept, CountDown
    <2>2. Cardinality(events) + Cardinality(Reported) <= nready
      BY <1>0, <2>1 DEF RoundInv, Counted
    <2>3. Cardinality(events) = 1
      BY <2>1, FS_Singleton
    <2> QED
      BY <1>1, <1>4, <2>1, <2>2, <2>3
  <1>8. CASE Poll \/ Admin \/ Shutdown \/ AcceptNobody \/ ReadLine
    BY <1>8 DEF Poll, Admin, Shutdown, AcceptNobody, ReadLine
  <1>9. ASSUME NEW i \in Slots, Visit(i) \/ PeerGone(i) PROVE FALSE
    BY <1>9 DEF Visit, PeerGone
  <1> QED
    BY <1>5, <1>6, <1>7, <1>8, <1>9 DEF Next

\* For every number of slots: when nready comes down to 0 every slot that poll
\* has reported has been visited, save one that poll has never written.
THEOREM NobodySkipped == Spec => NoneSkipped
  <1>1. IInv /\ [Next]_vars =>
            [phase # "poll" /\ phase' = "poll" =>
                \A s \in (open \cap open') \ junk : revents[s] # {} => s <= cur]_vars
    BY RoundEnd
  <1> QED
    BY <1>1, IInvInductive, PTL DEF Spec, NoneSkipped

\* For every number of slots: a slot becomes free only if its client has gone or
\* has said exit, the server goes down, or poll has never written its revents.
THEOREM ClosedWithReason == Spec => ClosedForReason
  <1> USE DEF loop, table
  <1>1. ASSUME IInv, Next, NEW s \in open \ open'
        PROVE  peer[s] # "up" \/ s \in junk \/ phase' = "down"
    <2>0. TableInv /\ OutInv /\ WriteReported
      BY <1>1 DEF IInv
    <2>1. CASE LeaveClient
      <3>1. s = cur
        BY <1>1, <2>1 DEF LeaveClient
      <3> QED
        BY <1>1, <2>0, <2>1, <3>1, LeaveOut
    <2>2. CASE Shutdown
      BY <2>2 DEF Shutdown
    <2>3. CASE Poll \/ Admin \/ AcceptNobody \/ EndOfRound \/ ReadLine
      BY <1>1, <2>3 DEF Poll, Admin, AcceptNobody, EndOfRound, ReadLine
    <2>4. ASSUME NEW i \in Slots, Accept(i) \/ Visit(i) \/ PeerGone(i) PROVE FALSE
      BY <1>1, <2>4 DEF Accept, Visit, PeerGone
    <2> QED
      BY <1>1, <2>1, <2>2, <2>3, <2>4 DEF Next
  <1>2. IInv /\ [Next]_vars =>
            [\A s \in open \ open' : peer[s] # "up" \/ s \in junk \/ phase' = "down"]_vars
    BY <1>1
  <1> QED
    BY <1>2, IInvInductive, PTL DEF Spec, ClosedForReason
=============================================================================
