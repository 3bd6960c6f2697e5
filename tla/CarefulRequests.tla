---------------------------- MODULE CarefulRequests ----------------------------
(***************************************************************************)
(* Proofs about module Server with careful peers and a server that is      *)
(* never full: the clients and the rooms agree, nothing that is gone is    *)
(* looked up, and nobody is erased, and no descriptor kept, that should    *)
(* not be.  The invariant is about the vector and the rooms together; what *)
(* it rests on is what a careful peer is, that is that a peer who is       *)
(* served has answered its pings, so its state is not an absence.          *)
(***************************************************************************)
EXTENDS MCServer, ServerProofs

\* The peers answer pings before anything else, ask for a name once, and do not
\* connect again while they are Ready.
CarefulPeers ==
    \A cs, i, p, r : MaySend(cs, i, p, r) => CarefulRequest(cs, i, p, r)

\* One pong is the answer to all the pings that were not answered.
OnePong == MaxPending = 1

\* There is a place for every instance.
NeverFull == MaxInstances <= MaxClients

Careful == CarefulPeers /\ OnePong /\ NeverFull

-----------------------------------------------------------------------------
(* The invariant.                                                          *)

OnTurnIn(c, r) == c.nick = r.onTurn /\ c.room = r.id /\ Activity(c) = "PlayingOnTurn"

OnStandIn(c, r) == c.nick = r.onStand /\ c.room = r.id /\ Activity(c) = "PlayingOnStand"

ProperRoom(r) == r.id # LobbyRoom /\ r.onTurn # NoNick /\ r.onStand # NoNick

\* A client with a name plays exactly when it is in a room, which exists.
HasGame(c, gs) ==
    c.nick # NoNick =>
        /\ Activity(c) \in Playing <=> c.room # LobbyRoom
        /\ c.room # LobbyRoom =>
              \E r \in gs : r.id = c.room /\ c.nick \in {r.onTurn, r.onStand}

\* The vector cs and the rooms gs agree.
Agree(cs, gs) ==
    /\ \A r \in gs : ProperRoom(r)
    /\ \A r, s \in gs : r.id = s.id => r = s
    /\ \A r \in gs : \E i, j \in DOMAIN cs : OnTurnIn(cs[i], r) /\ OnStandIn(cs[j], r)
    /\ \A i \in DOMAIN cs : HasGame(cs[i], gs)

\* A connected instance without a name is new, one with a name is not; an
\* instance without connection is disconnected, and so is one to be erased,
\* when it is not closed before.
Tidy(c) ==
    /\ c.nick = NoNick /\ IsOpen(c) =>
          c.state \in {"New", "Pinged"} /\ c.last = "New" /\ c.room = LobbyRoom
    /\ c.nick # NoNick => Activity(c) # "New"
    /\ ~IsOpen(c) => c.state = "Disconnected"
    /\ c.erase => c.disc \/ c.state = "Disconnected"

IsSilent(c) == c.state \in {"Pinged", "Lost"}

\* Exactly the connected instances that are Pinged or Lost have a ping to answer.
Answered(cs, ss, pn) ==
    /\ \A i \in DOMAIN cs : IsOpen(cs[i]) => (pn[cs[i].sock] > 0 <=> IsSilent(cs[i]))
    /\ \A s \in Descriptors \ ss : pn[s] = 0

\* Every open descriptor is that of an instance.
Owned(cs, ss) == \A s \in ss : \E i \in DOMAIN cs : cs[i].sock = s

\* An instance whose batch is served is connected and not marked.
Serving ==
    pc = "serve" =>
        /\ pos <= Len(clients) /\ IsOpen(clients[pos])
        /\ ~clients[pos].disc /\ ~clients[pos].erase

CInv ==
    /\ IInv
    /\ Agree(clients, games)
    /\ \A i \in DOMAIN clients : Tidy(clients[i])
    /\ Owned(clients, sockets)
    /\ Answered(clients, sockets, pending)
    /\ Len(clients) <= MaxInstances
    /\ pc # "undefined" /\ Serving

-----------------------------------------------------------------------------
(* What the operations do to the fields of an instance.                    *)

\* Only an instance that is not away can be Disconnected by setState.
LEMMA ActivityProperties ==
    ASSUME NEW c \in ClientRecord
    PROVE  /\ Activity(c) \in Present
           /\ c.state \in Present => Activity(c) = c.state
BY DEF Activity, ClientRecord, Present

\* setState: the last state becomes what the instance was doing.
LEMMA SetStateFields ==
    ASSUME NEW c \in ClientRecord, NEW s \in State
    PROVE  LET d == SetState(c, s)
           IN  /\ d \in ClientRecord
               /\ d.nick = c.nick /\ d.sock = c.sock /\ d.room = c.room
               /\ d.disc = c.disc /\ d.erase = c.erase /\ d.ip = c.ip
               /\ d.state = s /\ d.last = Activity(c)
<1>1. SetState(c, s) = [c EXCEPT !.last = Activity(c), !.state = s]
  BY DEF SetState, Activity
<1>2. Activity(c) \in Present
  BY ActivityProperties
<1> QED
  BY <1>1, <1>2 DEF ClientRecord

\* setStateLast.
LEMMA SetStateLastFields ==
    ASSUME NEW c \in ClientRecord, NEW s \in Present
    PROVE  LET d == SetStateLast(c, s)
           IN  /\ d \in ClientRecord
               /\ d.nick = c.nick /\ d.sock = c.sock /\ d.room = c.room
               /\ d.disc = c.disc /\ d.erase = c.erase /\ d.ip = c.ip
               /\ d.state = c.state /\ d.last = s
BY DEF SetStateLast, ClientRecord

\* A change that leaves an instance its connection and its marks, and leaves it
\* silent, or disconnected, as it was.
Steady(c, d) ==
    /\ d \in ClientRecord
    /\ d.nick = c.nick /\ d.sock = c.sock /\ d.disc = c.disc /\ d.erase = c.erase
    /\ IsSilent(d) <=> IsSilent(c)
    /\ d.state = "Disconnected" <=> c.state = "Disconnected"

\* Giving an instance something to do, whether it is away or not.
LEMMA GiveActivity ==
    ASSUME NEW c \in ClientRecord, NEW s \in Present
    PROVE  LET d == IF c.state \in Away THEN SetStateLast(c, s) ELSE SetState(c, s)
           IN  Steady(c, d) /\ Activity(d) = s /\ d.room = c.room
<1> DEFINE d == IF c.state \in Away THEN SetStateLast(c, s) ELSE SetState(c, s)
<1>0. s \in State
  BY DEF Present
<1>1. CASE c.state \in Away
  <2>1. d = SetStateLast(c, s)
    BY <1>1
  <2> HIDE DEF d
  <2> QED
    BY <1>1, <2>1, SetStateLastFields DEF Steady, IsSilent, Activity
<1>2. CASE c.state \notin Away
  <2>1. d = SetState(c, s)
    BY <1>2
  <2> HIDE DEF d
  <2> QED
    BY <1>0, <1>2, <2>1, SetStateFields DEF Steady, IsSilent, Activity, Present, Away
<1> QED
  BY <1>1, <1>2

LEMMA NowOnTurnFields ==
    ASSUME NEW c \in ClientRecord
    PROVE  /\ Steady(c, NowOnTurn(c))
           /\ Activity(NowOnTurn(c)) = "PlayingOnTurn" /\ NowOnTurn(c).room = c.room
<1>1. "PlayingOnTurn" \in Present
  BY DEF Present, State, Away
<1> QED
  BY <1>1, GiveActivity DEF NowOnTurn

LEMMA BackToLobbyFields ==
    ASSUME NEW c \in ClientRecord
    PROVE  /\ Steady(c, BackToLobby(c))
           /\ Activity(BackToLobby(c)) = "Waiting" /\ BackToLobby(c).room = LobbyRoom
<1> DEFINE d == IF c.state \in Away THEN SetStateLast(c, "Waiting") ELSE SetState(c, "Waiting")
<1>1. "Waiting" \in Present /\ LobbyRoom \in Nat
  BY DEF Present, State, Away, LobbyRoom
<1>2. Steady(c, d) /\ Activity(d) = "Waiting"
  BY <1>1, GiveActivity
<1>3. BackToLobby(c) = [d EXCEPT !.room = LobbyRoom]
  BY DEF BackToLobby
<1> HIDE DEF d
<1>4. BackToLobby(c) \in ClientRecord /\ BackToLobby(c).room = LobbyRoom
  BY <1>1, <1>2, <1>3 DEF Steady, ClientRecord
<1>5. /\ BackToLobby(c).nick = d.nick /\ BackToLobby(c).sock = d.sock
      /\ BackToLobby(c).disc = d.disc /\ BackToLobby(c).erase = d.erase
      /\ BackToLobby(c).state = d.state /\ BackToLobby(c).last = d.last
  BY <1>2, <1>3 DEF Steady, ClientRecord
<1> QED
  BY <1>2, <1>4, <1>5 DEF Steady, IsSilent, Activity

\* Closing: the instance remembers what it was doing.
LEMMA ClosedFields ==
    ASSUME NEW c \in ClientRecord, IsOpen(c)
    PROVE  /\ Closed(c) \in ClientRecord
           /\ Closed(c).nick = c.nick /\ Closed(c).room = c.room
           /\ Closed(c).disc = c.disc /\ Closed(c).erase = c.erase
           /\ Closed(c).state = "Disconnected" /\ Closed(c).last = Activity(c)
           /\ Activity(Closed(c)) = Activity(c)
           /\ Closed(c).sock = BadSocket /\ ~IsOpen(Closed(c))
<1> DEFINE d == SetState(c, "Disconnected")
<1>1. "Disconnected" \in State /\ "Disconnected" \in Away
  BY DEF State, Away
<1>2. /\ d \in ClientRecord /\ d.nick = c.nick /\ d.room = c.room
      /\ d.disc = c.disc /\ d.erase = c.erase
      /\ d.state = "Disconnected" /\ d.last = Activity(c)
  BY <1>1, SetStateFields
<1>3. Closed(c) = [d EXCEPT !.sock = BadSocket]
  BY DEF Closed
<1> HIDE DEF d
<1>4. BadSocket \in Int /\ ~(BadSocket > 0)
  BY DEF BadSocket
<1> QED
  BY <1>1, <1>2, <1>3, <1>4 DEF ClientRecord, IsOpen, Activity

-----------------------------------------------------------------------------
(* What the changes of the vector and of the rooms do to their agreement.  *)

\* A change after which an instance is in its game as before; or it had no
\* name, and is in no game.
SameGame(c, d) ==
    \/ /\ d.nick = c.nick /\ d.room = c.room
       /\ \/ Activity(d) = Activity(c)
          \/ Activity(d) \notin Playing /\ Activity(c) \notin Playing
    \/ c.nick = NoNick /\ d.room = LobbyRoom /\ Activity(d) \notin Playing

LEMMA AgreeSame ==
    ASSUME NEW cs, NEW ds, NEW gs, Agree(cs, gs), DOMAIN ds = DOMAIN cs,
           \A i \in DOMAIN cs : SameGame(cs[i], ds[i])
    PROVE  Agree(ds, gs)
<1>1. \A r \in gs : ProperRoom(r)
  BY DEF Agree
<1>2. \A r, s \in gs : r.id = s.id => r = s
  BY DEF Agree
<1>3. ASSUME NEW r \in gs
      PROVE  \E i, j \in DOMAIN ds : OnTurnIn(ds[i], r) /\ OnStandIn(ds[j], r)
  <2>1. PICK i \in DOMAIN cs, j \in DOMAIN cs : OnTurnIn(cs[i], r) /\ OnStandIn(cs[j], r)
    BY DEF Agree
  <2>2. r.onTurn # NoNick /\ r.onStand # NoNick
    BY <1>1 DEF ProperRoom
  <2>3. OnTurnIn(ds[i], r)
    BY <2>1, <2>2 DEF SameGame, OnTurnIn, Playing
  <2>4. OnStandIn(ds[j], r)
    BY <2>1, <2>2 DEF SameGame, OnStandIn, Playing
  <2> QED
    BY <2>3, <2>4
<1>4. ASSUME NEW i \in DOMAIN ds
      PROVE  HasGame(ds[i], gs)
  <2>1. HasGame(cs[i], gs) /\ SameGame(cs[i], ds[i])
    BY DEF Agree
  <2>2. CASE ds[i].nick = cs[i].nick /\ ds[i].room = cs[i].room
             /\ (Activity(ds[i]) \in Playing <=> Activity(cs[i]) \in Playing)
    BY <2>1, <2>2 DEF HasGame
  <2>3. CASE ds[i].room = LobbyRoom /\ Activity(ds[i]) \notin Playing
    BY <2>3 DEF HasGame
  <2> QED
    BY <2>1, <2>2, <2>3 DEF SameGame
<1> QED
  BY <1>1, <1>2, <1>3, <1>4 DEF Agree

\* An instance without a name joins.
LEMMA AgreeAppend ==
    ASSUME NEW cs \in Seq(ClientRecord), NEW c \in ClientRecord, NEW gs, Agree(cs, gs),
           c.nick = NoNick
    PROVE  Agree(Append(cs, c), gs)
<1> DEFINE ds == Append(cs, c)
<1>1. /\ ds \in Seq(ClientRecord) /\ Len(ds) = Len(cs) + 1 /\ Len(cs) \in Nat
      /\ \A j \in 1..Len(cs) : ds[j] = cs[j]
      /\ ds[Len(cs) + 1] = c
  BY AppendElements
<1>2. DOMAIN cs = 1..Len(cs) /\ DOMAIN ds = 1..(Len(cs) + 1)
  BY <1>1
<1> HIDE DEF ds
<1>3. \A r \in gs : \E i, j \in DOMAIN ds : OnTurnIn(ds[i], r) /\ OnStandIn(ds[j], r)
  <2>1. \A i \in DOMAIN cs : i \in DOMAIN ds /\ ds[i] = cs[i]
    BY <1>1, <1>2
  <2> QED
    BY <2>1 DEF Agree
<1>4. \A i \in DOMAIN ds : HasGame(ds[i], gs)
  <2> TAKE i \in DOMAIN ds
  <2>1. CASE i \in DOMAIN cs
    BY <1>1, <1>2, <2>1 DEF Agree
  <2>2. CASE i = Len(cs) + 1
    BY <1>1, <2>2 DEF HasGame
  <2> QED
    BY <1>1, <1>2, <2>1, <2>2
<1>5. Agree(ds, gs)
  BY <1>3, <1>4 DEF Agree
<1> QED
  BY <1>5 DEF ds

\* An instance leaves that is in no game, or has no name.
LEMMA AgreeRemove ==
    ASSUME NEW cs \in Seq(ClientRecord), NEW i \in 1..Len(cs), NEW gs, Agree(cs, gs),
           cs[i].nick = NoNick \/ Activity(cs[i]) \notin Playing
    PROVE  Agree(RemoveAt(cs, i), gs)
<1> DEFINE ds == RemoveAt(cs, i)
           Old(j) == IF j < i THEN j ELSE j + 1
           New(j) == IF j < i THEN j ELSE j - 1
<1>1. /\ ds \in Seq(ClientRecord) /\ Len(ds) = Len(cs) - 1 /\ Len(cs) \in Nat
      /\ \A j \in 1..(Len(cs) - 1) : ds[j] = IF j < i THEN cs[j] ELSE cs[j + 1]
  <2>1. Len(cs) \in Nat
    OBVIOUS
  <2> QED
    BY <2>1, RemoveAtProperties
<1>2. DOMAIN cs = 1..Len(cs) /\ DOMAIN ds = 1..(Len(cs) - 1)
  BY <1>1
<1> HIDE DEF ds
<1>3. \A j \in DOMAIN ds : Old(j) \in DOMAIN cs /\ ds[j] = cs[Old(j)]
  BY <1>1, <1>2
<1>4. \A j \in DOMAIN cs : j # i => New(j) \in DOMAIN ds /\ ds[New(j)] = cs[j]
  BY <1>1, <1>2
<1> HIDE DEF Old, New
<1>5. ASSUME NEW r \in gs
      PROVE  \E j, k \in DOMAIN ds : OnTurnIn(ds[j], r) /\ OnStandIn(ds[k], r)
  <2>1. PICK j \in DOMAIN cs, k \in DOMAIN cs : OnTurnIn(cs[j], r) /\ OnStandIn(cs[k], r)
    BY DEF Agree
  <2>2. r.onTurn # NoNick /\ r.onStand # NoNick
    BY DEF Agree, ProperRoom
  <2>3. j # i /\ k # i
    BY <2>1, <2>2 DEF OnTurnIn, OnStandIn, Playing
  <2> QED
    BY <1>4, <2>1, <2>3
<1>6. \A j \in DOMAIN ds : HasGame(ds[j], gs)
  BY <1>3 DEF Agree
<1>7. Agree(ds, gs)
  BY <1>5, <1>6 DEF Agree
<1> QED
  BY <1>7 DEF ds

NicksDiffer(cs) ==
    \A i, j \in DOMAIN cs : cs[i].nick = cs[j].nick /\ cs[i].nick # NoNick => i = j

\* The two players of a room are found by their names.
LEMMA PlayersOfRoom ==
    ASSUME NEW cs \in Seq(ClientRecord), NEW gs, Agree(cs, gs), NicksDiffer(cs), NEW r \in gs
    PROVE  \E i, j \in DOMAIN cs :
              /\ i # j /\ OnTurnIn(cs[i], r) /\ OnStandIn(cs[j], r)
              /\ Named(cs, r.onTurn) = {i} /\ Named(cs, r.onStand) = {j}
              /\ FindClientByNick(cs, r.onTurn) = i /\ FindClientByNick(cs, r.onStand) = j
<1>1. PICK i \in DOMAIN cs, j \in DOMAIN cs : OnTurnIn(cs[i], r) /\ OnStandIn(cs[j], r)
  BY DEF Agree
<1>2. r.onTurn # NoNick /\ r.onStand # NoNick
  BY DEF Agree, ProperRoom
<1>3. i # j
  BY <1>1 DEF OnTurnIn, OnStandIn
<1>4. Named(cs, r.onTurn) = {i} /\ Named(cs, r.onStand) = {j}
  <2>1. cs[i].nick = r.onTurn /\ cs[j].nick = r.onStand
    BY <1>1 DEF OnTurnIn, OnStandIn
  <2> QED
    BY <1>2, <2>1 DEF Named, NicksDiffer
<1>5. DOMAIN cs = 1..Len(cs)
  OBVIOUS
<1>6. \A k \in 1..Len(cs) : Min({k}) = k
  <2> TAKE k \in 1..Len(cs)
  <2>1. {k} \subseteq Nat /\ {k} # {}
    OBVIOUS
  <2>2. Min({k}) \in {k}
    BY <2>1, MinProperties
  <2> QED
    BY <2>2
<1>7. FindClientByNick(cs, r.onTurn) = i /\ FindClientByNick(cs, r.onStand) = j
  BY <1>4, <1>5, <1>6 DEF FindClientByNick
<1> QED
  BY <1>1, <1>3, <1>4, <1>7

\* The room of a client who plays is found by its id, with the client in it.
LEMMA RoomOfPlayer ==
    ASSUME NEW cs \in Seq(ClientRecord), NEW gs, Agree(cs, gs), NicksDiffer(cs),
           NEW i \in DOMAIN cs, cs[i].nick # NoNick,
           Activity(cs[i]) \in Playing \/ cs[i].room # LobbyRoom
    PROVE  /\ HasRoom(gs, cs[i].room)
           /\ GetRoom(gs, cs[i].room) \in gs /\ GetRoom(gs, cs[i].room).id = cs[i].room
           /\ \/ OnTurnIn(cs[i], GetRoom(gs, cs[i].room))
              \/ OnStandIn(cs[i], GetRoom(gs, cs[i].room))
<1> DEFINE r == GetRoom(gs, cs[i].room)
<1>1. PICK s \in gs : s.id = cs[i].room /\ cs[i].nick \in {s.onTurn, s.onStand}
  BY DEF Agree, HasGame
<1>2. HasRoom(gs, cs[i].room)
  BY <1>1 DEF HasRoom
<1>3. r \in gs /\ r.id = cs[i].room
  BY <1>1 DEF GetRoom
<1>4. r = s
  BY <1>1, <1>3 DEF Agree
<1>5. PICK k \in DOMAIN cs, l \in DOMAIN cs : OnTurnIn(cs[k], s) /\ OnStandIn(cs[l], s)
  BY DEF Agree
<1>6. i = k \/ i = l
  BY <1>1, <1>5 DEF NicksDiffer, OnTurnIn, OnStandIn
<1> QED
  BY <1>2, <1>3, <1>4, <1>5, <1>6

\* The end of a game: its players are in no game, the others as before.
LEMMA AgreeLeave ==
    ASSUME NEW cs, NEW ds, NEW gs, Agree(cs, gs), NicksDiffer(cs), DOMAIN ds = DOMAIN cs,
           NEW r \in gs, NEW i \in DOMAIN cs, NEW j \in DOMAIN cs,
           cs[i].nick = r.onTurn, cs[j].nick = r.onStand,
           \A k \in DOMAIN cs :
              IF k \in {i, j}
              THEN ds[k].room = LobbyRoom /\ Activity(ds[k]) \notin Playing
              ELSE ds[k] = cs[k]
    PROVE  Agree(ds, RemoveRoom(gs, r.id))
<1> DEFINE left == RemoveRoom(gs, r.id)
<1>1. \A s : s \in left <=> s \in gs /\ s.id # r.id
  BY DEF RemoveRoom
<1>2. PICK k \in DOMAIN cs, l \in DOMAIN cs : OnTurnIn(cs[k], r) /\ OnStandIn(cs[l], r)
  BY DEF Agree
<1>3. ProperRoom(r)
  BY DEF Agree
<1>4. k = i /\ l = j
  BY <1>2, <1>3 DEF ProperRoom, OnTurnIn, OnStandIn, NicksDiffer
<1>5. cs[i].room = r.id /\ cs[j].room = r.id
  BY <1>2, <1>4 DEF OnTurnIn, OnStandIn
<1> HIDE DEF left
<1>6. ASSUME NEW s \in left
      PROVE  \E a, b \in DOMAIN ds : OnTurnIn(ds[a], s) /\ OnStandIn(ds[b], s)
  <2>1. s \in gs /\ s.id # r.id
    BY <1>1
  <2>2. PICK a \in DOMAIN cs, b \in DOMAIN cs : OnTurnIn(cs[a], s) /\ OnStandIn(cs[b], s)
    BY <2>1 DEF Agree
  <2>3. a \notin {i, j} /\ b \notin {i, j}
    BY <1>5, <2>1, <2>2 DEF OnTurnIn, OnStandIn
  <2> QED
    BY <2>2, <2>3
<1>7. ASSUME NEW a \in DOMAIN ds
      PROVE  HasGame(ds[a], left)
  <2>1. CASE a \in {i, j}
    BY <2>1 DEF HasGame
  <2>2. CASE a \notin {i, j}
    <3>1. HasGame(cs[a], gs) /\ ds[a] = cs[a]
      BY <2>2 DEF Agree
    <3>2. CASE cs[a].nick # NoNick /\ cs[a].room # LobbyRoom
      <4>1. PICK s \in gs : s.id = cs[a].room /\ cs[a].nick \in {s.onTurn, s.onStand}
        BY <3>1, <3>2 DEF HasGame
      <4>2. s.id # r.id
        <5>1. s.id = r.id => s = r
          BY DEF Agree
        <5> QED
          BY <2>2, <3>2, <4>1, <5>1 DEF NicksDiffer
      <4> QED
        BY <1>1, <3>1, <4>1, <4>2 DEF HasGame
    <3>3. CASE ~(cs[a].nick # NoNick /\ cs[a].room # LobbyRoom)
      BY <3>1, <3>3 DEF HasGame
    <3> QED
      BY <3>2, <3>3
  <2> QED
    BY <2>1, <2>2
<1>8. /\ \A s \in left : ProperRoom(s)
      /\ \A s, u \in left : s.id = u.id => s = u
  BY <1>1 DEF Agree
<1>9. Agree(ds, left)
  BY <1>6, <1>7, <1>8 DEF Agree
<1> QED
  BY <1>9 DEF left

\* A move: the players of a room change their parts, in the room and in the vector.
LEMMA AgreeMove ==
    ASSUME NEW cs, NEW ds, NEW gs, Agree(cs, gs), NicksDiffer(cs), DOMAIN ds = DOMAIN cs,
           NEW r \in gs, NEW t, NEW i \in DOMAIN cs, NEW j \in DOMAIN cs,
           t.id = r.id, t.onTurn = r.onStand, t.onStand = r.onTurn,
           cs[i].nick = r.onTurn, cs[j].nick = r.onStand,
           \A k \in DOMAIN cs : k \notin {i, j} => ds[k] = cs[k],
           ds[i].nick = cs[i].nick, ds[i].room = cs[i].room,
           ds[j].nick = cs[j].nick, ds[j].room = cs[j].room,
           Activity(ds[i]) = "PlayingOnStand", Activity(ds[j]) = "PlayingOnTurn"
    PROVE  Agree(ds, (gs \ {r}) \cup {t})
<1> DEFINE new == (gs \ {r}) \cup {t}
<1>1. t.id = r.id /\ t.onTurn = r.onStand /\ t.onStand = r.onTurn
  OBVIOUS
<1>2. \A s : s \in new <=> s = t \/ (s \in gs /\ s # r)
  OBVIOUS
<1> HIDE DEF new
<1>3. ProperRoom(r) /\ \A s \in gs : s.id = r.id => s = r
  BY DEF Agree
<1>4. \A s \in new : ProperRoom(s)
  BY <1>1, <1>2, <1>3 DEF ProperRoom, Agree
<1>5. \A s, u \in new : s.id = u.id => s = u
  BY <1>1, <1>2, <1>3 DEF Agree
<1>6. PICK k \in DOMAIN cs, l \in DOMAIN cs : OnTurnIn(cs[k], r) /\ OnStandIn(cs[l], r)
  BY DEF Agree
<1>7. k = i /\ l = j
  BY <1>3, <1>6 DEF ProperRoom, OnTurnIn, OnStandIn, NicksDiffer
<1>8. /\ cs[i].room = r.id /\ cs[j].room = r.id
      /\ Activity(cs[i]) \in Playing /\ Activity(cs[j]) \in Playing
  BY <1>6, <1>7 DEF OnTurnIn, OnStandIn, Playing
<1>9. ASSUME NEW s \in new
      PROVE  \E a, b \in DOMAIN ds : OnTurnIn(ds[a], s) /\ OnStandIn(ds[b], s)
  <2>1. CASE s = t
    <3>1. OnTurnIn(ds[j], t) /\ OnStandIn(ds[i], t)
      BY <1>1, <1>8 DEF OnTurnIn, OnStandIn
    <3> QED
      BY <2>1, <3>1
  <2>2. CASE s \in gs /\ s # r
    <3>1. PICK a \in DOMAIN cs, b \in DOMAIN cs : OnTurnIn(cs[a], s) /\ OnStandIn(cs[b], s)
      BY <2>2 DEF Agree
    <3>2. s.id # r.id
      BY <1>3, <2>2
    <3>3. a \notin {i, j} /\ b \notin {i, j}
      BY <1>8, <3>1, <3>2 DEF OnTurnIn, OnStandIn
    <3> QED
      BY <3>1, <3>3
  <2> QED
    BY <1>2, <2>1, <2>2
<1>10. ASSUME NEW a \in DOMAIN ds
       PROVE  HasGame(ds[a], new)
  <2>1. HasGame(cs[a], gs)
    BY DEF Agree
  <2>2. /\ ds[a].nick = cs[a].nick /\ ds[a].room = cs[a].room
        /\ Activity(ds[a]) \in Playing <=> Activity(cs[a]) \in Playing
    <3>1. CASE a \in {i, j}
      BY <1>8, <3>1 DEF Playing
    <3>2. CASE a \notin {i, j}
      BY <3>2
    <3> QED
      BY <3>1, <3>2
  <2>3. ASSUME NEW s \in gs, s.id = cs[a].room, cs[a].nick \in {s.onTurn, s.onStand}
        PROVE  \E u \in new : u.id = cs[a].room /\ cs[a].nick \in {u.onTurn, u.onStand}
    <3>1. CASE s = r
      <4>1. t \in new
        BY <1>2
      <4> QED
        BY <1>1, <2>3, <3>1, <4>1
    <3>2. CASE s # r
      <4>1. s \in new
        BY <1>2, <3>2
      <4> QED
        BY <2>3, <4>1
    <3> QED
      BY <3>1, <3>2
  <2> QED
    BY <2>1, <2>2, <2>3 DEF HasGame
<1>11. Agree(ds, new)
  BY <1>4, <1>5, <1>9, <1>10 DEF Agree
<1> QED
  BY <1>11 DEF new

\* A takeover: an instance that is in no game gets the name, the room and the
\* activity of another one, which is left without a name.
LEMMA AgreeTakeOver ==
    ASSUME NEW cs, NEW ds, NEW gs, Agree(cs, gs), DOMAIN ds = DOMAIN cs,
           NEW i \in DOMAIN cs, NEW o \in DOMAIN cs, i # o,
           cs[i].nick = NoNick, cs[o].nick # NoNick, ds[o].nick = NoNick,
           ds[i].nick = cs[o].nick, ds[i].room = cs[o].room,
           Activity(ds[i]) = Activity(cs[o]),
           \A k \in DOMAIN cs : k \notin {i, o} => ds[k] = cs[k]
    PROVE  Agree(ds, gs)
<1> DEFINE New(k) == IF k = o THEN i ELSE k
<1>1. \A k \in DOMAIN cs : cs[k].nick # NoNick =>
         /\ New(k) \in DOMAIN ds
         /\ ds[New(k)].nick = cs[k].nick /\ ds[New(k)].room = cs[k].room
         /\ Activity(ds[New(k)]) = Activity(cs[k])
  OBVIOUS
<1> HIDE DEF New
<1>2. ASSUME NEW r \in gs
      PROVE  \E a, b \in DOMAIN ds : OnTurnIn(ds[a], r) /\ OnStandIn(ds[b], r)
  <2>1. PICK a \in DOMAIN cs, b \in DOMAIN cs : OnTurnIn(cs[a], r) /\ OnStandIn(cs[b], r)
    BY DEF Agree
  <2>2. cs[a].nick # NoNick /\ cs[b].nick # NoNick
    BY <2>1 DEF Agree, ProperRoom, OnTurnIn, OnStandIn
  <2>3. OnTurnIn(ds[New(a)], r) /\ OnStandIn(ds[New(b)], r)
    BY <1>1, <2>1, <2>2 DEF OnTurnIn, OnStandIn
  <2> QED
    BY <1>1, <2>2, <2>3
<1>3. ASSUME NEW a \in DOMAIN ds
      PROVE  HasGame(ds[a], gs)
  <2>1. HasGame(cs[a], gs) /\ HasGame(cs[o], gs)
    BY DEF Agree
  <2>2. CASE a = o
    BY <2>2 DEF HasGame
  <2>3. CASE a = i
    BY <2>1, <2>3 DEF HasGame
  <2>4. CASE a \notin {i, o}
    BY <2>1, <2>4
  <2> QED
    BY <2>2, <2>3, <2>4
<1> QED
  BY <1>2, <1>3 DEF Agree

\* destroyRoom, for two instances: they are in no game, and otherwise as before.
LEMMA BothToLobbyFields ==
    ASSUME NEW cs \in Seq(ClientRecord), NEW i \in DOMAIN cs, NEW j \in DOMAIN cs, i # j
    PROVE  LET ds == BothToLobby(cs, i, j)
           IN  /\ ds \in Seq(ClientRecord) /\ Len(ds) = Len(cs) /\ DOMAIN ds = DOMAIN cs
               /\ \A k \in DOMAIN cs :
                     ds[k] = IF k \in {i, j} THEN BackToLobby(cs[k]) ELSE cs[k]
<1> DEFINE first == [cs EXCEPT ![i] = BackToLobby(cs[i])]
<1>1. \A k \in DOMAIN cs : BackToLobby(cs[k]) \in ClientRecord
  BY ElementOfSeq, BackToLobbyFields DEF Steady
<1>2. /\ first \in Seq(ClientRecord) /\ Len(first) = Len(cs) /\ DOMAIN first = DOMAIN cs
      /\ \A k \in DOMAIN cs : first[k] = IF k = i THEN BackToLobby(cs[i]) ELSE cs[k]
  BY <1>1, AssignProperties
<1>3. BothToLobby(cs, i, j) = [first EXCEPT ![j] = BackToLobby(first[j])]
  BY DEF BothToLobby
<1> HIDE DEF first
<1>4. first[j] = cs[j] /\ BackToLobby(first[j]) \in ClientRecord
  BY <1>1, <1>2
<1> DEFINE ds == [first EXCEPT ![j] = BackToLobby(first[j])]
<1>5. /\ ds \in Seq(ClientRecord) /\ Len(ds) = Len(first) /\ DOMAIN ds = DOMAIN first
      /\ \A k \in DOMAIN first : ds[k] = IF k = j THEN BackToLobby(first[j]) ELSE first[k]
  BY <1>2, <1>4, AssignProperties
<1> HIDE DEF ds
<1>6. \A k \in DOMAIN cs : ds[k] = IF k \in {i, j} THEN BackToLobby(cs[k]) ELSE cs[k]
  BY <1>2, <1>4, <1>5
<1> QED
  BY <1>2, <1>3, <1>5, <1>6 DEF ds

-----------------------------------------------------------------------------
(* Who is served, and that what the handlers look up is there.             *)

\* A change of what an instance with a name does, without its connection.
LEMMA TidySteady ==
    ASSUME NEW c, NEW d, Tidy(c), Steady(c, d), c.nick # NoNick, Activity(d) # "New"
    PROVE  Tidy(d)
BY DEF Tidy, Steady, IsOpen

\* The pings to be answered stay as they are, when nobody gets silent or stops
\* being so.
LEMMA AnsweredKept ==
    ASSUME NEW cs, NEW ds, NEW ss, NEW pn, Answered(cs, ss, pn), Owned(cs, ss),
           DOMAIN ds = DOMAIN cs,
           \A i \in DOMAIN cs : ds[i].sock = cs[i].sock /\ (IsSilent(ds[i]) <=> IsSilent(cs[i]))
    PROVE  Answered(ds, ss, pn) /\ Owned(ds, ss)
<1>1. \A i \in DOMAIN ds : IsOpen(ds[i]) <=> IsOpen(cs[i])
  BY DEF IsOpen
<1>2. Answered(ds, ss, pn)
  BY <1>1 DEF Answered
<1>3. Owned(ds, ss)
  BY DEF Owned
<1> QED
  BY <1>2, <1>3

\* The vector under the invariant.
LEMMA Vector ==
    ASSUME CInv
    PROVE  /\ clients \in Seq(ClientRecord) /\ Len(clients) \in Nat
           /\ DOMAIN clients = 1..Len(clients)
           /\ \A i \in DOMAIN clients : clients[i] \in ClientRecord /\ Tidy(clients[i])
           /\ NicksDiffer(clients) /\ Agree(clients, games)
           /\ games \subseteq Room
           /\ \A i \in DOMAIN clients : clients[i].state = "Disconnected" <=> ~IsOpen(clients[i])
           /\ \A i, j \in DOMAIN clients :
                 IsOpen(clients[i]) /\ clients[i].sock = clients[j].sock => i = j
<1>1. /\ clients \in Seq(ClientRecord) /\ Len(clients) \in Nat
      /\ DOMAIN clients = 1..Len(clients)
  BY DEF CInv, IInv, Safe
<1>2. \A i \in DOMAIN clients : clients[i] \in ClientRecord
  BY <1>1, ElementOfSeq
<1>3. games \subseteq Room
  BY DEF CInv, IInv, Rooms
<1> QED
  BY <1>1, <1>2, <1>3 DEF CInv, IInv, Safe, NicksDiffer, Tidy

\* A connected instance without a name has nothing but its connection.
LEMMA Nameless ==
    ASSUME NEW c \in ClientRecord, Tidy(c), c.nick = NoNick, IsOpen(c)
    PROVE  /\ Activity(c) = "New" /\ c.room = LobbyRoom /\ c.last = "New"
           /\ c.state \in {"New", "Pinged"}
BY DEF Tidy, Activity, Away

\* Whoever is served has answered its pings, so its state is no absence; a
\* request that is routed fits what it does.
LEMMA ServedFacts ==
    ASSUME Careful, CInv, NEW r \in Request, Sends(r)
    PROVE  LET c == clients[pos]
           IN  /\ pos \in DOMAIN clients /\ c \in ClientRecord /\ Tidy(c)
               /\ IsOpen(c) /\ ~c.disc /\ ~c.erase
               /\ r.key = "<" <=> IsSilent(c)
               /\ r.key # "<" => c.state \in Present
               /\ r.key = "c" =>
                     /\ c.nick = NoNick /\ c.state = "New"
                     /\ \A j \in DOMAIN clients :
                           clients[j].nick = r.nick => clients[j].state # "Ready"
               /\ r.key = "rd" /\ Routed(c, r) => c.nick # NoNick /\ c.state = "Waiting"
               /\ r.key = "m" /\ Routed(c, r) => c.nick # NoNick /\ c.state = "PlayingOnTurn"
               /\ r.key \in {"l", "ch"} /\ Routed(c, r) => c.nick # NoNick /\ c.state \in Playing
<1> DEFINE c == clients[pos]
<1>1. pos \in DOMAIN clients /\ c \in ClientRecord /\ Tidy(c)
  BY Vector DEF Sends, AtClient, CInv, IInv, Threads
<1>2. IsOpen(c) /\ ~c.disc /\ ~c.erase
  <2>1. CASE pc = "loop"
    BY <2>1 DEF Sends, IsReadable
  <2>2. CASE pc = "serve"
    BY <2>2 DEF CInv, Serving
  <2> QED
    BY <2>1, <2>2 DEF Sends
<1>3. PromptRequest(clients, pos, pending[c.sock], r)
  BY DEF Sends, Careful, CarefulPeers, CarefulRequest
<1>4. pending[c.sock] > 0 <=> IsSilent(c)
  BY <1>1, <1>2 DEF CInv, Answered
<1>5. r.key = "<" <=> IsSilent(c)
  BY <1>3, <1>4 DEF PromptRequest
<1>6. c.state # "Disconnected" /\ c.state \in State
  BY <1>1, <1>2, Vector DEF ClientRecord
<1>7. r.key # "<" => c.state \in Present
  BY <1>5, <1>6 DEF IsSilent, Present, Away
<1>8. r.key # "<" /\ c.nick = NoNick => c.state = "New"
  BY <1>1, <1>2, <1>7, Nameless DEF Present, Away
<1>9. r.key = "c" => /\ c.nick = NoNick
                     /\ \A j \in DOMAIN clients :
                           clients[j].nick = r.nick => clients[j].state # "Ready"
  BY DEF Sends, Careful, CarefulPeers, CarefulRequest, PromptRequest
<1>10. r.key = "rd" /\ Routed(c, r) => c.nick # NoNick /\ c.state = "Waiting"
  BY <1>7, <1>8 DEF Routed, Present, Away
<1>11. r.key = "m" /\ Routed(c, r) => c.nick # NoNick /\ c.state = "PlayingOnTurn"
  BY <1>7, <1>8 DEF Routed, Present, Away
<1>12. r.key \in {"l", "ch"} /\ Routed(c, r) => c.nick # NoNick /\ c.state \in Playing
  BY <1>7, <1>8 DEF Routed, Present, Away, Playing
<1> QED
  BY <1>1, <1>2, <1>5, <1>7, <1>8, <1>9, <1>10, <1>11, <1>12

\* A player's opponent is found, and is another instance.
LEMMA Opponents ==
    ASSUME NEW cs \in Seq(ClientRecord), Agree(cs, games), NicksDiffer(cs), NEW i \in DOMAIN cs,
           cs[i].nick # NoNick, Activity(cs[i]) \in Playing
    PROVE  LET r == GetRoom(games, cs[i].room)
               o == FindClientByNick(cs, OpponentOf(games, cs[i]))
           IN  /\ HasRoom(games, cs[i].room) /\ r \in games /\ r.id = cs[i].room
               /\ HasOpponent(cs, cs[i])
               /\ Named(cs, r.onTurn) # {} /\ Named(cs, r.onStand) # {}
               /\ o \in DOMAIN cs /\ o # i
               /\ \/ /\ OnTurnIn(cs[i], r) /\ OnStandIn(cs[o], r)
                     /\ FindClientByNick(cs, r.onTurn) = i /\ FindClientByNick(cs, r.onStand) = o
                  \/ /\ OnStandIn(cs[i], r) /\ OnTurnIn(cs[o], r)
                     /\ FindClientByNick(cs, r.onTurn) = o /\ FindClientByNick(cs, r.onStand) = i
<1> DEFINE r == GetRoom(games, cs[i].room)
           o == FindClientByNick(cs, OpponentOf(games, cs[i]))
<1>1. /\ HasRoom(games, cs[i].room) /\ r \in games /\ r.id = cs[i].room
      /\ OnTurnIn(cs[i], r) \/ OnStandIn(cs[i], r)
  BY RoomOfPlayer
<1>2. OpponentOf(games, cs[i]) = IF cs[i].nick = r.onTurn THEN r.onStand ELSE r.onTurn
  BY DEF OpponentOf
<1> HIDE DEF r
<1>3. PICK k \in DOMAIN cs, l \in DOMAIN cs :
         /\ k # l /\ OnTurnIn(cs[k], r) /\ OnStandIn(cs[l], r)
         /\ Named(cs, r.onTurn) = {k} /\ Named(cs, r.onStand) = {l}
         /\ FindClientByNick(cs, r.onTurn) = k /\ FindClientByNick(cs, r.onStand) = l
  BY <1>1, PlayersOfRoom
<1>4. i = k \/ i = l
  BY <1>1, <1>3 DEF NicksDiffer, OnTurnIn, OnStandIn
<1>5. cs[k].nick = r.onTurn /\ cs[l].nick = r.onStand /\ cs[k].nick # cs[l].nick
  <2>1. cs[k].nick = r.onTurn /\ cs[l].nick = r.onStand /\ r.onTurn # NoNick
    BY <1>1, <1>3 DEF OnTurnIn, OnStandIn, Agree, ProperRoom
  <2> QED
    BY <1>3, <2>1 DEF NicksDiffer
<1>6. CASE i = k
  <2>1. OpponentOf(games, cs[i]) = r.onStand
    BY <1>2, <1>5, <1>6
  <2>2. o = l
    BY <1>3, <2>1
  <2>3. HasOpponent(cs, cs[i])
    BY <1>1, <1>3, <2>1 DEF HasOpponent
  <2> QED
    BY <1>1, <1>3, <1>6, <2>2, <2>3 DEF r
<1>7. CASE i = l
  <2>1. OpponentOf(games, cs[i]) = r.onTurn
    BY <1>2, <1>5, <1>7
  <2>2. o = k
    BY <1>3, <2>1
  <2>3. HasOpponent(cs, cs[i])
    BY <1>1, <1>3, <2>1 DEF HasOpponent
  <2> QED
    BY <1>1, <1>3, <1>7, <2>2, <2>3 DEF r
<1> QED
  BY <1>4, <1>6, <1>7

\* A player's game ends: both are in the lobby, and nothing else has changed.
LEMMA GameEnds ==
    ASSUME NEW cs \in Seq(ClientRecord), Agree(cs, games), NicksDiffer(cs), NEW i \in DOMAIN cs,
           cs[i].nick # NoNick, Activity(cs[i]) \in Playing
    PROVE  LET o  == FindClientByNick(cs, OpponentOf(games, cs[i]))
               ds == BothToLobby(cs, i, o)
           IN  /\ Agree(ds, RemoveRoom(games, cs[i].room))
               /\ ds \in Seq(ClientRecord) /\ Len(ds) = Len(cs) /\ DOMAIN ds = DOMAIN cs
               /\ \A k \in DOMAIN cs :
                     \/ ds[k] = cs[k]
                     \/ Steady(cs[k], ds[k]) /\ cs[k].nick # NoNick /\ Activity(ds[k]) = "Waiting"
               /\ Activity(ds[i]) = "Waiting"
<1> DEFINE r  == GetRoom(games, cs[i].room)
           o  == FindClientByNick(cs, OpponentOf(games, cs[i]))
           ds == BothToLobby(cs, i, o)
<1>1. /\ r \in games /\ r.id = cs[i].room /\ o \in DOMAIN cs /\ o # i
      /\ \/ OnTurnIn(cs[i], r) /\ OnStandIn(cs[o], r)
         \/ OnStandIn(cs[i], r) /\ OnTurnIn(cs[o], r)
  BY Opponents
<1> HIDE DEF r, o
<1>2. /\ ds \in Seq(ClientRecord) /\ Len(ds) = Len(cs) /\ DOMAIN ds = DOMAIN cs
      /\ \A k \in DOMAIN cs : ds[k] = IF k \in {i, o} THEN BackToLobby(cs[k]) ELSE cs[k]
  BY <1>1, BothToLobbyFields
<1> HIDE DEF ds
<1>3. \A k \in {i, o} :
         /\ Steady(cs[k], ds[k]) /\ Activity(ds[k]) = "Waiting" /\ ds[k].room = LobbyRoom
  <2> TAKE k \in {i, o}
  <2>1. k \in DOMAIN cs /\ cs[k] \in ClientRecord
    BY <1>1, ElementOfSeq
  <2> QED
    BY <1>2, <2>1, BackToLobbyFields
<1>4. cs[o].nick # NoNick
  BY <1>1 DEF Agree, ProperRoom, OnTurnIn, OnStandIn
<1>5. \A k \in DOMAIN cs :
         IF k \in {i, o}
         THEN ds[k].room = LobbyRoom /\ Activity(ds[k]) \notin Playing
         ELSE ds[k] = cs[k]
  BY <1>2, <1>3 DEF Playing
<1>6. Agree(ds, RemoveRoom(games, r.id))
  <2>1. CASE OnTurnIn(cs[i], r) /\ OnStandIn(cs[o], r)
    <3>1. cs[i].nick = r.onTurn /\ cs[o].nick = r.onStand
      BY <2>1 DEF OnTurnIn, OnStandIn
    <3> QED
      BY <1>1, <1>2, <1>5, <3>1, AgreeLeave
  <2>2. CASE OnStandIn(cs[i], r) /\ OnTurnIn(cs[o], r)
    <3>1. cs[o].nick = r.onTurn /\ cs[i].nick = r.onStand
      BY <2>2 DEF OnTurnIn, OnStandIn
    <3>2. \A k \in DOMAIN cs :
             IF k \in {o, i}
             THEN ds[k].room = LobbyRoom /\ Activity(ds[k]) \notin Playing
             ELSE ds[k] = cs[k]
      BY <1>5
    <3>3. r \in games /\ o \in DOMAIN cs /\ DOMAIN ds = DOMAIN cs
      BY <1>1, <1>2
    <3> HIDE <1>1, <1>2, <1>5
    <3> QED
      BY <3>1, <3>2, <3>3, AgreeLeave
  <2> QED
    BY <1>1, <2>1, <2>2
<1> QED
  BY <1>1, <1>2, <1>3, <1>4, <1>6 DEF o, ds

-----------------------------------------------------------------------------
(* The requests, but the pong, of a careful peer.                          *)

\* What serving such a request leaves: clients and rooms agree, connections
\* and absences are untouched, and so is the served instance's place.
Orderly ==
    /\ Agree(clients', games')
    /\ clients' \in Seq(ClientRecord) /\ DOMAIN clients' = DOMAIN clients
    /\ \A i \in DOMAIN clients :
          /\ Tidy(clients'[i])
          /\ clients'[i].sock = clients[i].sock
          /\ IsSilent(clients'[i]) <=> IsSilent(clients[i])
    /\ clients'[pos].disc = clients[pos].disc /\ clients'[pos].erase = clients[pos].erase

\* Nothing changes.
LEMMA NothingOrderly ==
    ASSUME CInv, clients' = clients, games' = games
    PROVE  Orderly
BY Vector DEF Orderly

\* The served instance changes, and no game is concerned.
LEMMA OneOrderly ==
    ASSUME CInv, pos \in DOMAIN clients, NEW d \in ClientRecord, Tidy(d),
           d.sock = clients[pos].sock, d.disc = clients[pos].disc, d.erase = clients[pos].erase,
           IsSilent(d) <=> IsSilent(clients[pos]), SameGame(clients[pos], d),
           clients' = [clients EXCEPT ![pos] = d], games' = games
    PROVE  Orderly
<1>1. /\ clients \in Seq(ClientRecord) /\ Agree(clients, games)
      /\ \A i \in DOMAIN clients : Tidy(clients[i])
  BY Vector
<1>3. /\ clients' \in Seq(ClientRecord) /\ DOMAIN clients' = DOMAIN clients
      /\ \A i \in DOMAIN clients : clients'[i] = IF i = pos THEN d ELSE clients[i]
  BY <1>1, AssignProperties
<1>4. \A i \in DOMAIN clients : SameGame(clients[i], clients'[i])
  BY <1>3 DEF SameGame
<1>5. Agree(clients', games')
  BY <1>1, <1>3, <1>4, AgreeSame
<1>6. \A i \in DOMAIN clients :
         /\ Tidy(clients'[i])
         /\ clients'[i].sock = clients[i].sock
         /\ IsSilent(clients'[i]) <=> IsSilent(clients[i])
  BY <1>1, <1>3
<1>7. clients'[pos].disc = clients[pos].disc /\ clients'[pos].erase = clients[pos].erase
  BY <1>3
<1> QED
  BY <1>3, <1>5, <1>6, <1>7 DEF Orderly

LEMMA ReadyOrderly ==
    ASSUME Careful, CInv, NEW r \in Request, Sends(r), Routed(clients[pos], r),
           r.key = "rd", RequestReady(pos)
    PROVE  Orderly
<1> DEFINE c == clients[pos]
           d == SetState(c, "Ready")
<1>1. /\ pos \in DOMAIN clients /\ c \in ClientRecord /\ Tidy(c)
      /\ c.nick # NoNick /\ c.state = "Waiting"
  BY ServedFacts
<1>2. clients' = [clients EXCEPT ![pos] = d] /\ games' = games
  BY DEF RequestReady
<1>3. /\ d \in ClientRecord /\ d.nick = c.nick /\ d.sock = c.sock /\ d.room = c.room
      /\ d.disc = c.disc /\ d.erase = c.erase /\ d.state = "Ready"
  BY <1>1, SetStateFields DEF State
<1> HIDE DEF d
<1>4. Steady(c, d)
  BY <1>1, <1>3 DEF Steady, IsSilent
<1>5. Activity(d) = "Ready" /\ Activity(c) = "Waiting"
  BY <1>1, <1>3 DEF Activity, Away
<1>6. Tidy(d)
  BY <1>1, <1>4, <1>5, TidySteady
<1>7. SameGame(c, d)
  BY <1>3, <1>5 DEF SameGame, Playing
<1> QED
  BY <1>1, <1>2, <1>4, <1>6, <1>7, OneOrderly DEF Steady

LEMMA LeaveOrderly ==
    ASSUME Careful, CInv, NEW r \in Request, Sends(r), Routed(clients[pos], r),
           r.key = "l", RequestLeave(pos)
    PROVE  Orderly
<1> DEFINE c == clients[pos]
           o == FindClientByNick(clients, OpponentOf(games, c))
<1>1. /\ pos \in DOMAIN clients /\ c \in ClientRecord
      /\ c.nick # NoNick /\ Activity(c) \in Playing
  <2>1. /\ pos \in DOMAIN clients /\ c \in ClientRecord
        /\ c.nick # NoNick /\ c.state \in Playing
    BY ServedFacts
  <2> QED
    BY <2>1 DEF Activity, Playing, Away
<1>2. /\ clients \in Seq(ClientRecord) /\ Agree(clients, games) /\ NicksDiffer(clients)
      /\ \A k \in DOMAIN clients : clients[k] \in ClientRecord /\ Tidy(clients[k])
  BY Vector
<1>3. clients' = BothToLobby(clients, pos, o) /\ games' = RemoveRoom(games, c.room)
  BY DEF RequestLeave
<1>4. /\ Agree(clients', games')
      /\ clients' \in Seq(ClientRecord) /\ DOMAIN clients' = DOMAIN clients
      /\ \A k \in DOMAIN clients :
            \/ clients'[k] = clients[k]
            \/ /\ Steady(clients[k], clients'[k]) /\ clients[k].nick # NoNick
               /\ Activity(clients'[k]) = "Waiting"
  BY <1>1, <1>2, <1>3, GameEnds
<1>5. \A k \in DOMAIN clients :
         /\ Tidy(clients'[k])
         /\ clients'[k].sock = clients[k].sock
         /\ IsSilent(clients'[k]) <=> IsSilent(clients[k])
         /\ clients'[k].disc = clients[k].disc /\ clients'[k].erase = clients[k].erase
  <2> TAKE k \in DOMAIN clients
  <2>1. CASE clients'[k] = clients[k]
    BY <1>2, <2>1
  <2>2. CASE /\ Steady(clients[k], clients'[k]) /\ clients[k].nick # NoNick
             /\ Activity(clients'[k]) = "Waiting"
    <3>1. Tidy(clients'[k])
      BY <1>2, <2>2, TidySteady
    <3> QED
      BY <2>2, <3>1 DEF Steady
  <2> QED
    BY <1>4, <2>1, <2>2
<1> QED
  BY <1>1, <1>4, <1>5 DEF Orderly

\* Who a careful player's move is about: the mover is on turn, and the other
\* player of the room is the next.
LEMMA MoveFields ==
    ASSUME Careful, CInv, NEW r \in Request, Sends(r), Routed(clients[pos], r), r.key = "m"
    PROVE  LET c     == clients[pos]
               swap  == MoveInRoom(games, c.room)
               room  == GetRoom(swap, c.room)
               t     == FindClientByNick(clients, room.onTurn)
               first == [clients EXCEPT ![t] = NowOnTurn(clients[t])]
               moved == [first EXCEPT ![pos] = SetState(first[pos], "PlayingOnStand")]
           IN  /\ HasRoom(games, c.room)
               /\ Named(clients, GetRoom(games, c.room).onTurn) # {}
               /\ Named(clients, GetRoom(games, c.room).onStand) # {}
               /\ FindClientByNick(clients, room.onStand) = pos
               /\ FindClientByNick(clients, GetRoom(games, c.room).onTurn) = pos
               /\ FindClientByNick(clients, GetRoom(games, c.room).onStand) = t
               /\ t \in DOMAIN clients /\ t # pos
               /\ moved \in Seq(ClientRecord) /\ Len(moved) = Len(clients)
               /\ DOMAIN moved = DOMAIN clients
               /\ \A k \in DOMAIN clients :
                     \/ moved[k] = clients[k]
                     \/ /\ Steady(clients[k], moved[k]) /\ clients[k].nick # NoNick
                        /\ Activity(moved[k]) \in Playing
               /\ \A k \in DOMAIN clients : k \notin {pos, t} => moved[k] = clients[k]
               /\ moved[pos].state = "PlayingOnStand" /\ Activity(moved[t]) = "PlayingOnTurn"
               /\ Agree(moved, swap)
               /\ room \in swap /\ room.id = c.room
               /\ moved[t].nick = room.onTurn /\ moved[pos].nick = room.onStand
<1> DEFINE c     == clients[pos]
           g     == GetRoom(games, c.room)
           new   == [g EXCEPT !.onTurn = g.onStand, !.onStand = g.onTurn]
           swap  == MoveInRoom(games, c.room)
           room  == GetRoom(swap, c.room)
           t     == FindClientByNick(clients, room.onTurn)
           first == [clients EXCEPT ![t] = NowOnTurn(clients[t])]
           stand == SetState(c, "PlayingOnStand")
           moved == [first EXCEPT ![pos] = SetState(first[pos], "PlayingOnStand")]
<1>1. /\ pos \in DOMAIN clients /\ c \in ClientRecord
      /\ c.nick # NoNick /\ c.state = "PlayingOnTurn"
  BY ServedFacts
<1>2. Activity(c) = "PlayingOnTurn" /\ Activity(c) \in Playing
  BY <1>1 DEF Activity, Away, Playing
<1>3. /\ clients \in Seq(ClientRecord) /\ Agree(clients, games) /\ NicksDiffer(clients)
      /\ games \subseteq Room /\ \A k \in DOMAIN clients : clients[k] \in ClientRecord
  BY Vector
<1>4. PICK o \in DOMAIN clients :
         /\ HasRoom(games, c.room) /\ g \in games /\ g.id = c.room /\ o # pos
         /\ Named(clients, g.onTurn) # {} /\ Named(clients, g.onStand) # {}
         /\ OnTurnIn(c, g) /\ OnStandIn(clients[o], g)
         /\ FindClientByNick(clients, g.onTurn) = pos
         /\ FindClientByNick(clients, g.onStand) = o
  <2>1. ~OnStandIn(c, g)
    BY <1>2 DEF OnStandIn
  <2> HIDE DEF g
  <2> QED
    BY <1>1, <1>2, <1>3, <2>1, Opponents DEF g
<1>5. swap = (games \ {g}) \cup {new}
  BY DEF MoveInRoom
<1> HIDE DEF g, swap
<1>6. new.id = g.id /\ new.onTurn = g.onStand /\ new.onStand = g.onTurn
  BY <1>3, <1>4 DEF Room
<1> HIDE DEF new
<1>7. \A s \in swap : s.id = c.room => s = new
  BY <1>3, <1>4, <1>5 DEF Agree
<1>8. room = new /\ room \in swap
  <2>1. new \in swap /\ new.id = c.room
    BY <1>4, <1>5, <1>6
  <2> QED
    BY <1>7, <2>1 DEF GetRoom
<1> HIDE DEF room
<1>9. t = o /\ FindClientByNick(clients, room.onStand) = pos
  BY <1>4, <1>6, <1>8
<1> HIDE DEF t
<1>10. /\ Steady(clients[o], NowOnTurn(clients[o]))
       /\ Activity(NowOnTurn(clients[o])) = "PlayingOnTurn"
       /\ NowOnTurn(clients[o]).room = clients[o].room
  BY <1>3, <1>4, NowOnTurnFields
<1>11. /\ Steady(c, stand) /\ Activity(stand) = "PlayingOnStand" /\ stand.room = c.room
       /\ stand.state = "PlayingOnStand"
  <2>1. /\ stand \in ClientRecord /\ stand.nick = c.nick /\ stand.sock = c.sock
        /\ stand.room = c.room /\ stand.disc = c.disc /\ stand.erase = c.erase
        /\ stand.state = "PlayingOnStand"
    BY <1>1, SetStateFields DEF State
  <2> HIDE DEF stand
  <2> QED
    BY <1>1, <2>1 DEF Steady, IsSilent, Activity, Away
<1>12. /\ first \in Seq(ClientRecord) /\ Len(first) = Len(clients)
       /\ DOMAIN first = DOMAIN clients
       /\ \A k \in DOMAIN clients : first[k] = IF k = o THEN NowOnTurn(clients[o]) ELSE clients[k]
  <2>1. NowOnTurn(clients[o]) \in ClientRecord
    BY <1>10 DEF Steady
  <2> QED
    BY <1>3, <1>9, <2>1, AssignProperties
<1> HIDE DEF first
<1>13. first[pos] = c
  BY <1>1, <1>4, <1>12
<1>14. moved = [first EXCEPT ![pos] = stand]
  BY <1>13
<1> HIDE DEF moved, stand
<1>15. /\ moved \in Seq(ClientRecord) /\ Len(moved) = Len(clients)
       /\ DOMAIN moved = DOMAIN clients
       /\ \A k \in DOMAIN clients : moved[k] = IF k = pos THEN stand ELSE first[k]
  <2>1. stand \in ClientRecord
    BY <1>11 DEF Steady
  <2> QED
    BY <1>12, <1>14, <2>1, AssignProperties
<1>16. /\ moved[pos] = stand /\ moved[o] = NowOnTurn(clients[o])
       /\ \A k \in DOMAIN clients : k \notin {pos, o} => moved[k] = clients[k]
  BY <1>1, <1>4, <1>12, <1>15
<1>17. c.nick = g.onTurn /\ clients[o].nick = g.onStand /\ clients[o].nick # NoNick
  BY <1>3, <1>4 DEF OnTurnIn, OnStandIn, Agree, ProperRoom
<1>18. /\ moved[pos].nick = c.nick /\ moved[pos].room = c.room
       /\ moved[o].nick = clients[o].nick /\ moved[o].room = clients[o].room
       /\ Activity(moved[pos]) = "PlayingOnStand" /\ Activity(moved[o]) = "PlayingOnTurn"
  BY <1>10, <1>11, <1>16 DEF Steady
<1>19. Agree(moved, swap)
  <2>1. g \in games /\ o \in DOMAIN clients /\ DOMAIN moved = DOMAIN clients
    BY <1>3, <1>4, <1>15
  <2>2. Agree(moved, (games \ {g}) \cup {new})
    BY <1>1, <1>3, <1>6, <1>16, <1>17, <1>18, <2>1, AgreeMove
  <2> QED
    BY <1>5, <2>2
<1>20. \A k \in DOMAIN clients :
          \/ moved[k] = clients[k]
          \/ /\ Steady(clients[k], moved[k]) /\ clients[k].nick # NoNick
             /\ Activity(moved[k]) \in Playing
  <2>1. /\ Steady(clients[pos], moved[pos]) /\ Activity(moved[pos]) \in Playing
        /\ Steady(clients[o], moved[o]) /\ Activity(moved[o]) \in Playing
    BY <1>10, <1>11, <1>16 DEF Playing
  <2> QED
    BY <1>1, <1>16, <1>17, <2>1
<1>21. /\ room.id = c.room /\ moved[t].nick = room.onTurn /\ moved[pos].nick = room.onStand
       /\ moved[pos].state = "PlayingOnStand" /\ t \in DOMAIN clients /\ t # pos
  BY <1>4, <1>6, <1>8, <1>9, <1>11, <1>16, <1>17, <1>18
<1>22. /\ HasRoom(games, c.room) /\ Named(clients, g.onTurn) # {} /\ Named(clients, g.onStand) # {}
       /\ FindClientByNick(clients, g.onTurn) = pos /\ FindClientByNick(clients, g.onStand) = t
       /\ Activity(moved[t]) = "PlayingOnTurn"
       /\ \A k \in DOMAIN clients : k \notin {pos, t} => moved[k] = clients[k]
  BY <1>4, <1>9, <1>16, <1>18
<1> QED
  BY <1>8, <1>9, <1>15, <1>19, <1>20, <1>21, <1>22 DEF g, swap, room, t, first, moved

\* A move, also the last one of a game.
LEMMA MoveOrderly ==
    ASSUME Careful, CInv, NEW r \in Request, Sends(r), Routed(clients[pos], r), r.key = "m",
           RequestMove(pos, r.outcome)
    PROVE  /\ Orderly
           /\ r.outcome = "moved" => clients'[pos].state = "PlayingOnStand"
<1> DEFINE c     == clients[pos]
           swap  == MoveInRoom(games, c.room)
           room  == GetRoom(swap, c.room)
           t     == FindClientByNick(clients, room.onTurn)
           first == [clients EXCEPT ![t] = NowOnTurn(clients[t])]
           moved == [first EXCEPT ![pos] = SetState(first[pos], "PlayingOnStand")]
<1>1. /\ FindClientByNick(clients, room.onStand) = pos
      /\ t \in DOMAIN clients /\ t # pos
      /\ moved \in Seq(ClientRecord) /\ DOMAIN moved = DOMAIN clients
      /\ \A k \in DOMAIN clients :
            \/ moved[k] = clients[k]
            \/ /\ Steady(clients[k], moved[k]) /\ clients[k].nick # NoNick
               /\ Activity(moved[k]) \in Playing
      /\ moved[pos].state = "PlayingOnStand"
      /\ Agree(moved, swap)
      /\ room \in swap /\ room.id = c.room
      /\ moved[t].nick = room.onTurn /\ moved[pos].nick = room.onStand
  BY MoveFields
<1>2. IF r.outcome = "gameover"
      THEN clients' = BothToLobby(moved, t, pos) /\ games' = RemoveRoom(swap, c.room)
      ELSE clients' = moved /\ games' = swap
  BY <1>1 DEF RequestMove
<1>3. /\ pos \in DOMAIN clients /\ NicksDiffer(clients)
      /\ \A k \in DOMAIN clients : clients[k] \in ClientRecord /\ Tidy(clients[k])
  BY ServedFacts, Vector
<1> HIDE DEF swap, room, t, moved
<1>4. \A k \in DOMAIN clients :
         /\ Steady(clients[k], moved[k]) /\ Tidy(moved[k])
  <2> TAKE k \in DOMAIN clients
  <2>1. CASE moved[k] = clients[k]
    BY <1>3, <2>1 DEF Steady
  <2>2. CASE /\ Steady(clients[k], moved[k]) /\ clients[k].nick # NoNick
             /\ Activity(moved[k]) \in Playing
    BY <1>3, <2>2, TidySteady DEF Playing
  <2> QED
    BY <1>1, <2>1, <2>2
<1>5. CASE r.outcome # "gameover"
  <2>1. Orderly
    BY <1>1, <1>2, <1>3, <1>4, <1>5 DEF Orderly, Steady
  <2> QED
    BY <1>1, <1>2, <1>5, <2>1
<1>6. CASE r.outcome = "gameover"
  <2>1. /\ clients' \in Seq(ClientRecord) /\ DOMAIN clients' = DOMAIN moved
        /\ \A k \in DOMAIN moved :
              clients'[k] = IF k \in {t, pos} THEN BackToLobby(moved[k]) ELSE moved[k]
    BY <1>1, <1>2, <1>3, <1>6, BothToLobbyFields
  <2>2. \A k \in {t, pos} :
           /\ Steady(moved[k], clients'[k]) /\ Activity(clients'[k]) = "Waiting"
           /\ clients'[k].room = LobbyRoom
    <3> TAKE k \in {t, pos}
    <3>1. k \in DOMAIN moved /\ moved[k] \in ClientRecord
      BY <1>1, <1>3, ElementOfSeq
    <3> QED
      BY <2>1, <3>1, BackToLobbyFields
  <2>3. NicksDiffer(moved)
    BY <1>1, <1>3, <1>4 DEF NicksDiffer, Steady
  <2>4. Agree(clients', games')
    <3>1. \A k \in DOMAIN moved :
             IF k \in {t, pos}
             THEN clients'[k].room = LobbyRoom /\ Activity(clients'[k]) \notin Playing
             ELSE clients'[k] = moved[k]
      BY <2>1, <2>2 DEF Playing
    <3>2. t \in DOMAIN moved /\ pos \in DOMAIN moved
      BY <1>1, <1>3
    <3>3. Agree(clients', RemoveRoom(swap, room.id))
      BY <1>1, <2>1, <2>3, <3>1, <3>2, AgreeLeave
    <3> QED
      BY <1>1, <1>2, <1>6, <3>3
  <2>5. moved[t].nick # NoNick /\ moved[pos].nick # NoNick
    BY <1>1 DEF Agree, ProperRoom
  <2>6. \A k \in DOMAIN clients : Steady(moved[k], clients'[k]) /\ Tidy(clients'[k])
    <3> TAKE k \in DOMAIN clients
    <3>1. CASE k \in {t, pos}
      BY <1>4, <2>2, <2>5, <3>1, TidySteady
    <3>2. CASE k \notin {t, pos}
      BY <1>1, <1>4, <2>1, <3>2 DEF Steady
    <3> QED
      BY <3>1, <3>2
  <2>7. Orderly
    BY <1>1, <1>3, <1>4, <2>1, <2>4, <2>6 DEF Orderly, Steady
  <2> QED
    BY <1>6, <2>7
<1> QED
  BY <1>5, <1>6

\* A new name is that of a new client in the lobby.
LEMMA TakeNickOrderly ==
    ASSUME Careful, CInv, NEW r \in Request, Sends(r), r.key = "c", r.nick \in Nicks,
           TakeNick(pos, r.nick)
    PROVE  Orderly
<1> DEFINE c == clients[pos]
           named == [c EXCEPT !.nick = r.nick]
           d == SetStateLast(SetState(named, "Waiting"), "Waiting")
<1>1. /\ pos \in DOMAIN clients /\ c \in ClientRecord /\ Tidy(c) /\ IsOpen(c)
      /\ ~c.disc /\ ~c.erase /\ c.nick = NoNick /\ c.state = "New"
  BY ServedFacts
<1>2. c.room = LobbyRoom
  BY <1>1, Nameless
<1>3. clients' = [clients EXCEPT ![pos] = d] /\ games' = games
  BY DEF TakeNick
<1>4. /\ named \in ClientRecord /\ named.nick = r.nick /\ named.sock = c.sock
      /\ named.room = c.room /\ named.disc = c.disc /\ named.erase = c.erase
  BY <1>1 DEF ClientRecord
<1> HIDE DEF named
<1> DEFINE w == SetState(named, "Waiting")
<1>5. /\ w \in ClientRecord /\ w.nick = r.nick /\ w.sock = c.sock /\ w.room = c.room
      /\ w.disc = c.disc /\ w.erase = c.erase /\ w.state = "Waiting"
  BY <1>4, SetStateFields DEF State
<1>6. d = SetStateLast(w, "Waiting")
  OBVIOUS
<1> HIDE DEF w, d
<1>7. /\ d \in ClientRecord /\ d.nick = r.nick /\ d.sock = c.sock /\ d.room = c.room
      /\ d.disc = c.disc /\ d.erase = c.erase /\ d.state = "Waiting"
  <2>1. "Waiting" \in Present
    BY DEF Present, State, Away
  <2> QED
    BY <1>5, <1>6, <2>1, SetStateLastFields
<1>8. Activity(d) = "Waiting" /\ d.nick # NoNick
  BY <1>7, NoNickAssumption DEF Activity, Away
<1>9. Tidy(d)
  BY <1>1, <1>7, <1>8 DEF Tidy, IsOpen
<1>10. SameGame(c, d) /\ (IsSilent(d) <=> IsSilent(c))
  BY <1>1, <1>2, <1>7, <1>8 DEF SameGame, Playing, IsSilent
<1> QED
  BY <1>1, <1>3, <1>7, <1>9, <1>10, OneOrderly

\* A new client that is told it was away for a short time stays new.
LEMMA ShortReconnectOrderly ==
    ASSUME Careful, CInv, NEW r \in Request, Sends(r), r.key = "c",
           ShortReconnect(pos, r.nick)
    PROVE  Orderly
<1> DEFINE c == clients[pos]
           d == SetState(c, c.last)
<1>1. /\ pos \in DOMAIN clients /\ c \in ClientRecord /\ Tidy(c) /\ IsOpen(c)
      /\ ~c.disc /\ ~c.erase /\ c.nick = NoNick /\ c.state = "New"
  BY ServedFacts
<1>2. c.room = LobbyRoom /\ c.last = "New" /\ Activity(c) = "New"
  BY <1>1, Nameless
<1>3. clients' = [clients EXCEPT ![pos] = d] /\ games' = games
  BY DEF ShortReconnect
<1>4. /\ d \in ClientRecord /\ d.nick = NoNick /\ d.sock = c.sock /\ d.room = LobbyRoom
      /\ d.disc = c.disc /\ d.erase = c.erase /\ d.state = "New" /\ d.last = "New"
  BY <1>1, <1>2, SetStateFields DEF State
<1> HIDE DEF d
<1>5. Tidy(d) /\ SameGame(c, d) /\ (IsSilent(d) <=> IsSilent(c))
  BY <1>1, <1>2, <1>4 DEF Tidy, IsOpen, SameGame, IsSilent, Activity, Away, Playing
<1> QED
  BY <1>1, <1>3, <1>4, <1>5, OneOrderly

\* Only a disconnected instance's name is ever taken over from it.
LEMMA NamesakeIsGone ==
    ASSUME Careful, CInv, NEW r \in Request, Sends(r), r.key = "c", r.nick \in Nicks,
           Namesakes(pos, r.nick) # {},
           clients[Namesake(pos, r.nick)].state \in {"New", "Ready", "Disconnected"}
    PROVE  LET o == Namesake(pos, r.nick)
           IN  /\ o \in DOMAIN clients /\ o # pos
               /\ clients[o].nick = r.nick /\ clients[o].state = "Disconnected"
<1> DEFINE o == Namesake(pos, r.nick)
<1>1. /\ clients \in Seq(ClientRecord) /\ DOMAIN clients = 1..Len(clients)
      /\ \A i \in DOMAIN clients : Tidy(clients[i])
  BY Vector
<1>2. o \in DOMAIN clients /\ clients[o].nick = r.nick
  BY <1>1, NamesakeProperties
<1> HIDE DEF o
<1>3. /\ clients[pos].nick = NoNick
      /\ \A j \in DOMAIN clients : clients[j].nick = r.nick => clients[j].state # "Ready"
  BY ServedFacts
<1>4. r.nick # NoNick
  BY NoNickAssumption
<1>5. clients[o].state # "New"
  BY <1>1, <1>2, <1>4 DEF Tidy, Activity, Away
<1> QED
  BY <1>2, <1>3, <1>4, <1>5 DEF o

\* A takeover moves the name, the room and the activity to the new connection.
LEMMA TakeOverOrderly ==
    ASSUME Careful, CInv, NEW r \in Request, Sends(r), r.key = "c", r.nick \in Nicks,
           TakeOver(pos, r.nick)
    PROVE  Orderly
<1> DEFINE n     == r.nick
           o     == Namesake(pos, n)
           c     == clients[pos]
           old   == clients[o]
           named == [c EXCEPT !.nick = n]
           d     == SetState(named, old.last)
           e     == [d EXCEPT !.room = old.room, !.pings = LongPing]
           taken == [clients EXCEPT ![pos] = e]
           f     == [taken[o] EXCEPT !.nick = NoNick, !.erase = TRUE]
<1>1. /\ pos \in DOMAIN clients /\ c \in ClientRecord /\ Tidy(c) /\ IsOpen(c)
      /\ ~c.disc /\ ~c.erase /\ c.nick = NoNick /\ c.state = "New"
  BY ServedFacts
<1>2. /\ clients \in Seq(ClientRecord) /\ Agree(clients, games) /\ NicksDiffer(clients)
      /\ \A i \in DOMAIN clients : clients[i] \in ClientRecord /\ Tidy(clients[i])
      /\ \A i \in DOMAIN clients : clients[i].state = "Disconnected" <=> ~IsOpen(clients[i])
  BY Vector
<1>3. /\ o \in DOMAIN clients /\ o # pos /\ old.nick = n /\ old.state = "Disconnected"
  BY NamesakeIsGone DEF TakeOver
<1>4. clients' = [taken EXCEPT ![o] = f] /\ games' = games
  BY DEF TakeOver
<1> HIDE DEF o
<1>5. /\ named \in ClientRecord /\ named.nick = n /\ named.sock = c.sock
      /\ named.disc = c.disc /\ named.erase = c.erase
  BY <1>1 DEF ClientRecord
<1> HIDE DEF named
<1>6. /\ old \in ClientRecord /\ old.last \in Present /\ old.last \in State /\ old.room \in Nat
      /\ Activity(old) = old.last /\ old.last # "New"
  <2>1. old \in ClientRecord /\ Tidy(old)
    BY <1>2, <1>3
  <2>2. n # NoNick
    BY NoNickAssumption
  <2> QED
    BY <1>3, <2>1, <2>2 DEF ClientRecord, Present, Tidy, Activity, Away
<1>7. /\ d \in ClientRecord /\ d.nick = n /\ d.sock = c.sock /\ d.disc = c.disc
      /\ d.erase = c.erase /\ d.state = old.last
  BY <1>5, <1>6, SetStateFields
<1> HIDE DEF d
<1>8. /\ e \in ClientRecord /\ e.nick = n /\ e.sock = c.sock /\ e.disc = c.disc
      /\ e.erase = c.erase /\ e.state = old.last /\ e.room = old.room
  <2>1. LongPing \in Int
    BY LongPingAssumption
  <2>2. e = [d EXCEPT !.room = old.room, !.pings = LongPing]
    OBVIOUS
  <2> HIDE DEF e
  <2>3. /\ e \in ClientRecord /\ e.nick = d.nick /\ e.sock = d.sock /\ e.disc = d.disc
        /\ e.erase = d.erase /\ e.state = d.state /\ e.room = old.room /\ e.last = d.last
    BY <1>6, <1>7, <2>1, <2>2 DEF ClientRecord
  <2> QED
    BY <1>7, <2>3
<1> HIDE DEF e
<1>9. /\ taken \in Seq(ClientRecord) /\ DOMAIN taken = DOMAIN clients
      /\ \A k \in DOMAIN clients : taken[k] = IF k = pos THEN e ELSE clients[k]
  BY <1>2, <1>8, AssignProperties
<1> HIDE DEF taken
<1>10. taken[o] = old
  BY <1>3, <1>9
<1>11. /\ f \in ClientRecord /\ f.nick = NoNick /\ f.sock = old.sock
       /\ f.state = "Disconnected" /\ f.erase = TRUE
  BY <1>3, <1>6, <1>10 DEF ClientRecord
<1> HIDE DEF f
<1>12. /\ clients' \in Seq(ClientRecord) /\ DOMAIN clients' = DOMAIN clients
       /\ \A k \in DOMAIN clients : clients'[k] = IF k = o THEN f ELSE taken[k]
  BY <1>4, <1>9, <1>11, AssignProperties
<1>13. /\ clients'[pos] = e /\ clients'[o] = f
       /\ \A k \in DOMAIN clients : k \notin {pos, o} => clients'[k] = clients[k]
  BY <1>1, <1>3, <1>9, <1>12
<1>14. Activity(e) = old.last
  BY <1>6, <1>8 DEF Activity, Present
<1>15. Agree(clients', games')
  <2>1. n # NoNick
    BY NoNickAssumption
  <2>2. clients[pos].nick = NoNick /\ clients[o].nick # NoNick /\ clients'[o].nick = NoNick
    BY <1>1, <1>3, <1>11, <1>13, <2>1
  <2>3. /\ clients'[pos].nick = clients[o].nick /\ clients'[pos].room = clients[o].room
        /\ Activity(clients'[pos]) = Activity(clients[o])
    BY <1>3, <1>6, <1>8, <1>13, <1>14
  <2>4. \A k \in DOMAIN clients : k \notin {pos, o} => clients'[k] = clients[k]
    BY <1>13
  <2>5. /\ Agree(clients, games) /\ DOMAIN clients' = DOMAIN clients
        /\ pos \in DOMAIN clients /\ o \in DOMAIN clients /\ pos # o /\ games' = games
    BY <1>1, <1>2, <1>3, <1>4, <1>12
  <2> HIDE <1>1, <1>2, <1>3, <1>4, <1>6, <1>8, <1>11, <1>12, <1>13
  <2>6. Agree(clients', games)
    BY <2>2, <2>3, <2>4, <2>5, AgreeTakeOver
  <2> QED
    BY <2>5, <2>6
<1>16. Tidy(e) /\ (IsSilent(e) <=> IsSilent(c))
  <2>1. n # NoNick
    BY NoNickAssumption
  <2>2. ~IsSilent(e) /\ ~IsSilent(c)
    BY <1>1, <1>6, <1>8 DEF IsSilent, Present, Away
  <2> QED
    BY <1>1, <1>6, <1>8, <1>14, <2>1, <2>2 DEF Tidy, IsOpen
<1>17. Tidy(f) /\ (IsSilent(f) <=> IsSilent(old))
  <2>1. ~IsOpen(old)
    BY <1>2, <1>3
  <2> QED
    BY <1>3, <1>11, <2>1 DEF Tidy, IsOpen, IsSilent
<1>18. \A k \in DOMAIN clients :
          /\ Tidy(clients'[k]) /\ clients'[k].sock = clients[k].sock
          /\ IsSilent(clients'[k]) <=> IsSilent(clients[k])
  <2> TAKE k \in DOMAIN clients
  <2>1. CASE k = pos
    BY <1>8, <1>13, <1>16, <2>1
  <2>2. CASE k = o
    BY <1>11, <1>13, <1>17, <2>2
  <2>3. CASE k \notin {pos, o}
    BY <1>2, <1>13, <2>3
  <2> QED
    BY <2>1, <2>2, <2>3
<1> QED
  BY <1>8, <1>12, <1>13, <1>15, <1>18 DEF Orderly

===============================================================================
