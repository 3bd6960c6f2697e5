----------------------------- MODULE CarefulProofs -----------------------------
(***************************************************************************)
(* Every step of module Server, with careful peers and a server that is    *)
(* never full, keeps the invariant CInv of module CarefulRequests; what    *)
(* follows from it for the states and for the moves.                       *)
(***************************************************************************)
EXTENDS CarefulRequests

-----------------------------------------------------------------------------
(* All requests of careful peers.                                          *)

\* A request that is no pong is served in an orderly way.
LEMMA RequestOrderly ==
    ASSUME Careful, CInv, NEW r \in Request, Sends(r), RouteRequest(pos, r), r.key # "<"
    PROVE  Orderly
<1>1. Routed(clients[pos], r)
  BY DEF RouteRequest
<1>2. CASE r.key = "c" /\ RequestConnect(pos, r.nick)
  <2>1. r.nick \in Nicks
    BY <1>2 DEF Request, Connect, Move, Plain
  <2>2. CASE TakeNick(pos, r.nick)
    BY <1>2, <2>1, <2>2, TakeNickOrderly
  <2>3. CASE NickUsed(pos, r.nick)
    BY <2>3, NothingOrderly DEF NickUsed, managerVars
  <2>4. CASE ShortReconnect(pos, r.nick)
    BY <1>2, <2>4, ShortReconnectOrderly
  <2>5. CASE TakeOver(pos, r.nick)
    BY <1>2, <2>1, <2>5, TakeOverOrderly
  <2> QED
    BY <1>2, <2>2, <2>3, <2>4, <2>5 DEF RequestConnect
<1>3. CASE r.key = "rd" /\ RequestReady(pos)
  BY <1>1, <1>3, ReadyOrderly
<1>4. CASE r.key = "m" /\ RequestMove(pos, r.outcome)
  BY <1>1, <1>4, MoveOrderly
<1>5. CASE r.key = "l" /\ RequestLeave(pos)
  BY <1>1, <1>5, LeaveOrderly
<1>6. CASE r.key = ">" /\ RequestPing(pos)
  <2>1. /\ clients \in Seq(ClientRecord) /\ pos \in DOMAIN clients
        /\ clients[pos].state \notin {"Pinged", "Lost"}
    BY <1>6, ServedFacts, Vector DEF Present, Away
  <2>2. clients' = [clients EXCEPT ![pos] = clients[pos]] /\ games' = games
    BY <1>6, <2>1 DEF RequestPing
  <2>3. clients' = clients
    BY <2>1, <2>2
  <2> QED
    BY <2>2, <2>3, NothingOrderly
<1>7. CASE r.key = "ch" /\ RequestChat(pos)
  BY <1>7, NothingOrderly DEF RequestChat, managerVars
<1> QED
  BY <1>2, <1>3, <1>4, <1>5, <1>6, <1>7 DEF RouteRequest

\* A pong ends the silence of its sender, who owes no other one.
LEMMA PongStep ==
    ASSUME Careful, CInv, NEW r \in Request, ServeRequest(r), r.key = "<"
    PROVE  /\ Agree(clients', games')
           /\ clients' \in Seq(ClientRecord) /\ DOMAIN clients' = DOMAIN clients
           /\ \A i \in DOMAIN clients : Tidy(clients'[i]) /\ clients'[i].sock = clients[i].sock
           /\ Owned(clients', sockets') /\ Answered(clients', sockets', pending')
           /\ clients'[pos].disc = clients[pos].disc /\ clients'[pos].erase = clients[pos].erase
           /\ \A i \in DOMAIN clients :
                 clients'[i].nick = clients[i].nick /\ Activity(clients'[i]) = Activity(clients[i])
<1> DEFINE c == clients[pos]
           d == SetState(c, c.last)
           s == c.sock
<1>0. Sends(r) /\ RequestPong(pos)
  BY DEF ServeRequest, RouteRequest
<1>1. /\ pos \in DOMAIN clients /\ c \in ClientRecord /\ Tidy(c) /\ IsOpen(c) /\ IsSilent(c)
  BY <1>0, ServedFacts
<1>2. /\ clients \in Seq(ClientRecord) /\ Agree(clients, games)
      /\ \A i \in DOMAIN clients : clients[i] \in ClientRecord /\ Tidy(clients[i])
      /\ \A i, j \in DOMAIN clients :
            IsOpen(clients[i]) /\ clients[i].sock = clients[j].sock => i = j
  BY Vector
<1>3. clients' = [clients EXCEPT ![pos] = d] /\ games' = games /\ sockets' = sockets
  BY <1>0 DEF RequestPong, ServeRequest
<1>4. c.last \in Present /\ c.last \in State /\ Activity(c) = c.last
  BY <1>1 DEF ClientRecord, Present, IsSilent, Activity, Away
<1>5. /\ d \in ClientRecord /\ d.nick = c.nick /\ d.sock = s /\ d.room = c.room
      /\ d.disc = c.disc /\ d.erase = c.erase /\ d.state = c.last /\ d.last = c.last
  BY <1>1, <1>4, SetStateFields
<1> HIDE DEF d
<1>6. Activity(d) = Activity(c) /\ ~IsSilent(d)
  BY <1>4, <1>5 DEF Activity, IsSilent, Present, Away
<1>7. Tidy(d)
  <2>1. c.erase => c.disc
    BY <1>1 DEF Tidy, IsSilent
  <2>2. c.nick = NoNick => c.last = "New" /\ c.room = LobbyRoom
    BY <1>1 DEF Tidy
  <2>3. c.nick # NoNick => Activity(c) # "New"
    BY <1>1 DEF Tidy
  <2> QED
    BY <1>1, <1>5, <1>6, <2>1, <2>2, <2>3 DEF Tidy, IsOpen
<1>8. /\ clients' \in Seq(ClientRecord) /\ DOMAIN clients' = DOMAIN clients
      /\ \A i \in DOMAIN clients : clients'[i] = IF i = pos THEN d ELSE clients[i]
  BY <1>2, <1>3, <1>5, AssignProperties
<1>9. \A i \in DOMAIN clients : SameGame(clients[i], clients'[i])
  BY <1>5, <1>6, <1>8 DEF SameGame
<1>10. Agree(clients', games')
  BY <1>2, <1>3, <1>8, <1>9, AgreeSame
<1>11. \A i \in DOMAIN clients :
          /\ Tidy(clients'[i]) /\ clients'[i].sock = clients[i].sock
          /\ IsOpen(clients'[i]) <=> IsOpen(clients[i])
  BY <1>2, <1>5, <1>7, <1>8 DEF IsOpen
<1>12. Owned(clients', sockets')
  BY <1>3, <1>8, <1>11 DEF CInv, Owned
<1>13. /\ pending' \in [Descriptors -> 0..MaxPending] /\ pending'[s] = 0
       /\ \A x \in Descriptors : x # s => pending'[x] = pending[x]
  <2>1. pending \in [Descriptors -> 0..1] /\ MaxPending = 1
    BY DEF CInv, IInv, Threads, Careful, OnePong
  <2>2. s \in sockets /\ s \in Descriptors
    BY <1>1 DEF CInv, IInv, Safe, Threads
  <2>3. pending[s] > 0
    BY <1>1 DEF CInv, Answered
  <2>4. pending[s] = 1
    BY <2>1, <2>2, <2>3
  <2>5. pending' = [pending EXCEPT ![s] = 0]
    BY <2>4 DEF ServeRequest
  <2> HIDE DEF s
  <2> QED
    BY <2>1, <2>2, <2>5
<1>14. Answered(clients', sockets', pending')
  <2>1. ASSUME NEW i \in DOMAIN clients', IsOpen(clients'[i])
        PROVE  pending'[clients'[i].sock] > 0 <=> IsSilent(clients'[i])
    <3>1. CASE i = pos
      BY <1>5, <1>6, <1>8, <1>13, <3>1
    <3>2. CASE i # pos
      <4>1. /\ clients'[i] = clients[i] /\ IsOpen(clients[i]) /\ clients[i].sock # s
            /\ i \in DOMAIN clients
        BY <1>1, <1>2, <1>8, <2>1, <3>2
      <4>2. clients[i].sock \in Descriptors
        BY <4>1 DEF CInv, IInv, Safe, Threads
      <4>3. pending[clients[i].sock] > 0 <=> IsSilent(clients[i])
        BY <4>1 DEF CInv, Answered
      <4> QED
        BY <1>13, <4>1, <4>2, <4>3
    <3> QED
      BY <3>1, <3>2
  <2>2. \A x \in Descriptors \ sockets : pending'[x] = 0
    BY <1>13 DEF CInv, Answered
  <2> QED
    BY <1>3, <2>1, <2>2 DEF Answered
<1>15. \A i \in DOMAIN clients :
          clients'[i].nick = clients[i].nick /\ Activity(clients'[i]) = Activity(clients[i])
  BY <1>5, <1>6, <1>8
<1> QED
  BY <1>1, <1>5, <1>8, <1>10, <1>11, <1>12, <1>14, <1>15

\* Everything the handler of a request dereferences is there.
LEMMA RequestIsDefined ==
    ASSUME Careful, CInv, NEW r \in Request, Sends(r), Routed(clients[pos], r)
    PROVE  DefinedRequest(pos, r)
<1> DEFINE c == clients[pos]
<1>1. /\ pos \in DOMAIN clients /\ c \in ClientRecord /\ Tidy(c) /\ IsOpen(c)
  BY ServedFacts
<1>2. /\ clients \in Seq(ClientRecord) /\ Agree(clients, games) /\ NicksDiffer(clients)
      /\ DOMAIN clients = 1..Len(clients)
      /\ \A i \in DOMAIN clients : clients[i] \in ClientRecord
  BY Vector
<1>3. r.key = "c" => DefinedConnect(pos, r.nick)
  <2> SUFFICES ASSUME r.key = "c", Namesakes(pos, r.nick) # {}
               PROVE  LET old  == clients[Namesake(pos, r.nick)]
                          room == IF old.state \in {"Pinged", "Lost"} THEN c.room ELSE old.room
                      IN  \/ old.state \in {"Waiting"} \cup Playing
                          \/ room = LobbyRoom
                          \/ HasRoom(games, room)
    BY DEF DefinedConnect
  <2> DEFINE o == Namesake(pos, r.nick)
  <2>1. r.nick \in Nicks /\ r.nick # NoNick
    BY NoNickAssumption DEF Request, Connect, Move, Plain
  <2>2. o \in DOMAIN clients /\ clients[o].nick = r.nick
    BY <1>2, NamesakeProperties
  <2>3. c.room = LobbyRoom
    BY <1>1, ServedFacts, Nameless
  <2> HIDE DEF o
  <2>4. clients[o].room # LobbyRoom => HasRoom(games, clients[o].room)
    BY <1>2, <2>1, <2>2, RoomOfPlayer
  <2> QED
    BY <2>3, <2>4 DEF o
<1>4. r.key = "m" => DefinedMove(pos, r.outcome)
  BY MoveFields DEF DefinedMove
<1>5. r.key = "l" => HasOpponent(clients, c)
  <2> SUFFICES ASSUME r.key = "l" PROVE HasOpponent(clients, c)
    OBVIOUS
  <2>1. c.nick # NoNick /\ c.state \in Playing
    BY ServedFacts
  <2>2. Activity(c) \in Playing
    BY <2>1 DEF Activity, Playing, Away
  <2> QED
    BY <1>1, <1>2, <2>1, <2>2, Opponents
<1>6. r.key = "ch" => HasRoom(games, c.room)
  <2> SUFFICES ASSUME r.key = "ch" PROVE HasRoom(games, c.room)
    OBVIOUS
  <2>1. c.nick # NoNick /\ c.state \in Playing
    BY ServedFacts
  <2>2. Activity(c) \in Playing
    BY <2>1 DEF Activity, Playing, Away
  <2> QED
    BY <1>1, <1>2, <2>1, <2>2, RoomOfPlayer
<1> QED
  BY <1>3, <1>4, <1>5, <1>6 DEF DefinedRequest

-----------------------------------------------------------------------------
(* Closing a connection.                                                   *)

\* The room of a player whose connection is closed is there.
LEMMA CloseIsDefined ==
    ASSUME CInv, NEW i \in DOMAIN clients
    PROVE  DefinedClose(clients[i])
<1> DEFINE c == clients[i]
<1> SUFFICES ASSUME IsOpen(c), Closed(c).last \in Playing PROVE HasRoom(games, c.room)
  BY DEF DefinedClose
<1>1. /\ clients \in Seq(ClientRecord) /\ Agree(clients, games) /\ NicksDiffer(clients)
      /\ c \in ClientRecord /\ Tidy(c)
  BY Vector
<1>2. Activity(c) \in Playing
  BY <1>1, ClosedFields
<1>3. c.nick # NoNick
  BY <1>1, <1>2, Nameless DEF Playing
<1> QED
  BY <1>1, <1>2, <1>3, RoomOfPlayer

\* A closed instance is disconnected and in its game as before, whether its
\* flag is reset or not.
LEMMA ClosedIsTidy ==
    ASSUME NEW c \in ClientRecord, Tidy(c), NEW e,
           e \in {Closed(c), [Closed(c) EXCEPT !.disc = FALSE]}
    PROVE  /\ e \in ClientRecord /\ Tidy(e) /\ SameGame(c, e)
           /\ e.nick = c.nick /\ e.state = "Disconnected" /\ ~IsOpen(e)
<1>1. /\ Closed(c) \in ClientRecord
      /\ Closed(c).nick = c.nick /\ Closed(c).room = c.room
      /\ Closed(c).state = "Disconnected" /\ ~IsOpen(Closed(c))
      /\ Activity(Closed(c)) = Activity(c)
  <2>1. CASE IsOpen(c)
    BY <2>1, ClosedFields
  <2>2. CASE ~IsOpen(c)
    BY <2>2 DEF Closed, Tidy
  <2> QED
    BY <2>1, <2>2
<1>2. /\ e \in ClientRecord /\ e.nick = c.nick /\ e.room = c.room
      /\ e.state = "Disconnected" /\ ~IsOpen(e) /\ Activity(e) = Activity(c)
  <2>1. CASE e = Closed(c)
    BY <1>1, <2>1
  <2>2. CASE e = [Closed(c) EXCEPT !.disc = FALSE]
    BY <1>1, <2>2 DEF ClientRecord, IsOpen, Activity
  <2> QED
    BY <2>1, <2>2
<1>3. Tidy(e)
  BY <1>2 DEF Tidy
<1> QED
  BY <1>2, <1>3 DEF SameGame

\* What is left when the connection of instance i is closed.
LEMMA CloseCareful ==
    ASSUME CInv, NEW i \in DOMAIN clients, NEW e,
           e \in {Closed(clients[i]), [Closed(clients[i]) EXCEPT !.disc = FALSE]},
           ReleaseSocket(clients[i])
    PROVE  LET ds == [clients EXCEPT ![i] = e]
           IN  /\ ds \in Seq(ClientRecord) /\ Len(ds) = Len(clients) /\ DOMAIN ds = DOMAIN clients
               /\ Agree(ds, games) /\ NicksDiffer(ds)
               /\ \A k \in DOMAIN ds : Tidy(ds[k])
               /\ Owned(ds, sockets') /\ Answered(ds, sockets', pending')
               /\ ds[i].state = "Disconnected" /\ ~IsOpen(ds[i])
<1> DEFINE ds == [clients EXCEPT ![i] = e]
           s  == clients[i].sock
<1>1. /\ clients \in Seq(ClientRecord) /\ Agree(clients, games) /\ NicksDiffer(clients)
      /\ \A k \in DOMAIN clients : clients[k] \in ClientRecord /\ Tidy(clients[k])
      /\ \A k, l \in DOMAIN clients :
            IsOpen(clients[k]) /\ clients[k].sock = clients[l].sock => k = l
  BY Vector
<1>2. /\ e \in ClientRecord /\ Tidy(e) /\ SameGame(clients[i], e)
      /\ e.nick = clients[i].nick /\ e.state = "Disconnected" /\ ~IsOpen(e)
  BY <1>1, ClosedIsTidy
<1>3. /\ ds \in Seq(ClientRecord) /\ Len(ds) = Len(clients) /\ DOMAIN ds = DOMAIN clients
      /\ \A k \in DOMAIN clients : ds[k] = IF k = i THEN e ELSE clients[k]
  BY <1>1, <1>2, AssignProperties
<1> HIDE DEF ds
<1>4. \A k \in DOMAIN clients : SameGame(clients[k], ds[k]) /\ ds[k].nick = clients[k].nick
  BY <1>2, <1>3 DEF SameGame
<1>5. Agree(ds, games)
  BY <1>1, <1>3, <1>4, AgreeSame
<1>6. NicksDiffer(ds)
  BY <1>1, <1>3, <1>4 DEF NicksDiffer
<1>7. \A k \in DOMAIN ds : Tidy(ds[k])
  BY <1>1, <1>2, <1>3
<1>8. /\ sockets' = sockets \ {s}
      /\ \A x \in Descriptors : pending'[x] = IF x = s THEN 0 ELSE pending[x]
  BY DEF ReleaseSocket
<1>9. sockets \subseteq Descriptors
  BY DEF CInv, IInv, Threads
<1>10. Owned(ds, sockets')
  <2> SUFFICES ASSUME NEW x \in sockets, x # s PROVE \E k \in DOMAIN ds : ds[k].sock = x
    BY <1>8 DEF Owned
  <2>1. PICK k \in DOMAIN clients : clients[k].sock = x
    BY DEF CInv, Owned
  <2>2. k # i
    BY <2>1
  <2> QED
    BY <1>3, <2>1, <2>2
<1>11. Answered(ds, sockets', pending')
  <2>1. ASSUME NEW k \in DOMAIN ds, IsOpen(ds[k])
        PROVE  pending'[ds[k].sock] > 0 <=> IsSilent(ds[k])
    <3>1. k # i /\ k \in DOMAIN clients /\ ds[k] = clients[k]
      BY <1>2, <1>3, <2>1
    <3>2. clients[k].sock # s /\ clients[k].sock \in Descriptors
      BY <1>1, <1>9, <2>1, <3>1 DEF CInv, IInv, Safe
    <3>3. pending[clients[k].sock] > 0 <=> IsSilent(clients[k])
      BY <2>1, <3>1 DEF CInv, Answered
    <3> QED
      BY <1>8, <3>1, <3>2, <3>3
  <2>2. \A x \in Descriptors \ sockets' : pending'[x] = 0
    BY <1>8 DEF CInv, Answered
  <2> QED
    BY <2>1, <2>2 DEF Answered
<1> QED
  BY <1>2, <1>3, <1>5, <1>6, <1>7, <1>10, <1>11 DEF ds

-----------------------------------------------------------------------------
(* Erasing an instance.                                                    *)

\* The opponent of a disconnected player who is erased is there.
LEMMA EraseIsDefined ==
    ASSUME NEW cs \in Seq(ClientRecord), Agree(cs, games), NicksDiffer(cs),
           NEW i \in DOMAIN cs, cs[i].state = "Disconnected"
    PROVE  DefinedErase(cs, i)
<1> SUFFICES ASSUME LeavesGameWhenErased(cs[i]) PROVE HasOpponent(cs, cs[i])
  BY DEF DefinedErase
<1>1. cs[i].nick # NoNick /\ Activity(cs[i]) \in Playing
  BY DEF LeavesGameWhenErased, Activity, Away
<1> QED
  BY <1>1, Opponents

\* An instance that is in no game, and has no connection, can go.
LEMMA RemoveCareful ==
    ASSUME NEW cs \in Seq(ClientRecord), NEW gs, Agree(cs, gs),
           \A k \in DOMAIN cs : Tidy(cs[k]),
           NEW ss, NEW pn, ss \subseteq Descriptors, Owned(cs, ss), Answered(cs, ss, pn),
           NEW i \in 1..Len(cs), ~IsOpen(cs[i]),
           cs[i].nick = NoNick \/ Activity(cs[i]) \notin Playing
    PROVE  LET ds == RemoveAt(cs, i)
           IN  /\ Len(ds) = Len(cs) - 1 /\ Agree(ds, gs)
               /\ \A k \in DOMAIN ds : Tidy(ds[k])
               /\ Owned(ds, ss) /\ Answered(ds, ss, pn)
<1> DEFINE ds == RemoveAt(cs, i)
           Old(k) == IF k < i THEN k ELSE k + 1
           New(k) == IF k < i THEN k ELSE k - 1
<1>1. /\ ds \in Seq(ClientRecord) /\ Len(ds) = Len(cs) - 1 /\ Len(cs) \in Nat
      /\ \A k \in 1..(Len(cs) - 1) : ds[k] = IF k < i THEN cs[k] ELSE cs[k + 1]
  <2>1. Len(cs) \in Nat
    OBVIOUS
  <2> QED
    BY <2>1, RemoveAtProperties
<1>2. DOMAIN cs = 1..Len(cs) /\ DOMAIN ds = 1..(Len(cs) - 1)
  BY <1>1
<1>3. Agree(ds, gs)
  BY AgreeRemove
<1> HIDE DEF ds
<1>4. \A k \in DOMAIN ds : Old(k) \in DOMAIN cs /\ ds[k] = cs[Old(k)]
  BY <1>1, <1>2
<1>5. \A k \in DOMAIN cs : k # i => New(k) \in DOMAIN ds /\ ds[New(k)] = cs[k]
  BY <1>1, <1>2
<1> HIDE DEF Old, New
<1>6. \A k \in DOMAIN ds : Tidy(ds[k])
  BY <1>4
<1>7. Owned(ds, ss)
  <2> SUFFICES ASSUME NEW x \in ss PROVE \E k \in DOMAIN ds : ds[k].sock = x
    BY DEF Owned
  <2>1. PICK k \in DOMAIN cs : cs[k].sock = x
    BY DEF Owned
  <2>2. x > 0
    BY DEF Descriptors
  <2>3. k # i
    BY <2>1, <2>2 DEF IsOpen
  <2> QED
    BY <1>5, <2>1, <2>3
<1>8. Answered(ds, ss, pn)
  BY <1>4 DEF Answered
<1> QED
  BY <1>1, <1>3, <1>6, <1>7, <1>8 DEF ds

\* eraseClient for a disconnected instance.
LEMMA EraseCareful ==
    ASSUME NEW cs \in Seq(ClientRecord), Agree(cs, games), NicksDiffer(cs),
           \A k \in DOMAIN cs : Tidy(cs[k]),
           NEW ss, NEW pn, ss \subseteq Descriptors, Owned(cs, ss), Answered(cs, ss, pn),
           NEW i \in DOMAIN cs, cs[i].state = "Disconnected", ~IsOpen(cs[i]),
           EraseClient(cs, i)
    PROVE  /\ Len(clients') = Len(cs) - 1 /\ Agree(clients', games')
           /\ \A k \in DOMAIN clients' : Tidy(clients'[k])
           /\ Owned(clients', ss) /\ Answered(clients', ss, pn)
<1> DEFINE c  == cs[i]
           o  == FindClientByNick(cs, OpponentOf(games, c))
           es == BothToLobby(cs, i, o)
<1>1. i \in 1..Len(cs)
  OBVIOUS
<1>2. CASE LeavesGameWhenErased(c)
  <2>1. c.nick # NoNick /\ Activity(c) \in Playing
    BY <1>2 DEF LeavesGameWhenErased, Activity, Away
  <2>2. clients' = RemoveAt(es, i) /\ games' = RemoveRoom(games, c.room)
    BY <1>2 DEF EraseClient
  <2>3. /\ Agree(es, RemoveRoom(games, c.room))
        /\ es \in Seq(ClientRecord) /\ Len(es) = Len(cs) /\ DOMAIN es = DOMAIN cs
        /\ \A k \in DOMAIN cs :
              \/ es[k] = cs[k]
              \/ Steady(cs[k], es[k]) /\ cs[k].nick # NoNick /\ Activity(es[k]) = "Waiting"
        /\ Activity(es[i]) = "Waiting"
    BY <2>1, GameEnds
  <2> HIDE DEF es
  <2>4. \A k \in DOMAIN cs :
           Tidy(es[k]) /\ es[k].sock = cs[k].sock /\ (IsSilent(es[k]) <=> IsSilent(cs[k]))
    <3> TAKE k \in DOMAIN cs
    <3>1. CASE es[k] = cs[k]
      BY <3>1
    <3>2. CASE Steady(cs[k], es[k]) /\ cs[k].nick # NoNick /\ Activity(es[k]) = "Waiting"
      <4>1. Tidy(es[k])
        BY <3>2, TidySteady
      <4> QED
        BY <3>2, <4>1 DEF Steady
    <3> QED
      BY <2>3, <3>1, <3>2
  <2>5. Owned(es, ss) /\ Answered(es, ss, pn)
    BY <2>3, <2>4, AnsweredKept
  <2>6. ~IsOpen(es[i]) /\ Activity(es[i]) \notin Playing
    BY <2>3, <2>4 DEF IsOpen, Playing
  <2>7. i \in 1..Len(es) /\ \A k \in DOMAIN es : Tidy(es[k])
    BY <1>1, <2>3, <2>4
  <2> DEFINE gs == RemoveRoom(games, c.room)
  <2>8. Agree(es, gs)
    BY <2>3
  <2> HIDE DEF gs
  <2>9. /\ Len(RemoveAt(es, i)) = Len(es) - 1 /\ Agree(RemoveAt(es, i), gs)
        /\ \A k \in DOMAIN RemoveAt(es, i) : Tidy(RemoveAt(es, i)[k])
        /\ Owned(RemoveAt(es, i), ss) /\ Answered(RemoveAt(es, i), ss, pn)
    BY <2>3, <2>5, <2>6, <2>7, <2>8, RemoveCareful
  <2> QED
    BY <2>2, <2>3, <2>9 DEF gs
<1>3. CASE ~LeavesGameWhenErased(c)
  <2>1. clients' = RemoveAt(cs, i) /\ games' = games
    BY <1>3 DEF EraseClient
  <2>2. c.nick = NoNick \/ Activity(c) \notin Playing
    <3>1. HasGame(c, games) /\ Activity(c) = c.last
      BY DEF Agree, Activity, Away
    <3> QED
      BY <1>3, <3>1 DEF HasGame, LeavesGameWhenErased
  <2> QED
    BY <1>1, <2>1, <2>2, RemoveCareful
<1> QED
  BY <1>2, <1>3

-----------------------------------------------------------------------------
(* The ping thread.                                                        *)

\* A connected instance is silent when it was, or has now been sent a ping.
LEMMA PingOneFields ==
    ASSUME NEW c \in ClientRecord, Tidy(c), c.state = "Disconnected" <=> ~IsOpen(c)
    PROVE  LET d == PingOne(c)
           IN  /\ d \in ClientRecord /\ d.sock = c.sock
               /\ Tidy(d) /\ SameGame(c, d)
               /\ IsOpen(c) => (IsSilent(d) <=> IsSilent(c) \/ SendsPing(c))
<1> DEFINE d == PingOne(c)
<1>1. CASE IsUseless(c)
  <2>1. d = [c EXCEPT !.disc = TRUE, !.erase = TRUE]
    BY <1>1 DEF PingOne, MarkUseless
  <2> HIDE DEF d
  <2>2. /\ d \in ClientRecord /\ d.nick = c.nick /\ d.room = c.room /\ d.sock = c.sock
        /\ d.state = c.state /\ d.last = c.last /\ d.disc = TRUE
    BY <2>1 DEF ClientRecord
  <2>3. Tidy(d) /\ SameGame(c, d) /\ (IsSilent(d) <=> IsSilent(c)) /\ ~SendsPing(c)
    BY <1>1, <2>2 DEF Tidy, SameGame, IsSilent, SendsPing, Activity, IsOpen
  <2> QED
    BY <2>2, <2>3 DEF d
<1>2. CASE ~IsUseless(c) /\ c.state = "Pinged"
  <2>1. d = SetState(c, "Lost")
    BY <1>2 DEF PingOne
  <2>2. c.nick # NoNick
    BY <1>2 DEF IsUseless
  <2>3. /\ d \in ClientRecord /\ d.nick = c.nick /\ d.room = c.room /\ d.sock = c.sock
        /\ d.disc = c.disc /\ d.erase = c.erase /\ d.state = "Lost" /\ d.last = Activity(c)
    BY <2>1, SetStateFields DEF State
  <2> HIDE DEF d
  <2>4. Activity(d) = Activity(c) /\ IsSilent(d) /\ IsSilent(c)
    BY <1>2, <2>3 DEF Activity, IsSilent, Away
  <2>5. Tidy(d) /\ SameGame(c, d)
    BY <1>2, <2>2, <2>3, <2>4 DEF Tidy, SameGame, IsOpen
  <2> QED
    BY <2>3, <2>4, <2>5 DEF d
<1>3. CASE ~IsUseless(c) /\ c.state = "Lost"
  <2>1. d = [c EXCEPT !.disc = TRUE]
    BY <1>3 DEF PingOne, MarkNotResponding
  <2> HIDE DEF d
  <2>2. /\ d \in ClientRecord /\ d.nick = c.nick /\ d.room = c.room /\ d.sock = c.sock
        /\ d.state = c.state /\ d.last = c.last /\ d.disc = TRUE
    BY <2>1 DEF ClientRecord
  <2>3. Tidy(d) /\ SameGame(c, d) /\ IsSilent(d) /\ IsSilent(c)
    BY <1>3, <2>2 DEF Tidy, SameGame, IsSilent, Activity, IsOpen
  <2> QED
    BY <2>2, <2>3 DEF d
<1>4. CASE ~IsUseless(c) /\ c.state = "Disconnected"
  <2>1. d = [c EXCEPT !.pings = c.pings - 1, !.erase = c.erase \/ c.pings = 1]
    BY <1>4 DEF PingOne, CountDown
  <2>2. c.pings - 1 \in Int /\ (c.erase \/ c.pings = 1) \in BOOLEAN
    BY DEF ClientRecord
  <2> HIDE DEF d
  <2>3. /\ d \in ClientRecord /\ d.nick = c.nick /\ d.room = c.room /\ d.sock = c.sock
        /\ d.state = c.state /\ d.last = c.last
    BY <2>1, <2>2 DEF ClientRecord
  <2>4. Tidy(d) /\ SameGame(c, d)
    BY <1>4, <2>3 DEF Tidy, SameGame, Activity, IsOpen
  <2> QED
    BY <1>4, <2>3, <2>4 DEF d
<1>5. CASE ~IsUseless(c) /\ c.state \notin {"Pinged", "Lost", "Disconnected"}
  <2>1. d = SetState(c, "Pinged")
    BY <1>5 DEF PingOne
  <2>2. /\ d \in ClientRecord /\ d.nick = c.nick /\ d.room = c.room /\ d.sock = c.sock
        /\ d.disc = c.disc /\ d.erase = c.erase /\ d.state = "Pinged" /\ d.last = Activity(c)
    BY <2>1, SetStateFields DEF State
  <2> HIDE DEF d
  <2>3. Activity(d) = Activity(c) /\ IsSilent(d) /\ Activity(c) = c.state /\ IsOpen(c)
    BY <1>5, <2>2 DEF Activity, IsSilent, Away
  <2>4. SendsPing(c)
    BY <1>5, <2>3 DEF SendsPing
  <2>5. Tidy(d) /\ SameGame(c, d)
    BY <1>5, <2>2, <2>3 DEF Tidy, SameGame, IsOpen
  <2> QED
    BY <2>2, <2>3, <2>4, <2>5 DEF d
<1> QED
  BY <1>1, <1>2, <1>3, <1>4, <1>5

\* The opponent of a player who becomes Lost is looked up in a room that is there.
LEMMA PingIsDefined ==
    ASSUME CInv, NEW i \in DOMAIN clients
    PROVE  DefinedPing(clients[i])
<1> DEFINE c == clients[i]
<1> SUFFICES ASSUME ~IsUseless(c), c.state = "Pinged", c.last \in Playing
             PROVE  HasRoom(games, c.room)
  BY DEF DefinedPing
<1>1. /\ clients \in Seq(ClientRecord) /\ Agree(clients, games) /\ NicksDiffer(clients)
      /\ c.state = "Disconnected" <=> ~IsOpen(c)
  BY Vector
<1>2. c.nick # NoNick /\ Activity(c) \in Playing
  BY <1>1 DEF IsUseless, Activity, Away
<1> QED
  BY <1>1, <1>2, RoomOfPlayer

LEMMA PingThreadCareful == Careful /\ CInv /\ PingThread => CInv'
<1> SUFFICES ASSUME Careful, CInv, PingThread PROVE CInv'
  OBVIOUS
<1>1. /\ clients \in Seq(ClientRecord) /\ Agree(clients, games)
      /\ Len(clients) \in Nat /\ DOMAIN clients = 1..Len(clients)
      /\ \A i \in DOMAIN clients : clients[i] \in ClientRecord /\ Tidy(clients[i])
      /\ \A i \in DOMAIN clients : clients[i].state = "Disconnected" <=> ~IsOpen(clients[i])
      /\ \A i, j \in DOMAIN clients :
            IsOpen(clients[i]) /\ clients[i].sock = clients[j].sock => i = j
  BY Vector
<1>2. PingClients
  BY PingIsDefined DEF PingThread, UndefinedPing
<1>3. /\ pc = "select" /\ pc' = "select" /\ games' = games /\ sockets' = sockets
      /\ clients' = [i \in 1..Len(clients) |-> PingOne(clients[i])]
  BY <1>1, <1>2 DEF PingClients
<1>4. \A i \in DOMAIN clients :
         /\ clients'[i] \in ClientRecord /\ clients'[i].sock = clients[i].sock
         /\ Tidy(clients'[i]) /\ SameGame(clients[i], clients'[i])
         /\ IsOpen(clients[i]) => (IsSilent(clients'[i]) <=> IsSilent(clients[i]) \/ SendsPing(clients[i]))
  BY <1>1, <1>3, PingOneFields
<1>5. clients' \in Seq(ClientRecord) /\ Len(clients') = Len(clients) /\ DOMAIN clients' = DOMAIN clients
  <2>1. clients' \in [1..Len(clients) -> ClientRecord]
    BY <1>1, <1>3, <1>4
  <2> QED
    BY <1>1, <2>1, VectorOfFunction
<1>6. Agree(clients', games')
  BY <1>1, <1>3, <1>4, <1>5, AgreeSame
<1>7. Owned(clients', sockets')
  BY <1>3, <1>4, <1>5 DEF CInv, Owned
<1>8. sockets \subseteq Descriptors /\ MaxPending = 1 /\ pending \in [Descriptors -> 0..1]
  BY DEF CInv, IInv, Threads, Careful, OnePong
<1> DEFINE Asked(s) == \E i \in DOMAIN clients : SendsPing(clients[i]) /\ clients[i].sock = s
<1>9. \A s \in Descriptors : pending'[s] = IF Asked(s) /\ pending[s] < 1 THEN pending[s] + 1
                                                                       ELSE pending[s]
  BY <1>2, <1>8 DEF PingClients
<1>10. \A s \in Descriptors : pending'[s] > 0 <=> pending[s] > 0 \/ Asked(s)
  <2> TAKE s \in Descriptors
  <2>1. pending[s] \in 0..1
    BY <1>8
  <2> HIDE DEF Asked
  <2> QED
    BY <1>9, <2>1
<1>11. Answered(clients', sockets', pending')
  <2>1. ASSUME NEW i \in DOMAIN clients', IsOpen(clients'[i])
        PROVE  pending'[clients'[i].sock] > 0 <=> IsSilent(clients'[i])
    <3>1. i \in DOMAIN clients /\ IsOpen(clients[i]) /\ clients'[i].sock = clients[i].sock
      BY <1>4, <1>5, <2>1 DEF IsOpen
    <3>2. clients[i].sock \in Descriptors
      BY <1>8, <3>1 DEF CInv, IInv, Safe
    <3>3. Asked(clients[i].sock) <=> SendsPing(clients[i])
      BY <1>1, <3>1
    <3>4. pending[clients[i].sock] > 0 <=> IsSilent(clients[i])
      BY <3>1 DEF CInv, Answered
    <3> HIDE DEF Asked
    <3> QED
      BY <1>4, <1>10, <3>1, <3>2, <3>3, <3>4
  <2>2. ASSUME NEW s \in Descriptors \ sockets
        PROVE  pending'[s] = 0
    <3>1. ~Asked(s)
      BY DEF SendsPing, CInv, IInv, Safe
    <3>2. pending[s] = 0
      BY DEF CInv, Answered
    <3> HIDE DEF Asked
    <3> QED
      BY <1>9, <3>1, <3>2
  <2> QED
    BY <1>3, <2>1, <2>2 DEF Answered
<1>12. IInv'
  BY PingThreadStep DEF CInv
<1>13. pc' # "undefined" /\ Serving' /\ Len(clients') <= MaxInstances
  BY <1>3, <1>5 DEF Serving, CInv
<1> QED
  BY <1>4, <1>5, <1>6, <1>7, <1>11, <1>12, <1>13 DEF CInv

-----------------------------------------------------------------------------
(* Select and the check of the capacity.                                   *)

\* A step that changes neither the instances, nor the rooms, nor the descriptors.
LEMMA ControlCareful ==
    ASSUME CInv, IInv', UNCHANGED <<managerVars, sockets, pending>>,
           pc' \notin {"undefined", "serve"}
    PROVE  CInv'
<1>1. clients' = clients /\ games' = games /\ sockets' = sockets /\ pending' = pending
  BY DEF managerVars
<1>2. Agree(clients', games') /\ \A i \in DOMAIN clients' : Tidy(clients'[i])
  BY <1>1 DEF CInv
<1>3. Owned(clients', sockets') /\ Answered(clients', sockets', pending')
  BY <1>1 DEF CInv
<1>4. Len(clients') <= MaxInstances /\ pc' # "undefined" /\ Serving'
  BY <1>1 DEF CInv, Serving
<1> QED
  BY <1>2, <1>3, <1>4 DEF CInv

LEMMA SelectCareful == CInv /\ Select => CInv'
<1> SUFFICES ASSUME CInv, Select PROVE CInv'
  OBVIOUS
<1>0. IInv'
  BY SelectStep DEF CInv
<1>1. CASE NoConnection \/ Interrupt
  BY <1>0, <1>1, ControlCareful DEF NoConnection, Interrupt
<1>2. ASSUME NEW ip \in IPs, AcceptConnection(ip)
      PROVE  CInv'
  <2> DEFINE free == Descriptors \ sockets
             sock == Min(free)
             new  == NewClient(ip, sock)
  <2>1. /\ clients \in Seq(ClientRecord) /\ Agree(clients, games)
        /\ Len(clients) \in Nat /\ DOMAIN clients = 1..Len(clients)
        /\ \A i \in DOMAIN clients : clients[i] \in ClientRecord /\ Tidy(clients[i])
    BY Vector
  <2>2. /\ clients' = Append(clients, new) /\ games' = games
        /\ sockets' = sockets \cup {sock} /\ pending' = pending /\ pc' = "capacity"
        /\ Len(clients) < MaxInstances
    BY <1>2 DEF AcceptConnection, CreateClient
  <2>3. sock \in Descriptors /\ sock \notin sockets /\ sock \in Int /\ sock > 0
    <3>1. free # {} /\ free \subseteq Nat
      BY <1>2 DEF AcceptConnection, Descriptors
    <3>2. sock \in free
      BY <3>1, MinProperties
    <3> QED
      BY <3>2 DEF Descriptors
  <2> HIDE DEF sock
  <2>4. /\ new \in ClientRecord /\ new.nick = NoNick /\ new.sock = sock /\ Tidy(new)
        /\ ~IsSilent(new)
    <3>1. LongPing \in Int /\ LobbyRoom \in Nat /\ "New" \in State /\ "New" \in Present
      BY LongPingAssumption DEF State, Present, Away, LobbyRoom
    <3>2. new \in ClientRecord
      BY <2>3, <3>1 DEF NewClient, ClientRecord
    <3>3. /\ new.nick = NoNick /\ new.sock = sock /\ new.room = LobbyRoom
          /\ new.state = "New" /\ new.last = "New" /\ new.erase = FALSE
      BY DEF NewClient
    <3>4. IsOpen(new)
      BY <2>3, <3>3 DEF IsOpen
    <3> HIDE DEF new
    <3> QED
      BY <3>2, <3>3, <3>4 DEF Tidy, IsSilent
  <2> HIDE DEF new
  <2>5. /\ DOMAIN clients' = 1..(Len(clients) + 1) /\ Len(clients') = Len(clients) + 1
        /\ \A i \in DOMAIN clients : clients'[i] = clients[i]
        /\ clients'[Len(clients) + 1] = new
    <3>1. /\ Append(clients, new) \in Seq(ClientRecord)
          /\ Len(Append(clients, new)) = Len(clients) + 1
          /\ \A i \in 1..Len(clients) : Append(clients, new)[i] = clients[i]
          /\ Append(clients, new)[Len(clients) + 1] = new
      BY <2>1, <2>4, AppendElements
    <3> QED
      BY <2>1, <2>2, <3>1
  <2>6. Agree(clients', games')
    BY <2>1, <2>2, <2>4, AgreeAppend
  <2>7. \A i \in DOMAIN clients' : i \in DOMAIN clients \/ i = Len(clients) + 1
    BY <2>1, <2>5
  <2>8. \A i \in DOMAIN clients' : Tidy(clients'[i])
    BY <2>1, <2>4, <2>5, <2>7
  <2>9. Owned(clients', sockets')
    <3>1. Len(clients) + 1 \in DOMAIN clients' /\ clients'[Len(clients) + 1].sock = sock
      BY <2>1, <2>4, <2>5
    <3>2. \A i \in DOMAIN clients : i \in DOMAIN clients' /\ clients'[i].sock = clients[i].sock
      BY <2>1, <2>5
    <3> QED
      BY <2>2, <3>1, <3>2 DEF CInv, Owned
  <2>10. Answered(clients', sockets', pending')
    <3>1. pending[sock] = 0
      BY <2>3 DEF CInv, Answered
    <3>2. ASSUME NEW i \in DOMAIN clients', IsOpen(clients'[i])
          PROVE  pending'[clients'[i].sock] > 0 <=> IsSilent(clients'[i])
      <4>1. CASE i \in DOMAIN clients
        BY <2>2, <2>5, <3>2, <4>1 DEF CInv, Answered
      <4>2. CASE i = Len(clients) + 1
        BY <2>2, <2>4, <2>5, <3>1, <4>2
      <4> QED
        BY <2>7, <4>1, <4>2
    <3>3. \A s \in Descriptors \ sockets' : pending'[s] = 0
      BY <2>2 DEF CInv, Answered
    <3> QED
      BY <3>2, <3>3 DEF Answered
  <2>11. Len(clients') <= MaxInstances /\ pc' # "undefined" /\ Serving'
    BY <2>1, <2>2, <2>5, BoundsAssumption DEF Serving
  <2> QED
    BY <1>0, <2>6, <2>8, <2>9, <2>10, <2>11 DEF CInv
<1> QED
  BY <1>1, <1>2 DEF Select

\* There is a place for everybody.
LEMMA NotFull == Careful /\ CInv => ~Full
<1> SUFFICES ASSUME Careful, CInv PROVE ~Full
  OBVIOUS
<1>1. /\ Len(clients) \in Nat /\ Len(clients) <= MaxInstances
      /\ MaxInstances \in Nat /\ MaxClients \in Nat /\ MaxInstances <= MaxClients
  BY Vector, BoundsAssumption, MaxClientsAssumption DEF CInv, Careful, NeverFull
<1> QED
  BY <1>1 DEF Full

LEMMA CapacityCareful == Careful /\ CInv /\ Capacity => CInv'
<1> SUFFICES ASSUME Careful, CInv, Capacity PROVE CInv'
  OBVIOUS
<1>1. ~Full
  BY NotFull
<1>2. HasCapacity
  BY <1>1 DEF Capacity, EvictLongestDisconnected, RefuseConnection
<1>3. IInv'
  BY CapacityStep DEF CInv
<1> QED
  BY <1>2, <1>3, ControlCareful DEF HasCapacity, StartLoop

-----------------------------------------------------------------------------
(* The loop over the clients.                                              *)

\* Closing the connection of the instance at pos.
LEMMA CloseStepCareful ==
    ASSUME CInv, IInv', pos \in DOMAIN clients, NEW e,
           e \in {Closed(clients[pos]), [Closed(clients[pos]) EXCEPT !.disc = FALSE]},
           Close(clients[pos], e), pc' = "loop"
    PROVE  CInv'
<1>1. /\ clients' = [clients EXCEPT ![pos] = e] /\ games' = games
      /\ ReleaseSocket(clients[pos])
  BY DEF Close
<1> DEFINE ds == [clients EXCEPT ![pos] = e]
<1>2. /\ ds \in Seq(ClientRecord) /\ Len(ds) = Len(clients) /\ DOMAIN ds = DOMAIN clients
      /\ Agree(ds, games)
      /\ \A k \in DOMAIN ds : Tidy(ds[k])
      /\ Owned(ds, sockets') /\ Answered(ds, sockets', pending')
  <2>1. ReleaseSocket(clients[pos])
    BY <1>1
  <2>2. e \in {Closed(clients[pos]), [Closed(clients[pos]) EXCEPT !.disc = FALSE]}
    OBVIOUS
  <2> HIDE <1>1
  <2> QED
    BY <2>1, <2>2, CloseCareful
<1> HIDE DEF ds
<1>3. clients' = ds
  BY <1>1 DEF ds
<1>4. Len(clients') <= MaxInstances /\ pc' # "undefined" /\ Serving'
  BY <1>2, <1>3 DEF CInv, Serving
<1> QED
  BY <1>1, <1>2, <1>3, <1>4 DEF CInv

LEMMA ServeCareful == Careful /\ CInv /\ Serve => CInv'
<1> SUFFICES ASSUME Careful, CInv, Serve PROVE CInv'
  OBVIOUS
<1>0. IInv'
  BY ServeStep DEF CInv
<1>1. /\ clients \in Seq(ClientRecord) /\ Len(clients) \in Nat
      /\ DOMAIN clients = 1..Len(clients)
  BY Vector
<1>2. ASSUME NEW r \in Request, ServeRequest(r) PROVE CInv'
  <2>1. /\ Sends(r) /\ RouteRequest(pos, r) /\ pc' = "serve"
        /\ pos' = pos /\ sockets' = sockets
    BY <1>2 DEF ServeRequest
  <2>2. /\ pos \in DOMAIN clients /\ IsOpen(clients[pos])
        /\ ~clients[pos].disc /\ ~clients[pos].erase
    BY <2>1, ServedFacts
  <2>3. /\ Agree(clients', games')
        /\ clients' \in Seq(ClientRecord) /\ DOMAIN clients' = DOMAIN clients
        /\ \A i \in DOMAIN clients : Tidy(clients'[i]) /\ clients'[i].sock = clients[i].sock
        /\ Owned(clients', sockets') /\ Answered(clients', sockets', pending')
        /\ clients'[pos].disc = clients[pos].disc /\ clients'[pos].erase = clients[pos].erase
    <3>1. CASE r.key = "<"
      BY <1>2, <3>1, PongStep
    <3>2. CASE r.key # "<"
      <4>1. Orderly
        BY <2>1, <3>2, RequestOrderly
      <4>2. pending' = pending
        <5> DEFINE s == clients[pos].sock
        <5>1. pending' = [pending EXCEPT ![s] = pending[s]]
          BY <1>2, <3>2 DEF ServeRequest
        <5>2. pending \in [Descriptors -> 0..MaxPending]
          BY DEF CInv, IInv, Threads
        <5> HIDE DEF s
        <5> QED
          BY <5>1, <5>2
      <4>3. Owned(clients', sockets) /\ Answered(clients', sockets, pending)
        <5>1. Owned(clients, sockets) /\ Answered(clients, sockets, pending)
          BY DEF CInv
        <5> QED
          BY <4>1, <5>1, AnsweredKept DEF Orderly
      <4> QED
        BY <2>1, <4>1, <4>2, <4>3 DEF Orderly
    <3> QED
      BY <3>1, <3>2
  <2>4. Len(clients') = Len(clients)
    BY <1>1, <2>3
  <2>5. Serving'
    <3>1. pos \in 1..Len(clients) /\ IsOpen(clients'[pos])
      BY <1>1, <2>2, <2>3 DEF IsOpen
    <3> QED
      BY <2>1, <2>2, <2>3, <2>4, <3>1 DEF Serving
  <2>6. Len(clients') <= MaxInstances /\ pc' # "undefined"
    BY <2>1, <2>4 DEF CInv
  <2>7. \A i \in DOMAIN clients' : Tidy(clients'[i])
    BY <2>3
  <2> QED
    BY <1>0, <2>3, <2>5, <2>6, <2>7 DEF CInv
<1>3. ASSUME NEW r \in Request PROVE ~UndefinedRequest(r)
  BY RequestIsDefined DEF UndefinedRequest
<1>4. CASE KickClient
  <2>1. pos \in DOMAIN clients
    <3>1. PICK r \in Request : Sends(r)
      BY <1>4 DEF KickClient, Violates
    <3> QED
      BY <3>1, ServedFacts
  <2>2. DefinedClose(clients[pos])
    BY <2>1, CloseIsDefined
  <2>3. Close(clients[pos], Closed(clients[pos])) /\ pc' = "loop"
    BY <1>4, <2>2 DEF KickClient
  <2> QED
    BY <1>0, <2>1, <2>3, CloseStepCareful
<1> QED
  BY <1>2, <1>3, <1>4 DEF Serve

LEMMA UpdateClientCareful == Careful /\ CInv /\ UpdateClient => CInv'
<1> SUFFICES ASSUME Careful, CInv, UpdateClient PROVE CInv'
  OBVIOUS
<1>0. IInv'
  BY UpdateClientStep DEF CInv
<1>1. /\ clients \in Seq(ClientRecord) /\ Len(clients) \in Nat
      /\ DOMAIN clients = 1..Len(clients) /\ Agree(clients, games) /\ NicksDiffer(clients)
      /\ \A i \in DOMAIN clients : Tidy(clients[i])
      /\ \A i \in DOMAIN clients : clients[i].state = "Disconnected" <=> ~IsOpen(clients[i])
  BY Vector
<1>2. pos \in Nat \ {0} /\ (pos <= Len(clients) => pos \in DOMAIN clients)
  BY <1>1 DEF CInv, IInv, Threads
<1>3. CASE CloseFlagged
  <2>1. pos \in DOMAIN clients /\ pc = "loop"
    BY <1>2, <1>3 DEF CloseFlagged, AtClient
  <2>2. DefinedClose(clients[pos])
    BY <2>1, CloseIsDefined
  <2>3. Close(clients[pos], [Closed(clients[pos]) EXCEPT !.disc = FALSE]) /\ pc' = "loop"
    BY <1>3, <2>1, <2>2 DEF CloseFlagged
  <2> QED
    BY <1>0, <2>1, <2>3, CloseStepCareful
<1>4. CASE EraseFlagged
  <2>1. pos \in DOMAIN clients /\ pc = "loop" /\ ~clients[pos].disc /\ clients[pos].erase
    BY <1>2, <1>4 DEF EraseFlagged, AtClient
  <2>2. clients[pos].state = "Disconnected" /\ ~IsOpen(clients[pos])
    BY <1>1, <2>1 DEF Tidy
  <2>3. DefinedErase(clients, pos)
    BY <1>1, <2>1, <2>2, EraseIsDefined
  <2>4. /\ EraseClient(clients, pos)
        /\ sockets' = sockets /\ pending' = pending /\ pc' = pc
    BY <1>4, <2>3 DEF EraseFlagged, threadVars
  <2>5. sockets \subseteq Descriptors /\ Owned(clients, sockets) /\ Answered(clients, sockets, pending)
    BY DEF CInv, IInv, Threads
  <2>6. /\ Len(clients') = Len(clients) - 1 /\ Agree(clients', games')
        /\ \A k \in DOMAIN clients' : Tidy(clients'[k])
        /\ Owned(clients', sockets) /\ Answered(clients', sockets, pending)
    BY <1>1, <2>1, <2>2, <2>4, <2>5, EraseCareful
  <2>7. Len(clients') <= MaxInstances /\ pc' # "undefined" /\ Serving'
    BY <1>1, <2>1, <2>4, <2>6, BoundsAssumption DEF CInv, Serving
  <2> QED
    BY <1>0, <2>4, <2>6, <2>7 DEF CInv
<1>5. CASE SkipClient \/ EndOfBatch
  BY <1>0, <1>5, ControlCareful DEF SkipClient, EndOfBatch, NextClient
<1>6. CASE DropClient
  <2>1. pos \in DOMAIN clients /\ pc = "loop"
    BY <1>2, <1>6 DEF DropClient, AtClient
  <2>2. DefinedClose(clients[pos])
    BY <2>1, CloseIsDefined
  <2>3. Close(clients[pos], Closed(clients[pos])) /\ pc' = "loop"
    BY <1>6, <2>1, <2>2 DEF DropClient
  <2> QED
    BY <1>0, <2>1, <2>3, CloseStepCareful
<1>7. CASE Serve
  BY <1>7, ServeCareful
<1> QED
  BY <1>3, <1>4, <1>5, <1>6, <1>7 DEF UpdateClient

-----------------------------------------------------------------------------
(* The shutdown.                                                           *)

LEMMA ShutdownCareful == CInv /\ Shutdown => CInv'
<1> SUFFICES ASSUME CInv, Shutdown PROVE CInv'
  OBVIOUS
<1>0. IInv'
  BY ShutdownStep DEF CInv
<1>1. CASE CloseServerSocket
  BY <1>0, <1>1, ControlCareful DEF CloseServerSocket
<1>2. CASE ShutdownClient
  <2> DEFINE e  == Closed(clients[1])
             cs == [clients EXCEPT ![1] = e]
  <2>1. clients \in Seq(ClientRecord) /\ Len(clients) \in Nat
    BY Vector
  <2>2. 1 \in DOMAIN clients /\ pc = "shutdown"
    BY <1>2, <2>1 DEF ShutdownClient
  <2>3. DefinedClose(clients[1])
    BY <2>2, CloseIsDefined
  <2>4. CASE ReleaseSocket(clients[1]) /\ EraseClient(cs, 1) /\ pc' = pc
    <3>1. /\ cs \in Seq(ClientRecord) /\ Len(cs) = Len(clients) /\ DOMAIN cs = DOMAIN clients
          /\ Agree(cs, games) /\ NicksDiffer(cs)
          /\ \A k \in DOMAIN cs : Tidy(cs[k])
          /\ Owned(cs, sockets') /\ Answered(cs, sockets', pending')
          /\ cs[1].state = "Disconnected" /\ ~IsOpen(cs[1])
      BY <2>2, <2>4, CloseCareful
    <3> HIDE DEF cs
    <3>2. sockets' \subseteq Descriptors
      BY <1>0 DEF IInv, Threads
    <3>3. 1 \in DOMAIN cs /\ EraseClient(cs, 1)
      BY <2>2, <2>4, <3>1
    <3>4. /\ Len(clients') = Len(cs) - 1 /\ Agree(clients', games')
          /\ \A k \in DOMAIN clients' : Tidy(clients'[k])
          /\ Owned(clients', sockets') /\ Answered(clients', sockets', pending')
      BY <3>1, <3>2, <3>3, EraseCareful
    <3>5. Len(clients') <= MaxInstances /\ pc' # "undefined" /\ Serving'
      BY <2>1, <2>2, <2>4, <3>1, <3>4, BoundsAssumption DEF CInv, Serving
    <3> QED
      BY <1>0, <3>4, <3>5 DEF CInv
  <2>5. CASE ~DefinedErase(cs, 1) /\ Undefined
    <3>1. Closed(clients[1]).state = "Disconnected" /\ SameGame(clients[1], e) /\ e \in ClientRecord
          /\ e.nick = clients[1].nick
      BY <2>2, Vector, ClosedIsTidy
    <3>2. /\ cs \in Seq(ClientRecord) /\ DOMAIN cs = DOMAIN clients
          /\ \A k \in DOMAIN clients : cs[k] = IF k = 1 THEN e ELSE clients[k]
      BY <2>1, <3>1, AssignProperties
    <3> HIDE DEF cs
    <3>3. \A k \in DOMAIN clients : SameGame(clients[k], cs[k]) /\ cs[k].nick = clients[k].nick
      BY <3>1, <3>2 DEF SameGame
    <3>4. Agree(cs, games) /\ NicksDiffer(cs)
      BY <3>2, <3>3, Vector, AgreeSame DEF NicksDiffer
    <3>5. cs[1].state = "Disconnected" /\ 1 \in DOMAIN cs
      BY <2>2, <3>1, <3>2
    <3>6. DefinedErase(cs, 1)
      BY <3>2, <3>4, <3>5, EraseIsDefined
    <3> QED
      BY <2>5, <3>6
  <2> QED
    BY <1>2, <2>3, <2>4, <2>5 DEF ShutdownClient
<1> QED
  BY <1>1, <1>2 DEF Shutdown

-----------------------------------------------------------------------------
(* The pairing at the end of a pass.                                       *)

\* A Ready client has a name, is in no room and is connected.
LEMMA ReadyFields ==
    ASSUME CInv, NEW i \in ReadyClients
    PROVE  /\ i \in DOMAIN clients /\ clients[i].nick # NoNick /\ clients[i].room = LobbyRoom
           /\ clients[i].state = "Ready" /\ Activity(clients[i]) = "Ready"
<1>1. i \in DOMAIN clients /\ clients[i].state = "Ready"
  BY DEF ReadyClients
<1>2. /\ Tidy(clients[i]) /\ HasGame(clients[i], games)
      /\ clients[i].state = "Disconnected" <=> ~IsOpen(clients[i])
  BY <1>1, Vector DEF Agree
<1>3. clients[i].nick # NoNick
  BY <1>1, <1>2 DEF Tidy
<1>4. Activity(clients[i]) = "Ready"
  BY <1>1 DEF Activity, Away
<1> QED
  BY <1>1, <1>2, <1>3, <1>4 DEF HasGame, Playing

\* Whoever is paired has a partner: the next Ready client or the one before.
LEMMA Partner ==
    ASSUME clients \in Seq(ClientRecord), NEW i \in Paired
    PROVE  /\ Rank(i) % 2 = 1 => \E j \in Paired : Rank(j) = Rank(i) + 1
           /\ Rank(i) % 2 = 0 => \E j \in Paired : Rank(i) = Rank(j) + 1 /\ Rank(j) % 2 = 1
<1>1. /\ Cardinality(ReadyClients) \in Nat /\ NewGames \in Nat
      /\ 2 * NewGames <= Cardinality(ReadyClients)
      /\ \A j \in ReadyClients : Rank(j) \in 1..Cardinality(ReadyClients)
  BY RankFacts
<1>2. i \in ReadyClients /\ Rank(i) <= 2 * NewGames /\ Rank(i) \in Nat /\ 1 <= Rank(i)
  BY <1>1 DEF Paired
<1>3. \A k \in 1..Cardinality(ReadyClients) : \E j \in ReadyClients : Rank(j) = k
  <2>1. ReadyClients \in SUBSET (1..Len(clients)) /\ Len(clients) \in Nat
    BY DEF ReadyClients
  <2> QED
    BY <2>1, RankOnto DEF Rank
<1>4. ASSUME Rank(i) % 2 = 1 PROVE \E j \in Paired : Rank(j) = Rank(i) + 1
  <2>1. Rank(i) + 1 <= 2 * NewGames /\ Rank(i) + 1 \in 1..Cardinality(ReadyClients)
    BY <1>1, <1>2, <1>4
  <2>2. PICK j \in ReadyClients : Rank(j) = Rank(i) + 1
    BY <1>3, <2>1
  <2> QED
    BY <2>1, <2>2 DEF Paired
<1>5. ASSUME Rank(i) % 2 = 0 PROVE \E j \in Paired : Rank(i) = Rank(j) + 1 /\ Rank(j) % 2 = 1
  <2>1. /\ Rank(i) - 1 <= 2 * NewGames /\ Rank(i) - 1 \in 1..Cardinality(ReadyClients)
        /\ (Rank(i) - 1) % 2 = 1 /\ Rank(i) = Rank(i) - 1 + 1
    BY <1>1, <1>2, <1>5
  <2>2. PICK j \in ReadyClients : Rank(j) = Rank(i) - 1
    BY <1>3, <2>1
  <2>3. j \in Paired
    BY <2>1, <2>2 DEF Paired
  <2> QED
    BY <2>1, <2>2, <2>3
<1> QED
  BY <1>4, <1>5

\* startGame gives a paired client its part in its room.
LEMMA StartGameFields ==
    ASSUME CInv, NEW i \in Paired
    PROVE  LET d == StartGame(i)
           IN  /\ d \in ClientRecord
               /\ d.nick = clients[i].nick /\ d.sock = clients[i].sock
               /\ d.room = GameOf(i) /\ d.room # LobbyRoom
               /\ Activity(d) = IF Rank(i) % 2 = 1 THEN "PlayingOnTurn" ELSE "PlayingOnStand"
               /\ ~IsSilent(d) /\ d.state \notin Away /\ Tidy(d)
<1> DEFINE turn == IF Rank(i) % 2 = 1 THEN "PlayingOnTurn" ELSE "PlayingOnStand"
           c == clients[i]
           e == SetState(c, turn)
           d == StartGame(i)
<1>1. i \in ReadyClients /\ clients \in Seq(ClientRecord)
  BY Vector DEF Paired
<1>2. c \in ClientRecord /\ c.nick # NoNick /\ c.state = "Ready" /\ Activity(c) = "Ready" /\ Tidy(c)
  BY <1>1, ReadyFields, Vector
<1>3. GameOf(i) \in Nat /\ GameOf(i) # LobbyRoom
  <2>1. roomsTotal \in Nat
    BY DEF CInv, IInv, Rooms
  <2>2. NewGames \in Nat /\ GameOf(i) \in (roomsTotal + 1)..(roomsTotal + NewGames)
    BY <1>1, <2>1, GameOfProperties, RankFacts
  <2> QED
    BY <2>1, <2>2 DEF LobbyRoom
<1>4. turn \in Playing /\ turn \in State /\ turn \notin Away
  BY DEF Playing, State, Away
<1> HIDE DEF turn
<1>5. /\ e \in ClientRecord /\ e.nick = c.nick /\ e.sock = c.sock
      /\ e.disc = c.disc /\ e.erase = c.erase /\ e.state = turn
  BY <1>2, <1>4, SetStateFields
<1>6. d = [e EXCEPT !.room = GameOf(i)]
  BY DEF StartGame, turn
<1> HIDE DEF e, d
<1>7. /\ d \in ClientRecord /\ d.nick = c.nick /\ d.sock = c.sock /\ d.room = GameOf(i)
      /\ d.disc = c.disc /\ d.erase = c.erase /\ d.state = turn
  BY <1>3, <1>5, <1>6 DEF ClientRecord
<1>8. Activity(d) = turn
  BY <1>4, <1>7 DEF Activity
<1>9. ~IsSilent(d) /\ turn # "New" /\ turn # "Disconnected"
  BY <1>4, <1>7 DEF IsSilent, Away, Playing
<1>10. Tidy(d)
  BY <1>2, <1>7, <1>8, <1>9 DEF Tidy, IsOpen
<1> QED
  BY <1>3, <1>4, <1>7, <1>8, <1>9, <1>10 DEF turn, d

\* The rooms of the new games have their two players, and these their rooms.
LEMMA AgreePairing ==
    ASSUME CInv, MoveReadyClientsToPlay, RoomIds', DOMAIN clients' = DOMAIN clients,
           \A i \in DOMAIN clients :
              clients'[i] = IF i \in Paired THEN StartGame(i) ELSE clients[i]
    PROVE  Agree(clients', games')
<1> DEFINE Pairs == {q \in Paired \X Paired : Rank(q[1]) % 2 = 1 /\ Rank(q[2]) = Rank(q[1]) + 1}
           New(q) == NewRoom(GameOf(q[1]), clients[q[1]].nick, clients[q[2]].nick)
<1>1. games' = games \cup {New(q) : q \in Pairs}
  BY DEF MoveReadyClientsToPlay
<1>2. clients \in Seq(ClientRecord) /\ Agree(clients, games)
  BY Vector
<1>3. \A i \in Paired :
         /\ i \in DOMAIN clients /\ clients[i].nick # NoNick
         /\ Activity(clients[i]) \notin Playing
         /\ clients'[i].nick = clients[i].nick
         /\ clients'[i].room = GameOf(i) /\ GameOf(i) # LobbyRoom
         /\ Activity(clients'[i]) = IF Rank(i) % 2 = 1 THEN "PlayingOnTurn" ELSE "PlayingOnStand"
  <2> TAKE i \in Paired
  <2>1. i \in ReadyClients
    BY DEF Paired
  <2>2. /\ i \in DOMAIN clients /\ clients[i].nick # NoNick
        /\ Activity(clients[i]) \notin Playing
    BY <2>1, ReadyFields DEF Playing
  <2>3. clients'[i] = StartGame(i)
    BY <2>2
  <2> QED
    BY <2>2, <2>3, StartGameFields
<1>4. \A q \in Pairs :
         /\ q[1] \in Paired /\ q[2] \in Paired /\ GameOf(q[2]) = GameOf(q[1])
         /\ Rank(q[1]) % 2 = 1 /\ Rank(q[2]) % 2 # 1
  <2> TAKE q \in Pairs
  <2>1. q[1] \in Paired /\ q[2] \in Paired /\ Rank(q[1]) % 2 = 1 /\ Rank(q[2]) = Rank(q[1]) + 1
    OBVIOUS
  <2>2. Rank(q[1]) \in Nat
    BY <1>2, <2>1, RankFacts DEF Paired
  <2>3. (Rank(q[2]) + 1) \div 2 = (Rank(q[1]) + 1) \div 2 /\ Rank(q[2]) % 2 # 1
    BY <2>1, <2>2
  <2> QED
    BY <2>1, <2>3 DEF GameOf
<1>5. ASSUME NEW i \in Paired, NEW j \in Paired, Rank(i) % 2 = 1, Rank(j) = Rank(i) + 1
      PROVE  \E r \in games' :
                /\ r.id = clients'[i].room /\ r.id = clients'[j].room
                /\ r.onTurn = clients'[i].nick /\ r.onStand = clients'[j].nick
  <2>1. <<i, j>> \in Pairs
    BY <1>5
  <2>2. New(<<i, j>>) \in games' /\ GameOf(j) = GameOf(i)
    BY <1>1, <1>4, <2>1
  <2>3. /\ New(<<i, j>>).id = GameOf(i)
        /\ New(<<i, j>>).onTurn = clients[i].nick /\ New(<<i, j>>).onStand = clients[j].nick
    BY DEF NewRoom
  <2> QED
    BY <1>3, <2>2, <2>3
<1>6. ASSUME NEW r \in games'
      PROVE  /\ ProperRoom(r)
             /\ \E i, j \in DOMAIN clients' : OnTurnIn(clients'[i], r) /\ OnStandIn(clients'[j], r)
  <2>1. CASE r \in games
    <3>1. ProperRoom(r)
      BY <1>2, <2>1 DEF Agree
    <3>2. PICK i \in DOMAIN clients, j \in DOMAIN clients :
             OnTurnIn(clients[i], r) /\ OnStandIn(clients[j], r)
      BY <1>2, <2>1 DEF Agree
    <3>3. i \notin Paired /\ j \notin Paired
      BY <1>3, <3>2 DEF OnTurnIn, OnStandIn, Playing
    <3> QED
      BY <3>1, <3>2, <3>3
  <2>2. CASE \E q \in Pairs : r = New(q)
    <3>1. PICK q \in Pairs : r = New(q)
      BY <2>2
    <3>2. r.id = GameOf(q[1]) /\ r.onTurn = clients[q[1]].nick /\ r.onStand = clients[q[2]].nick
      BY <3>1 DEF NewRoom
    <3>3. /\ q[1] \in Paired /\ q[2] \in Paired /\ GameOf(q[2]) = GameOf(q[1])
          /\ Rank(q[1]) % 2 = 1 /\ Rank(q[2]) % 2 # 1
      BY <1>4
    <3> HIDE DEF Pairs
    <3>4. ProperRoom(r)
      BY <1>3, <3>2, <3>3 DEF ProperRoom
    <3>5. OnTurnIn(clients'[q[1]], r) /\ OnStandIn(clients'[q[2]], r)
      BY <1>3, <3>2, <3>3 DEF OnTurnIn, OnStandIn
    <3> QED
      BY <1>3, <3>3, <3>4, <3>5
  <2> QED
    BY <1>1, <2>1, <2>2
<1>7. ASSUME NEW i \in DOMAIN clients'
      PROVE  HasGame(clients'[i], games')
  <2>1. CASE i \notin Paired
    <3>1. clients'[i] = clients[i] /\ HasGame(clients[i], games)
      BY <1>2, <2>1 DEF Agree
    <3>2. games \subseteq games'
      BY <1>1
    <3> QED
      BY <3>1, <3>2 DEF HasGame
  <2>2. CASE i \in Paired
    <3>1. \E r \in games' : r.id = clients'[i].room /\ clients'[i].nick \in {r.onTurn, r.onStand}
      <4>1. CASE Rank(i) % 2 = 1
        <5>1. PICK j \in Paired : Rank(j) = Rank(i) + 1
          BY <1>2, <2>2, <4>1, Partner
        <5> QED
          BY <1>5, <2>2, <4>1, <5>1
      <4>2. CASE Rank(i) % 2 = 0
        <5>1. PICK j \in Paired : Rank(i) = Rank(j) + 1 /\ Rank(j) % 2 = 1
          BY <1>2, <2>2, <4>2, Partner
        <5> QED
          BY <1>5, <2>2, <5>1
      <4>3. Rank(i) \in Nat
        BY <1>2, <2>2, RankFacts DEF Paired
      <4> QED
        BY <4>1, <4>2, <4>3
    <3> QED
      BY <1>3, <2>2, <3>1 DEF HasGame, Playing
  <2> QED
    BY <2>1, <2>2
<1>8. \A r, s \in games' : r.id = s.id => r = s
  BY DEF RoomIds
<1> QED
  BY <1>6, <1>7, <1>8 DEF Agree

LEMMA EndOfPassCareful == CInv /\ EndOfPass => CInv'
<1> SUFFICES ASSUME CInv, EndOfPass PROVE CInv'
  OBVIOUS
<1>0. IInv'
  BY EndOfPassStep DEF CInv
<1>1. /\ clients \in Seq(ClientRecord) /\ Len(clients) \in Nat
      /\ DOMAIN clients = 1..Len(clients)
      /\ \A i \in DOMAIN clients : clients[i] \in ClientRecord /\ Tidy(clients[i])
  BY Vector
<1>2. /\ MoveReadyClientsToPlay /\ pc' = "select"
      /\ sockets' = sockets /\ pending' = pending
      /\ clients' = [i \in 1..Len(clients) |-> IF i \in Paired THEN StartGame(i) ELSE clients[i]]
  BY <1>1 DEF EndOfPass, MoveReadyClientsToPlay
<1>3. \A i \in DOMAIN clients : clients'[i] = IF i \in Paired THEN StartGame(i) ELSE clients[i]
  BY <1>1, <1>2
<1>4. \A i \in DOMAIN clients :
         /\ clients'[i] \in ClientRecord /\ Tidy(clients'[i])
         /\ clients'[i].sock = clients[i].sock
         /\ IsSilent(clients'[i]) <=> IsSilent(clients[i])
  <2> TAKE i \in DOMAIN clients
  <2>1. CASE i \in Paired
    <3>1. i \in ReadyClients /\ clients'[i] = StartGame(i)
      BY <1>3, <2>1 DEF Paired
    <3>2. ~IsSilent(clients[i])
      BY <3>1 DEF ReadyClients, IsSilent
    <3> QED
      BY <2>1, <3>1, <3>2, StartGameFields
  <2>2. CASE i \notin Paired
    BY <1>1, <1>3, <2>2
  <2> QED
    BY <2>1, <2>2
<1>5. Len(clients') = Len(clients) /\ DOMAIN clients' = DOMAIN clients
  <2>1. clients' \in [1..Len(clients) -> ClientRecord]
    BY <1>1, <1>2, <1>4
  <2> QED
    BY <1>1, <2>1, VectorOfFunction
<1>6. Agree(clients', games')
  <2>1. RoomIds'
    BY <1>0 DEF IInv, Rooms
  <2> QED
    BY <1>2, <1>3, <1>5, <2>1, AgreePairing
<1>7. Owned(clients', sockets') /\ Answered(clients', sockets', pending')
  BY <1>2, <1>4, <1>5, AnsweredKept DEF CInv
<1>8. Len(clients') <= MaxInstances /\ pc' # "undefined" /\ Serving'
  BY <1>2, <1>5 DEF CInv, Serving
<1> QED
  BY <1>0, <1>4, <1>5, <1>6, <1>7, <1>8 DEF CInv

-----------------------------------------------------------------------------
(* The theorems.                                                           *)

LEMMA InitCareful == Init => CInv
<1> SUFFICES ASSUME Init PROVE CInv
  OBVIOUS
<1>1. clients = <<>> /\ Len(clients) = 0 /\ DOMAIN clients = {} /\ games = {} /\ sockets = {}
  BY DEF Init, ManagerInit
<1>2. Agree(clients, games)
  BY <1>1 DEF Agree
<1>3. Owned(clients, sockets) /\ Answered(clients, sockets, pending)
  BY <1>1 DEF Owned, Answered, Init
<1>4. Len(clients) <= MaxInstances /\ pc # "undefined" /\ Serving
  BY <1>1, BoundsAssumption DEF Init, Serving
<1> QED
  BY <1>1, <1>2, <1>3, <1>4, InitIInv DEF CInv

\* Every step of a server with careful peers keeps the invariant.
LEMMA NextCareful == Careful /\ CInv /\ [Next]_vars => CInv'
<1> SUFFICES ASSUME Careful, CInv, [Next]_vars PROVE CInv'
  OBVIOUS
<1>1. CASE PingThread
  BY <1>1, PingThreadCareful
<1>2. CASE Select
  BY <1>2, SelectCareful
<1>3. CASE Capacity
  BY <1>3, CapacityCareful
<1>4. CASE UpdateClient
  BY <1>4, UpdateClientCareful
<1>5. CASE EndOfPass
  BY <1>5, EndOfPassCareful
<1>6. CASE Shutdown
  BY <1>6, ShutdownCareful
<1>7. CASE Halted \/ UNCHANGED vars
  <2>1. UNCHANGED vars
    BY <1>7 DEF Halted
  <2>2. /\ clients' = clients /\ games' = games /\ sockets' = sockets /\ pending' = pending
        /\ pc' = pc /\ pos' = pos
    BY <2>1 DEF vars, managerVars, threadVars
  <2>3. IInv'
    BY <2>1, UnchangedStep DEF CInv
  <2>4. Agree(clients', games') /\ \A i \in DOMAIN clients' : Tidy(clients'[i])
    BY <2>2 DEF CInv
  <2>5. Owned(clients', sockets') /\ Answered(clients', sockets', pending')
    BY <2>2 DEF CInv
  <2>6. Len(clients') <= MaxInstances /\ pc' # "undefined" /\ Serving'
    BY <2>2 DEF CInv, Serving
  <2> QED
    BY <2>3, <2>4, <2>5, <2>6 DEF CInv
<1> QED
  BY <1>1, <1>2, <1>3, <1>4, <1>5, <1>6, <1>7 DEF Next

\* With careful peers the invariant holds in every reachable state.
THEOREM CarefulInvariant == ASSUME Careful PROVE Spec => []CInv
<1>1. Init => CInv
  BY InitCareful
<1>2. CInv /\ [Next]_vars => CInv'
  BY NextCareful
<1> QED
  BY <1>1, <1>2, PTL DEF Spec

\* createRoom, swapPlayers and destroyRoom keep a room and its two players in
\* agreement: who they are, where they are, and who is on turn; also while one
\* of them is away, or comes back on a new connection.
THEOREM RoomsAgree == ASSUME Careful PROVE Spec => []RoomAgreement
<1>1. CInv => RoomAgreement
  <2> SUFFICES ASSUME CInv, NEW r \in games
               PROVE  \E i, j \in DOMAIN clients :
                         /\ i # j
                         /\ clients[i].nick = r.onTurn /\ clients[j].nick = r.onStand
                         /\ clients[i].room = r.id /\ clients[j].room = r.id
                         /\ Activity(clients[i]) = "PlayingOnTurn"
                         /\ Activity(clients[j]) = "PlayingOnStand"
    BY DEF RoomAgreement
  <2>1. PICK i \in DOMAIN clients, j \in DOMAIN clients :
           OnTurnIn(clients[i], r) /\ OnStandIn(clients[j], r)
    BY DEF CInv, Agree
  <2>2. i # j
    BY <2>1 DEF OnTurnIn, OnStandIn
  <2> QED
    BY <2>1, <2>2 DEF OnTurnIn, OnStandIn
<1> QED
  BY <1>1, CarefulInvariant, PTL

\* A client that plays, or is in a room, is one of the players of that room,
\* which exists: getRoomById finds it.
THEOREM PlayersAreInRooms == ASSUME Careful PROVE Spec => []PlayersHaveRoom
<1>1. CInv => PlayersHaveRoom
  BY DEF CInv, Agree, HasGame, PlayersHaveRoom
<1> QED
  BY <1>1, CarefulInvariant, PTL

\* An instance without connection is Disconnected, so pingClients counts it down.
THEOREM ClosedAreCountedDown == ASSUME Careful PROVE Spec => []ClosedIsDisconnected
<1>1. CInv => ClosedIsDisconnected
  BY DEF CInv, Tidy, ClosedIsDisconnected
<1> QED
  BY <1>1, CarefulInvariant, PTL

\* updateClients erases nobody who is connected.
THEOREM OnlyDisconnectedAreErased == ASSUME Careful PROVE Spec => []ErasedIsDisconnected
<1>1. CInv => ErasedIsDisconnected
  BY DEF CInv, Tidy, ErasedIsDisconnected
<1> QED
  BY <1>1, CarefulInvariant, PTL

\* Every descriptor in Server::sockets is the one of an instance, which will
\* close it.
THEOREM SocketsAreOwned == ASSUME Careful PROVE Spec => []NoSocketLeak
<1>1. CInv => NoSocketLeak
  BY DEF CInv, Owned, NoSocketLeak
<1> QED
  BY <1>1, CarefulInvariant, PTL

\* No iterator that a search returned as end() is dereferenced: neither by a
\* handler, nor by closeConnection, eraseClient or the ping thread.
THEOREM NothingUndefined == ASSUME Careful PROVE Spec => []NeverUndefined
<1>1. CInv => NeverUndefined
  BY DEF CInv, NeverUndefined
<1> QED
  BY <1>1, CarefulInvariant, PTL

\* requestMove, when the move is accepted and does not end the game, leaves the
\* player who made it standing by.
THEOREM MoversStandBy == ASSUME Careful PROVE Spec => MoverStandsBy
<1> DEFINE m == [key |-> "m", outcome |-> "moved"]
<1>1. CInv /\ [Next]_vars
         => [ServeRequest(m) => clients'[pos].state = "PlayingOnStand"]_vars
  <2> SUFFICES ASSUME CInv, ServeRequest(m)
               PROVE  clients'[pos].state = "PlayingOnStand"
    OBVIOUS
  <2>1. m \in Request /\ m.key = "m" /\ m.outcome = "moved"
    BY DEF Request, Move, MoveOutcome
  <2> HIDE DEF m
  <2>2. Sends(m) /\ Routed(clients[pos], m) /\ RequestMove(pos, m.outcome)
    BY <2>1 DEF ServeRequest, RouteRequest
  <2> QED
    BY <2>1, <2>2, MoveOrderly
<1> QED
  BY <1>1, CarefulInvariant, PTL DEF Spec, MoverStandsBy
===============================================================================
