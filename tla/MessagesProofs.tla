---------------------------- MODULE MessagesProofs ----------------------------
(***************************************************************************)
(* Proofs about module Messages: every step of it is a step of module      *)
(* Server, and with careful peers a connected client is where it was told  *)
(* to be.  The invariant CInv of module CarefulRequests is what makes the  *)
(* lookup of the opponent, who is told as well, find the right client.     *)
(***************************************************************************)
EXTENDS CarefulProofs, Messages

Place == {"new", "lobby", "turn", "stand"}

\* Where the server takes a client to be.
PlaceOf(c) == CASE Activity(c) = "PlayingOnTurn"  -> "turn"
                [] Activity(c) = "PlayingOnStand" -> "stand"
                [] OTHER                          -> "lobby"

\* Client c has heard of it, when t is what was told.
Heard(c, t) == IsOpen(c) /\ c.nick # NoNick => t[c.sock] = PlaceOf(c)

AllHeard(cs, t) == \A i \in DOMAIN cs : Heard(cs[i], t)

Told == [Descriptors -> Place]

ToldInv == CInv /\ told \in Told /\ AllHeard(clients, told)

-----------------------------------------------------------------------------
(* What is told.                                                           *)

LEMMA ToldAgreesIsHeard == ToldAgrees <=> AllHeard(clients, told)
BY DEF ToldAgrees, AllHeard, Heard, PlaceOf

\* Telling one client changes what its peer has heard, and nobody else's.
LEMMA TellProperties ==
    ASSUME NEW t \in Told, NEW c, IsOpen(c) => c.sock \in Descriptors, NEW place \in Place
    PROVE  /\ Tell(t, c, place) \in Told
           /\ IsOpen(c) => Tell(t, c, place)[c.sock] = place
           /\ \A s : s # c.sock => Tell(t, c, place)[s] = t[s]
BY DEF Tell, Told

LEMMA PlaceOfLobby ==
    ASSUME NEW c, Activity(c) \notin Playing
    PROVE  PlaceOf(c) = "lobby"
BY DEF PlaceOf, Playing

\* A client that is not away is told the place it is in.
LEMMA PlaceToldIsPlaceOf ==
    ASSUME NEW c, NEW gs, HasGame(c, gs), c.nick # NoNick, c.state \notin Away
    PROVE  PlaceTold(c) = PlaceOf(c)
<1>1. Activity(c) = c.state /\ (c.state \in Playing <=> c.room # LobbyRoom)
  BY DEF HasGame, Activity
<1>2. CASE c.room = LobbyRoom
  BY <1>1, <1>2 DEF PlaceTold, PlaceOf, Playing
<1>3. CASE c.room # LobbyRoom /\ c.state = "PlayingOnTurn"
  BY <1>1, <1>3 DEF PlaceTold, PlaceOf, Playing
<1>4. CASE c.room # LobbyRoom /\ c.state = "PlayingOnStand"
  BY <1>1, <1>4 DEF PlaceTold, PlaceOf, Playing
<1> QED
  BY <1>1, <1>2, <1>3, <1>4 DEF Playing

LEMMA PlaceToldIsPlace == ASSUME NEW c PROVE PlaceTold(c) \in Place /\ PlaceTold(c) # "new"
<1>1. CASE c.room = LobbyRoom
  BY <1>1 DEF PlaceTold, Place
<1>2. CASE c.room # LobbyRoom /\ c.state = "PlayingOnTurn"
  BY <1>2 DEF PlaceTold, Place
<1>3. CASE c.room # LobbyRoom /\ c.state # "PlayingOnTurn"
  BY <1>3 DEF PlaceTold, Place
<1> QED
  BY <1>1, <1>2, <1>3

\* Nobody with a connection has its descriptor forgotten.
LEMMA ForgetHeard ==
    ASSUME NEW t \in Told, Safe(clients', sockets'), AllHeard(clients', t),
           sockets' \subseteq Descriptors
    PROVE  Forget(t) \in Told /\ AllHeard(clients', Forget(t))
<1>1. Forget(t) \in Told
  BY DEF Forget, Told, Place
<1>2. \A s \in sockets' : Forget(t)[s] = t[s]
  BY DEF Forget
<1>3. AllHeard(clients', Forget(t))
  <2> SUFFICES ASSUME NEW i \in DOMAIN clients', IsOpen(clients'[i])
               PROVE  Forget(t)[clients'[i].sock] = t[clients'[i].sock]
    BY DEF AllHeard, Heard
  <2>1. clients'[i].sock \in sockets'
    BY DEF Safe
  <2> QED
    BY <1>2, <2>1
<1> QED
  BY <1>1, <1>3

\* A client that has changed neither its name nor its connection nor its place
\* has heard of it as before.
LEMMA HeardSame ==
    ASSUME NEW c, NEW d, NEW t, Heard(c, t), d.nick = c.nick, d.sock = c.sock,
           PlaceOf(d) = PlaceOf(c)
    PROVE  Heard(d, t)
BY DEF Heard, IsOpen

LEMMA SamePlace ==
    ASSUME NEW c, NEW d,
           \/ Activity(d) = Activity(c)
           \/ Activity(d) \notin Playing /\ Activity(c) \notin Playing
    PROVE  PlaceOf(d) = PlaceOf(c)
BY DEF PlaceOf, Playing

\* The vector and the descriptors under the invariant.
LEMMA ToldVector ==
    ASSUME ToldInv
    PROVE  /\ \A i \in DOMAIN clients : IsOpen(clients[i]) => clients[i].sock \in Descriptors
           /\ \A i, j \in DOMAIN clients :
                 IsOpen(clients[i]) /\ clients[i].sock = clients[j].sock => i = j
           /\ \A i \in DOMAIN clients : Heard(clients[i], told)
           /\ told \in Told
<1>1. CInv /\ sockets \subseteq Descriptors
  BY DEF ToldInv, CInv, IInv, Threads
<1>2. \A i \in DOMAIN clients : IsOpen(clients[i]) => clients[i].sock \in sockets
  BY <1>1 DEF CInv, IInv, Safe
<1> QED
  BY <1>1, <1>2, Vector DEF ToldInv, AllHeard

\* One client is told where it is now; the others are where they were, or have
\* lost their names.
LEMMA TellOneHeard ==
    ASSUME ToldInv, NEW i \in DOMAIN clients, NEW place \in Place,
           DOMAIN clients' = DOMAIN clients,
           clients'[i].sock = clients[i].sock,
           clients'[i].nick # NoNick => PlaceOf(clients'[i]) = place,
           \A k \in DOMAIN clients :
              k # i => clients'[k] = clients[k] \/ clients'[k].nick = NoNick
    PROVE  LET t == Tell(told, clients[i], place)
           IN  t \in Told /\ AllHeard(clients', t)
<1> DEFINE t == Tell(told, clients[i], place)
<1>1. /\ \A k \in DOMAIN clients : IsOpen(clients[k]) => clients[k].sock \in Descriptors
      /\ \A k, l \in DOMAIN clients :
            IsOpen(clients[k]) /\ clients[k].sock = clients[l].sock => k = l
      /\ \A k \in DOMAIN clients : Heard(clients[k], told)
      /\ told \in Told
  BY ToldVector
<1>2. /\ t \in Told
      /\ IsOpen(clients[i]) => t[clients[i].sock] = place
      /\ \A s : s # clients[i].sock => t[s] = told[s]
  BY <1>1, TellProperties
<1> HIDE DEF t
<1>3. ASSUME NEW k \in DOMAIN clients', IsOpen(clients'[k]), clients'[k].nick # NoNick
      PROVE  t[clients'[k].sock] = PlaceOf(clients'[k])
  <2>1. CASE k = i
    BY <1>2, <1>3, <2>1 DEF IsOpen
  <2>2. CASE k # i
    <3>1. clients'[k] = clients[k] /\ IsOpen(clients[k]) /\ k \in DOMAIN clients
      BY <1>3, <2>2
    <3>2. clients[k].sock # clients[i].sock
      BY <1>1, <2>2, <3>1
    <3> QED
      BY <1>1, <1>2, <1>3, <3>1, <3>2 DEF Heard
  <2> QED
    BY <2>1, <2>2
<1>4. AllHeard(clients', t)
  BY <1>3 DEF AllHeard, Heard
<1> QED
  BY <1>2, <1>4 DEF t

\* Telling two clients.
LEMMA TellTwo ==
    ASSUME ToldInv, NEW i \in DOMAIN clients, NEW j \in DOMAIN clients, i # j,
           NEW p \in Place, NEW q \in Place
    PROVE  LET t == Tell(Tell(told, clients[i], p), clients[j], q)
           IN  /\ t \in Told
               /\ \A k \in DOMAIN clients : IsOpen(clients[k]) =>
                     t[clients[k].sock] = IF k = i THEN p
                                          ELSE IF k = j THEN q ELSE told[clients[k].sock]
<1> DEFINE u == Tell(told, clients[i], p)
           t == Tell(u, clients[j], q)
<1>1. /\ \A k \in DOMAIN clients : IsOpen(clients[k]) => clients[k].sock \in Descriptors
      /\ \A k, l \in DOMAIN clients :
            IsOpen(clients[k]) /\ clients[k].sock = clients[l].sock => k = l
      /\ told \in Told
  BY ToldVector
<1>2. /\ u \in Told
      /\ IsOpen(clients[i]) => u[clients[i].sock] = p
      /\ \A s : s # clients[i].sock => u[s] = told[s]
  BY <1>1, TellProperties
<1> HIDE DEF u
<1>3. /\ t \in Told
      /\ IsOpen(clients[j]) => t[clients[j].sock] = q
      /\ \A s : s # clients[j].sock => t[s] = u[s]
  BY <1>1, <1>2, TellProperties
<1> HIDE DEF t
<1>4. ASSUME NEW k \in DOMAIN clients, IsOpen(clients[k])
      PROVE  t[clients[k].sock] = IF k = i THEN p
                                  ELSE IF k = j THEN q ELSE told[clients[k].sock]
  <2>1. CASE k = i
    <3>1. clients[i].sock # clients[j].sock
      BY <1>1, <1>4, <2>1
    <3> QED
      BY <1>2, <1>3, <1>4, <2>1, <3>1
  <2>2. CASE k = j
    BY <1>3, <1>4, <2>2
  <2>3. CASE k # i /\ k # j
    <3>1. clients[k].sock # clients[j].sock /\ clients[k].sock # clients[i].sock
      BY <1>1, <1>4, <2>3
    <3> QED
      BY <1>2, <1>3, <2>3, <3>1
  <2> QED
    BY <2>1, <2>2, <2>3
<1> QED
  BY <1>3, <1>4 DEF t, u

\* Two clients are told where they are now; the others are where they were.
LEMMA TellTwoHeard ==
    ASSUME ToldInv, NEW i \in DOMAIN clients, NEW j \in DOMAIN clients, i # j,
           NEW p \in Place, NEW q \in Place,
           DOMAIN clients' = DOMAIN clients,
           \A k \in DOMAIN clients : clients'[k].sock = clients[k].sock,
           PlaceOf(clients'[i]) = p, PlaceOf(clients'[j]) = q,
           \A k \in DOMAIN clients : k \notin {i, j} => clients'[k] = clients[k]
    PROVE  LET t == Tell(Tell(told, clients[i], p), clients[j], q)
           IN  t \in Told /\ AllHeard(clients', t)
<1> DEFINE t == Tell(Tell(told, clients[i], p), clients[j], q)
<1>1. /\ t \in Told
      /\ \A k \in DOMAIN clients : IsOpen(clients[k]) =>
            t[clients[k].sock] = IF k = i THEN p
                                 ELSE IF k = j THEN q ELSE told[clients[k].sock]
  BY TellTwo
<1> HIDE DEF t
<1>2. \A k \in DOMAIN clients : Heard(clients[k], told)
  BY ToldVector
<1>3. ASSUME NEW k \in DOMAIN clients', IsOpen(clients'[k]), clients'[k].nick # NoNick
      PROVE  t[clients'[k].sock] = PlaceOf(clients'[k])
  <2>1. clients'[k].sock = clients[k].sock /\ IsOpen(clients[k])
    BY <1>3 DEF IsOpen
  <2>2. CASE k \in {i, j}
    BY <1>1, <2>1, <2>2
  <2>3. CASE k \notin {i, j}
    BY <1>1, <1>2, <1>3, <2>1, <2>3 DEF Heard
  <2> QED
    BY <2>2, <2>3
<1>4. AllHeard(clients', t)
  BY <1>3 DEF AllHeard, Heard
<1> QED
  BY <1>1, <1>4 DEF t

\* An opponent who is disconnected has no descriptor to be told on.
LEMMA TellOpponentIsTell ==
    ASSUME ToldInv, NEW t, NEW c, NEW place,
           FindClientByNick(clients, OpponentOf(games, c)) \in DOMAIN clients
    PROVE  TellOpponent(t, c, place)
              = Tell(t, clients[FindClientByNick(clients, OpponentOf(games, c))], place)
<1>1. \A i \in DOMAIN clients : clients[i].state = "Disconnected" <=> ~IsOpen(clients[i])
  BY Vector DEF ToldInv
<1> QED
  BY <1>1 DEF TellOpponent, Tell

-----------------------------------------------------------------------------
(* The answers to the requests.                                            *)

\* Two clients are back in the lobby and are told so.
LEMMA LobbyHeard ==
    ASSUME ToldInv, NEW cs \in Seq(ClientRecord), DOMAIN cs = DOMAIN clients,
           NEW i \in DOMAIN clients, NEW j \in DOMAIN clients, i # j,
           \A k \in DOMAIN clients : cs[k].sock = clients[k].sock,
           \A k \in DOMAIN clients : k \notin {i, j} => cs[k] = clients[k],
           clients' = BothToLobby(cs, i, j) \/ clients' = BothToLobby(cs, j, i)
    PROVE  LET t == Tell(Tell(told, clients[i], "lobby"), clients[j], "lobby")
           IN  t \in Told /\ AllHeard(clients', t)
<1>1. /\ DOMAIN clients' = DOMAIN clients
      /\ \A k \in DOMAIN clients :
            clients'[k] = IF k \in {i, j} THEN BackToLobby(cs[k]) ELSE cs[k]
  <2>1. \A k : k \in {i, j} <=> k \in {j, i}
    OBVIOUS
  <2>2. CASE clients' = BothToLobby(cs, i, j)
    BY <2>2, BothToLobbyFields
  <2>3. CASE clients' = BothToLobby(cs, j, i)
    <3>1. /\ DOMAIN clients' = DOMAIN cs
          /\ \A k \in DOMAIN cs :
                clients'[k] = IF k \in {j, i} THEN BackToLobby(cs[k]) ELSE cs[k]
      BY <2>3, BothToLobbyFields
    <3> QED
      BY <2>1, <3>1
  <2> QED
    BY <2>2, <2>3
<1>2. \A k \in {i, j} :
         clients'[k].sock = clients[k].sock /\ PlaceOf(clients'[k]) = "lobby"
  <2> TAKE k \in {i, j}
  <2>1. k \in DOMAIN cs /\ cs[k] \in ClientRecord
    BY ElementOfSeq
  <2>2. clients'[k] = BackToLobby(cs[k]) /\ cs[k].sock = clients[k].sock
    BY <1>1, <2>1
  <2>3. Steady(cs[k], clients'[k]) /\ Activity(clients'[k]) = "Waiting"
    BY <2>1, <2>2, BackToLobbyFields
  <2> QED
    BY <2>2, <2>3, PlaceOfLobby DEF Steady, Playing
<1>3. \A k \in DOMAIN clients : clients'[k].sock = clients[k].sock
  BY <1>1, <1>2
<1>4. \A k \in DOMAIN clients : k \notin {i, j} => clients'[k] = clients[k]
  BY <1>1
<1>5. "lobby" \in Place
  BY DEF Place
<1> QED
  BY <1>1, <1>2, <1>3, <1>4, <1>5, TellTwoHeard

LEMMA LeaveHeard ==
    ASSUME Careful, ToldInv, NEW r \in Request, Sends(r), Routed(clients[pos], r),
           r.key = "l", RequestLeave(pos), AnswerLeave(pos)
    PROVE  told' \in Told /\ AllHeard(clients', told')
<1> DEFINE c == clients[pos]
           o == FindClientByNick(clients, OpponentOf(games, c))
<1>0. CInv
  BY DEF ToldInv
<1>1. pos \in DOMAIN clients /\ c.nick # NoNick /\ Activity(c) \in Playing
  <2>1. pos \in DOMAIN clients /\ c.nick # NoNick /\ c.state \in Playing
    BY <1>0, ServedFacts
  <2> QED
    BY <2>1 DEF Activity, Playing, Away
<1>2. clients \in Seq(ClientRecord) /\ Agree(clients, games) /\ NicksDiffer(clients)
  BY <1>0, Vector
<1>3. o \in DOMAIN clients /\ o # pos
  BY <1>1, <1>2, Opponents
<1>4. clients' = BothToLobby(clients, pos, o)
  BY DEF RequestLeave
<1>5. told' = Tell(Tell(told, clients[pos], "lobby"), clients[o], "lobby")
  BY <1>3, TellOpponentIsTell DEF AnswerLeave
<1> HIDE DEF o
<1>6. LET t == Tell(Tell(told, clients[pos], "lobby"), clients[o], "lobby")
      IN  t \in Told /\ AllHeard(clients', t)
  BY <1>1, <1>2, <1>3, <1>4, LobbyHeard
<1> QED
  BY <1>5, <1>6

LEMMA MoveHeard ==
    ASSUME Careful, ToldInv, NEW r \in Request, Sends(r), Routed(clients[pos], r),
           r.key = "m", RequestMove(pos, r.outcome), AnswerMove(pos, r.outcome)
    PROVE  told' \in Told /\ AllHeard(clients', told')
<1> DEFINE c     == clients[pos]
           g     == GetRoom(games, c.room)
           swap  == MoveInRoom(games, c.room)
           room  == GetRoom(swap, c.room)
           t     == FindClientByNick(clients, room.onTurn)
           first == [clients EXCEPT ![t] = NowOnTurn(clients[t])]
           moved == [first EXCEPT ![pos] = SetState(first[pos], "PlayingOnStand")]
<1>0. CInv
  BY DEF ToldInv
<1>1. /\ FindClientByNick(clients, room.onStand) = pos
      /\ FindClientByNick(clients, g.onTurn) = pos
      /\ FindClientByNick(clients, g.onStand) = t
      /\ t \in DOMAIN clients /\ t # pos
      /\ moved \in Seq(ClientRecord) /\ DOMAIN moved = DOMAIN clients
      /\ \A k \in DOMAIN clients :
            \/ moved[k] = clients[k]
            \/ Steady(clients[k], moved[k])
      /\ \A k \in DOMAIN clients : k \notin {pos, t} => moved[k] = clients[k]
      /\ moved[pos].state = "PlayingOnStand" /\ Activity(moved[t]) = "PlayingOnTurn"
  BY <1>0, MoveFields
<1>2. IF r.outcome = "gameover"
      THEN clients' = BothToLobby(moved, t, pos)
      ELSE clients' = moved
  BY <1>1 DEF RequestMove
<1>3. told' = IF r.outcome = "gameover"
              THEN Tell(Tell(told, clients[pos], "lobby"), clients[t], "lobby")
              ELSE Tell(Tell(told, clients[pos], "stand"), clients[t], "turn")
  BY <1>1 DEF AnswerMove
<1>4. pos \in DOMAIN clients
  BY <1>0, ServedFacts
<1> HIDE DEF g, swap, room, t, moved
<1>5. \A k \in DOMAIN clients : moved[k].sock = clients[k].sock
  BY <1>1 DEF Steady
<1>6. CASE r.outcome = "gameover"
  <2>1. clients' = BothToLobby(moved, t, pos)
    BY <1>2, <1>6
  <2>2. told' = Tell(Tell(told, clients[pos], "lobby"), clients[t], "lobby")
    BY <1>3, <1>6
  <2>3. LET u == Tell(Tell(told, clients[pos], "lobby"), clients[t], "lobby")
        IN  u \in Told /\ AllHeard(clients', u)
    BY <1>1, <1>4, <1>5, <2>1, LobbyHeard
  <2> QED
    BY <2>2, <2>3
<1>7. CASE r.outcome # "gameover"
  <2>1. clients' = moved
    BY <1>2, <1>7
  <2>2. told' = Tell(Tell(told, clients[pos], "stand"), clients[t], "turn")
    BY <1>3, <1>7
  <2>3. PlaceOf(clients'[pos]) = "stand" /\ PlaceOf(clients'[t]) = "turn"
    BY <1>1, <2>1 DEF PlaceOf, Activity, Away
  <2>4. "stand" \in Place /\ "turn" \in Place
    BY DEF Place
  <2>5. /\ DOMAIN clients' = DOMAIN clients
        /\ \A k \in DOMAIN clients : clients'[k].sock = clients[k].sock
        /\ \A k \in DOMAIN clients : k \notin {pos, t} => clients'[k] = clients[k]
    BY <1>1, <1>5, <2>1
  <2>6. LET u == Tell(Tell(told, clients[pos], "stand"), clients[t], "turn")
        IN  u \in Told /\ AllHeard(clients', u)
    BY <1>1, <1>4, <2>3, <2>4, <2>5, TellTwoHeard
  <2> QED
    BY <2>2, <2>6
<1> QED
  BY <1>6, <1>7

\* What the connect requests that have an effect leave of the vector.
LEMMA ConnectFields ==
    ASSUME Careful, CInv, NEW r \in Request, Sends(r), r.key = "c", r.nick \in Nicks,
           RequestConnect(pos, r.nick), ~NickUsed(pos, r.nick)
    PROVE  /\ pos \in DOMAIN clients
           /\ DOMAIN clients' = DOMAIN clients /\ clients'[pos].sock = clients[pos].sock
           /\ clients'[pos].nick = NoNick \/ clients'[pos].state \notin Away
           /\ \A k \in DOMAIN clients :
                 k # pos => clients'[k] = clients[k] \/ clients'[k].nick = NoNick
<1> DEFINE c == clients[pos]
           n == r.nick
<1>1. /\ pos \in DOMAIN clients /\ c \in ClientRecord
      /\ c.nick = NoNick /\ c.state = "New" /\ c.last \in State
  BY ServedFacts DEF ClientRecord, Present
<1>2. clients \in Seq(ClientRecord) /\ \A k \in DOMAIN clients : clients[k] \in ClientRecord
  BY Vector
<1>3. CASE TakeNick(pos, n)
  <2> DEFINE named == [c EXCEPT !.nick = n]
             d == SetStateLast(SetState(named, "Waiting"), "Waiting")
  <2>1. clients' = [clients EXCEPT ![pos] = d]
    BY <1>3 DEF TakeNick
  <2>2. named \in ClientRecord /\ named.sock = c.sock
    BY <1>1 DEF ClientRecord
  <2> HIDE DEF named
  <2>3. "Waiting" \in State /\ "Waiting" \in Present /\ "Waiting" \notin Away
    BY DEF State, Present, Away
  <2>4. d \in ClientRecord /\ d.sock = c.sock /\ d.state = "Waiting"
    BY <2>2, <2>3, SetStateFields, SetStateLastFields
  <2> HIDE DEF d
  <2>5. /\ DOMAIN clients' = DOMAIN clients
        /\ \A k \in DOMAIN clients : clients'[k] = IF k = pos THEN d ELSE clients[k]
    BY <1>2, <2>1, <2>4, AssignProperties
  <2> QED
    BY <1>1, <2>3, <2>4, <2>5
<1>4. CASE ShortReconnect(pos, n)
  <2> DEFINE d == SetState(c, c.last)
  <2>1. clients' = [clients EXCEPT ![pos] = d]
    BY <1>4 DEF ShortReconnect
  <2>2. d \in ClientRecord /\ d.sock = c.sock /\ d.nick = NoNick
    BY <1>1, SetStateFields
  <2> HIDE DEF d
  <2>3. /\ DOMAIN clients' = DOMAIN clients
        /\ \A k \in DOMAIN clients : clients'[k] = IF k = pos THEN d ELSE clients[k]
    BY <1>2, <2>1, <2>2, AssignProperties
  <2> QED
    BY <1>1, <2>2, <2>3
<1>5. CASE TakeOver(pos, n)
  <2> DEFINE o     == Namesake(pos, n)
             old   == clients[o]
             named == [c EXCEPT !.nick = n]
             d     == SetState(named, old.last)
             e     == [d EXCEPT !.room = old.room, !.pings = LongPing]
             taken == [clients EXCEPT ![pos] = e]
             f     == [taken[o] EXCEPT !.nick = NoNick, !.erase = TRUE]
  <2>1. o \in DOMAIN clients /\ o # pos
    BY <1>5, NamesakeIsGone DEF TakeOver
  <2>2. clients' = [taken EXCEPT ![o] = f]
    BY <1>5 DEF TakeOver
  <2> HIDE DEF o
  <2>3. /\ old \in ClientRecord /\ old.last \in State /\ old.last \notin Away
        /\ old.room \in Nat /\ LongPing \in Int
    BY <1>2, <2>1, LongPingAssumption DEF ClientRecord, Present
  <2>4. named \in ClientRecord /\ named.sock = c.sock
    BY <1>1 DEF ClientRecord
  <2> HIDE DEF named
  <2>5. d \in ClientRecord /\ d.sock = c.sock /\ d.state = old.last
    BY <2>3, <2>4, SetStateFields
  <2> HIDE DEF d
  <2>6. e \in ClientRecord /\ e.sock = c.sock /\ e.state = old.last
    BY <2>3, <2>5 DEF ClientRecord
  <2> HIDE DEF e
  <2>7. /\ taken \in Seq(ClientRecord) /\ DOMAIN taken = DOMAIN clients
        /\ \A k \in DOMAIN clients : taken[k] = IF k = pos THEN e ELSE clients[k]
    BY <1>2, <2>6, AssignProperties
  <2> HIDE DEF taken
  <2>8. f \in ClientRecord /\ f.nick = NoNick
    BY <2>1, <2>3, <2>7 DEF ClientRecord
  <2> HIDE DEF f
  <2>9. /\ DOMAIN clients' = DOMAIN clients
        /\ \A k \in DOMAIN clients : clients'[k] = IF k = o THEN f ELSE taken[k]
    BY <2>2, <2>7, <2>8, AssignProperties
  <2> QED
    BY <1>1, <2>1, <2>3, <2>6, <2>7, <2>8, <2>9
<1> QED
  BY <1>3, <1>4, <1>5 DEF RequestConnect

LEMMA ConnectHeard ==
    ASSUME Careful, ToldInv, CInv', NEW r \in Request, Sends(r), r.key = "c", r.nick \in Nicks,
           RequestConnect(pos, r.nick), AnswerConnect(pos, r.nick)
    PROVE  told' \in Told /\ AllHeard(clients', told')
<1> DEFINE n     == r.nick
           place == PlaceTold(clients'[pos])
<1>0. CInv
  BY DEF ToldInv
<1>1. CASE NickUsed(pos, n)
  <2>1. told' = told
    BY <1>1 DEF NickUsed, AnswerConnect
  <2>2. clients' = clients
    BY <1>1 DEF NickUsed, managerVars
  <2> QED
    BY <2>1, <2>2 DEF ToldInv
<1>2. CASE ~NickUsed(pos, n)
  <2>1. told' = Tell(told, clients[pos], place)
    <3>1. CASE TakeNick(pos, n)
      BY <3>1 DEF TakeNick, AnswerConnect
    <3>2. CASE ShortReconnect(pos, n)
      BY <3>2 DEF ShortReconnect, AnswerConnect, Playing
    <3>3. CASE TakeOver(pos, n)
      BY <3>3 DEF TakeOver, AnswerConnect, Playing
    <3> QED
      BY <1>2, <3>1, <3>2, <3>3 DEF RequestConnect
  <2>2. /\ pos \in DOMAIN clients
        /\ DOMAIN clients' = DOMAIN clients /\ clients'[pos].sock = clients[pos].sock
        /\ clients'[pos].nick = NoNick \/ clients'[pos].state \notin Away
        /\ \A k \in DOMAIN clients :
              k # pos => clients'[k] = clients[k] \/ clients'[k].nick = NoNick
    BY <1>0, <1>2, ConnectFields
  <2>3. HasGame(clients'[pos], games')
    BY <2>2 DEF CInv, Agree
  <2>4. clients'[pos].nick # NoNick => PlaceOf(clients'[pos]) = place
    BY <2>2, <2>3, PlaceToldIsPlaceOf
  <2>5. place \in Place
    BY PlaceToldIsPlace
  <2> HIDE DEF place
  <2>6. LET t == Tell(told, clients[pos], place)
        IN  t \in Told /\ AllHeard(clients', t)
    BY <2>2, <2>4, <2>5, TellOneHeard
  <2> QED
    BY <2>1, <2>6
<1> QED
  BY <1>1, <1>2

\* A request that sends nobody anywhere.
LEMMA SameHeard ==
    ASSUME ToldInv, DOMAIN clients' = DOMAIN clients,
           \A k \in DOMAIN clients :
              /\ clients'[k].sock = clients[k].sock
              /\ \/ clients'[k].nick = NoNick
                 \/ clients'[k].nick = clients[k].nick /\ PlaceOf(clients'[k]) = PlaceOf(clients[k])
    PROVE  told \in Told /\ AllHeard(clients', told)
<1>1. told \in Told /\ \A k \in DOMAIN clients : Heard(clients[k], told)
  BY ToldVector
<1>2. \A k \in DOMAIN clients' : Heard(clients'[k], told)
  BY <1>1 DEF Heard, IsOpen
<1> QED
  BY <1>1, <1>2 DEF AllHeard

LEMMA ReadyHeard ==
    ASSUME Careful, ToldInv, NEW r \in Request, Sends(r), Routed(clients[pos], r),
           r.key = "rd", RequestReady(pos)
    PROVE  told \in Told /\ AllHeard(clients', told)
<1> DEFINE c == clients[pos]
           d == SetState(c, "Ready")
<1>1. /\ pos \in DOMAIN clients /\ c \in ClientRecord /\ c.state = "Waiting"
      /\ clients \in Seq(ClientRecord)
  BY ServedFacts, Vector DEF ToldInv
<1>2. clients' = [clients EXCEPT ![pos] = d]
  BY DEF RequestReady
<1>3. /\ d \in ClientRecord /\ d.nick = c.nick /\ d.sock = c.sock /\ d.state = "Ready"
  BY <1>1, SetStateFields DEF State
<1> HIDE DEF d
<1>4. PlaceOf(d) = "lobby" /\ PlaceOf(c) = "lobby"
  BY <1>1, <1>3 DEF PlaceOf, Activity, Away
<1>5. /\ DOMAIN clients' = DOMAIN clients
      /\ \A k \in DOMAIN clients : clients'[k] = IF k = pos THEN d ELSE clients[k]
  BY <1>1, <1>2, <1>3, AssignProperties
<1> QED
  BY <1>3, <1>4, <1>5, SameHeard

LEMMA AnswerHeard ==
    ASSUME Careful, ToldInv, CInv', NEW r \in Request, ServeRequest(r), Answer(pos, r)
    PROVE  told' \in Told /\ AllHeard(clients', told')
<1>0. Sends(r) /\ Routed(clients[pos], r) /\ RouteRequest(pos, r) /\ CInv
  BY DEF ServeRequest, ToldInv
<1>1. CASE r.key = "c"
  <2>1. r.nick \in Nicks
    BY <1>1 DEF Request, Connect, Move, Plain
  <2>2. RequestConnect(pos, r.nick) /\ AnswerConnect(pos, r.nick)
    BY <1>0, <1>1 DEF RouteRequest, Answer
  <2> QED
    BY <1>0, <1>1, <2>1, <2>2, ConnectHeard
<1>2. CASE r.key = "m"
  <2>1. RequestMove(pos, r.outcome) /\ AnswerMove(pos, r.outcome)
    BY <1>0, <1>2 DEF RouteRequest, Answer
  <2> QED
    BY <1>0, <1>2, <2>1, MoveHeard
<1>3. CASE r.key = "l"
  <2>1. RequestLeave(pos) /\ AnswerLeave(pos)
    BY <1>0, <1>3 DEF RouteRequest, Answer
  <2> QED
    BY <1>0, <1>3, <2>1, LeaveHeard
<1>4. CASE r.key \notin {"c", "m", "l"}
  <2>1. told' = told
    BY <1>4 DEF Answer
  <2>2. CASE r.key = "<"
    <3>1. /\ DOMAIN clients' = DOMAIN clients
          /\ \A k \in DOMAIN clients :
                /\ clients'[k].sock = clients[k].sock /\ clients'[k].nick = clients[k].nick
                /\ Activity(clients'[k]) = Activity(clients[k])
      BY <1>0, <2>2, PongStep
    <3> QED
      BY <2>1, <3>1, SamePlace, SameHeard
  <2>3. CASE r.key = "rd"
    <3>1. RequestReady(pos)
      BY <1>0, <2>3 DEF RouteRequest
    <3> QED
      BY <1>0, <2>1, <2>3, <3>1, ReadyHeard
  <2>4. CASE r.key \notin {"<", "rd"}
    <3>1. clients' = clients
      <4>1. CASE RequestChat(pos)
        BY <4>1 DEF RequestChat, managerVars
      <4>2. CASE r.key = ">" /\ RequestPing(pos)
        <5>1. ~IsSilent(clients[pos]) /\ clients \in Seq(ClientRecord)
          BY <1>0, <4>2, ServedFacts, Vector
        <5>2. clients' = [clients EXCEPT ![pos] = clients[pos]]
          BY <4>2, <5>1 DEF RequestPing, IsSilent
        <5> QED
          BY <5>1, <5>2
      <4> QED
        BY <1>0, <1>4, <2>4, <4>1, <4>2 DEF RouteRequest
    <3> QED
      BY <2>1, <3>1 DEF ToldInv
  <2> QED
    BY <2>2, <2>3, <2>4
<1> QED
  BY <1>1, <1>2, <1>3, <1>4

-----------------------------------------------------------------------------
(* The connections and the instances that come and go.                     *)

\* What the invariant says of the next vector and of its descriptors.
LEMMA NextVector ==
    ASSUME CInv'
    PROVE  Safe(clients', sockets') /\ sockets' \subseteq Descriptors
BY DEF CInv, IInv, Threads

\* Nothing is said about an instance whose connection is closed.
LEMMA CloseHeard ==
    ASSUME ToldInv, CInv', NEW e, pos \in DOMAIN clients, ~IsOpen(e),
           clients' = [clients EXCEPT ![pos] = e]
    PROVE  Forget(told) \in Told /\ AllHeard(clients', Forget(told))
<1>1. clients \in Seq(ClientRecord)
  BY Vector DEF ToldInv
<1>2. /\ DOMAIN clients' = DOMAIN clients
      /\ \A k \in DOMAIN clients : clients'[k] = IF k = pos THEN e ELSE clients[k]
  BY <1>1
<1>3. told \in Told /\ AllHeard(clients', told)
  BY <1>2, ToldVector DEF AllHeard, Heard
<1> QED
  BY <1>3, NextVector, ForgetHeard

\* The opponent of an erased player is back in the lobby and told so.
LEMMA EraseHeard ==
    ASSUME ToldInv, NEW cs \in Seq(ClientRecord), Agree(cs, games), NicksDiffer(cs),
           DOMAIN cs = DOMAIN clients, NEW i \in DOMAIN clients, ~IsOpen(cs[i]),
           cs[i].nick = clients[i].nick,
           \A k \in DOMAIN clients : k # i => cs[k] = clients[k],
           EraseClient(cs, i), pc' # "undefined"
    PROVE  ToldOfErased(cs[i]) \in Told /\ AllHeard(clients', ToldOfErased(cs[i]))
<1> DEFINE c == cs[i]
           n == OpponentOf(games, c)
           o == FindClientByNick(cs, n)
<1>1. told \in Told /\ \A k \in DOMAIN clients : Heard(clients[k], told)
  BY ToldVector
<1>2. i \in 1..Len(cs) /\ DOMAIN cs = 1..Len(cs) /\ Len(cs) \in Nat
  BY LenProperties
<1>3. ASSUME NEW es \in Seq(ClientRecord), DOMAIN es = DOMAIN cs, NEW t, AllHeard(es, t)
      PROVE  AllHeard(RemoveAt(es, i), t)
  <2>1. i \in 1..Len(es)
    BY <1>2, <1>3, LenProperties
  <2>2. /\ Len(es) \in Nat /\ DOMAIN es = 1..Len(es)
        /\ DOMAIN RemoveAt(es, i) = 1..(Len(es) - 1)
        /\ \A k \in 1..(Len(es) - 1) :
              RemoveAt(es, i)[k] = IF k < i THEN es[k] ELSE es[k + 1]
    <3>1. /\ RemoveAt(es, i) \in Seq(ClientRecord)
          /\ Len(RemoveAt(es, i)) = Len(es) - 1
          /\ \A k \in 1..(Len(es) - 1) :
                RemoveAt(es, i)[k] = IF k < i THEN es[k] ELSE es[k + 1]
      BY <2>1, RemoveAtProperties
    <3>2. Len(es) \in Nat /\ DOMAIN es = 1..Len(es)
      BY <1>3, LenProperties
    <3> QED
      BY <3>1, <3>2, LenProperties
  <2>3. \A k \in 1..(Len(es) - 1) : k \in DOMAIN es /\ k + 1 \in DOMAIN es
    BY <2>2
  <2>4. \A k \in DOMAIN RemoveAt(es, i) : \E l \in DOMAIN es : RemoveAt(es, i)[k] = es[l]
    BY <2>2, <2>3
  <2> QED
    BY <1>3, <2>4 DEF AllHeard
<1>4. CASE ~LeavesGameWhenErased(c)
  <2>1. ToldOfErased(c) = told /\ clients' = RemoveAt(cs, i)
    BY <1>4 DEF ToldOfErased, EraseClient
  <2>2. AllHeard(cs, told)
    BY <1>1 DEF AllHeard, Heard
  <2> QED
    BY <1>1, <1>3, <2>1, <2>2
<1>5. CASE LeavesGameWhenErased(c)
  <2> DEFINE es == BothToLobby(cs, i, o)
             t  == Tell(told, clients[o], "lobby")
  <2>1. c.nick # NoNick /\ Activity(c) \in Playing
    <3>1. HasGame(c, games)
      BY DEF Agree
    <3> QED
      BY <1>5, <3>1 DEF HasGame, LeavesGameWhenErased
  <2>2. o \in DOMAIN cs /\ o # i
    BY <2>1, Opponents
  <2>3. FindClientByNick(clients, n) = o
    <3>1. Named(clients, n) = Named(cs, n)
      BY DEF Named
    <3> QED
      BY <3>1 DEF FindClientByNick
  <2>4. ToldOfErased(c) = t
    <3>1. ToldOfErased(c) = TellOpponent(told, c, "lobby")
      BY <1>5 DEF ToldOfErased
    <3>2. FindClientByNick(clients, OpponentOf(games, c)) \in DOMAIN clients
      BY <2>2, <2>3
    <3>3. TellOpponent(told, c, "lobby")
             = Tell(told, clients[FindClientByNick(clients, OpponentOf(games, c))], "lobby")
      BY <3>2, TellOpponentIsTell
    <3> QED
      BY <2>3, <3>1, <3>3
  <2>5. clients' = RemoveAt(es, i)
    BY <1>5 DEF EraseClient
  <2> HIDE DEF n, o
  <2>6. /\ es \in Seq(ClientRecord) /\ DOMAIN es = DOMAIN cs
        /\ \A k \in DOMAIN cs : es[k] = IF k \in {i, o} THEN BackToLobby(cs[k]) ELSE cs[k]
    BY <2>2, BothToLobbyFields
  <2>7. \A k \in {i, o} : es[k].sock = cs[k].sock /\ PlaceOf(es[k]) = "lobby"
    <3> TAKE k \in {i, o}
    <3>1. k \in DOMAIN cs /\ cs[k] \in ClientRecord /\ es[k] = BackToLobby(cs[k])
      BY <2>2, <2>6, ElementOfSeq
    <3>2. Steady(cs[k], es[k]) /\ Activity(es[k]) = "Waiting"
      BY <3>1, BackToLobbyFields
    <3> QED
      BY <3>2, PlaceOfLobby DEF Steady, Playing
  <2> HIDE DEF es
  <2>8. /\ t \in Told
        /\ IsOpen(clients[o]) => t[clients[o].sock] = "lobby"
        /\ \A s : s # clients[o].sock => t[s] = told[s]
    BY <1>1, <2>2, ToldVector, TellProperties DEF Place
  <2> HIDE DEF t
  <2>9. ASSUME NEW k \in DOMAIN es, IsOpen(es[k]), es[k].nick # NoNick
        PROVE  t[es[k].sock] = PlaceOf(es[k])
    <3>1. k # i
      BY <2>7, <2>9 DEF IsOpen
    <3>2. CASE k = o
      BY <2>2, <2>7, <2>8, <2>9, <3>2 DEF IsOpen
    <3>3. CASE k # o
      <4>1. es[k] = clients[k] /\ k \in DOMAIN clients
        BY <2>6, <3>1, <3>3
      <4>2. clients[k].sock # clients[o].sock
        BY <2>2, <2>9, <3>3, <4>1, ToldVector
      <4> QED
        BY <1>1, <2>8, <2>9, <4>1, <4>2 DEF Heard
    <3> QED
      BY <3>2, <3>3
  <2>10. AllHeard(es, t)
    BY <2>9 DEF AllHeard, Heard
  <2>11. AllHeard(RemoveAt(es, i), t)
    BY <1>3, <2>6, <2>10
  <2> QED
    BY <2>4, <2>5, <2>8, <2>11
<1> QED
  BY <1>4, <1>5

LEMMA EraseFlaggedHeard ==
    ASSUME ToldInv, CInv', EraseFlagged, told' = ToldOfErased(clients[pos])
    PROVE  told' \in Told /\ AllHeard(clients', told')
<1>0. CInv
  BY DEF ToldInv
<1>1. /\ clients \in Seq(ClientRecord) /\ Agree(clients, games) /\ NicksDiffer(clients)
      /\ DOMAIN clients = 1..Len(clients)
      /\ \A i \in DOMAIN clients : Tidy(clients[i])
      /\ \A i \in DOMAIN clients : clients[i].state = "Disconnected" <=> ~IsOpen(clients[i])
  BY <1>0, Vector
<1>2. pos \in DOMAIN clients /\ ~clients[pos].disc /\ clients[pos].erase
  BY <1>0, <1>1 DEF EraseFlagged, AtClient, CInv, IInv, Threads
<1>3. ~IsOpen(clients[pos])
  BY <1>1, <1>2 DEF Tidy
<1>4. pc' # "undefined"
  BY DEF CInv
<1>5. EraseClient(clients, pos)
  BY <1>4 DEF EraseFlagged, Undefined
<1> QED
  BY <1>1, <1>2, <1>3, <1>4, <1>5, EraseHeard

LEMMA ShutdownHeard ==
    ASSUME ToldInv, CInv', ShutdownClient,
           told' = Forget(ToldOfErased(Closed(clients[1])))
    PROVE  told' \in Told /\ AllHeard(clients', told')
<1> DEFINE e  == Closed(clients[1])
           cs == [clients EXCEPT ![1] = e]
<1>0. CInv
  BY DEF ToldInv
<1>1. clients \in Seq(ClientRecord) /\ Len(clients) \in Nat
  BY <1>0, Vector
<1>2. 1 \in DOMAIN clients
  BY <1>1 DEF ShutdownClient
<1>3. pc' # "undefined"
  BY DEF CInv
<1>4. ReleaseSocket(clients[1]) /\ EraseClient(cs, 1)
  BY <1>3 DEF ShutdownClient, Undefined
<1>5. /\ cs \in Seq(ClientRecord) /\ DOMAIN cs = DOMAIN clients
      /\ Agree(cs, games) /\ NicksDiffer(cs) /\ ~IsOpen(cs[1])
  BY <1>0, <1>2, <1>4, CloseCareful
<1>6. e.nick = clients[1].nick
  BY <1>1, <1>2, ElementOfSeq, ClosedProperties
<1>7. cs[1] = e /\ \A k \in DOMAIN clients : k # 1 => cs[k] = clients[k]
  BY <1>1, <1>2
<1> HIDE DEF cs, e
<1>8. ToldOfErased(cs[1]) \in Told /\ AllHeard(clients', ToldOfErased(cs[1]))
  BY <1>2, <1>3, <1>4, <1>5, <1>6, <1>7, EraseHeard
<1>9. ToldOfErased(e) \in Told /\ AllHeard(clients', ToldOfErased(e))
  BY <1>7, <1>8
<1>10. Forget(ToldOfErased(e)) \in Told /\ AllHeard(clients', Forget(ToldOfErased(e)))
  BY <1>9, NextVector, ForgetHeard
<1> QED
  BY <1>10 DEF e

\* A new connection has no name yet.
LEMMA AcceptHeard ==
    ASSUME ToldInv, NEW ip \in IPs, AcceptConnection(ip)
    PROVE  told \in Told /\ AllHeard(clients', told)
<1> DEFINE sock == Min(Descriptors \ sockets)
           new  == NewClient(ip, sock)
<1>1. /\ clients \in Seq(ClientRecord) /\ Len(clients) \in Nat
      /\ DOMAIN clients = 1..Len(clients)
  BY Vector DEF ToldInv
<1>2. clients' = Append(clients, new)
  BY DEF AcceptConnection, CreateClient
<1>3. new.nick = NoNick
  BY DEF NewClient
<1> HIDE DEF new
<1>4. /\ DOMAIN clients' = 1..(Len(clients) + 1)
      /\ \A k \in DOMAIN clients' :
            clients'[k] = IF k \in DOMAIN clients THEN clients[k] ELSE new
  BY <1>1, <1>2
<1>5. told \in Told /\ \A k \in DOMAIN clients : Heard(clients[k], told)
  BY ToldVector
<1> QED
  BY <1>3, <1>4, <1>5 DEF AllHeard, Heard

\* A ping moves nobody.
LEMMA PingHeard ==
    ASSUME ToldInv, PingClients
    PROVE  told \in Told /\ AllHeard(clients', told)
<1>1. /\ DOMAIN clients' = DOMAIN clients
      /\ \A k \in DOMAIN clients : clients'[k] = PingOne(clients[k])
  BY DEF PingClients
<1>2. ASSUME NEW k \in DOMAIN clients
      PROVE  /\ clients'[k].sock = clients[k].sock
             /\ \/ clients'[k].nick = NoNick
                \/ clients'[k].nick = clients[k].nick /\ PlaceOf(clients'[k]) = PlaceOf(clients[k])
  <2> DEFINE c == clients[k]
             d == PingOne(c)
  <2>1. c \in ClientRecord /\ Tidy(c) /\ (c.state = "Disconnected" <=> ~IsOpen(c))
    BY Vector DEF ToldInv
  <2>2. d.sock = c.sock /\ SameGame(c, d)
    BY <2>1, PingOneFields
  <2>3. d.nick = c.nick
    BY <2>1, PingOneKept DEF Kept
  <2>4. clients'[k] = d
    BY <1>1
  <2> HIDE DEF d
  <2>5. d.nick = NoNick \/ PlaceOf(d) = PlaceOf(c)
    BY <2>2, <2>3, SamePlace DEF SameGame
  <2> QED
    BY <2>2, <2>3, <2>4, <2>5
<1> QED
  BY <1>1, <1>2, SameHeard

\* Both players of a new game are told of it.
LEMMA PairingHeard ==
    ASSUME ToldInv, CInv', EndOfPass
    PROVE  ToldOfGames \in Told /\ AllHeard(clients', ToldOfGames)
<1>0. CInv
  BY DEF ToldInv
<1>1. /\ \A k \in DOMAIN clients : IsOpen(clients[k]) => clients[k].sock \in Descriptors
      /\ \A k, l \in DOMAIN clients :
            IsOpen(clients[k]) /\ clients[k].sock = clients[l].sock => k = l
      /\ \A k \in DOMAIN clients : Heard(clients[k], told)
      /\ told \in Told
  BY ToldVector
<1>2. /\ DOMAIN clients' = DOMAIN clients
      /\ \A k \in DOMAIN clients :
            clients'[k] = IF k \in Paired THEN StartGame(k) ELSE clients[k]
  BY DEF EndOfPass, MoveReadyClientsToPlay
<1>3. \A k \in Paired : k \in DOMAIN clients /\ IsOpen(clients[k])
  <2> TAKE k \in Paired
  <2>1. k \in ReadyClients
    BY DEF Paired
  <2> QED
    BY <1>0, <2>1, ReadyFields, Vector
<1>4. \A k \in DOMAIN clients' : HasGame(clients'[k], games')
  BY DEF CInv, Agree
<1>5. ToldOfGames \in Told
  BY <1>1, PlaceToldIsPlace DEF ToldOfGames, Told
<1>6. ASSUME NEW k \in DOMAIN clients', IsOpen(clients'[k]), clients'[k].nick # NoNick
      PROVE  ToldOfGames[clients'[k].sock] = PlaceOf(clients'[k])
  <2>1. CASE k \in Paired
    <3> DEFINE d == StartGame(k)
               s == clients[k].sock
    <3>1. d.sock = s /\ d.state \notin Away /\ clients'[k] = d
      BY <1>0, <1>2, <2>1, StartGameFields
    <3> HIDE DEF d
    <3>2. s \in Descriptors /\ \A i \in Paired : clients[i].sock = s => i = k
      BY <1>1, <1>3, <2>1
    <3>3. (CHOOSE i \in Paired : clients[i].sock = s) = k
      BY <2>1, <3>2
    <3>4. ToldOfGames[s] = PlaceTold(clients'[k])
      <4>1. \E i \in Paired : clients[i].sock = s
        BY <2>1
      <4> HIDE DEF s
      <4>2. ToldOfGames[s] = PlaceTold(clients'[CHOOSE i \in Paired : clients[i].sock = s])
        BY <3>2, <4>1 DEF ToldOfGames
      <4> QED
        BY <3>3, <4>2
    <3>5. PlaceTold(clients'[k]) = PlaceOf(clients'[k])
      BY <1>4, <1>6, <3>1, PlaceToldIsPlaceOf
    <3> QED
      BY <3>1, <3>4, <3>5
  <2>2. CASE k \notin Paired
    <3> DEFINE s == clients[k].sock
    <3>1. clients'[k] = clients[k] /\ k \in DOMAIN clients
      BY <1>2, <2>2
    <3>2. s \in Descriptors /\ ~\E i \in Paired : clients[i].sock = s
      BY <1>1, <1>3, <1>6, <2>2, <3>1
    <3>3. told[s] = PlaceOf(clients[k])
      BY <1>1, <1>6, <3>1 DEF Heard
    <3> HIDE DEF s
    <3>4. ToldOfGames[s] = told[s]
      BY <3>2 DEF ToldOfGames
    <3> QED
      BY <3>1, <3>3, <3>4 DEF s
  <2> QED
    BY <2>1, <2>2
<1> QED
  BY <1>5, <1>6 DEF AllHeard, Heard

-----------------------------------------------------------------------------
(* The steps together.                                                     *)

\* Every step of module Messages is a step of module Server.
LEMMA ToldStepIsStep == [ToldNext]_<<vars, told>> => [Next]_vars
<1>1. CASE ToldNext
  <2>1. Silent => Next
    BY DEF Silent, Next, PingThread, Select, Capacity, UpdateClient, Serve, Shutdown
  <2>2. \A r \in Request : ServeRequest(r) => Next
    BY DEF Next, UpdateClient, Serve
  <2>3. Closes => Next
    BY DEF Closes, Next, UpdateClient, Capacity, Serve
  <2>4. EraseFlagged \/ ShutdownClient \/ EndOfPass => Next
    BY DEF Next, UpdateClient, Shutdown
  <2> QED
    BY <1>1, <2>1, <2>2, <2>3, <2>4 DEF ToldNext
<1>2. CASE UNCHANGED <<vars, told>>
  BY <1>2
<1> QED
  BY <1>1, <1>2

LEMMA SilentHeard ==
    ASSUME Careful, ToldInv, CInv', Silent
    PROVE  told \in Told /\ AllHeard(clients', told)
<1>0. CInv
  BY DEF ToldInv
<1>1. ASSUME clients' = clients PROVE told \in Told /\ AllHeard(clients', told)
  BY <1>1 DEF ToldInv
<1>2. pc' # "undefined"
  BY DEF CInv
<1>3. CASE PingThread
  BY <1>2, <1>3, PingHeard DEF PingThread, UndefinedPing, Undefined
<1>4. CASE Select
  <2>1. CASE NoConnection \/ Interrupt
    BY <1>1, <2>1 DEF NoConnection, Interrupt, managerVars
  <2> QED
    BY <1>4, <2>1, AcceptHeard DEF Select
<1>5. CASE HasCapacity \/ SkipClient \/ EndOfBatch \/ CloseServerSocket \/ Halted
  <2>1. clients' = clients
    BY <1>5 DEF HasCapacity, SkipClient, EndOfBatch, CloseServerSocket, Halted, vars, managerVars
  <2> QED
    BY <1>1, <2>1
<1>6. ~EvictLongestDisconnected
  BY <1>0, NotFull DEF EvictLongestDisconnected
<1>7. \A r \in Request : ~UndefinedRequest(r)
  BY <1>2 DEF UndefinedRequest, Undefined
<1> QED
  BY <1>3, <1>4, <1>5, <1>6, <1>7 DEF Silent

LEMMA ClosesHeard ==
    ASSUME Careful, ToldInv, CInv', Closes
    PROVE  Forget(told) \in Told /\ AllHeard(clients', Forget(told))
<1>0. CInv
  BY DEF ToldInv
<1>1. pc' # "undefined"
  BY DEF CInv
<1>2. ~RefuseConnection
  BY <1>0, NotFull DEF RefuseConnection
<1>3. pos \in DOMAIN clients
  <2>1. pos \in Nat \ {0} /\ DOMAIN clients = 1..Len(clients) /\ Len(clients) \in Nat
    BY <1>0, Vector DEF CInv, IInv, Threads
  <2>2. pos <= Len(clients)
    BY <1>2 DEF Closes, CloseFlagged, DropClient, KickClient, Violates, Sends, AtClient
  <2> QED
    BY <2>1, <2>2
<1> DEFINE c == clients[pos]
<1>4. c \in ClientRecord /\ Tidy(c)
  BY <1>0, <1>3, Vector
<1>5. PICK e \in {Closed(c), [Closed(c) EXCEPT !.disc = FALSE]} :
         clients' = [clients EXCEPT ![pos] = e]
  <2>1. CASE CloseFlagged
    BY <1>1, <2>1 DEF CloseFlagged, Close, Undefined
  <2>2. CASE DropClient \/ KickClient
    BY <1>1, <2>2 DEF DropClient, KickClient, Close, Undefined
  <2> QED
    BY <1>2, <2>1, <2>2 DEF Closes
<1>6. ~IsOpen(e)
  BY <1>4, ClosedIsTidy
<1> QED
  BY <1>3, <1>5, <1>6, CloseHeard

LEMMA InitTold == ToldInit => ToldInv
<1> SUFFICES ASSUME ToldInit PROVE ToldInv
  OBVIOUS
<1>1. CInv
  BY InitCareful DEF ToldInit
<1>2. told \in Told
  BY DEF ToldInit, Told, Place
<1>3. DOMAIN clients = {}
  BY DEF ToldInit, Init, ManagerInit
<1> QED
  BY <1>1, <1>2, <1>3 DEF ToldInv, AllHeard

LEMMA NextTold == Careful /\ ToldInv /\ [ToldNext]_<<vars, told>> => ToldInv'
<1> SUFFICES ASSUME Careful, ToldInv, [ToldNext]_<<vars, told>> PROVE ToldInv'
  OBVIOUS
<1>1. CInv'
  BY ToldStepIsStep, NextCareful DEF ToldInv
<1> SUFFICES told' \in Told /\ AllHeard(clients', told')
  BY <1>1 DEF ToldInv, AllHeard, Heard, PlaceOf
<1>2. CASE Silent /\ told' = told
  BY <1>1, <1>2, SilentHeard
<1>3. ASSUME NEW r \in Request, ServeRequest(r), Answer(pos, r)
      PROVE  told' \in Told /\ AllHeard(clients', told')
  BY <1>1, <1>3, AnswerHeard
<1>4. CASE Closes /\ told' = Forget(told)
  BY <1>1, <1>4, ClosesHeard
<1>5. CASE EraseFlagged /\ told' = ToldOfErased(clients[pos])
  BY <1>1, <1>5, EraseFlaggedHeard
<1>6. CASE ShutdownClient /\ told' = Forget(ToldOfErased(Closed(clients[1])))
  BY <1>1, <1>6, ShutdownHeard
<1>7. CASE EndOfPass /\ told' = ToldOfGames
  BY <1>1, <1>7, PairingHeard
<1>8. CASE UNCHANGED <<vars, told>>
  BY <1>8 DEF vars, managerVars, ToldInv
<1> QED
  BY <1>2, <1>3, <1>4, <1>5, <1>6, <1>7, <1>8 DEF ToldNext

-----------------------------------------------------------------------------
(* The theorems.                                                           *)

\* Sending messages adds nothing to what the server does: every behaviour of
\* module Messages is one of module Server, so what is proved of the server
\* holds of it as well.
THEOREM ToldIsServer == ToldSpec => Spec
<1>1. ToldInit => Init
  BY DEF ToldInit
<1> QED
  BY <1>1, ToldStepIsStep, PTL DEF ToldSpec, Spec

\* With careful peers a client with a connection and a name has always been
\* told the place the server takes it to be in: by the answers to its own
\* requests, and by those to its opponent's.
THEOREM ClientsAreTold == ASSUME Careful PROVE ToldSpec => []ToldAgrees
<1>1. ToldInit => ToldInv
  BY InitTold
<1>2. ToldInv /\ [ToldNext]_<<vars, told>> => ToldInv'
  BY NextTold
<1>3. ToldInv => ToldAgrees
  BY ToldAgreesIsHeard DEF ToldInv
<1> QED
  BY <1>1, <1>2, <1>3, PTL DEF ToldSpec

===============================================================================
