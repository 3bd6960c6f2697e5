---------------------------- MODULE ClientManager ----------------------------
(***************************************************************************)
(* The class ClientManager: the vector of client instances, the lobby, and *)
(* one action per request handler.  The handlers run in the server's main  *)
(* loop (module Server), which decides when a client is served.            *)
(*                                                                         *)
(* Several handlers dereference the iterator a search returned without     *)
(* comparing it with end().  Such a handler has a Defined... predicate: it *)
(* says that every iterator the handler dereferences points to an element. *)
(* When it does not hold the behaviour of the program is undefined, and    *)
(* module Server stops the behaviour there.                                *)
(***************************************************************************)
EXTENDS Lobby, Sequences, FiniteSets, SequencesExt

VARIABLES
    clients,    \* std::vector<Client> ClientManager::clients
    games,      \* std::vector<RoomHnefatafl> Lobby::games, as a set
    roomsTotal  \* Lobby::roomsTotal, the id of the last room created

managerVars == <<clients, games, roomsTotal>>

ManagerInit == clients = <<>> /\ games = {} /\ roomsTotal = 0

-----------------------------------------------------------------------------
(* Searching the vector.                                                   *)

Named(cs, n) == {i \in DOMAIN cs : cs[i].nick = n}

NamedAt(cs, n, ip) == {i \in Named(cs, n) : cs[i].ip = ip}

\* findClientByNick and findClientByNickAndIp answer the first match.
FindClientByNick(cs, n) == Min(Named(cs, n))

DisconnectedClients == {i \in DOMAIN clients : clients[i].state = "Disconnected"}

\* isDisconnectedClient
IsDisconnectedClient == DisconnectedClients # {}

\* The first of the instances with the least inaccessibility count.
LongestDisconnected ==
    CHOOSE i \in DisconnectedClients :
        \A j \in DisconnectedClients :
            \/ clients[i].pings < clients[j].pings
            \/ clients[i].pings = clients[j].pings /\ i <= j

HasOpponent(cs, c) ==
    /\ HasRoom(games, c.room)
    /\ Named(cs, OpponentOf(games, c)) # {}

-----------------------------------------------------------------------------
(* Creating and erasing instances.                                         *)

CreateClient(ip, sock) ==
    /\ clients' = Append(clients, NewClient(ip, sock))
    /\ UNCHANGED <<games, roomsTotal>>

\* Mutant of BothToLobby: the second player is forgotten.
MutOneToLobby(cs, i, j) == [cs EXCEPT ![i] = BackToLobby(@)]

\* destroyRoom works on the two instances one after the other.
BothToLobby(cs, i, j) ==
    LET first == [cs EXCEPT ![i] = BackToLobby(@)]
    IN  [first EXCEPT ![j] = BackToLobby(@)]

\* Mutant of LeavesGameWhenErased: the game of an erased player goes on.
MutGameGoesOn(c) == FALSE

LeavesGameWhenErased(c) ==
    c.nick # NoNick /\ c.room # LobbyRoom /\ c.last \in Playing

DefinedErase(cs, i) == LeavesGameWhenErased(cs[i]) => HasOpponent(cs, cs[i])

\* eraseClient, on the vector cs: the game of the erased player is over.
EraseClient(cs, i) ==
    LET c == cs[i]
        o == FindClientByNick(cs, OpponentOf(games, c))
    IN  /\ IF LeavesGameWhenErased(c)
           THEN /\ clients' = RemoveAt(BothToLobby(cs, i, o), i)
                /\ games' = RemoveRoom(games, c.room)
           ELSE /\ clients' = RemoveAt(cs, i)
                /\ games' = games
        /\ UNCHANGED roomsTotal

\* eraseLongestDisconnectedClient erases the element and nothing else.
EraseLongestDisconnectedClient ==
    /\ clients' = RemoveAt(clients, LongestDisconnected)
    /\ UNCHANGED <<games, roomsTotal>>

-----------------------------------------------------------------------------
(* The connect request: a new name, a name in use, a short inaccessibility *)
(* or the return of a client that has a new connection.                    *)

CanTakeNick(c) == c.last = "New" /\ c.state \in {"New"} \cup Away

TakeNick(i, n) ==
    /\ Named(clients, n) = {}
    /\ CanTakeNick(clients[i])
    /\ clients' = [clients EXCEPT ![i] =
           SetStateLast(SetState([@ EXCEPT !.nick = n], "Waiting"), "Waiting")]
    /\ UNCHANGED <<games, roomsTotal>>

\* The instance a connect request of client i for nick n is compared with.
Namesakes(i, n) == NamedAt(clients, n, clients[i].ip)
Namesake(i, n) == Min(Namesakes(i, n))

NickUsed(i, n) ==
    /\ Named(clients, n) # {}
    /\ Namesakes(i, n) # {} =>
          clients[Namesake(i, n)].state \in {"Waiting"} \cup Playing
    /\ UNCHANGED managerVars

\* The code restores the requesting instance, whatever the namesake is.
ShortReconnect(i, n) ==
    /\ Namesakes(i, n) # {}
    /\ clients[Namesake(i, n)].state \in {"Pinged", "Lost"}
    /\ clients' = [clients EXCEPT ![i] = SetState(@, @.last)]
    /\ UNCHANGED <<games, roomsTotal>>

\* Mutant of TakeOver: the old instance keeps its name.
MutTakeOver(i, n) ==
    LET o == Namesake(i, n)
    IN  /\ Namesakes(i, n) # {}
        /\ clients[o].state \in {"New", "Ready", "Disconnected"}
        /\ clients' = [clients EXCEPT
               ![i] = [SetState([@ EXCEPT !.nick = n], clients[o].last) EXCEPT
                          !.room = clients[o].room, !.pings = LongPing],
               ![o].erase = TRUE]
        /\ UNCHANGED <<games, roomsTotal>>

\* The requesting instance takes over name, activity and room; the old
\* instance is left without a name for the main loop to erase.
TakeOver(i, n) ==
    LET o     == Namesake(i, n)
        old   == clients[o]
        taken == [clients EXCEPT ![i] =
                     [SetState([@ EXCEPT !.nick = n], old.last) EXCEPT
                         !.room = old.room, !.pings = LongPing]]
    IN  /\ Namesakes(i, n) # {}
        /\ old.state \in {"New", "Ready", "Disconnected"}
        /\ clients' = [taken EXCEPT ![o] = [@ EXCEPT !.nick = NoNick, !.erase = TRUE]]
        /\ UNCHANGED <<games, roomsTotal>>

RequestConnect(i, n) ==
    TakeNick(i, n) \/ NickUsed(i, n) \/ ShortReconnect(i, n) \/ TakeOver(i, n)

\* A client told it is back in a game is also told its opponent's name.
DefinedConnect(i, n) ==
    Namesakes(i, n) # {} =>
        LET old  == clients[Namesake(i, n)]
            room == IF old.state \in {"Pinged", "Lost"} THEN clients[i].room ELSE old.room
        IN  \/ old.state \in {"Waiting"} \cup Playing
            \/ room = LobbyRoom
            \/ HasRoom(games, room)

-----------------------------------------------------------------------------
(* The other requests of routeRequest.                                     *)

RequestReady(i) ==
    /\ clients' = [clients EXCEPT ![i] = SetState(@, "Ready")]
    /\ UNCHANGED <<games, roomsTotal>>

\* How the board answers a move: RoomHnefatafl decides, see that module.
MoveOutcome == {"invalid", "moved", "gameover"}

\* Mutant of NowOnTurn: the state of a player who is away is overwritten.
MutNowOnTurn(c) == SetState(c, "PlayingOnTurn")

\* The player the room names on turn after the move may be away.
NowOnTurn(c) ==
    IF c.state \in Away THEN SetStateLast(c, "PlayingOnTurn")
                        ELSE SetState(c, "PlayingOnTurn")

RequestMove(i, outcome) ==
    LET id    == clients[i].room
        swap  == MoveInRoom(games, id)
        room  == GetRoom(swap, id)
        t     == FindClientByNick(clients, room.onTurn)
        s     == FindClientByNick(clients, room.onStand)
        first == [clients EXCEPT ![t] = NowOnTurn(@)]
        moved == [first EXCEPT ![s] = SetState(@, "PlayingOnStand")]
    IN  /\ outcome # "invalid"
        /\ IF outcome = "gameover"
           THEN clients' = BothToLobby(moved, t, s) /\ games' = RemoveRoom(swap, id)
           ELSE clients' = moved /\ games' = swap
        /\ UNCHANGED roomsTotal

DefinedMove(i, outcome) ==
    LET c == clients[i]
    IN  /\ HasRoom(games, c.room)
        /\ outcome # "invalid" =>
              LET r == GetRoom(games, c.room)
              IN  Named(clients, r.onTurn) # {} /\ Named(clients, r.onStand) # {}

RequestLeave(i) ==
    LET c == clients[i]
        o == FindClientByNick(clients, OpponentOf(games, c))
    IN  /\ clients' = BothToLobby(clients, i, o)
        /\ games' = RemoveRoom(games, c.room)
        /\ UNCHANGED roomsTotal

RequestPing(i) ==
    /\ clients' = [clients EXCEPT ![i] =
           IF @.state \in {"Pinged", "Lost"} THEN SetState(@, @.last) ELSE @]
    /\ UNCHANGED <<games, roomsTotal>>

\* The last state is restored whatever the state is.
RequestPong(i) ==
    /\ clients' = [clients EXCEPT ![i] = SetState(@, @.last)]
    /\ UNCHANGED <<games, roomsTotal>>

RequestChat(i) == UNCHANGED managerVars

-----------------------------------------------------------------------------
(* routeRequest: which request is processed in which state.                *)

Connect == [key : {"c"}, nick : Nicks]
Move    == [key : {"m"}, outcome : MoveOutcome]
Plain   == [key : {"rd", "l", ">", "<", "ch", "ok"}]
Request == Connect \cup Move \cup Plain

Routed(c, r) ==
    \/ r.key \in {"c", ">", "<"}
    \/ r.key = "rd" /\ c.state \in {"Waiting", "Pinged"}
    \/ r.key = "m" /\ c.state \in {"PlayingOnTurn", "Pinged"}
    \/ r.key \in {"l", "ch"} /\ c.state \in {"Pinged"} \cup Playing

\* Every iterator the handler of request r dereferences is valid.
DefinedRequest(i, r) ==
    /\ r.key = "c" => DefinedConnect(i, r.nick)
    /\ r.key = "m" => DefinedMove(i, r.outcome)
    /\ r.key = "l" => HasOpponent(clients, clients[i])
    /\ r.key = "ch" => HasRoom(games, clients[i].room)

\* The handlers that answer -1.
FailsRequest(i, r) ==
    \/ r.key = "c" /\ Named(clients, r.nick) = {} /\ ~CanTakeNick(clients[i])
    \/ r.key = "m" /\ r.outcome = "invalid"

RouteRequest(i, r) ==
    /\ Routed(clients[i], r)
    /\ \/ r.key = "c" /\ RequestConnect(i, r.nick)
       \/ r.key = "rd" /\ RequestReady(i)
       \/ r.key = "m" /\ RequestMove(i, r.outcome)
       \/ r.key = "l" /\ RequestLeave(i)
       \/ r.key = ">" /\ RequestPing(i)
       \/ r.key = "<" /\ RequestPong(i)
       \/ r.key = "ch" /\ RequestChat(i)

-----------------------------------------------------------------------------
(* moveReadyClientsToPlay: the first Ready client plays the second, the    *)
(* third the fourth, and so on; an odd one stays Ready.                    *)

ReadyClients == {i \in DOMAIN clients : clients[i].state = "Ready"}

Rank(i) == Cardinality({j \in ReadyClients : j <= i})

NewGames == Cardinality(ReadyClients) \div 2

Paired == {i \in ReadyClients : Rank(i) <= 2 * NewGames}

GameOf(i) == roomsTotal + ((Rank(i) + 1) \div 2)

\* Mutant of StartGame: the state is not set.
MutStartGame(i) == [clients[i] EXCEPT !.room = GameOf(i)]

\* startGame: the first of the two has the black stones and the first turn.
StartGame(i) ==
    [SetState(clients[i], IF Rank(i) % 2 = 1 THEN "PlayingOnTurn" ELSE "PlayingOnStand")
        EXCEPT !.room = GameOf(i)]

\* Mutant of MoveReadyClientsToPlay: the search for the second client begins at
\* the first.
MutMoveReadyClientsToPlay ==
    /\ clients' = [i \in DOMAIN clients |->
           IF i \in ReadyClients
           THEN [SetState(clients[i], "PlayingOnStand") EXCEPT !.room = roomsTotal + Rank(i)]
           ELSE clients[i]]
    /\ games' = games \cup
           {NewRoom(roomsTotal + Rank(i), clients[i].nick, clients[i].nick) : i \in ReadyClients}
    /\ roomsTotal' = roomsTotal + Cardinality(ReadyClients)

MoveReadyClientsToPlay ==
    /\ clients' = [i \in DOMAIN clients |-> IF i \in Paired THEN StartGame(i) ELSE clients[i]]
    /\ games' = games \cup
           {NewRoom(GameOf(p[1]), clients[p[1]].nick, clients[p[2]].nick) :
               p \in {q \in Paired \X Paired :
                         Rank(q[1]) % 2 = 1 /\ Rank(q[2]) = Rank(q[1]) + 1}}
    /\ roomsTotal' = roomsTotal + NewGames
==============================================================================
