-------------------------------- MODULE Server --------------------------------
(***************************************************************************)
(* The class Server and the peers it serves.  Two threads share the vector *)
(* of clients under one mutex:                                             *)
(*                                                                         *)
(*  - the main loop (run, updateClients) waits in select without the mutex *)
(*    and then makes one pass over the clients with it: accept at most one *)
(*    connection, make room or refuse it, and close, erase or serve every  *)
(*    instance in turn; the pass ends with the pairing of Ready clients;   *)
(*  - the pinging thread (pingClients) makes one round over the clients    *)
(*    with the mutex and then waits for the next period.                   *)
(*                                                                         *)
(* The main thread holds the mutex in every control state but "select", so *)
(* a ping round is one action, enabled in "select" only.  A pass is many   *)
(* steps: what a peer has sent is chosen when it is served.                *)
(*                                                                         *)
(* What a peer may send is the constant operator MaySend: the MC modules   *)
(* give it a value for each kind of peer, and what is proved holds for     *)
(* every value.                                                            *)
(***************************************************************************)
EXTENDS ClientManager

CONSTANTS
    MaxClients,     \* the -c argument: connections the server keeps
    MaySend(_, _, _, _), \* MaySend(cs, i, p, r): the peer of cs[i], who has
                         \* p pings to answer, may send r now
    (* Bounds of the model. *)
    MaxGames,       \* rooms created: bounds roomsTotal
    MaxSock,        \* the largest client descriptor
    MaxInstances,   \* instances kept when a peer still tries to connect
    MaxPending,     \* unanswered pings counted per connection (saturates)
    PingSlack       \* ping rounds in a row that may pass an expired instance

ASSUME MaxClientsAssumption == MaxClients \in Nat \ {0}
ASSUME BoundsAssumption ==
    /\ MaxGames \in Nat /\ MaxSock \in Nat /\ MaxInstances \in Nat
    /\ MaxPending \in Nat /\ PingSlack \in Nat

VARIABLES
    sockets,    \* the client descriptors in Server::sockets (all are open)
    pc,         \* where the main thread is
    pos,        \* the iterator of updateClients, as an index
    accepted,   \* descriptor accepted in this pass, 0 for none
    pending     \* per descriptor: pings sent that the peer has not answered

threadVars == <<sockets, pc, pos, accepted, pending>>
vars == <<managerVars, threadVars>>

Descriptors == 1..MaxSock

\* "undefined": the program has dereferenced an invalid iterator.
Control == {"select", "capacity", "loop", "serve", "shutdown", "stopped", "undefined"}

Init ==
    /\ ManagerInit
    /\ sockets = {} /\ pc = "select" /\ pos = 1 /\ accepted = 0
    /\ pending = [s \in Descriptors |-> 0]

Undefined ==
    /\ pc' = "undefined"
    /\ UNCHANGED <<managerVars, sockets, pos, accepted, pending>>

-----------------------------------------------------------------------------
(* Closing a connection keeps the instance.                                *)

\* Mutant of Closed: the descriptor is not replaced by the bad one.
MutClosed(c) == IF IsOpen(c) THEN SetState(c, "Disconnected") ELSE c

Closed(c) == IF IsOpen(c) THEN [SetState(c, "Disconnected") EXCEPT !.sock = BadSocket] ELSE c

\* The opponent of a closed player is looked up in the player's room.
DefinedClose(c) == IsOpen(c) /\ Closed(c).last \in Playing => HasRoom(games, c.room)

\* Mutant of ReleaseSocket: the descriptor stays in the set.
MutReleaseSocket(c) == sockets' = sockets /\ pending' = pending

\* What closing does outside of the instance.
ReleaseSocket(c) ==
    /\ sockets' = sockets \ {c.sock}
    /\ pending' = [s \in Descriptors |-> IF s = c.sock THEN 0 ELSE pending[s]]

-----------------------------------------------------------------------------
(* The pinging thread.                                                     *)

IsUseless(c) == c.state # "New" /\ c.nick = NoNick /\ IsOpen(c)

\* Mutant of MarkUseless: the connection is not closed before the erasing.
MutMarkUseless(c) == [c EXCEPT !.erase = TRUE]

MarkUseless(c) == [c EXCEPT !.disc = TRUE, !.erase = TRUE]

\* Mutants of MarkNotResponding: nothing is marked; the instance is taken for
\* disconnected at once.
MutNothingMarked(c) == c

MutDisconnectedAtOnce(c) == SetState(c, "Disconnected")

MarkNotResponding(c) == [c EXCEPT !.disc = TRUE]

CountDown(c) == [c EXCEPT !.pings = @ - 1, !.erase = @ \/ c.pings = 1]

PingOne(c) ==
    CASE IsUseless(c)                               -> MarkUseless(c)
      [] ~IsUseless(c) /\ c.state = "Pinged"        -> SetState(c, "Lost")
      [] ~IsUseless(c) /\ c.state = "Lost"          -> MarkNotResponding(c)
      [] ~IsUseless(c) /\ c.state = "Disconnected"  -> CountDown(c)
      [] OTHER                                      -> SetState(c, "Pinged")

\* The instances a PING is sent to: all but the useless, Lost and Disconnected.
SendsPing(c) == ~IsUseless(c) /\ c.state \notin {"Lost", "Disconnected"} /\ IsOpen(c)

\* A player who becomes Lost has its opponent looked up in its room.
DefinedPing(c) ==
    ~IsUseless(c) /\ c.state = "Pinged" /\ c.last \in Playing => HasRoom(games, c.room)

PingClients ==
    /\ pc = "select"
    /\ \A i \in DOMAIN clients : clients[i].pings > -PingSlack
    /\ \A i \in DOMAIN clients : DefinedPing(clients[i])
    /\ clients' = [i \in DOMAIN clients |-> PingOne(clients[i])]
    /\ pending' = [s \in Descriptors |->
           IF (\E i \in DOMAIN clients : SendsPing(clients[i]) /\ clients[i].sock = s)
              /\ pending[s] < MaxPending
           THEN pending[s] + 1
           ELSE pending[s]]
    /\ UNCHANGED <<games, roomsTotal, sockets, pc, pos, accepted>>

UndefinedPing ==
    /\ pc = "select"
    /\ \E i \in DOMAIN clients : ~DefinedPing(clients[i])
    /\ Undefined

-----------------------------------------------------------------------------
(* The main loop: select returns, a pass begins.                           *)

\* The kernel hands out the lowest descriptor that is free.
AcceptConnection(ip) ==
    LET free == Descriptors \ sockets
        sock == Min(free)
    IN  /\ pc = "select"
        /\ free # {} /\ Len(clients) < MaxInstances
        /\ CreateClient(ip, sock)
        /\ sockets' = sockets \cup {sock}
        /\ accepted' = sock
        /\ pc' = "capacity"
        /\ UNCHANGED <<pos, pending>>

\* Timeout, activity of clients only, or an accept that failed.
NoConnection ==
    /\ pc = "select"
    /\ pc' = "capacity"
    /\ UNCHANGED <<managerVars, sockets, pos, accepted, pending>>

\* Mutant of Full: the check is one too late.
MutFullLate == Len(clients) = MaxClients + 2

Full == Len(clients) = MaxClients + 1

StartLoop == pc' = "loop" /\ pos' = 1

HasCapacity ==
    /\ pc = "capacity" /\ ~Full
    /\ StartLoop
    /\ UNCHANGED <<managerVars, sockets, accepted, pending>>

EvictLongestDisconnected ==
    /\ pc = "capacity" /\ Full /\ IsDisconnectedClient
    /\ EraseLongestDisconnectedClient
    /\ StartLoop
    /\ UNCHANGED <<sockets, accepted, pending>>

\* Mutant of RefuseConnection: the instance is closed but not erased.
MutRefuseConnection ==
    LET last == Len(clients)
    IN  /\ pc = "capacity" /\ Full /\ ~IsDisconnectedClient
        /\ clients' = [clients EXCEPT ![last] = Closed(@)]
        /\ ReleaseSocket(clients[last])
        /\ accepted' = 0
        /\ StartLoop
        /\ UNCHANGED <<games, roomsTotal>>

\* refuseConnection: the last instance is closed and erased.
RefuseConnection ==
    LET last == Len(clients)
        cs   == [clients EXCEPT ![last] = Closed(@)]
    IN  /\ pc = "capacity" /\ Full /\ ~IsDisconnectedClient
        /\ \/ /\ DefinedClose(clients[last]) /\ DefinedErase(cs, last)
              /\ EraseClient(cs, last)
              /\ ReleaseSocket(clients[last])
              /\ accepted' = 0
              /\ StartLoop
           \/ /\ ~(DefinedClose(clients[last]) /\ DefinedErase(cs, last))
              /\ Undefined

-----------------------------------------------------------------------------
(* One iteration of the loop of updateClients, for the instance at pos.    *)

AtClient(control) == pc = control /\ pos <= Len(clients)

Close(c, closed) ==
    /\ clients' = [clients EXCEPT ![pos] = closed]
    /\ ReleaseSocket(c)
    /\ UNCHANGED <<games, roomsTotal>>

\* Mutant of CloseFlagged: the flag is not reset.
MutCloseFlagged ==
    LET c == clients[pos]
    IN  /\ AtClient("loop") /\ c.disc
        /\ DefinedClose(c)
        /\ Close(c, Closed(c))
        /\ UNCHANGED <<pc, pos, accepted>>

\* The ping thread asked for the connection to be closed.
CloseFlagged ==
    LET c == clients[pos]
    IN  /\ AtClient("loop") /\ c.disc
        /\ \/ /\ DefinedClose(c)
              /\ Close(c, [Closed(c) EXCEPT !.disc = FALSE])
              /\ UNCHANGED <<pc, pos, accepted>>
           \/ ~DefinedClose(c) /\ Undefined

\* The instance is no longer needed; its successor moves to pos.
EraseFlagged ==
    LET c == clients[pos]
    IN  /\ AtClient("loop") /\ ~c.disc /\ c.erase
        /\ \/ /\ DefinedErase(clients, pos)
              /\ EraseClient(clients, pos)
              /\ UNCHANGED threadVars
           \/ ~DefinedErase(clients, pos) /\ Undefined

NextClient == pos' = pos + 1 /\ pc' = "loop"

\* Nothing to do: the socket is closed, or not ready to be read.
SkipClient ==
    /\ AtClient("loop") /\ ~clients[pos].disc /\ ~clients[pos].erase
    /\ NextClient
    /\ UNCHANGED <<managerVars, sockets, accepted, pending>>

\* select can only have reported descriptors that were open before the pass.
IsReadable(c) == ~c.disc /\ ~c.erase /\ IsOpen(c) /\ c.sock # accepted

\* Except fd, logout, failed receive, flooding, or a message out of format
\* (the last one answered with a kick): the connection is closed.
DropClient ==
    LET c == clients[pos]
    IN  /\ AtClient("loop") /\ IsReadable(c)
        /\ \/ DefinedClose(c) /\ Close(c, Closed(c)) /\ UNCHANGED <<pc, pos, accepted>>
           \/ ~DefinedClose(c) /\ Undefined

\* A well formed message is a batch of requests, served one after another.
Sends(r) ==
    /\ AtClient(pc) /\ pc \in {"loop", "serve"}
    /\ pc = "loop" => IsReadable(clients[pos])
    /\ MaySend(clients, pos, pending[clients[pos].sock], r)

ServeRequest(r) ==
    /\ Sends(r)
    /\ Routed(clients[pos], r) /\ DefinedRequest(pos, r)
    /\ RouteRequest(pos, r)
    /\ pc' = "serve"
    /\ pending' = [pending EXCEPT ![clients[pos].sock] =
                      IF r.key = "<" /\ @ > 0 THEN @ - 1 ELSE @]
    /\ UNCHANGED <<sockets, pos, accepted>>

UndefinedRequest(r) ==
    /\ Sends(r)
    /\ Routed(clients[pos], r) /\ ~DefinedRequest(pos, r)
    /\ Undefined

\* A request that may not be made now, or that fails.
Violates(r) ==
    LET c == clients[pos]
    IN  /\ Sends(r)
        /\ Routed(c, r) => DefinedRequest(pos, r) /\ FailsRequest(pos, r)

\* "violation of protocol": the rest of the batch is not served.
KickClient ==
    LET c == clients[pos]
    IN  /\ {r \in Request : Violates(r)} # {}
        /\ \/ DefinedClose(c) /\ Close(c, Closed(c)) /\ pc' = "loop" /\ UNCHANGED <<pos, accepted>>
           \/ ~DefinedClose(c) /\ Undefined

EndOfBatch ==
    /\ AtClient("serve")
    /\ NextClient
    /\ UNCHANGED <<managerVars, sockets, accepted, pending>>

\* The pass ends with the pairing; the mutex is released.
EndOfPass ==
    /\ pc = "loop" /\ pos > Len(clients)
    /\ roomsTotal + NewGames <= MaxGames
    /\ MoveReadyClientsToPlay
    /\ pc' = "select" /\ pos' = 1 /\ accepted' = 0
    /\ UNCHANGED <<sockets, pending>>

-----------------------------------------------------------------------------
(* Shutdown, after SIGINT or an error of select.                           *)

Interrupt ==
    /\ pc = "select"
    /\ pc' = "shutdown"
    /\ UNCHANGED <<managerVars, sockets, pos, accepted, pending>>

\* Mutant of ShutdownClient: the instance is not erased.
MutShutdownClient ==
    /\ pc = "shutdown" /\ clients # <<>>
    /\ DefinedClose(clients[1])
    /\ clients' = [clients EXCEPT ![1] = Closed(@)]
    /\ ReleaseSocket(clients[1])
    /\ UNCHANGED <<games, roomsTotal, pc, pos, accepted>>

\* closeClientSockets: close and erase the first instance.
ShutdownClient ==
    LET cs == [clients EXCEPT ![1] = Closed(@)]
    IN  /\ pc = "shutdown" /\ clients # <<>>
        /\ \/ /\ DefinedClose(clients[1]) /\ DefinedErase(cs, 1)
              /\ EraseClient(cs, 1)
              /\ ReleaseSocket(clients[1])
              /\ UNCHANGED <<pc, pos, accepted>>
           \/ /\ ~(DefinedClose(clients[1]) /\ DefinedErase(cs, 1))
              /\ Undefined

CloseServerSocket ==
    /\ pc = "shutdown" /\ clients = <<>>
    /\ pc' = "stopped"
    /\ UNCHANGED <<managerVars, sockets, pos, accepted, pending>>

\* The server has stopped, nothing is known of it any more, or the bound on
\* the number of games is reached.
BoundReached == pc = "loop" /\ pos > Len(clients) /\ roomsTotal + NewGames > MaxGames

Halted == (pc \in {"stopped", "undefined"} \/ BoundReached) /\ UNCHANGED vars

-----------------------------------------------------------------------------
PingThread == PingClients \/ UndefinedPing

Select == NoConnection \/ (\E ip \in IPs : AcceptConnection(ip)) \/ Interrupt

Capacity == HasCapacity \/ EvictLongestDisconnected \/ RefuseConnection

Serve == KickClient \/ \E r \in Request : ServeRequest(r) \/ UndefinedRequest(r)

UpdateClient ==
    CloseFlagged \/ EraseFlagged \/ SkipClient \/ DropClient \/ Serve \/ EndOfBatch

Shutdown == ShutdownClient \/ CloseServerSocket

Next ==
    PingThread \/ Select \/ Capacity \/ UpdateClient \/ EndOfPass \/ Shutdown \/ Halted

Spec == Init /\ [][Next]_vars

\* select returns after at most 9 seconds, the loop is sequential code, and a
\* message is finite, so every batch ends.  The ping thread wants the mutex
\* again every 10 seconds; the main thread gives it up on every pass and then
\* waits in select, so the ping thread is not kept out of it forever.
Fairness ==
    /\ WF_vars(NoConnection \/ \E ip \in IPs : AcceptConnection(ip))
    /\ WF_vars(Capacity)
    /\ WF_vars(UpdateClient)
    /\ WF_vars(EndOfBatch)
    /\ WF_vars(EndOfPass)
    /\ WF_vars(Shutdown)
    /\ SF_vars(PingThread)

FairSpec == Spec /\ Fairness

-----------------------------------------------------------------------------
(* Properties that hold whatever the peers send.                           *)

\* The types of the variables.  stateLast is never one of the away states.
TypeOK ==
    /\ clients \in Seq(ClientRecord)
    /\ games \subseteq Room
    /\ roomsTotal \in Nat
    /\ sockets \subseteq Descriptors
    /\ pc \in Control
    /\ pos \in Nat \ {0}
    /\ accepted \in Descriptors \cup {0}
    /\ pending \in [Descriptors -> 0..MaxPending]

\* No two instances have the same name: names are what findClientByNick and
\* the rooms identify players by.
UniqueNicks ==
    \A i, j \in DOMAIN clients :
        clients[i].nick = clients[j].nick /\ clients[i].nick # NoNick => i = j

\* Every open descriptor of an instance is open, and is its own.
OwnSockets ==
    /\ \A i \in DOMAIN clients : IsOpen(clients[i]) => clients[i].sock \in sockets
    /\ \A i, j \in DOMAIN clients :
           IsOpen(clients[i]) /\ clients[i].sock = clients[j].sock => i = j

\* The extra place for a client that is told the server is full is only
\* taken between accept and the check of the capacity.
WithinCapacity ==
    Len(clients) <= IF pc \in {"capacity", "undefined"} THEN MaxClients + 1 ELSE MaxClients

\* The client that is refused is the one just accepted: nobody who has
\* requested anything loses its place.
RefusedIsNew ==
    pc = "capacity" /\ Full =>
        \E ip \in IPs : clients[Len(clients)] = NewClient(ip, accepted)

\* A disconnected instance has no socket: nothing is sent to a descriptor
\* that may meanwhile belong to another connection.
DisconnectedIsClosed ==
    \A i \in DOMAIN clients : clients[i].state = "Disconnected" => ~IsOpen(clients[i])

\* Nobody plays against itself: the two players of a room are different ones,
\* whatever became of them since (moveReadyClientsToPlay).  RoomHnefatafl tells
\* its players apart by their nicks.  Clients without a name are not told apart:
\* one that is pinged before it has a name may ask to be ready.
OpponentsDiffer == \A r \in games : r.onTurn = r.onStand => r.onTurn = NoNick

\* When the main loop waits, no two clients are left ready for a game.
NobodyLeftReady ==
    pc \in {"select", "capacity"} => Cardinality(ReadyClients) <= 1

-----------------------------------------------------------------------------
(* Properties that depend on what the peers send.                          *)

\* A room has two players who know they are in it, and what they are doing
\* (or were doing, when away) is what the room says.
RoomAgreement ==
    \A r \in games : \E i, j \in DOMAIN clients :
        /\ i # j
        /\ clients[i].nick = r.onTurn  /\ clients[j].nick = r.onStand
        /\ clients[i].room = r.id      /\ clients[j].room = r.id
        /\ Activity(clients[i]) = "PlayingOnTurn"
        /\ Activity(clients[j]) = "PlayingOnStand"

\* Exactly the players of an existing room are playing.
PlayersHaveRoom ==
    \A i \in DOMAIN clients :
        clients[i].nick # NoNick =>
            /\ Activity(clients[i]) \in Playing <=> clients[i].room # LobbyRoom
            /\ clients[i].room # LobbyRoom =>
                  \E r \in games : /\ r.id = clients[i].room
                                   /\ clients[i].nick \in {r.onTurn, r.onStand}

\* An instance without a socket is in the state the ping thread counts down
\* in, so it does not stay forever.
ClosedIsDisconnected ==
    \A i \in DOMAIN clients : ~IsOpen(clients[i]) => clients[i].state = "Disconnected"

\* An instance marked for erasing is disconnected, or is closed first: no
\* connected player is erased.
ErasedIsDisconnected ==
    \A i \in DOMAIN clients :
        clients[i].erase /\ ~clients[i].disc => clients[i].state = "Disconnected"

\* Every open descriptor belongs to an instance that will close it.
NoSocketLeak == sockets \subseteq {clients[i].sock : i \in DOMAIN clients}

\* No iterator that a search returned as end() is dereferenced.
NeverUndefined == pc # "undefined"

\* Both names in a room are names of instances: a player always has an
\* opponent who can be told what happens to the player.
OpponentsExist ==
    \A r \in games : Named(clients, r.onTurn) # {} /\ Named(clients, r.onStand) # {}

\* A player whose move was accepted, and did not end the game, stands by.
MoverStandsBy ==
    [][ServeRequest([key |-> "m", outcome |-> "moved"])
          => clients'[pos].state = "PlayingOnStand"]_vars

-----------------------------------------------------------------------------
(* Liveness.                                                               *)

\* The server is stopping, or the model's bound on games is reached.
Over == pc \in {"shutdown", "stopped", "undefined"} \/ BoundReached

\* A pass over the clients ends, so the mutex is released again and again.
PassEnds == pc = "capacity" ~> pc = "select" \/ Over

\* A client that is silent is heard of or disconnected in the end.
SilentClientIsDropped ==
    \A n \in Nicks :
        (\E i \in Named(clients, n) : clients[i].state \in {"Pinged", "Lost"})
          ~> (\A i \in Named(clients, n) : clients[i].state \notin {"Pinged", "Lost"}) \/ Over

\* A player without a connection returns, or the game is over for both.
MissingPlayerEndsGame ==
    \A n \in Nicks, id \in 1..MaxGames :
        (/\ \E r \in games : r.id = id /\ n \in {r.onTurn, r.onStand}
         /\ \A i \in Named(clients, n) : ~IsOpen(clients[i]))
          ~> \/ ~HasRoom(games, id)
             \/ \E i \in Named(clients, n) : IsOpen(clients[i])
             \/ Over

\* After SIGINT every instance is closed and erased and the server stops.
ServerStops == pc = "shutdown" ~> pc \in {"stopped", "undefined"}
===============================================================================
