------------------------------- MODULE Messages -------------------------------
(***************************************************************************)
(* What the server tells its clients.  Nothing in the server reads a       *)
(* message back, so they are not part of module Server; here they are kept *)
(* as what they amount to for the peer of each descriptor: where the last  *)
(* message that said so has put it.                                        *)
(*                                                                         *)
(*   "lobby"  rc+il, rr+il, rl, ol, gw, gl, og                             *)
(*   "turn"   ig+ty, rr+ig+ty, om                                          *)
(*   "stand"  ig+to, rr+ig+to, mv                                          *)
(*                                                                         *)
(* The other messages (pings, chat, a name in use, the opponent is lost,   *)
(* away or back) leave the peer where it is.  Every step is a step of      *)
(* module Server, with the messages its handlers send.                     *)
(***************************************************************************)
EXTENDS Server

VARIABLE told   \* per descriptor; "new" for a peer that was told nothing

ToldInit == Init /\ told = [s \in Descriptors |-> "new"]

\* sendToClient: nothing is sent to a client without a descriptor.
Tell(t, c, place) == IF IsOpen(c) THEN [t EXCEPT ![c.sock] = place] ELSE t

\* sendToOpponentOf: nothing is sent to an opponent who is disconnected.
TellOpponent(t, c, place) ==
    LET o == clients[FindClientByNick(clients, OpponentOf(games, c))]
    IN  IF o.state = "Disconnected" THEN t ELSE Tell(t, o, place)

\* Mutant of PlaceTold: the message is composed from the last state.
MutPlaceTold(c) ==
    CASE c.room = LobbyRoom -> "lobby"
      [] c.room # LobbyRoom /\ c.last = "PlayingOnTurn" -> "turn"
      [] OTHER -> "stand"

\* composeMsgInLobbyRecn, composeMsgInGame and composeMsgInGameRecn.
PlaceTold(c) ==
    CASE c.room = LobbyRoom -> "lobby"
      [] c.room # LobbyRoom /\ c.state = "PlayingOnTurn" -> "turn"
      [] OTHER -> "stand"

\* A descriptor that was closed: its next owner has been told nothing.
Forget(t) == [s \in Descriptors |-> IF s \in sockets' THEN t[s] ELSE "new"]

-----------------------------------------------------------------------------
\* A connected client is told where it is, unless the name is in use.
AnswerConnect(i, n) ==
    LET isNew  == Named(clients, n) = {}
        isBack == /\ Namesakes(i, n) # {}
                  /\ clients[Namesake(i, n)].state \notin {"Waiting"} \cup Playing
    IN  told' = IF isNew \/ isBack THEN Tell(told, clients[i], PlaceTold(clients'[i]))
                ELSE told

\* The mover is told the move is valid and the other player what it was, and
\* both how the game ended.
AnswerMove(i, outcome) ==
    LET r     == GetRoom(games, clients[i].room)
        mover == clients[FindClientByNick(clients, r.onTurn)]
        other == clients[FindClientByNick(clients, r.onStand)]
    IN  told' = IF outcome = "gameover"
                THEN Tell(Tell(told, mover, "lobby"), other, "lobby")
                ELSE Tell(Tell(told, mover, "stand"), other, "turn")

AnswerLeave(i) ==
    told' = TellOpponent(Tell(told, clients[i], "lobby"), clients[i], "lobby")

Answer(i, r) ==
    CASE r.key = "c" -> AnswerConnect(i, r.nick)
      [] r.key = "m" -> AnswerMove(i, r.outcome)
      [] r.key = "l" -> AnswerLeave(i)
      [] OTHER       -> UNCHANGED told

\* The opponent of player c, who is erased, is told that the player is gone.
ToldOfErased(c) ==
    IF LeavesGameWhenErased(c) /\ pc' # "undefined"
    THEN TellOpponent(told, c, "lobby")
    ELSE told

\* startGame tells both players.
ToldOfGames ==
    [s \in Descriptors |->
        IF \E i \in Paired : clients[i].sock = s
        THEN PlaceTold(clients'[CHOOSE i \in Paired : clients[i].sock = s])
        ELSE told[s]]

-----------------------------------------------------------------------------
Silent ==
    \/ PingThread \/ Select \/ HasCapacity \/ EvictLongestDisconnected
    \/ SkipClient \/ EndOfBatch \/ CloseServerSocket \/ Halted
    \/ \E r \in Request : UndefinedRequest(r)

\* A refused instance was in no game: nobody else is told.
Closes == CloseFlagged \/ DropClient \/ RefuseConnection \/ KickClient

ToldNext ==
    \/ Silent /\ UNCHANGED told
    \/ \E r \in Request : ServeRequest(r) /\ Answer(pos, r)
    \/ Closes /\ told' = Forget(told)
    \/ EraseFlagged /\ told' = ToldOfErased(clients[pos])
    \/ ShutdownClient /\ told' = Forget(ToldOfErased(Closed(clients[1])))
    \/ EndOfPass /\ told' = ToldOfGames

ToldSpec == ToldInit /\ [][ToldNext]_<<vars, told>>

-----------------------------------------------------------------------------
\* A client with a connection and a name is where it was told to be: the
\* messages of every handler, to it and to its opponent, have kept up with
\* what the server takes it to do, also over disconnections and returns
\* (sendToClient, sendToOpponentOf and the handlers that call them).
ToldAgrees ==
    \A i \in DOMAIN clients :
        LET c == clients[i]
        IN  IsOpen(c) /\ c.nick # NoNick =>
                told[c.sock] = CASE Activity(c) = "PlayingOnTurn"  -> "turn"
                                 [] Activity(c) = "PlayingOnStand" -> "stand"
                                 [] OTHER                          -> "lobby"
===============================================================================
