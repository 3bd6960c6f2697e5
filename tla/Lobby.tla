-------------------------------- MODULE Lobby --------------------------------
(***************************************************************************)
(* The class Lobby: the set of running games.  A game is known here by its *)
(* id and by the nicks of the player on turn and the player on stand (the  *)
(* playfield is modelled in RoomHnefatafl).  games is a std::vector in the *)
(* code; ids are taken from a counter and the vector is only ever searched *)
(* by id, so a set of rooms with distinct ids says the same.               *)
(*                                                                         *)
(* Lobby::getRoomById answers games.end() when there is no such room, and  *)
(* its callers dereference the answer unchecked: an operator that needs    *)
(* the room is only defined when HasRoom holds.                            *)
(***************************************************************************)
EXTENDS Client

Room == [id : Nat, onTurn : Nicks \cup {NoNick}, onStand : Nicks \cup {NoNick}]

HasRoom(games, id) == \E r \in games : r.id = id

GetRoom(games, id) == CHOOSE r \in games : r.id = id

\* createRoom appends a room; its first player has the first turn.
NewRoom(id, first, second) == [id |-> id, onTurn |-> first, onStand |-> second]

\* The nick of the other player of the room client c is in.
OpponentOf(games, c) ==
    LET r == GetRoom(games, c.room)
    IN  IF c.nick = r.onTurn THEN r.onStand ELSE r.onTurn

\* Mutant of MoveInRoom: the players are not swapped.
MutMoveInRoom(games, id) == games

\* A successful move ends with RoomHnefatafl::swapPlayers.
MoveInRoom(games, id) ==
    LET r == GetRoom(games, id)
    IN  (games \ {r}) \cup {[r EXCEPT !.onTurn = r.onStand, !.onStand = r.onTurn]}

\* The part of destroyRoom that is about the rooms, ...
RemoveRoom(games, id) == {r \in games : r.id # id}

\* Mutants of BackToLobby: the room id is kept; the state of a player who is
\* away is overwritten.
MutKeepsRoom(c) ==
    IF c.state \in Away THEN SetStateLast(c, "Waiting") ELSE SetState(c, "Waiting")

MutOverwritesAway(c) == [SetState(c, "Waiting") EXCEPT !.room = LobbyRoom]

\* ... and the part that is about each of the two players.
BackToLobby(c) ==
    [(IF c.state \in Away THEN SetStateLast(c, "Waiting")
                          ELSE SetState(c, "Waiting")) EXCEPT !.room = LobbyRoom]
==============================================================================
