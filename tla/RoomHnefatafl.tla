---------------------------- MODULE RoomHnefatafl ----------------------------
(***************************************************************************)
(* The class RoomHnefatafl: one game, that is the playfield, the player on *)
(* turn and the state of the game.  The playfield holds stones and special *)
(* fields (throne, escapes) in one array, so a special field is forgotten  *)
(* while a stone stands on it and has to be put back when it leaves.       *)
(*                                                                         *)
(* The nicks black and white never change and differ, so onTurn is the     *)
(* side whose nick RoomHnefatafl::onTurn holds.                            *)
(***************************************************************************)
EXTENDS Board, FiniteSets

CONSTANTS
    Layout,         \* the playfield a game starts with
    MaxCoordinate   \* the largest coordinate a client can send: two digits

VARIABLES
    pf,         \* RoomHnefatafl::pf
    onTurn,     \* RoomHnefatafl::onTurn, as a side
    gameState   \* RoomHnefatafl::gameState

vars == <<pf, onTurn, gameState>>

Field == {"Empty", "Throne", "Escape", "Black", "White", "King"}

GameState == {"Playing", "Gameover"}

Side == {"black", "white"}

\* The playfield of the constructor, row by row.
StartLayout ==
    LET o == "Empty"  x == "Escape"  b == "Black"  w == "White"  k == "King"
        rows == << <<x, o, o, b, b, b, b, b, o, o, x>>,
                   <<o, o, o, o, o, b, o, o, o, o, o>>,
                   <<o, o, o, o, o, o, o, o, o, o, o>>,
                   <<b, o, o, o, o, w, o, o, o, o, b>>,
                   <<b, o, o, o, w, w, w, o, o, o, b>>,
                   <<b, b, o, w, w, k, w, w, o, b, b>>,
                   <<b, o, o, o, w, w, w, o, o, o, b>>,
                   <<b, o, o, o, o, w, o, o, o, o, b>>,
                   <<o, o, o, o, o, o, o, o, o, o, o>>,
                   <<o, o, o, o, o, b, o, o, o, o, o>>,
                   <<x, o, o, b, b, b, b, b, o, o, x>> >>
    IN  [p \in (0..10) \X (0..10) |-> rows[p[1] + 1][p[2] + 1]]

\* What the layout of the constructor has in common with every start: the
\* king on the throne beside a defender, the escapes in the corners.
ASSUME LayoutAssumption ==
    /\ Layout \in [Squares -> Field]
    /\ \A p \in Squares : Layout[p] = "King" <=> p = Center
    /\ \A p \in Squares : Layout[p] = "Escape" <=> p \in Corners
    /\ \A p \in Squares : Layout[p] # "Throne"
    /\ \E p \in Neighbours(Center) : Layout[p] \in {"Empty", "White"}

ASSUME CoordinateAssumption == MaxCoordinate \in Nat

Init == pf = Layout /\ onTurn = "black" /\ gameState = "Playing"

-----------------------------------------------------------------------------
(* isValidMove.                                                            *)

Coordinates == (0..MaxCoordinate) \X (0..MaxCoordinate)

IsWithinPf(p, q) == p \in Squares /\ q \in Squares

\* A throne without the king may be crossed.
IsFreePath(p, q) == \A s \in PathBetween(p, q) : pf[s] \in {"Empty", "Throne"}

\* Whose stone may be set on which field.
MaySet(p, q) ==
    \/ onTurn = "black" /\ pf[p] = "Black" /\ pf[q] = "Empty"
    \/ onTurn = "white" /\ pf[p] = "White" /\ pf[q] = "Empty"
    \/ onTurn = "white" /\ pf[p] = "King" /\ pf[q] \in {"Empty", "Throne", "Escape"}

IsValidMove(p, q) ==
    IsWithinPf(p, q) /\ MaySet(p, q) /\ Aligned(p, q) /\ IsFreePath(p, q)

-----------------------------------------------------------------------------
(* The playfield after a move from p to q.                                 *)

\* Mutant of Moved: the throne is not put back.
MutMoved(p, q) == [pf EXCEPT ![q] = pf[p], ![p] = "Empty"]

\* RoomHnefatafl::move.  Only the throne is ever left, so only it is put back.
Moved(p, q) == [pf EXCEPT ![q] = pf[p], ![p] = IF p = Center THEN "Throne" ELSE "Empty"]

\* Mutant of Enemy: warriors take their own.
MutEnemy(stone) == stone

Enemy(stone) == IF stone = "White" THEN "Black" ELSE "White"

\* Mutant of IsSurrounded: an empty field is taken for an ally.
MutIsSurrounded(stone, adjacent, ally) == adjacent = Enemy(stone)

\* Mutant of IsSurrounded: whatever is not the mover's own is taken.
MutTakesAnything(stone, adjacent, ally) ==
    adjacent # stone /\ ally \in {stone, "Throne", "Escape"}

\* isSurroundedBlack, isSurroundedWhite: the fields behind each other, seen
\* from the warrior that was moved.
IsSurrounded(stone, adjacent, ally) ==
    adjacent = Enemy(stone) /\ ally \in {stone, "Throne", "Escape"}

\* checkCaptureWarrior: at most one stone in each direction.
Captured(board, q) ==
    {Step(q, d, 1) : d \in {e \in Directions :
        /\ Step(q, e, 2) \in Squares
        /\ IsSurrounded(board[q], board[Step(q, e, 1)], board[Step(q, e, 2)])}}

\* The king captures nobody.
AfterCaptures(board, q) ==
    IF board[q] = "King" THEN board
    ELSE LET captured == Captured(board, q)
         IN  [s \in Squares |-> IF s \in captured THEN "Empty" ELSE board[s]]

\* Mutant of IsSurroundedKing: the border of the playfield is a way out.
MutIsSurroundedKing(board, k) ==
    \A d \in Directions :
        Step(k, d, 1) \in Squares /\ board[Step(k, d, 1)] \notin {"Empty", "White"}

\* isSurroundedKing: what is not empty and not a defender shuts the king in.
IsSurroundedKing(board, k) ==
    \A s \in Neighbours(k) : board[s] \notin {"Empty", "White"}

\* isCapturedKing: the attacker at q stands beside a king who is shut in.
IsCapturedKing(board, q) ==
    \E k \in Neighbours(q) : board[k] = "King" /\ IsSurroundedKing(board, k)

\* Mutant of Ends: the escape of the king goes unnoticed.
MutEnds(board, q) == board[q] = "Black" /\ IsCapturedKing(board, q)

Ends(board, q) ==
    \/ board[q] = "King" /\ q \in Corners
    \/ board[q] = "Black" /\ IsCapturedKing(board, q)

-----------------------------------------------------------------------------
Other(side) == IF side = "black" THEN "white" ELSE "black"

\* processMove, when the move is valid.
ProcessMove(p, q) ==
    /\ gameState = "Playing"
    /\ IsValidMove(p, q)
    /\ pf' = AfterCaptures(Moved(p, q), q)
    /\ gameState' = IF Ends(pf', q) THEN "Gameover" ELSE "Playing"
    /\ onTurn' = Other(onTurn)

\* The room answers false and stays as it is (the player is disconnected).
RejectMove ==
    /\ gameState = "Playing"
    /\ ~(\A p, q \in Coordinates : IsValidMove(p, q))
    /\ UNCHANGED vars

\* ClientManager::requestMove destroys the room right after the last move.
RoomDestroyed == gameState = "Gameover" /\ UNCHANGED vars

Next == (\E p, q \in Squares : ProcessMove(p, q)) \/ RejectMove \/ RoomDestroyed

Spec == Init /\ [][Next]_vars

-----------------------------------------------------------------------------
(* Properties.                                                             *)

\* What can be on a square.
FieldsOn(p) ==
    {"King"} \cup IF p = Center THEN {"Throne"}
                  ELSE IF p \in Corners THEN {"Escape"}
                  ELSE {"Empty", "Black", "White"}

\* Types, with the special fields: the throne and the escapes are never lost
\* and never appear elsewhere, and no warrior stands on them.
TypeOK ==
    /\ pf \in [Squares -> Field]
    /\ \A p \in Squares : pf[p] \in FieldsOn(p)
    /\ onTurn \in Side
    /\ gameState \in GameState

\* The king is on the playfield, once, even when it has been captured.
OneKing == \E k \in Squares : \A p \in Squares : pf[p] = "King" <=> p = k

KingSquare == CHOOSE k \in Squares : pf[k] = "King"

ShutIn(k) == \A s \in Neighbours(k) : pf[s] \in {"Black", "Throne", "Escape"}

\* The game is over when the king has just reached a corner, or is shut in
\* beside an attacker after a move of black; it never goes on with the king in
\* a corner.
GameoverIsWon ==
    IF gameState = "Gameover"
    THEN IF onTurn = "black"
         THEN KingSquare \in Corners
         ELSE ShutIn(KingSquare) /\ \E s \in Neighbours(KingSquare) : pf[s] = "Black"
    ELSE KingSquare \notin Corners

\* While the game goes on the king is shut in only where it walked in itself,
\* one step from the throne: otherwise the attackers who shut it in have won.
ShutInBesideThrone ==
    gameState = "Playing" /\ ShutIn(KingSquare) => KingSquare \in Neighbours(Center)

Stones(board, side) ==
    {p \in Squares : board[p] \in IF side = "black" THEN {"Black"} ELSE {"White", "King"}}

\* A move never costs the mover a stone, and takes at most three.
MoveTakesEnemies ==
    [][/\ Cardinality(Stones(pf', onTurn)) = Cardinality(Stones(pf, onTurn))
       /\ Cardinality(Stones(pf, Other(onTurn)) \ Stones(pf', Other(onTurn))) <= 3
       /\ Stones(pf', Other(onTurn)) \subseteq Stones(pf, Other(onTurn))]_vars

-----------------------------------------------------------------------------
(* The room plays by the rules.                                            *)

Rules == INSTANCE Tafl WITH
    StartBlack <- {p \in Squares : Layout[p] = "Black"},
    StartWhite <- {p \in Squares : Layout[p] = "White"},
    black <- {p \in Squares : pf[p] = "Black"},
    white <- {p \in Squares : pf[p] = "White"},
    king  <- KingSquare,
    turn  <- onTurn,
    over  <- (gameState = "Gameover")

\* Every game a room accepts is a game of Tafl.
PlaysByTheRules == Rules!Spec
==============================================================================
