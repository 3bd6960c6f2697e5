--------------------------------- MODULE Tafl ---------------------------------
(***************************************************************************)
(* The rules of the game as a player would state them, without a           *)
(* playfield: where the attackers, the defenders and the king stand.  The  *)
(* throne (the middle square) and the escapes (the corners) are places,    *)
(* not contents of squares; a special place nobody stands on is hostile to *)
(* every warrior beside it and shuts the king in.  RoomHnefatafl is shown  *)
(* to implement this module.                                               *)
(***************************************************************************)
EXTENDS Board

CONSTANTS StartBlack, StartWhite

VARIABLES
    black,  \* the squares of the attackers
    white,  \* the squares of the defenders
    king,   \* the square of the king
    turn,   \* the side on turn
    over    \* the game is decided

vars == <<black, white, king, turn, over>>

Special == Corners \cup {Center}

Init ==
    /\ black = StartBlack /\ white = StartWhite /\ king = Center
    /\ turn = "black" /\ over = FALSE

\* A stone moves any number of free squares along a line.
CanGo(p, q) ==
    /\ Aligned(p, q)
    /\ LET occupied == black \cup white \cup {king}
       IN  ({q} \cup PathBetween(p, q)) \cap occupied = {}

\* The stones of prey that the hunters have between the stone just moved to q
\* and another hunter, or an empty special place.
Taken(prey, hunters, q) ==
    {s \in prey : \E d \in Directions :
        /\ s = Step(q, d, 1)
        /\ Step(q, d, 2) \in hunters \cup (Special \ (prey \cup hunters \cup {king}))}

\* Every square beside the king has an attacker or is an empty special place.
ShutIn(attackers) == Neighbours(king) \subseteq attackers \cup Special

BlackMoves(p, q) ==
    LET moved == (black \ {p}) \cup {q}
    IN  /\ ~over /\ turn = "black"
        /\ CanGo(p, q) /\ q \notin Special
        /\ black' = moved
        /\ white' = white \ Taken(white, moved, q)
        /\ over' = (king \in Neighbours(q) /\ ShutIn(moved))
        /\ turn' = "white" /\ UNCHANGED king

WhiteMoves(p, q) ==
    LET moved == (white \ {p}) \cup {q}
    IN  /\ ~over /\ turn = "white"
        /\ CanGo(p, q) /\ q \notin Special
        /\ white' = moved
        /\ black' = black \ Taken(black, moved, q)
        /\ turn' = "black" /\ UNCHANGED <<king, over>>

KingMoves(q) ==
    /\ ~over /\ turn = "white"
    /\ CanGo(king, q)
    /\ king' = q
    /\ over' = (q \in Corners)
    /\ turn' = "black" /\ UNCHANGED <<black, white>>

Next ==
    \E q \in Squares :
        \/ \E p \in black : BlackMoves(p, q)
        \/ \E p \in white : WhiteMoves(p, q)
        \/ KingMoves(q)

Spec == Init /\ [][Next]_vars
===============================================================================
