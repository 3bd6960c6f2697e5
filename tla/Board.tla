-------------------------------- MODULE Board --------------------------------
(***************************************************************************)
(* The geometry of a square board, shared by the rules (Tafl) and by the   *)
(* game room of the server (RoomHnefatafl).  A square is <<y, x>>, as in   *)
(* pf[y][x]; coordinates run from 0 to SIZE - 1.                           *)
(***************************************************************************)
EXTENDS Integers

CONSTANT SIZE   \* length of a side: odd, so that there is a middle square

ASSUME SizeAssumption == SIZE \in Nat /\ SIZE >= 5 /\ SIZE % 2 = 1

Line == 0..(SIZE - 1)

Squares == Line \X Line

Center == <<SIZE \div 2, SIZE \div 2>>

Corners == {0, SIZE - 1} \X {0, SIZE - 1}

Directions == {<<0, 1>>, <<0, -1>>, <<1, 0>>, <<-1, 0>>}

\* The square k steps from p in direction d, possibly outside of the board.
Step(p, d, k) == <<p[1] + k * d[1], p[2] + k * d[2]>>

Neighbours(p) == {Step(p, d, 1) : d \in Directions} \cap Squares

Aligned(p, q) == p[1] = q[1] \/ p[2] = q[2]

Between(a, b) == IF a < b THEN (a + 1)..(b - 1) ELSE (b + 1)..(a - 1)

\* The squares strictly between two squares of one line.
PathBetween(p, q) ==
    IF p[1] = q[1] THEN {p[1]} \X Between(p[2], q[2])
                   ELSE Between(p[1], q[1]) \X {p[2]}
==============================================================================
