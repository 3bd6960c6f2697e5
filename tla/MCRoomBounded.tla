---------------------------- MODULE MCRoomBounded ----------------------------
(* The first MaxMoves moves of games.                                       *)
EXTENDS MCRoom

CONSTANT MaxMoves

VARIABLE moves      \* moves made so far

BoundedInit == Init /\ moves = 0

BoundedMove == moves < MaxMoves /\ moves' = moves + 1 /\ \E p, q \in Squares : ProcessMove(p, q)

Rest == (RejectMove \/ RoomDestroyed) /\ UNCHANGED moves

BoundedSpec == BoundedInit /\ [][BoundedMove \/ Rest]_<<vars, moves>>
===============================================================================
