-------------------------------- MODULE MCRoom --------------------------------
(* A layout small enough to check whole games: 5 x 5, two attackers, one    *)
(* defender and the king.                                                  *)
EXTENDS RoomHnefatafl

SmallLayout ==
    [p \in Squares |->
        CASE p = Center               -> "King"
          [] p \in Corners              -> "Escape"
          [] p \in {<<0, 2>>, <<4, 2>>}  -> "Black"
          [] p = <<2, 3>>               -> "White"
          [] OTHER                      -> "Empty"]
==============================================================================
