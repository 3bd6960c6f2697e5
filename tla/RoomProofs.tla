------------------------------ MODULE RoomProofs ------------------------------
(***************************************************************************)
(* Proofs about module RoomHnefatafl, for every size of the playfield and  *)
(* every layout that LayoutAssumption allows.                              *)
(***************************************************************************)
EXTENDS RoomHnefatafl, FiniteSetTheorems, TLAPS

-----------------------------------------------------------------------------
(* Geometry.                                                               *)

LEMMA SizeFacts ==
    /\ SIZE \in Int /\ SIZE >= 5
    /\ \A p \in Squares : /\ p = <<p[1], p[2]>>
                          /\ p[1] \in Int /\ p[1] >= 0 /\ p[1] < SIZE
                          /\ p[2] \in Int /\ p[2] >= 0 /\ p[2] < SIZE
    /\ \A y, x \in Int : 0 <= y /\ y < SIZE /\ 0 <= x /\ x < SIZE => <<y, x>> \in Squares
BY SizeAssumption DEF Squares, Line

LEMMA CenterFacts == Center \in Squares /\ Corners \subseteq Squares /\ Center \notin Corners
<1>1. PICK h \in Int : h = SIZE \div 2 /\ 0 < h /\ h < SIZE - 1
  BY SizeAssumption
<1>2. Center = <<h, h>>
  BY <1>1 DEF Center
<1> QED
  BY <1>1, <1>2, SizeAssumption DEF Corners, Squares, Line

\* A square is beside another when that one is beside it.
LEMMA NeighboursSymmetric ==
    ASSUME NEW p \in Squares, NEW q \in Neighbours(p)
    PROVE  q \in Squares /\ p # q /\ p \in Neighbours(q)
<1>1. PICK d \in Directions : q = Step(p, d, 1)
  BY DEF Neighbours
<1>2. q \in Squares
  BY DEF Neighbours
<1>3. PICK e \in Directions : e = <<-d[1], -d[2]>>
  BY DEF Directions
<1>4. d[1] \in Int /\ d[2] \in Int /\ (d[1] # 0 \/ d[2] # 0)
  BY DEF Directions
<1>5. q = <<p[1] + d[1], p[2] + d[2]>>
  BY <1>1, <1>4, SizeFacts DEF Step
<1>6. Step(q, e, 1) = p
  BY <1>3, <1>4, <1>5, SizeFacts DEF Step
<1>7. p # q
  BY <1>4, <1>5, SizeFacts
<1> QED
  BY <1>2, <1>6, <1>7 DEF Neighbours

\* The stone between two squares of the playfield is on the playfield.
LEMMA MiddleOnBoard ==
    ASSUME NEW q \in Squares, NEW d \in Directions, Step(q, d, 2) \in Squares
    PROVE  Step(q, d, 1) \in Squares
<1>1. d[1] \in {-1, 0, 1} /\ d[2] \in {-1, 0, 1}
  BY DEF Directions
<1>2. Step(q, d, 2) = <<q[1] + 2 * d[1], q[2] + 2 * d[2]>>
  BY DEF Step
<1>3. Step(q, d, 1) = <<q[1] + d[1], q[2] + d[2]>>
  BY <1>1, SizeFacts DEF Step
<1>4. /\ 0 <= q[1] + 2 * d[1] /\ q[1] + 2 * d[1] < SIZE
      /\ 0 <= q[2] + 2 * d[2] /\ q[2] + 2 * d[2] < SIZE
  BY <1>2, SizeFacts
<1> QED
  BY <1>1, <1>3, <1>4, SizeFacts
-----------------------------------------------------------------------------
(* Playfields.                                                             *)

\* Special fields are where they belong.
Typed(board) ==
    /\ board \in [Squares -> Field]
    /\ \A p \in Squares : board[p] \in FieldsOn(p)

\* The king is on k and nowhere else.
KingAt(board, k) ==
    /\ k \in Squares
    /\ \A p \in Squares : board[p] = "King" <=> p = k

LEMMA KingOfBoard ==
    ASSUME NEW board, NEW k, KingAt(board, k)
    PROVE  (CHOOSE j \in Squares : board[j] = "King") = k
BY DEF KingAt

\* Stones stand on ordinary squares, except the king.
LEMMA OrdinarySquares ==
    ASSUME NEW board, Typed(board), NEW p \in Squares
    PROVE  /\ board[p] \in {"Empty", "Black", "White"} <=> p \notin Corners \cup {Center} /\ board[p] # "King"
           /\ board[p] = "Throne" => p = Center
           /\ board[p] = "Escape" => p \in Corners
           /\ p = Center => board[p] \in {"King", "Throne"}
           /\ p \in Corners => board[p] \in {"King", "Escape"}
BY CenterFacts DEF Typed, FieldsOn

\* isValidMove and move: a stone of the side on turn moves to a square that
\* nobody stands on, and leaves the throne or nothing.
LEMMA MovedProperties ==
    ASSUME NEW k, Typed(pf), KingAt(pf, k), k \notin Corners,
           NEW p \in Squares, NEW q \in Squares, IsValidMove(p, q)
    PROVE  /\ p # q
           /\ onTurn = "black" => pf[p] = "Black"
           /\ onTurn # "black" => onTurn = "white" /\ pf[p] \in {"White", "King"}
           /\ pf[q] \in {"Empty", "Throne", "Escape"}
           /\ pf[p] # "King" => pf[q] = "Empty"
           /\ Moved(p, q)[q] = pf[p]
           /\ Moved(p, q)[p] = IF p = Center THEN "Throne" ELSE "Empty"
           /\ \A s \in Squares \ {p, q} : Moved(p, q)[s] = pf[s]
           /\ Typed(Moved(p, q))
           /\ KingAt(Moved(p, q), IF pf[p] = "King" THEN q ELSE k)
<1>1. /\ onTurn = "black" => pf[p] = "Black"
      /\ onTurn # "black" => onTurn = "white" /\ pf[p] \in {"White", "King"}
      /\ pf[q] \in {"Empty", "Throne", "Escape"}
      /\ pf[p] # "King" => pf[q] = "Empty"
      /\ pf[p] \in {"Black", "White", "King"}
  BY DEF IsValidMove, MaySet
<1>2. p # q
  BY <1>1
<1>3. /\ Moved(p, q) \in [Squares -> Field]
      /\ Moved(p, q)[q] = pf[p]
      /\ Moved(p, q)[p] = IF p = Center THEN "Throne" ELSE "Empty"
      /\ \A s \in Squares \ {p, q} : Moved(p, q)[s] = pf[s]
  BY <1>1, <1>2 DEF Moved, Typed, Field
<1>4. p \notin Corners
  BY <1>1, OrdinarySquares DEF KingAt
<1>5. \A s \in Squares : Moved(p, q)[s] \in FieldsOn(s)
  <2> TAKE s \in Squares
  <2>1. CASE s = q
    BY <1>1, <1>3, <2>1, OrdinarySquares DEF FieldsOn
  <2>2. CASE s = p
    BY <1>2, <1>3, <1>4, <2>2 DEF FieldsOn
  <2>3. CASE s \notin {p, q}
    BY <1>3, <2>3 DEF Typed
  <2> QED
    BY <2>1, <2>2, <2>3
<1>6. KingAt(Moved(p, q), IF pf[p] = "King" THEN q ELSE k)
  BY <1>1, <1>2, <1>3 DEF KingAt
<1> QED
  BY <1>1, <1>2, <1>3, <1>5, <1>6 DEF Typed

\* checkCaptures: only warriors are taken, none from under the stone moved.
LEMMA CapturesProperties ==
    ASSUME NEW board, NEW k, NEW q \in Squares, Typed(board), KingAt(board, k)
    PROVE  /\ Typed(AfterCaptures(board, q))
           /\ KingAt(AfterCaptures(board, q), k)
           /\ AfterCaptures(board, q)[q] = board[q]
           /\ \A s \in Squares :
                 \/ AfterCaptures(board, q)[s] = board[s]
                 \/ AfterCaptures(board, q)[s] = "Empty" /\ board[s] = Enemy(board[q])
<1>1. CASE board[q] = "King"
  BY <1>1 DEF AfterCaptures
<1>2. CASE board[q] # "King"
  <2> DEFINE captured == Captured(board, q)
  <2>1. AfterCaptures(board, q) = [s \in Squares |-> IF s \in captured THEN "Empty" ELSE board[s]]
    BY <1>2 DEF AfterCaptures
  <2>2. \A s \in captured : board[s] = Enemy(board[q])
    BY DEF Captured, IsSurrounded
  <2>3. q \notin captured
    <3>1. \A d \in Directions : Step(q, d, 1) # q
      <4> TAKE d \in Directions
      <4>1. d[1] \in Int /\ d[2] \in Int /\ (d[1] # 0 \/ d[2] # 0)
        BY DEF Directions
      <4> QED
        BY <4>1, SizeFacts DEF Step
    <3> QED
      BY <3>1 DEF Captured
  <2>4. Enemy(board[q]) \in {"Black", "White"}
    BY DEF Enemy
  <2> HIDE DEF captured
  <2>5. \A s \in Squares :
           /\ s \in captured => AfterCaptures(board, q)[s] = "Empty" /\ board[s] = Enemy(board[q])
           /\ s \notin captured => AfterCaptures(board, q)[s] = board[s]
    BY <2>1, <2>2
  <2>6. AfterCaptures(board, q) \in [Squares -> Field]
    BY <2>1 DEF Typed, Field
  <2>7. \A s \in Squares : AfterCaptures(board, q)[s] \in FieldsOn(s)
    BY <2>4, <2>5 DEF Typed, FieldsOn
  <2>8. KingAt(AfterCaptures(board, q), k)
    BY <2>4, <2>5 DEF KingAt
  <2> QED
    BY <2>3, <2>5, <2>6, <2>7, <2>8 DEF Typed
<1> QED
  BY <1>1, <1>2

-----------------------------------------------------------------------------
(* The inductive invariant.                                                *)

IInv == TypeOK /\ OneKing /\ GameoverIsWon

LEMMA IInvFacts ==
    ASSUME IInv
    PROVE  /\ Typed(pf) /\ KingAt(pf, KingSquare)
           /\ gameState = "Playing" => KingSquare \notin Corners
<1>1. PICK k \in Squares : KingAt(pf, k)
  BY DEF IInv, OneKing, KingAt
<1>2. KingSquare = k
  BY <1>1, KingOfBoard DEF KingSquare
<1> QED
  BY <1>1, <1>2 DEF IInv, TypeOK, Typed, GameoverIsWon

LEMMA InitIInv == Init => IInv
<1> SUFFICES ASSUME Init PROVE IInv
  OBVIOUS
<1>1. Typed(pf)
  BY LayoutAssumption, CenterFacts DEF Init, Typed, FieldsOn, Field
<1>2. KingAt(pf, Center)
  BY LayoutAssumption, CenterFacts DEF Init, KingAt
<1>3. KingSquare = Center
  BY <1>2, KingOfBoard DEF KingSquare
<1> QED
  BY <1>1, <1>2, <1>3, CenterFacts
     DEF Init, IInv, TypeOK, OneKing, GameoverIsWon, Typed, KingAt, Side, GameState

\* What a valid move does, in terms of where the king is before and after.
LEMMA ProcessMoveFacts ==
    ASSUME IInv, NEW p \in Squares, NEW q \in Squares, ProcessMove(p, q)
    PROVE  LET k == IF pf[p] = "King" THEN q ELSE KingSquare
           IN  /\ Typed(pf') /\ KingAt(pf', k) /\ KingSquare' = k
               /\ pf'[q] = pf[p]
               /\ onTurn = "black" => pf[p] = "Black" /\ onTurn' = "white"
               /\ onTurn # "black" =>
                     onTurn = "white" /\ pf[p] \in {"White", "King"} /\ onTurn' = "black"
               /\ gameState' = IF Ends(pf', q) THEN "Gameover" ELSE "Playing"
               /\ KingSquare \notin Corners
<1> DEFINE k == IF pf[p] = "King" THEN q ELSE KingSquare
<1>1. /\ Typed(pf) /\ KingAt(pf, KingSquare) /\ KingSquare \notin Corners
      /\ IsValidMove(p, q) /\ pf' = AfterCaptures(Moved(p, q), q)
      /\ gameState' = IF Ends(pf', q) THEN "Gameover" ELSE "Playing"
      /\ onTurn' = Other(onTurn)
  BY IInvFacts DEF ProcessMove
<1>2. /\ Typed(Moved(p, q)) /\ KingAt(Moved(p, q), k) /\ Moved(p, q)[q] = pf[p]
      /\ onTurn = "black" => pf[p] = "Black"
      /\ onTurn # "black" => onTurn = "white" /\ pf[p] \in {"White", "King"}
  BY <1>1, MovedProperties
<1>3. Typed(pf') /\ KingAt(pf', k) /\ pf'[q] = pf[p]
  <2> HIDE DEF k
  <2> QED
    BY <1>1, <1>2, CapturesProperties
<1>4. KingSquare' = k
  <2> HIDE DEF k
  <2> QED
    BY <1>3, KingOfBoard DEF KingSquare
<1> QED
  BY <1>1, <1>2, <1>3, <1>4 DEF Other

\* A king an attacker has shut in has no square to go to beside it.
LEMMA ShutInWhenCaptured ==
    ASSUME NEW board, NEW k, NEW q \in Squares, Typed(board), KingAt(board, k),
           board[q] = "Black"
    PROVE  IsCapturedKing(board, q) <=>
              k \in Neighbours(q) /\ \A s \in Neighbours(k) : board[s] \in {"Black", "Throne", "Escape"}
<1>1. \A s \in Neighbours(q) : s \in Squares
  BY DEF Neighbours
<1>2. IsCapturedKing(board, q) <=> k \in Neighbours(q) /\ IsSurroundedKing(board, k)
  BY <1>1 DEF IsCapturedKing, KingAt
<1>3. \A s \in Neighbours(k) : board[s] # "King" /\ board[s] \in Field
  BY NeighboursSymmetric DEF KingAt, Typed
<1> QED
  BY <1>2, <1>3 DEF IsSurroundedKing, Field

LEMMA NextIInv == IInv /\ [Next]_vars => IInv'
<1> SUFFICES ASSUME IInv, [Next]_vars PROVE IInv'
  OBVIOUS
<1>1. ASSUME NEW p \in Squares, NEW q \in Squares, ProcessMove(p, q)
      PROVE  IInv'
  <2> DEFINE k == IF pf[p] = "King" THEN q ELSE KingSquare
  <2>1. /\ Typed(pf') /\ KingAt(pf', k) /\ KingSquare' = k /\ pf'[q] = pf[p]
        /\ onTurn = "black" => pf[p] = "Black" /\ onTurn' = "white"
        /\ onTurn # "black" =>
              onTurn = "white" /\ pf[p] \in {"White", "King"} /\ onTurn' = "black"
        /\ gameState' = IF Ends(pf', q) THEN "Gameover" ELSE "Playing"
        /\ KingSquare \notin Corners
    BY <1>1, ProcessMoveFacts
  <2>2. TypeOK' /\ OneKing'
    BY <2>1 DEF TypeOK, OneKing, Typed, KingAt, Side, GameState
  <2>3. CASE pf[p] = "Black"
    <3> DEFINE shut == \A s \in Neighbours(k) : pf'[s] \in {"Black", "Throne", "Escape"}
    <3>1. k = KingSquare /\ onTurn' = "white"
      BY <2>1, <2>3
    <3>2. (GameoverIsWon)' <=>
             IF gameState' = "Gameover"
             THEN shut /\ \E s \in Neighbours(k) : pf'[s] = "Black"
             ELSE k \notin Corners
      BY <2>1, <3>1 DEF GameoverIsWon, ShutIn
    <3> HIDE DEF k
    <3>3. Ends(pf', q) <=> k \in Neighbours(q) /\ shut
      BY <2>1, <2>3, ShutInWhenCaptured DEF Ends
    <3>4. k \in Neighbours(q) => q \in Neighbours(k)
      BY NeighboursSymmetric
    <3> QED
      BY <2>1, <2>2, <2>3, <3>1, <3>2, <3>3, <3>4 DEF IInv
  <2>4. CASE pf[p] # "Black"
    <3>1. onTurn' = "black" /\ pf'[q] # "Black"
      BY <2>1, <2>4
    <3>2. Ends(pf', q) <=> pf[p] = "King" /\ q \in Corners
      BY <2>1, <3>1 DEF Ends
    <3>3. Ends(pf', q) <=> k \in Corners
      BY <2>1, <3>2
    <3> QED
      BY <2>1, <2>2, <3>1, <3>3 DEF IInv, GameoverIsWon
  <2> QED
    BY <2>3, <2>4
<1>2. CASE UNCHANGED vars
  BY <1>2 DEF vars, IInv, TypeOK, OneKing, GameoverIsWon, KingSquare, ShutIn
<1> QED
  BY <1>1, <1>2 DEF Next, RejectMove, RoomDestroyed

\* The invariant holds in every reachable state.
THEOREM Invariant == Spec => []IInv
<1> QED
  BY InitIInv, NextIInv, PTL DEF Spec

\* The throne and the escapes are never lost and nobody else stands on them.
THEOREM TypeCorrect == Spec => []TypeOK
<1>1. IInv => TypeOK
  BY DEF IInv
<1> QED
  BY <1>1, Invariant, PTL

\* There is always one king, also after captures.
THEOREM KingIsKept == Spec => []OneKing
<1>1. IInv => OneKing
  BY DEF IInv
<1> QED
  BY <1>1, Invariant, PTL

\* A game that is over has been won, and one that goes on has not been escaped
\* from.
THEOREM OverWhenWon == Spec => []GameoverIsWon
<1>1. IInv => GameoverIsWon
  BY DEF IInv
<1> QED
  BY <1>1, Invariant, PTL

-----------------------------------------------------------------------------
(* The room implements the rules.                                          *)

\* Room and rules have the same board.
LEMMA SameBoard ==
    /\ Rules!Squares = Squares /\ Rules!Corners = Corners
    /\ Rules!Special = Corners \cup {Center} /\ Rules!Directions = Directions
    /\ \A p, d, k : Rules!Step(p, d, k) = Step(p, d, k)
    /\ \A p : Rules!Neighbours(p) = Neighbours(p)
    /\ \A p, q : Rules!Aligned(p, q) <=> Aligned(p, q)
    /\ \A p, q : Rules!PathBetween(p, q) = PathBetween(p, q)
<1>1. Rules!Squares = Squares /\ Rules!Corners = Corners /\ Rules!Directions = Directions
  BY DEF Rules!Squares, Rules!Line, Squares, Line, Rules!Corners, Corners,
         Rules!Directions, Directions
<1>2. Rules!Special = Corners \cup {Center}
  BY <1>1 DEF Rules!Special, Rules!Center, Center
<1>3. \A p, d, k : Rules!Step(p, d, k) = Step(p, d, k)
  BY DEF Rules!Step, Step
<1>4. \A p : Rules!Neighbours(p) = Neighbours(p)
  BY <1>1, <1>3 DEF Rules!Neighbours, Neighbours
<1>5. \A p, q : Rules!Aligned(p, q) <=> Aligned(p, q)
  BY DEF Rules!Aligned, Aligned
<1>6. \A a, b : Rules!Between(a, b) = Between(a, b)
  BY DEF Rules!Between, Between
<1>7. \A p, q : Rules!PathBetween(p, q) = PathBetween(p, q)
  BY <1>6 DEF Rules!PathBetween, PathBetween
<1> QED
  BY <1>1, <1>2, <1>3, <1>4, <1>5, <1>7

\* The squares of the stones of one kind.
On(board, stone) == {s \in Squares : board[s] = stone}

\* A way that is free on the playfield is free of stones.
LEMMA FreeWay ==
    ASSUME IInv, NEW p \in Squares, NEW q \in Squares, IsValidMove(p, q)
    PROVE  Rules!CanGo(p, q)
<1>1. KingAt(pf, KingSquare)
  BY IInvFacts
<1>2. Aligned(p, q) /\ pf[q] \in {"Empty", "Throne", "Escape"}
  BY DEF IsValidMove, MaySet
<1>3. \A s \in {q} \cup PathBetween(p, q) : pf[s] \in {"Empty", "Throne", "Escape"}
  BY <1>2 DEF IsValidMove, IsFreePath
<1>4. \A s \in On(pf, "Black") \cup On(pf, "White") \cup {KingSquare} :
         pf[s] \in {"Black", "White", "King"}
  BY <1>1 DEF On, KingAt
<1>5. ({q} \cup PathBetween(p, q)) \cap (On(pf, "Black") \cup On(pf, "White") \cup {KingSquare}) = {}
  BY <1>3, <1>4
<1> QED
  BY <1>2, <1>5, SameBoard DEF Rules!CanGo, On

\* The stones checkCaptureWarrior takes are the ones the rules take.
LEMMA CapturedAreTaken ==
    ASSUME NEW board, Typed(board), KingAt(board, KingSquare),
           NEW q \in Squares, board[q] \in {"Black", "White"}
    PROVE  Captured(board, q) = Rules!Taken(On(board, Enemy(board[q])), On(board, board[q]), q)
<1> DEFINE prey == On(board, Enemy(board[q]))
           hunters == On(board, board[q])
           allies == hunters \cup ((Corners \cup {Center}) \ (prey \cup hunters \cup {KingSquare}))
<1>1. \A t \in Squares : board[t] \in {board[q], "Throne", "Escape"} <=> t \in allies
  <2> TAKE t \in Squares
  <2>1. board[t] \in FieldsOn(t) /\ (board[t] = "King" <=> t = KingSquare)
    BY DEF Typed, KingAt
  <2>2. {board[q], Enemy(board[q])} = {"Black", "White"}
    BY DEF Enemy
  <2> QED
    BY <2>1, <2>2, CenterFacts DEF FieldsOn, On
<1>2. allies \subseteq Squares
  BY CenterFacts DEF On
<1>3. Captured(board, q) =
         {Step(q, d, 1) : d \in {e \in Directions :
             Step(q, e, 2) \in allies /\ board[Step(q, e, 1)] = Enemy(board[q])}}
  <2> HIDE DEF allies
  <2>1. \A e \in Directions :
           Step(q, e, 2) \in Squares /\ IsSurrounded(board[q], board[Step(q, e, 1)], board[Step(q, e, 2)])
             <=> Step(q, e, 2) \in allies /\ board[Step(q, e, 1)] = Enemy(board[q])
    BY <1>1, <1>2 DEF IsSurrounded
  <2> QED
    BY <2>1 DEF Captured
<1>4. \A d \in Directions : Step(q, d, 2) \in allies => Step(q, d, 1) \in Squares
  <2> HIDE DEF allies
  <2> QED
    BY <1>2, MiddleOnBoard
<1>5. Rules!Taken(prey, hunters, q) =
         {s \in prey : \E d \in Directions : s = Step(q, d, 1) /\ Step(q, d, 2) \in allies}
  BY SameBoard DEF Rules!Taken
<1> HIDE DEF allies, hunters
<1>6. \A s : s \in prey <=> s \in Squares /\ board[s] = Enemy(board[q])
  BY DEF On
<1> HIDE DEF prey
<1>7. Captured(board, q) = Rules!Taken(prey, hunters, q)
  BY <1>3, <1>4, <1>5, <1>6
<1> QED
  BY <1>7 DEF prey, hunters

\* The playfield after a valid move of a warrior, as sets of stones.
LEMMA WarriorMoves ==
    ASSUME IInv, NEW p \in Squares, NEW q \in Squares, ProcessMove(p, q),
           pf[p] \in {"Black", "White"}
    PROVE  LET own   == On(pf, pf[p])
               prey  == On(pf, Enemy(pf[p]))
               moved == (own \ {p}) \cup {q}
           IN  /\ p \in own /\ q \notin Corners \cup {Center}
               /\ On(pf', pf[p]) = moved
               /\ On(pf', Enemy(pf[p])) = prey \ Rules!Taken(prey, moved, q)
               /\ Typed(pf') /\ KingAt(pf', KingSquare) /\ pf'[q] = pf[p]
<1> DEFINE board == Moved(p, q)
           own   == On(pf, pf[p])
           prey  == On(pf, Enemy(pf[p]))
           moved == (own \ {p}) \cup {q}
<1>1. /\ Typed(pf) /\ KingAt(pf, KingSquare) /\ KingSquare \notin Corners
      /\ IsValidMove(p, q) /\ pf' = AfterCaptures(board, q)
  BY IInvFacts DEF ProcessMove
<1>2. /\ p # q /\ pf[q] = "Empty"
      /\ board[q] = pf[p] /\ board[p] \in {"Throne", "Empty"}
      /\ \A s \in Squares \ {p, q} : board[s] = pf[s]
      /\ Typed(board) /\ KingAt(board, KingSquare)
  BY <1>1, MovedProperties
<1>3. p \in own /\ q \notin Corners \cup {Center}
  BY <1>1, <1>2, OrdinarySquares DEF On
<1>4. Enemy(pf[p]) \in {"Black", "White"} /\ Enemy(pf[p]) # pf[p]
  BY DEF Enemy
<1>5. On(board, pf[p]) = moved /\ On(board, Enemy(pf[p])) = prey
  <2> HIDE DEF board
  <2> QED
    BY <1>2, <1>4 DEF On
<1>6. Captured(board, q) = Rules!Taken(prey, moved, q)
  <2> HIDE DEF board, prey, moved
  <2> QED
    BY <1>2, <1>5, CapturedAreTaken
<1>7. \A s \in Captured(board, q) : board[s] = Enemy(pf[p])
  <2> HIDE DEF board
  <2> QED
    BY <1>2 DEF Captured, IsSurrounded
<1>8. pf' = [s \in Squares |-> IF s \in Captured(board, q) THEN "Empty" ELSE board[s]]
  <2> HIDE DEF board
  <2> QED
    BY <1>1, <1>2 DEF AfterCaptures
<1>9. /\ On(pf', pf[p]) = On(board, pf[p])
      /\ On(pf', Enemy(pf[p])) = On(board, Enemy(pf[p])) \ Captured(board, q)
  <2> HIDE DEF board
  <2> QED
    BY <1>4, <1>7, <1>8 DEF On
<1>10. Typed(pf') /\ KingAt(pf', KingSquare) /\ pf'[q] = pf[p]
  <2> HIDE DEF board
  <2> QED
    BY <1>1, <1>2, CapturesProperties
<1> QED
  BY <1>3, <1>5, <1>6, <1>9, <1>10

\* The playfield after a valid move of the king.
LEMMA KingWalks ==
    ASSUME IInv, NEW p \in Squares, NEW q \in Squares, ProcessMove(p, q), pf[p] = "King"
    PROVE  /\ p = KingSquare /\ KingSquare' = q /\ pf'[q] = "King"
           /\ On(pf', "Black") = On(pf, "Black") /\ On(pf', "White") = On(pf, "White")
<1> DEFINE board == Moved(p, q)
<1>1. /\ Typed(pf) /\ KingAt(pf, KingSquare) /\ KingSquare \notin Corners
      /\ IsValidMove(p, q) /\ pf' = AfterCaptures(board, q)
  BY IInvFacts DEF ProcessMove
<1>2. /\ p # q /\ pf[q] \in {"Empty", "Throne", "Escape"}
      /\ board[q] = "King" /\ board[p] \in {"Throne", "Empty"}
      /\ \A s \in Squares \ {p, q} : board[s] = pf[s]
  BY <1>1, MovedProperties
<1>3. pf' = board
  BY <1>1, <1>2 DEF AfterCaptures
<1>4. On(board, "Black") = On(pf, "Black") /\ On(board, "White") = On(pf, "White")
  <2> HIDE DEF board
  <2> QED
    BY <1>2 DEF On
<1>5. KingSquare' = q
  BY ProcessMoveFacts
<1> QED
  BY <1>1, <1>2, <1>3, <1>4, <1>5 DEF KingAt

\* A room starts like a game of the rules.
LEMMA InitImplements == Init => Rules!Init
<1> SUFFICES ASSUME Init PROVE Rules!Init
  OBVIOUS
<1>1. KingAt(pf, Center)
  BY LayoutAssumption, CenterFacts DEF Init, KingAt
<1>2. KingSquare = Rules!Center
  BY <1>1, KingOfBoard DEF KingSquare, Rules!Center, Center
<1> QED
  BY <1>2 DEF Init, Rules!Init

\* Every move the room makes is a move of the rules.
LEMMA StepImplements ==
    ASSUME IInv, NEW p \in Squares, NEW q \in Squares, ProcessMove(p, q)
    PROVE  Rules!Next
<1> DEFINE K == KingSquare
           B == On(pf, "Black")
           W == On(pf, "White")
<1>1. /\ gameState = "Playing" /\ IsValidMove(p, q)
      /\ gameState' = IF Ends(pf', q) THEN "Gameover" ELSE "Playing"
  BY DEF ProcessMove
<1>2. Rules!CanGo(p, q)
  BY <1>1, FreeWay
<1>3. /\ KingSquare' = IF pf[p] = "King" THEN q ELSE K
      /\ onTurn = "black" => pf[p] = "Black" /\ onTurn' = "white"
      /\ onTurn # "black" => onTurn = "white" /\ pf[p] \in {"White", "King"} /\ onTurn' = "black"
  BY ProcessMoveFacts
<1>4. CASE pf[p] = "Black"
  <2> DEFINE moved == (B \ {p}) \cup {q}
  <2>1. Enemy(pf[p]) = "White"
    BY <1>4 DEF Enemy
  <2>2. /\ p \in B /\ q \notin Corners \cup {Center}
        /\ On(pf', "Black") = moved
        /\ On(pf', "White") = W \ Rules!Taken(W, moved, q)
        /\ Typed(pf') /\ KingAt(pf', K) /\ pf'[q] = "Black"
    BY <1>4, <2>1, WarriorMoves
  <2>3. Ends(pf', q) <=> K \in Neighbours(q) /\ \A s \in Neighbours(K) : pf'[s] \in {"Black", "Throne", "Escape"}
    <3> HIDE DEF K
    <3> QED
      BY <2>2, ShutInWhenCaptured DEF Ends
  <2>4. \A s \in Neighbours(K) :
           pf'[s] \in {"Black", "Throne", "Escape"} <=> s \in moved \cup Corners \cup {Center}
    <3> HIDE DEF K, moved
    <3> TAKE s \in Neighbours(K)
    <3>1. s \in Squares /\ s # K
      BY <2>2, NeighboursSymmetric DEF KingAt
    <3>2. pf'[s] # "King" /\ pf'[s] \in FieldsOn(s)
      BY <2>2, <3>1 DEF KingAt, Typed
    <3>3. pf'[s] = "Black" <=> s \in moved
      BY <2>2, <3>1 DEF On
    <3> QED
      BY <3>1, <3>2, <3>3 DEF FieldsOn
  <2>5. (gameState' = "Gameover") <=> K \in Rules!Neighbours(q) /\ Rules!ShutIn(moved)
    <3>1. Rules!ShutIn(moved) <=> \A s \in Neighbours(K) : s \in moved \cup Corners \cup {Center}
      BY SameBoard DEF Rules!ShutIn
    <3>2. Rules!Neighbours(q) = Neighbours(q)
      BY SameBoard
    <3> HIDE DEF K, moved
    <3> QED
      BY <1>1, <2>3, <2>4, <3>1, <3>2
  <2>6. Rules!BlackMoves(p, q)
    BY <1>1, <1>2, <1>3, <1>4, <2>2, <2>5, SameBoard DEF Rules!BlackMoves, On
  <2> QED
    BY <2>2, <2>6, SameBoard DEF Rules!Next, On
<1>5. CASE pf[p] = "White"
  <2> DEFINE moved == (W \ {p}) \cup {q}
  <2>1. Enemy(pf[p]) = "Black"
    BY <1>5 DEF Enemy
  <2>2. /\ p \in W /\ q \notin Corners \cup {Center}
        /\ On(pf', "White") = moved
        /\ On(pf', "Black") = B \ Rules!Taken(B, moved, q)
        /\ pf'[q] = "White"
    BY <1>5, <2>1, WarriorMoves
  <2>3. gameState' = "Playing"
    BY <1>1, <2>2 DEF Ends
  <2>4. Rules!WhiteMoves(p, q)
    BY <1>1, <1>2, <1>3, <1>5, <2>2, <2>3, SameBoard DEF Rules!WhiteMoves, On
  <2> QED
    BY <2>2, <2>4, SameBoard DEF Rules!Next, On
<1>6. CASE pf[p] = "King"
  <2>1. /\ p = K /\ KingSquare' = q /\ pf'[q] = "King"
        /\ On(pf', "Black") = B /\ On(pf', "White") = W
    BY <1>6, KingWalks
  <2>2. (gameState' = "Gameover") <=> q \in Corners
    BY <1>1, <2>1 DEF Ends
  <2>3. Rules!KingMoves(q)
    BY <1>1, <1>2, <1>3, <1>6, <2>1, <2>2, SameBoard DEF Rules!KingMoves, On
  <2> QED
    BY <2>3, SameBoard DEF Rules!Next
<1> QED
  BY <1>3, <1>4, <1>5, <1>6

\* For every size and layout, every game a room accepts is a game of Tafl.
THEOREM RoomPlaysByTheRules == Spec => PlaysByTheRules
<1>1. Init => Rules!Init
  BY InitImplements
<1>2. IInv /\ [Next]_vars => [Rules!Next]_(Rules!vars)
  <2> SUFFICES ASSUME IInv, [Next]_vars PROVE [Rules!Next]_(Rules!vars)
    OBVIOUS
  <2>1. CASE \E p, q \in Squares : ProcessMove(p, q)
    BY <2>1, StepImplements
  <2>2. CASE UNCHANGED vars
    BY <2>2 DEF vars, Rules!vars, KingSquare
  <2> QED
    BY <2>1, <2>2 DEF Next, RejectMove, RoomDestroyed
<1> QED
  BY <1>1, <1>2, Invariant, PTL DEF Spec, PlaysByTheRules, Rules!Spec

-----------------------------------------------------------------------------
(* The king is only shut in, without the game being over, by its own move. *)

\* A stone that moves to q comes from a square beside q, or over one.
LEMMA LastStep ==
    ASSUME NEW p \in Squares, NEW q \in Squares, Aligned(p, q), p # q
    PROVE  \E s \in Neighbours(q) : s = p \/ s \in PathBetween(p, q)
<1>1. PICK d \in Directions :
         \/ p[1] = q[1] /\ d = <<0, IF p[2] < q[2] THEN -1 ELSE 1>>
         \/ p[1] # q[1] /\ d = <<IF p[1] < q[1] THEN -1 ELSE 1, 0>>
  BY DEF Directions
<1> DEFINE s == Step(q, d, 1)
<1>2. s = <<q[1] + d[1], q[2] + d[2]>> /\ d[1] \in Int /\ d[2] \in Int
  <2>1. d[1] \in Int /\ d[2] \in Int
    BY DEF Directions
  <2> QED
    BY <2>1, SizeFacts DEF Step
<1>3. CASE p[1] = q[1]
  <2>1. d[1] = 0 /\ d[2] = (IF p[2] < q[2] THEN -1 ELSE 1) /\ p[2] # q[2]
    BY <1>1, <1>3, SizeFacts
  <2>2. s = <<q[1], q[2] + d[2]>>
    BY <1>2, <2>1, SizeFacts
  <2>3. s \in Squares
    BY <1>2, <2>1, <2>2, SizeFacts
  <2>4. s = p \/ q[2] + d[2] \in Between(p[2], q[2])
    BY <1>2, <1>3, <2>1, <2>2, SizeFacts DEF Between
  <2>5. s = p \/ s \in PathBetween(p, q)
    BY <1>3, <2>2, <2>4 DEF PathBetween
  <2> QED
    BY <2>3, <2>5 DEF Neighbours
<1>4. CASE p[1] # q[1]
  <2>1. d[2] = 0 /\ d[1] = (IF p[1] < q[1] THEN -1 ELSE 1) /\ p[2] = q[2]
    BY <1>1, <1>4 DEF Aligned
  <2>2. s = <<q[1] + d[1], q[2]>>
    BY <1>2, <2>1, SizeFacts
  <2>3. s \in Squares
    BY <1>2, <1>4, <2>1, <2>2, SizeFacts
  <2>4. s = p \/ q[1] + d[1] \in Between(p[1], q[1])
    BY <1>2, <1>4, <2>1, <2>2, SizeFacts DEF Between
  <2>5. s = p \/ s \in PathBetween(p, q)
    BY <1>4, <2>1, <2>2, <2>4 DEF PathBetween
  <2> QED
    BY <2>3, <2>5 DEF Neighbours
<1> QED
  BY <1>3, <1>4

LEMMA NextShutIn == IInv /\ ShutInBesideThrone /\ [Next]_vars => ShutInBesideThrone'
<1> SUFFICES ASSUME IInv, ShutInBesideThrone, [Next]_vars PROVE ShutInBesideThrone'
  OBVIOUS
<1>1. ASSUME NEW p \in Squares, NEW q \in Squares, ProcessMove(p, q)
      PROVE  ShutInBesideThrone'
  <2> DEFINE k == IF pf[p] = "King" THEN q ELSE KingSquare
             shut == \A s \in Neighbours(k) : pf'[s] \in {"Black", "Throne", "Escape"}
  <2>1. /\ KingSquare' = k /\ Typed(pf') /\ KingAt(pf', k) /\ pf'[q] = pf[p]
        /\ gameState' = (IF Ends(pf', q) THEN "Gameover" ELSE "Playing")
        /\ pf[p] \in {"Black", "White", "King"}
    BY <1>1, ProcessMoveFacts
  <2> SUFFICES ASSUME gameState' = "Playing", shut PROVE k \in Neighbours(Center)
    BY <2>1 DEF ShutInBesideThrone, ShutIn
  <2>2. /\ Typed(pf) /\ KingAt(pf, KingSquare) /\ KingSquare \notin Corners
        /\ IsValidMove(p, q) /\ gameState = "Playing"
        /\ pf' = AfterCaptures(Moved(p, q), q)
    BY <1>1, IInvFacts DEF ProcessMove
  <2>3. /\ p # q /\ Moved(p, q)[p] = (IF p = Center THEN "Throne" ELSE "Empty")
        /\ \A s \in Squares \ {p, q} : Moved(p, q)[s] = pf[s]
        /\ Typed(Moved(p, q)) /\ KingAt(Moved(p, q), k)
    BY <2>2, MovedProperties
  <2>4. \A s \in Squares : pf'[s] = Moved(p, q)[s] \/ pf'[s] = "Empty"
    <3> HIDE DEF k
    <3> QED
      BY <2>2, <2>3, CapturesProperties
  <2>5. CASE pf[p] # "King"
    <3>1. k = KingSquare /\ p # Center
      BY <2>1, <2>2, <2>5, OrdinarySquares
    <3> HIDE DEF k
    <3>2. q \notin Neighbours(k)
      <4>1. CASE pf[p] = "Black"
        <5>1. ~Ends(pf', q)
          BY <2>1
        <5>2. k \notin Neighbours(q)
          BY <2>1, <4>1, <5>1, ShutInWhenCaptured DEF Ends
        <5> QED
          BY <2>1, <5>2, NeighboursSymmetric DEF KingAt
      <4>2. CASE pf[p] = "White"
        BY <2>1, <4>2
      <4> QED
        BY <2>1, <2>5, <4>1, <4>2
    <3>3. \A s \in Neighbours(k) : pf[s] \in {"Black", "Throne", "Escape"}
      <4> TAKE s \in Neighbours(k)
      <4>1. s \in Squares /\ s # q
        BY <3>2 DEF Neighbours
      <4>2. pf'[s] = Moved(p, q)[s] /\ pf'[s] # "Empty"
        BY <2>4, <4>1
      <4>3. s # p
        BY <2>3, <3>1, <4>2
      <4> QED
        BY <2>3, <4>1, <4>2, <4>3
    <3> QED
      BY <2>2, <3>1, <3>3 DEF ShutInBesideThrone, ShutIn
  <2>6. CASE pf[p] = "King"
    <3>1. Aligned(p, q) /\ IsFreePath(p, q)
      BY <2>2 DEF IsValidMove
    <3>2. PICK s \in Neighbours(q) : s = p \/ s \in PathBetween(p, q)
      BY <2>3, <3>1, LastStep
    <3>3. s \in Squares /\ q \in Neighbours(s) /\ s # q
      BY <3>2, NeighboursSymmetric
    <3>4. pf'[s] = Moved(p, q)[s] /\ pf'[s] \in {"Black", "Throne", "Escape"}
      BY <2>4, <2>6, <3>3
    <3>5. CASE s = p
      BY <2>3, <2>6, <3>3, <3>4, <3>5
    <3>6. CASE s # p
      <4>1. pf[s] = "Throne"
        BY <2>3, <3>1, <3>2, <3>3, <3>4, <3>6 DEF IsFreePath
      <4>2. s = Center
        BY <2>2, <3>3, <4>1, OrdinarySquares
      <4> QED
        BY <2>6, <3>3, <4>2
    <3> QED
      BY <3>5, <3>6
  <2> QED
    BY <2>5, <2>6
<1>2. CASE UNCHANGED vars
  BY <1>2 DEF vars, ShutInBesideThrone, KingSquare, ShutIn
<1> QED
  BY <1>1, <1>2 DEF Next, RejectMove, RoomDestroyed

\* While a game goes on, the king is shut in at most beside the throne.
THEOREM ShutInOnlyBesideThrone == Spec => []ShutInBesideThrone
<1>1. Init => ShutInBesideThrone
  <2> SUFFICES ASSUME Init PROVE ShutInBesideThrone
    OBVIOUS
  <2>1. KingAt(pf, Center)
    BY LayoutAssumption, CenterFacts DEF Init, KingAt
  <2>2. KingSquare = Center
    BY <2>1, KingOfBoard DEF KingSquare
  <2> QED
    BY <2>2, LayoutAssumption DEF Init, ShutInBesideThrone, ShutIn
<1> QED
  BY <1>1, NextShutIn, Invariant, PTL DEF Spec

-----------------------------------------------------------------------------
(* How many stones a move takes.                                           *)

LEMMA FiniteStones == ASSUME NEW board, NEW side PROVE IsFiniteSet(Stones(board, side))
<1>1. IsFiniteSet(Line)
  BY SizeAssumption, FS_Interval DEF Line
<1>2. IsFiniteSet(Squares)
  BY <1>1, FS_Product DEF Squares
<1>3. Stones(board, side) \in SUBSET Squares
  BY DEF Stones
<1> QED
  BY <1>2, <1>3, FS_Subset

LEMMA AtMostThree ==
    ASSUME NEW x, NEW y, NEW z, NEW S \in SUBSET {x, y, z}
    PROVE  Cardinality(S) <= 3
<1>1. ASSUME NEW T, IsFiniteSet(T), NEW n \in Nat, Cardinality(T) <= n, NEW w
      PROVE  IsFiniteSet(T \cup {w}) /\ Cardinality(T \cup {w}) <= n + 1
  <2>1. Cardinality(T) \in Nat
    BY <1>1, FS_CardinalityType
  <2>2. /\ IsFiniteSet(T \cup {w})
        /\ Cardinality(T \cup {w}) = IF w \in T THEN Cardinality(T) ELSE Cardinality(T) + 1
    BY <1>1, FS_AddElement
  <2> QED
    BY <1>1, <2>1, <2>2
<1>2. IsFiniteSet({x}) /\ Cardinality({x}) <= 1
  <2>1. IsFiniteSet({x}) /\ Cardinality({x}) = 1
    BY FS_Singleton, Zenon
  <2> QED
    BY <2>1
<1>3. IsFiniteSet({x} \cup {y}) /\ Cardinality({x} \cup {y}) <= 2
  BY <1>1, <1>2
<1>4. IsFiniteSet({x, y, z}) /\ Cardinality({x, y, z}) <= 3
  <2> DEFINE T == {x} \cup {y}
  <2>1. T \cup {z} = {x, y, z}
    OBVIOUS
  <2> HIDE DEF T
  <2>2. IsFiniteSet(T \cup {z}) /\ Cardinality(T \cup {z}) <= 3
    BY <1>1, <1>3 DEF T
  <2> QED
    BY <2>1, <2>2
<1>5. IsFiniteSet(S) /\ Cardinality(S) <= Cardinality({x, y, z})
  BY <1>4, FS_Subset
<1>6. Cardinality(S) \in Nat /\ Cardinality({x, y, z}) \in Nat
  BY <1>4, <1>5, FS_CardinalityType
<1> QED
  BY <1>4, <1>5, <1>6

\* Three directions are left when one is excluded.
LEMMA OtherDirections ==
    ASSUME NEW e \in Directions
    PROVE  \E a, b, c : Directions \ {e} = {a, b, c}
<1>1. CASE e = <<0, 1>>
  <2>1. Directions \ {e} = {<<0, -1>>, <<1, 0>>, <<-1, 0>>}
    BY <1>1 DEF Directions
  <2> QED
    BY <2>1
<1>2. CASE e = <<0, -1>>
  <2>1. Directions \ {e} = {<<0, 1>>, <<1, 0>>, <<-1, 0>>}
    BY <1>2 DEF Directions
  <2> QED
    BY <2>1
<1>3. CASE e = <<1, 0>>
  <2>1. Directions \ {e} = {<<0, 1>>, <<0, -1>>, <<-1, 0>>}
    BY <1>3 DEF Directions
  <2> QED
    BY <2>1
<1>4. CASE e = <<-1, 0>>
  <2>1. Directions \ {e} = {<<0, 1>>, <<0, -1>>, <<1, 0>>}
    BY <1>4 DEF Directions
  <2> QED
    BY <2>1
<1> QED
  BY <1>1, <1>2, <1>3, <1>4 DEF Directions

\* The playfield after a valid move, square by square.
LEMMA AfterMove ==
    ASSUME IInv, NEW p \in Squares, NEW q \in Squares, ProcessMove(p, q)
    PROVE  /\ p # q /\ IsValidMove(p, q)
           /\ (onTurn = "black" /\ pf[p] = "Black") \/ (onTurn = "white" /\ pf[p] \in {"White", "King"})
           /\ pf[q] \in {"Empty", "Throne", "Escape"}
           /\ pf'[p] \in {"Throne", "Empty"} /\ pf'[q] = pf[p]
           /\ \A s \in Squares \ {p, q} :
                 \/ pf'[s] = pf[s]
                 \/ /\ pf'[s] = "Empty" /\ s \in Captured(Moved(p, q), q)
                    /\ pf[p] # "King" /\ pf[s] = Enemy(pf[p])
<1> DEFINE board == Moved(p, q)
           captured == Captured(board, q)
<1>1. /\ Typed(pf) /\ KingAt(pf, KingSquare) /\ KingSquare \notin Corners
      /\ IsValidMove(p, q) /\ pf' = AfterCaptures(board, q)
  BY IInvFacts DEF ProcessMove
<1>2. /\ p # q /\ pf[q] \in {"Empty", "Throne", "Escape"}
      /\ (onTurn = "black" /\ pf[p] = "Black") \/ (onTurn = "white" /\ pf[p] \in {"White", "King"})
      /\ board[q] = pf[p] /\ board[p] \in {"Throne", "Empty"}
      /\ \A s \in Squares \ {p, q} : board[s] = pf[s]
  BY <1>1, MovedProperties
<1> HIDE DEF board
<1>3. \A s \in captured : board[s] = Enemy(board[q])
  BY DEF Captured, IsSurrounded
<1>4. \A s \in Squares :
         pf'[s] = IF board[q] # "King" /\ s \in captured THEN "Empty" ELSE board[s]
  <2>1. CASE board[q] = "King"
    BY <1>1, <2>1 DEF AfterCaptures
  <2>2. CASE board[q] # "King"
    <3>1. pf' = [s \in Squares |-> IF s \in captured THEN "Empty" ELSE board[s]]
      BY <1>1, <2>2 DEF AfterCaptures
    <3> QED
      BY <2>2, <3>1
  <2> QED
    BY <2>1, <2>2
<1> HIDE DEF captured
<1>5. Enemy(board[q]) \in {"Black", "White"} /\ Enemy(board[q]) # board[q]
  BY <1>2 DEF Enemy
<1>6. q \notin captured /\ p \notin captured
  BY <1>2, <1>3, <1>5
<1>7. pf'[p] \in {"Throne", "Empty"} /\ pf'[q] = pf[p]
  BY <1>2, <1>4, <1>6
<1>8. ASSUME NEW s \in Squares \ {p, q}
      PROVE  \/ pf'[s] = pf[s]
             \/ /\ pf'[s] = "Empty" /\ s \in captured
                /\ pf[p] # "King" /\ pf[s] = Enemy(pf[p])
  BY <1>2, <1>3, <1>4
<1> QED
  BY <1>1, <1>2, <1>7, <1>8 DEF board, captured

\* The mover has a stone at q instead of the one at p, and all its others.
LEMMA OwnStones ==
    ASSUME IInv, NEW p \in Squares, NEW q \in Squares, ProcessMove(p, q)
    PROVE  Cardinality(Stones(pf', onTurn)) = Cardinality(Stones(pf, onTurn))
<1> DEFINE S == Stones(pf, onTurn)
<1>1. /\ p # q
      /\ (onTurn = "black" /\ pf[p] = "Black") \/ (onTurn = "white" /\ pf[p] \in {"White", "King"})
      /\ pf[q] \in {"Empty", "Throne", "Escape"}
      /\ pf'[p] \in {"Throne", "Empty"} /\ pf'[q] = pf[p]
      /\ \A s \in Squares \ {p, q} :
            \/ pf'[s] = pf[s]
            \/ pf'[s] = "Empty" /\ pf[p] # "King" /\ pf[s] = Enemy(pf[p])
  BY AfterMove
<1>2. p \in S /\ q \notin S
  BY <1>1 DEF Stones
<1>3. Stones(pf', onTurn) = (S \ {p}) \cup {q}
  <2>1. CASE onTurn = "black"
    BY <1>1, <2>1 DEF Stones, Enemy
  <2>2. CASE onTurn = "white"
    BY <1>1, <2>2 DEF Stones, Enemy
  <2> QED
    BY <1>1, <2>1, <2>2
<1>4. IsFiniteSet(S)
  BY FiniteStones
<1> HIDE DEF S
<1>5. /\ IsFiniteSet(S \ {p}) /\ Cardinality(S \ {p}) = Cardinality(S) - 1
      /\ Cardinality(S) \in Nat
  BY <1>2, <1>4, FS_RemoveElement, FS_CardinalityType
<1>6. Cardinality((S \ {p}) \cup {q}) = Cardinality(S \ {p}) + 1
  BY <1>2, <1>5, FS_AddElement
<1> QED
  BY <1>3, <1>5, <1>6 DEF S

\* The other player gets no stone, and loses none on the side the mover has
\* come from.
LEMMA EnemyStones ==
    ASSUME IInv, NEW p \in Squares, NEW q \in Squares, ProcessMove(p, q)
    PROVE  /\ Stones(pf', Other(onTurn)) \subseteq Stones(pf, Other(onTurn))
           /\ Cardinality(Stones(pf, Other(onTurn)) \ Stones(pf', Other(onTurn))) <= 3
<1> DEFINE lost == Stones(pf, Other(onTurn)) \ Stones(pf', Other(onTurn))
<1>1. /\ p # q /\ IsValidMove(p, q)
      /\ (onTurn = "black" /\ pf[p] = "Black") \/ (onTurn = "white" /\ pf[p] \in {"White", "King"})
      /\ pf[q] \in {"Empty", "Throne", "Escape"}
      /\ pf'[p] \in {"Throne", "Empty"} /\ pf'[q] = pf[p]
      /\ \A s \in Squares \ {p, q} :
            \/ pf'[s] = pf[s]
            \/ /\ pf'[s] = "Empty" /\ s \in Captured(Moved(p, q), q)
               /\ pf[p] # "King" /\ pf[s] = Enemy(pf[p])
  BY AfterMove
<1>2. Stones(pf', Other(onTurn)) \subseteq Stones(pf, Other(onTurn))
  <2>1. CASE onTurn = "black"
    BY <1>1, <2>1 DEF Stones, Other
  <2>2. CASE onTurn = "white"
    BY <1>1, <2>2 DEF Stones, Other
  <2> QED
    BY <1>1, <2>1, <2>2
<1>3. \A s \in lost : s \in Squares /\ s \notin {p, q} /\ s \in Captured(Moved(p, q), q)
                      /\ pf[s] \in {"Black", "White"}
  <2>1. CASE onTurn = "black"
    BY <1>1, <2>1 DEF Stones, Other, Enemy
  <2>2. CASE onTurn = "white"
    BY <1>1, <2>2 DEF Stones, Other, Enemy
  <2> QED
    BY <1>1, <2>1, <2>2
<1> HIDE DEF lost
<1>4. \A s \in lost : \E d \in Directions : s = Step(q, d, 1)
  BY <1>3 DEF Captured
<1>5. PICK e \in Directions : Step(q, e, 1) = p \/ Step(q, e, 1) \in PathBetween(p, q)
  <2>1. Aligned(p, q)
    BY <1>1 DEF IsValidMove
  <2>2. \E s \in Neighbours(q) : s = p \/ s \in PathBetween(p, q)
    BY <1>1, <2>1, LastStep
  <2> QED
    BY <2>2 DEF Neighbours
<1>6. Step(q, e, 1) \notin lost
  <2>1. \A s \in PathBetween(p, q) : pf[s] \in {"Empty", "Throne"}
    BY <1>1 DEF IsValidMove, IsFreePath
  <2> QED
    BY <1>3, <1>5, <2>1
<1>7. PICK a, b, c : Directions \ {e} = {a, b, c}
  BY OtherDirections
<1>8. \A s \in lost : \E d \in {a, b, c} : s = Step(q, d, 1)
  BY <1>4, <1>6, <1>7
<1>9. lost \in SUBSET {Step(q, a, 1), Step(q, b, 1), Step(q, c, 1)}
  BY <1>8
<1>10. Cardinality(lost) <= 3
  BY <1>9, AtMostThree
<1> QED
  BY <1>2, <1>10 DEF lost

\* A move never costs the mover a stone, and takes at most three of the other
\* player's, for a playfield of any size: the fourth neighbour is the square
\* the stone came over.
THEOREM MoversTakeEnemies == Spec => MoveTakesEnemies
<1> DEFINE A == /\ Cardinality(Stones(pf', onTurn)) = Cardinality(Stones(pf, onTurn))
                /\ Cardinality(Stones(pf, Other(onTurn)) \ Stones(pf', Other(onTurn))) <= 3
                /\ Stones(pf', Other(onTurn)) \subseteq Stones(pf, Other(onTurn))
<1>1. IInv /\ [Next]_vars => [A]_vars
  <2> SUFFICES ASSUME IInv, [Next]_vars PROVE [A]_vars
    OBVIOUS
  <2>1. CASE \E p, q \in Squares : ProcessMove(p, q)
    BY <2>1, OwnStones, EnemyStones
  <2>2. CASE UNCHANGED vars
    BY <2>2
  <2> QED
    BY <2>1, <2>2 DEF Next, RejectMove, RoomDestroyed
<1> QED
  BY <1>1, Invariant, PTL DEF Spec, MoveTakesEnemies
===============================================================================
