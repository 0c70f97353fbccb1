---------------------------- MODULE GoGameProofs ----------------------------
(***************************************************************************)
(* Theorems about a game of GoGame, on a board of any size the code allows:*)
(* the bookkeeping of the board is exact after any plays, the engine allows*)
(* the moves that the rules allow, and it implements the rules.            *)
(*                                                                         *)
(* The lemmas before them say what the operators of GoBoard do to a board  *)
(* whose bookkeeping is exact.                                             *)
(*                                                                         *)
(* A board is Coherent when every block object stands for a group and counts*)
(* its liberties, every stone points to its block, and the counters of the *)
(* neighbours are right.  A play leaves that state at once and comes back to*)
(* it in the steps of AddStone: Put (stone and counters), Lost (a liberty of*)
(* the blocks around), Taken and Settled (the stone's own block), and the  *)
(* capture of the dead blocks around it.  The loops are folds, each with the*)
(* invariant that FoldTheorems asks for: Imported, Joined, Cleared, Killed.*)
(***************************************************************************)
EXTENDS GoGame, FiniteSetTheorems, SequenceTheorems, TLAPS

-----------------------------------------------------------------------------
\* Geometry.

\* The sizes a board can have.
LEMMA SizeCases ==
  \/ BoardSize = 2 \/ BoardSize = 3 \/ BoardSize = 4 \/ BoardSize = 5 \/ BoardSize = 6
  \/ BoardSize = 7 \/ BoardSize = 8 \/ BoardSize = 9 \/ BoardSize = 10 \/ BoardSize = 11
  \/ BoardSize = 12 \/ BoardSize = 13 \/ BoardSize = 14 \/ BoardSize = 15 \/ BoardSize = 16
  \/ BoardSize = 17 \/ BoardSize = 18 \/ BoardSize = 19
BY BoardSizeAssumption

\* A step in a direction stays on the board or leaves it, and the opposite step
\* leads back.
LEMMA Directions ==
  ASSUME NEW p \in Positions
  PROVE  /\ North(p) \in Positions \cup {OffBoard}
         /\ South(p) \in Positions \cup {OffBoard}
         /\ West(p) \in Positions \cup {OffBoard}
         /\ East(p) \in Positions \cup {OffBoard}
         /\ North(p) # p /\ South(p) # p /\ West(p) # p /\ East(p) # p
         /\ North(p) # OffBoard => South(North(p)) = p
         /\ South(p) # OffBoard => North(South(p)) = p
         /\ West(p) # OffBoard => East(West(p)) = p
         /\ East(p) # OffBoard => West(East(p)) = p
<1> USE DEF Positions, North, South, West, East, OffBoard,
            BOARD_TOP_LEFT, BOARD_TOP_RIGHT, BOARD_BOTTOM_LEFT, BOARD_BOTTOM_RIGHT
<1>1. CASE BoardSize = 2 BY <1>1
<1>2. CASE BoardSize = 3 BY <1>2
<1>3. CASE BoardSize = 4 BY <1>3
<1>4. CASE BoardSize = 5 BY <1>4
<1>5. CASE BoardSize = 6 BY <1>5
<1>6. CASE BoardSize = 7 BY <1>6
<1>7. CASE BoardSize = 8 BY <1>7
<1>8. CASE BoardSize = 9 BY <1>8
<1>9. CASE BoardSize = 10 BY <1>9
<1>10. CASE BoardSize = 11 BY <1>10
<1>11. CASE BoardSize = 12 BY <1>11
<1>12. CASE BoardSize = 13 BY <1>12
<1>13. CASE BoardSize = 14 BY <1>13
<1>14. CASE BoardSize = 15 BY <1>14
<1>15. CASE BoardSize = 16 BY <1>15
<1>16. CASE BoardSize = 17 BY <1>16
<1>17. CASE BoardSize = 18 BY <1>17
<1>18. CASE BoardSize = 19 BY <1>18
<1> QED BY SizeCases, <1>1, <1>2, <1>3, <1>4, <1>5, <1>6, <1>7, <1>8, <1>9,
         <1>10, <1>11, <1>12, <1>13, <1>14, <1>15, <1>16, <1>17, <1>18

\* The points reached from a corner, a border and the middle are different, and
\* as many as reset() says.
LEMMA DirectionsCount ==
  ASSUME NEW p \in Positions
  PROVE  /\ North(p) = OffBoard \/ North(p) \notin {South(p), West(p), East(p)}
         /\ South(p) = OffBoard \/ South(p) \notin {West(p), East(p)}
         /\ West(p) = OffBoard \/ West(p) # East(p)
         /\ InitialEmptyNeighbours(p) =
              (IF North(p) = OffBoard THEN 0 ELSE 1) + (IF South(p) = OffBoard THEN 0 ELSE 1)
              + (IF West(p) = OffBoard THEN 0 ELSE 1) + (IF East(p) = OffBoard THEN 0 ELSE 1)
<1> USE DEF Positions, North, South, West, East, OffBoard,
            BOARD_TOP_LEFT, BOARD_TOP_RIGHT, BOARD_BOTTOM_LEFT, BOARD_BOTTOM_RIGHT,
            InitialEmptyNeighbours, IsCorner, IsBorder
<1>1. CASE BoardSize = 2 BY <1>1
<1>2. CASE BoardSize = 3 BY <1>2
<1>3. CASE BoardSize = 4 BY <1>3
<1>4. CASE BoardSize = 5 BY <1>4
<1>5. CASE BoardSize = 6 BY <1>5
<1>6. CASE BoardSize = 7 BY <1>6
<1>7. CASE BoardSize = 8 BY <1>7
<1>8. CASE BoardSize = 9 BY <1>8
<1>9. CASE BoardSize = 10 BY <1>9
<1>10. CASE BoardSize = 11 BY <1>10
<1>11. CASE BoardSize = 12 BY <1>11
<1>12. CASE BoardSize = 13 BY <1>12
<1>13. CASE BoardSize = 14 BY <1>13
<1>14. CASE BoardSize = 15 BY <1>14
<1>15. CASE BoardSize = 16 BY <1>15
<1>16. CASE BoardSize = 17 BY <1>16
<1>17. CASE BoardSize = 18 BY <1>17
<1>18. CASE BoardSize = 19 BY <1>18
<1> QED BY SizeCases, <1>1, <1>2, <1>3, <1>4, <1>5, <1>6, <1>7, <1>8, <1>9,
         <1>10, <1>11, <1>12, <1>13, <1>14, <1>15, <1>16, <1>17, <1>18

\* Around a point are points of the board, never the point itself, and the
\* relation is symmetric.
LEMMA AdjacentPoints ==
  ASSUME NEW p \in Positions
  PROVE  /\ Adjacent(p) \subseteq Positions
         /\ p \notin Adjacent(p)
         /\ \A q \in Adjacent(p) : p \in Adjacent(q)
<1>1. ASSUME NEW q \in Adjacent(p)
      PROVE  q \in Positions /\ q # p /\ p \in Adjacent(q)
  <2>1. OffBoard \notin Positions
    BY DEF OffBoard, Positions
  <2>2. q # OffBoard /\ (q = North(p) \/ q = South(p) \/ q = West(p) \/ q = East(p))
    BY DEF Adjacent
  <2>3. q \in Positions /\ q # p /\ (South(q) = p \/ North(q) = p \/ East(q) = p \/ West(q) = p)
    BY <2>2, Directions
  <2> QED BY <2>1, <2>3 DEF Adjacent
<1> QED BY <1>1

\* There are finitely many points, and no point is the sign for none.
LEMMA PointsOfBoard ==
  /\ IsFiniteSet(Positions)
  /\ NO_KO_POINT \notin Positions /\ OffBoard \notin Positions /\ NoBlock \notin Blocks
  /\ \A S \in SUBSET Positions : IsFiniteSet(S) /\ Cardinality(S) \in Nat
<1>1. 0 \in Int /\ BoardSize * BoardSize - 1 \in Int
  BY BoardSizeAssumption
<1>2. IsFiniteSet(Positions)
  BY <1>1, FS_Interval DEF Positions
<1>3. NO_KO_POINT \notin Positions /\ OffBoard \notin Positions /\ NoBlock \notin Blocks
  BY DEF Positions, Blocks, NO_KO_POINT, OffBoard, NoBlock
<1> QED BY <1>2, <1>3, FS_Subset, FS_CardinalityType

\* The assumptions of GoRules hold of the graph of this board.
LEMMA BoardGraph ==
  LET Nb == [p \in Positions |-> Adjacent(p)]
  IN  /\ IsFiniteSet(Positions) /\ NO_KO_POINT \notin Positions
      /\ Nb \in [Positions -> SUBSET Positions]
      /\ \A p, q \in Positions : q \in Nb[p] => p \in Nb[q]
      /\ \A p \in Positions : p \notin Nb[p]
BY AdjacentPoints, PointsOfBoard

\* The theorems about the rules, on the points of this board.
Facts == INSTANCE GoRulesProofs WITH
           Points      <- Positions,
           Neighbours  <- [p \in Positions |-> Adjacent(p)],
           stones      <- board.stones,
           koPoint     <- board.koPoint,
           toPlay      <- board.toPlay,
           prisoners   <- board.bw_prisoners,
           movePointer <- Len(board.moves)

\* The rules on this board, in its own terms.
LEMMA SameConstants ==
  /\ Rules!NONE = NONE /\ Facts!NONE = NONE
  /\ Rules!NO_KO_POINT = NO_KO_POINT /\ Facts!NO_KO_POINT = NO_KO_POINT
  /\ Rules!StoneColors = StoneColors /\ Facts!StoneColors = StoneColors
  /\ Rules!BoardColors = BoardColors /\ Facts!BoardColors = BoardColors
  /\ \A c : Rules!BoardColor(c) = BoardColor(c) /\ Facts!BoardColor(c) = BoardColor(c)
  /\ \A c : Rules!Opponent(c) = Opponent(c) /\ Facts!Opponent(c) = Opponent(c)
<1> USE DEF NONE, Rules!NONE, Facts!NONE, NO_KO_POINT, Rules!NO_KO_POINT, Facts!NO_KO_POINT,
            S_BLACK, Rules!S_BLACK, Facts!S_BLACK, S_WHITE, Rules!S_WHITE, Facts!S_WHITE,
            StoneColors, Rules!StoneColors, Facts!StoneColors,
            B_BLACK, Rules!B_BLACK, Facts!B_BLACK, B_WHITE, Rules!B_WHITE, Facts!B_WHITE,
            BoardColors, Rules!BoardColors, Facts!BoardColors,
            BoardColor, Rules!BoardColor, Facts!BoardColor, Opponent, Rules!Opponent, Facts!Opponent
<1> QED OBVIOUS

\* Finiteness and size mean the same in both instances.
LEMMA SameFiniteness ==
  /\ \A S : Facts!IsFiniteSet(S) <=> IsFiniteSet(S)
  /\ \A S : Facts!Cardinality(S) = Cardinality(S)
  /\ \A S : Rules!Cardinality(S) = Cardinality(S)
<1>1. \A S : Facts!IsFiniteSet(S) <=> IsFiniteSet(S)
  BY DEF Facts!IsFiniteSet, IsFiniteSet
<1>2. \A S : Facts!Cardinality(S) = Cardinality(S)
  BY DEF Facts!Cardinality, Cardinality
<1>3. \A S : Rules!Cardinality(S) = Cardinality(S)
  BY DEF Rules!Cardinality, Cardinality
<1> QED BY <1>1, <1>2, <1>3

\* So do blocks.
LEMMA SameBlocks == \A s, p : Facts!Block(s, p) = Rules!Block(s, p)
BY DEF Facts!Block, Rules!Block, Facts!SameColor, Rules!SameColor, Facts!ClosedIn, Rules!ClosedIn

\* The liberties of stones and the positions after a play, in the board's own terms.
LEMMA LibertiesAre ==
  ASSUME NEW s, NEW B
  PROVE  Rules!Liberties(s, B) = {q \in Positions : s[q] = NONE /\ Adjacent(q) \cap B # {}}
BY SameConstants DEF Rules!Liberties

\* A position with one more stone.
LEMMA PlacedIs ==
  ASSUME NEW s \in [Positions -> BoardColors], NEW p \in Positions, NEW color \in StoneColors
  PROVE  /\ Rules!Placed(s, p, color) \in [Positions -> BoardColors]
         /\ \A q \in Positions :
              Rules!Placed(s, p, color)[q] = IF q = p THEN BoardColor(color) ELSE s[q]
         /\ Rules!Placed(s, p, color) = [s EXCEPT ![p] = BoardColor(color)]
BY SameConstants DEF Rules!Placed, BoardColors, BoardColor

\* A position without some stones.
LEMMA RemovedIs ==
  ASSUME NEW s \in [Positions -> BoardColors], NEW D
  PROVE  /\ Rules!Removed(s, D) \in [Positions -> BoardColors]
         /\ \A q \in Positions : Rules!Removed(s, D)[q] = IF q \in D THEN NONE ELSE s[q]
BY SameConstants DEF Rules!Removed, BoardColors

\* There are two colours of stones, each the opponent of the other.
LEMMA TwoColors ==
  ASSUME NEW color \in StoneColors
  PROVE  /\ BoardColor(color) \in BoardColors /\ BoardColor(color) # NONE
         /\ BoardColor(Opponent(color)) \in BoardColors /\ BoardColor(Opponent(color)) # NONE
         /\ BoardColor(color) # BoardColor(Opponent(color))
         /\ Opponent(color) \in StoneColors /\ Opponent(color) # color
         /\ Opponent(Opponent(color)) = color
         /\ \A x \in BoardColors : x \in {NONE, BoardColor(color), BoardColor(Opponent(color))}
         /\ \A c \in StoneColors : c = color \/ c = Opponent(color)
BY DEF StoneColors, S_BLACK, S_WHITE, BoardColor, Opponent, BoardColors, NONE, B_BLACK, B_WHITE

-----------------------------------------------------------------------------
\* Blocks of a position.

\* The block of a stone contains it, and stones like it.
LEMMA BlockBasics ==
  ASSUME NEW s, NEW p \in Positions
  PROVE  /\ p \in Rules!Block(s, p)
         /\ Rules!Block(s, p) \subseteq Positions
         /\ \A q \in Rules!Block(s, p) : s[q] = s[p]
BY DEF Rules!Block, Rules!SameColor

\* It is closed under adjacency, and the least such set.
LEMMA BlockClosed ==
  ASSUME NEW s, NEW p \in Positions,
         NEW q \in Rules!Block(s, p), NEW r \in Adjacent(q), s[r] = s[q]
  PROVE  r \in Rules!Block(s, p)
<1>1. q \in Positions /\ r \in Positions
  BY BlockBasics, AdjacentPoints
<1> QED BY <1>1, BoardGraph, SameBlocks, SameConstants, SameFiniteness, Facts!BlockClosed

\* A block lies in every set of like stones around it that no like stone adjoins.
LEMMA BlockLeast ==
  ASSUME NEW s, NEW p \in Positions, NEW B \in SUBSET Positions, p \in B,
         \A q \in B : s[q] = s[p],
         \A q \in B : \A r \in Adjacent(q) : s[r] = s[q] => r \in B
  PROVE  Rules!Block(s, p) \subseteq B
<1>1. B \in SUBSET Facts!SameColor(s, p)
  BY DEF Facts!SameColor
<1>2. \A q \in B : \A r \in Positions :
        r \in [x \in Positions |-> Adjacent(x)][q] /\ s[r] = s[q] => r \in B
  BY AdjacentPoints
<1>3. Facts!Block(s, p) \subseteq B
  BY <1>1, <1>2, BoardGraph, SameConstants, SameFiniteness, Facts!BlockLeast
<1> QED BY <1>3, SameBlocks

\* Any stone of a block determines it.
LEMMA BlockOfMember ==
  ASSUME NEW s, NEW p \in Positions, NEW q \in Rules!Block(s, p)
  PROVE  Rules!Block(s, q) = Rules!Block(s, p)
BY BoardGraph, SameBlocks, SameConstants, SameFiniteness, Facts!BlockOfMember

\* The block of a stone just placed is the stone and the blocks it touches.
LEMMA BlockOfPlaced ==
  ASSUME NEW s \in [Positions -> BoardColors], NEW p \in Positions, s[p] = NONE,
         NEW color \in StoneColors
  PROVE  LET t == Rules!Placed(s, p, color)
             Touched == {n \in Adjacent(p) : s[n] = BoardColor(color)}
         IN  Rules!Block(t, p) = {p} \cup UNION {Rules!Block(s, n) : n \in Touched}
<1> DEFINE t == Rules!Placed(s, p, color)
           Touched == {n \in Adjacent(p) : s[n] = BoardColor(color)}
           B == {p} \cup UNION {Rules!Block(s, n) : n \in Touched}
<1>1. \A q \in Positions : t[q] = IF q = p THEN BoardColor(color) ELSE s[q]
  BY PlacedIs
<1>2. BoardColor(color) # NONE
  BY TwoColors
<1>3. \A n \in Touched : n \in Positions /\ n # p /\ p \in Adjacent(n)
  BY AdjacentPoints
<1>4. \A n \in Touched : \A x \in Rules!Block(s, n) :
        x \in Positions /\ x # p /\ s[x] = BoardColor(color)
  BY <1>2, <1>3, BlockBasics
<1> HIDE DEF t
<1>5. ASSUME NEW n \in Touched, NEW x \in Rules!Block(s, n)
      PROVE  x \in Rules!Block(t, p)
  <2> DEFINE C == {y \in Rules!Block(s, n) : y \in Rules!Block(t, p)}
  <2>1. n \in C
    <3>1. t[n] = t[p] /\ n \in Adjacent(p)
      BY <1>1, <1>3
    <3>2. n \in Rules!Block(t, p)
      BY <3>1, BlockBasics, BlockClosed
    <3> QED BY <1>3, <3>2, BlockBasics
  <2>2. C \in SUBSET Positions /\ \A q \in C : s[q] = s[n]
    BY <1>3, BlockBasics
  <2>3. ASSUME NEW q \in C, NEW r \in Adjacent(q), s[r] = s[q]
        PROVE  r \in C
    <3>1. r \in Rules!Block(s, n)
      BY <1>3, <2>3, BlockClosed
    <3>2. t[r] = t[q]
      BY <1>1, <1>4, <2>3, <3>1
    <3> QED BY <3>1, <3>2, BlockClosed
  <2>4. Rules!Block(s, n) \subseteq C
    <3> HIDE DEF C
    <3> QED BY <1>3, <2>1, <2>2, <2>3, BlockLeast
  <2> QED BY <2>4
<1>6. B \subseteq Rules!Block(t, p)
  BY <1>5, BlockBasics
<1>7. Rules!Block(t, p) \subseteq B
  <2>1. B \in SUBSET Positions /\ p \in B /\ \A q \in B : t[q] = t[p]
    BY <1>1, <1>4
  <2>2. ASSUME NEW q \in B, NEW r \in Adjacent(q), t[r] = t[q]
        PROVE  r \in B
    <3>1. CASE r = p
      BY <3>1
    <3>2. CASE r # p /\ q = p
      <4>1. r \in Touched /\ r \in Positions
        BY <1>1, <2>2, <3>2, AdjacentPoints
      <4> QED BY <4>1, BlockBasics
    <3>3. CASE r # p /\ q # p
      <4>1. PICK n \in Touched : q \in Rules!Block(s, n)
        BY <3>3
      <4>2. r \in Positions /\ s[r] = s[q]
        BY <1>1, <1>4, <2>2, <3>3, <4>1, AdjacentPoints
      <4>3. r \in Rules!Block(s, n)
        BY <1>3, <4>1, <4>2, BlockClosed
      <4> QED BY <4>3
    <3> QED BY <3>1, <3>2, <3>3
  <2> HIDE DEF B
  <2> QED BY <2>1, <2>2, BlockLeast
<1> QED BY <1>6, <1>7 DEF t

\* The other blocks are what they were.
LEMMA BlockNotPlaced ==
  ASSUME NEW s \in [Positions -> BoardColors], NEW p \in Positions, s[p] = NONE,
         NEW color \in StoneColors, NEW q \in Positions, s[q] # NONE,
         q \notin Rules!Block(Rules!Placed(s, p, color), p)
  PROVE  Rules!Block(Rules!Placed(s, p, color), q) = Rules!Block(s, q)
<1> DEFINE t == Rules!Placed(s, p, color)
<1>1. \A x \in Positions : t[x] = IF x = p THEN BoardColor(color) ELSE s[x]
  BY PlacedIs
<1>2. p \in Rules!Block(t, p) /\ p # q
  BY BlockBasics
<1> HIDE DEF t
<1>3. p \notin Rules!Block(t, q)
  <2>1. SUFFICES ASSUME p \in Rules!Block(t, q) PROVE FALSE
    OBVIOUS
  <2>2. Rules!Block(t, p) = Rules!Block(t, q)
    BY <2>1, BlockOfMember
  <2> QED BY <2>2, BlockBasics DEF t
<1>4. p \notin Rules!Block(s, q)
  BY BlockBasics
<1>5. Rules!Block(t, q) \subseteq Rules!Block(s, q)
  <2> DEFINE B == {x \in Rules!Block(s, q) : x \in Rules!Block(t, q)}
  <2>1. B \in SUBSET Positions /\ q \in B /\ \A x \in B : t[x] = t[q] /\ x # p /\ s[x] = s[q]
    BY <1>1, <1>2, <1>4, BlockBasics
  <2>2. ASSUME NEW x \in B, NEW r \in Adjacent(x), t[r] = t[x]
        PROVE  r \in B
    <3>1. r \in Rules!Block(t, q)
      BY <2>2, BlockClosed
    <3>2. r # p /\ r \in Positions
      BY <1>3, <2>1, <3>1, AdjacentPoints
    <3>3. s[r] = s[x]
      BY <1>1, <2>1, <2>2, <3>2
    <3>4. r \in Rules!Block(s, q)
      BY <3>3, BlockClosed
    <3> QED BY <3>1, <3>4
  <2>3. Rules!Block(t, q) \subseteq B
    <3> HIDE DEF B
    <3> QED BY <2>1, <2>2, BlockLeast
  <2> QED BY <2>3
<1>6. Rules!Block(s, q) \subseteq Rules!Block(t, q)
  <2> DEFINE B == {x \in Rules!Block(t, q) : x \in Rules!Block(s, q)}
  <2>1. B \in SUBSET Positions /\ q \in B /\ \A x \in B : s[x] = s[q] /\ x # p /\ t[x] = t[q]
    BY <1>1, <1>2, <1>4, BlockBasics
  <2>2. ASSUME NEW x \in B, NEW r \in Adjacent(x), s[r] = s[x]
        PROVE  r \in B
    <3>1. r \in Rules!Block(s, q) /\ r \in Positions
      BY <2>1, <2>2, BlockClosed, AdjacentPoints
    <3>2. t[r] = t[x]
      BY <1>1, <1>4, <2>1, <2>2, <3>1
    <3> QED BY <2>2, <3>1, <3>2, BlockClosed
  <2>3. Rules!Block(s, q) \subseteq B
    <3> HIDE DEF B
    <3> QED BY <2>1, <2>2, BlockLeast
  <2> QED BY <2>3
<1> QED BY <1>5, <1>6 DEF t

\* Taking a whole group of stones off leaves the other blocks as they are.
LEMMA BlockNotRemoved ==
  ASSUME NEW s \in [Positions -> BoardColors], NEW D \in SUBSET Positions,
         \A x \in D : \A r \in Adjacent(x) : s[r] = s[x] => r \in D,
         NEW q \in Positions, q \notin D, s[q] # NONE
  PROVE  Rules!Block(Rules!Removed(s, D), q) = Rules!Block(s, q)
<1> DEFINE a == Rules!Removed(s, D)
<1>1. \A x \in Positions : a[x] = IF x \in D THEN NONE ELSE s[x]
  BY RemovedIs
<1> HIDE DEF a
<1>2. Rules!Block(a, q) \subseteq Rules!Block(s, q)
  <2> DEFINE B == {x \in Rules!Block(s, q) : x \notin D}
  <2>1. B \in SUBSET Positions /\ q \in B /\ \A x \in B : a[x] = a[q] /\ a[x] = s[x] /\ s[x] = s[q]
    BY <1>1, BlockBasics
  <2>2. ASSUME NEW x \in B, NEW r \in Adjacent(x), a[r] = a[x]
        PROVE  r \in B
    <3>1. r \in Positions
      BY <2>1, AdjacentPoints
    <3>2. r \notin D /\ s[r] = s[x]
      BY <1>1, <2>1, <2>2, <3>1
    <3>3. r \in Rules!Block(s, q)
      BY <3>2, BlockClosed
    <3> QED BY <3>2, <3>3
  <2>3. Rules!Block(a, q) \subseteq B
    <3> HIDE DEF B
    <3> QED BY <2>1, <2>2, BlockLeast
  <2> QED BY <2>3
<1>3. Rules!Block(s, q) \subseteq Rules!Block(a, q)
  <2> DEFINE B == Rules!Block(a, q)
  <2>1. /\ B \in SUBSET Positions /\ q \in B
        /\ \A x \in B : a[x] = a[q] /\ x \notin D /\ s[x] = s[q] /\ a[x] = s[x]
    BY <1>1, BlockBasics
  <2>2. ASSUME NEW x \in B, NEW r \in Adjacent(x), s[r] = s[x]
        PROVE  r \in B
    <3>1. r \in Positions /\ x \in Adjacent(r) /\ x \in Positions
      BY <2>1, AdjacentPoints
    <3>2. r \notin D
      BY <2>1, <2>2, <3>1
    <3>3. a[r] = a[x]
      BY <1>1, <2>1, <2>2, <3>1, <3>2
    <3> QED BY <3>3, BlockClosed
  <2>3. Rules!Block(s, q) \subseteq B
    <3> HIDE DEF B
    <3> QED BY <2>1, <2>2, BlockLeast
  <2> QED BY <2>3
<1> QED BY <1>2, <1>3 DEF a

-----------------------------------------------------------------------------
\* Counting.

\* One more point.
LEMMA OneMore ==
  ASSUME NEW S \in SUBSET Positions, NEW T \in SUBSET Positions, NEW p \in Positions,
         p \notin S, T = S \cup {p}
  PROVE  Cardinality(T) = Cardinality(S) + 1
BY PointsOfBoard, FS_AddElement

\* As many neighbours as reset() counts, and no more than four.
LEMMA NeighboursCounted ==
  ASSUME NEW p \in Positions
  PROVE  Cardinality(Adjacent(p)) = InitialEmptyNeighbours(p)
<1> DEFINE one(n) == IF n = OffBoard THEN 0 ELSE 1
           E == {East(p)} \ {OffBoard}
           W == {West(p), East(p)} \ {OffBoard}
           S == {South(p), West(p), East(p)} \ {OffBoard}
<1>1. /\ North(p) = OffBoard \/ North(p) \notin {South(p), West(p), East(p)}
      /\ South(p) = OffBoard \/ South(p) \notin {West(p), East(p)}
      /\ West(p) = OffBoard \/ West(p) # East(p)
      /\ InitialEmptyNeighbours(p) = one(North(p)) + one(South(p)) + one(West(p)) + one(East(p))
  BY DirectionsCount
<1>2. /\ E \in SUBSET Positions /\ W \in SUBSET Positions /\ S \in SUBSET Positions
      /\ Adjacent(p) \in SUBSET Positions
  BY AdjacentPoints DEF Adjacent
<1>3. Cardinality(E) = one(East(p))
  <2>1. CASE East(p) = OffBoard
    BY <2>1, FS_EmptySet
  <2>2. CASE East(p) # OffBoard
    <3>1. E = {East(p)}
      BY <2>2
    <3> QED BY <2>2, <3>1, FS_Singleton
  <2> QED BY <2>1, <2>2
<1>4. Cardinality(W) = one(West(p)) + Cardinality(E)
  <2>1. CASE West(p) = OffBoard
    <3>1. W = E
      BY <2>1
    <3> HIDE DEF W, E
    <3> QED BY <2>1, <3>1, <1>2, PointsOfBoard
  <2>2. CASE West(p) # OffBoard
    <3>1. West(p) \in W /\ West(p) \notin E /\ W = E \cup {West(p)}
      BY <1>1, <2>2
    <3>2. Cardinality(W) = Cardinality(E) + 1
      <4> HIDE DEF W, E
      <4> QED BY <1>2, <3>1, OneMore
    <3> HIDE DEF S, W, E
    <3> QED BY <2>2, <3>2, <1>2, PointsOfBoard
  <2> QED BY <2>1, <2>2
<1>5. Cardinality(S) = one(South(p)) + Cardinality(W)
  <2>1. CASE South(p) = OffBoard
    <3>1. S = W
      BY <2>1
    <3> HIDE DEF W, S
    <3> QED BY <2>1, <3>1, <1>2, PointsOfBoard
  <2>2. CASE South(p) # OffBoard
    <3>1. South(p) \in S /\ South(p) \notin W /\ S = W \cup {South(p)}
      BY <1>1, <2>2
    <3>2. Cardinality(S) = Cardinality(W) + 1
      <4> HIDE DEF W, S
      <4> QED BY <1>2, <3>1, OneMore
    <3> HIDE DEF S, W, E
    <3> QED BY <2>2, <3>2, <1>2, PointsOfBoard
  <2> QED BY <2>1, <2>2
<1>6. Cardinality(Adjacent(p)) = one(North(p)) + Cardinality(S)
  <2>1. CASE North(p) = OffBoard
    <3>1. Adjacent(p) = S
      BY <2>1 DEF Adjacent
    <3> HIDE DEF S
    <3> QED BY <2>1, <3>1, <1>2, PointsOfBoard
  <2>2. CASE North(p) # OffBoard
    <3>1. North(p) \in Adjacent(p) /\ North(p) \notin S /\ Adjacent(p) = S \cup {North(p)}
      BY <1>1, <2>2 DEF Adjacent
    <3>2. Cardinality(Adjacent(p)) = Cardinality(S) + 1
      <4> HIDE DEF S
      <4> QED BY <1>2, <3>1, OneMore
    <3> HIDE DEF S, W, E
    <3> QED BY <2>2, <3>2, <1>2, PointsOfBoard
  <2> QED BY <2>1, <2>2
<1> HIDE DEF S, W, E
<1> QED BY <1>1, <1>3, <1>4, <1>5, <1>6, <1>2, PointsOfBoard

\* A list of points without repetition.
Lists(seq, S) == seq \in Seq(Positions) /\ ToSet(seq) = S /\ IsInjective(seq)

\* A new point at the end makes a longer list.
LEMMA ListAppend ==
  ASSUME NEW seq, NEW S, Lists(seq, S), NEW p \in Positions, p \notin S
  PROVE  Lists(Append(seq, p), S \cup {p})
<1>1. seq \in Seq(Positions) /\ ToSet(seq) = S /\ IsInjective(seq)
  BY DEF Lists
<1>2. /\ Append(seq, p) \in Seq(Positions)
      /\ Len(Append(seq, p)) = Len(seq) + 1
      /\ DOMAIN Append(seq, p) = 1..(Len(seq) + 1) /\ DOMAIN seq = 1..Len(seq)
      /\ \A i \in 1..Len(seq) : Append(seq, p)[i] = seq[i]
      /\ Append(seq, p)[Len(seq) + 1] = p
      /\ Len(seq) \in Nat
  BY <1>1
<1>3. ToSet(Append(seq, p)) = S \cup {p}
  <2>1. ASSUME NEW x \in S \cup {p} PROVE x \in ToSet(Append(seq, p))
    BY <1>1, <1>2 DEF ToSet
  <2>2. ASSUME NEW i \in 1..(Len(seq) + 1) PROVE Append(seq, p)[i] \in S \cup {p}
    <3>1. CASE i = Len(seq) + 1
      BY <1>2, <3>1
    <3>2. CASE i # Len(seq) + 1
      <4>1. i \in 1..Len(seq)
        BY <1>2, <3>2
      <4> QED BY <1>1, <1>2, <4>1 DEF ToSet
    <3> QED BY <3>1, <3>2
  <2> QED BY <1>2, <2>1, <2>2 DEF ToSet
<1>4. IsInjective(Append(seq, p))
  <2>1. \A i \in 1..Len(seq) : seq[i] # p
    BY <1>1, <1>2 DEF ToSet
  <2>2. \A i, j \in 1..Len(seq) : seq[i] = seq[j] => i = j
    BY <1>1, <1>2 DEF IsInjective
  <2>3. ASSUME NEW i \in 1..(Len(seq) + 1), NEW j \in 1..(Len(seq) + 1),
               Append(seq, p)[i] = Append(seq, p)[j]
        PROVE  i = j
    <3>1. (i = Len(seq) + 1 \/ i \in 1..Len(seq)) /\ (j = Len(seq) + 1 \/ j \in 1..Len(seq))
      BY <1>2
    <3> QED BY <1>2, <2>1, <2>2, <2>3, <3>1
  <2> QED BY <1>2, <2>3 DEF IsInjective
<1> QED BY <1>2, <1>3, <1>4 DEF Lists

\* A list is as long as its set is large.
LEMMA ListLength ==
  ASSUME NEW seq, NEW S, Lists(seq, S)
  PROVE  /\ S \subseteq Positions
         /\ Len(seq) = Cardinality(S)
         /\ S # {} <=> Len(seq) > 0
<1>1. seq \in Seq(Positions) /\ ToSet(seq) = S /\ IsInjective(seq)
  BY DEF Lists
<1>2. DOMAIN seq = 1..Len(seq) /\ Len(seq) \in Nat /\ seq \in [1..Len(seq) -> Positions]
  BY <1>1
<1>3. S \subseteq Positions /\ S = {seq[i] : i \in 1..Len(seq)}
  BY <1>1, <1>2 DEF ToSet
<1>4. seq \in Bijection(1..Len(seq), S)
  BY <1>1, <1>2, <1>3 DEF Bijection, Injection, Surjection, IsInjective
<1>5. Cardinality(1..Len(seq)) = Len(seq) /\ IsFiniteSet(1..Len(seq))
  BY <1>2, FS_Interval
<1>6. Cardinality(S) = Cardinality(1..Len(seq))
  BY <1>4, <1>5, FS_Bijection DEF ExistsBijection
<1>7. S # {} <=> Len(seq) > 0
  BY <1>2, <1>3
<1> QED BY <1>3, <1>5, <1>6, <1>7

-----------------------------------------------------------------------------
\* Liberties and neighbours of positions that differ in one point.  Below, s is
\* the position without and t the position with the stone on p.

Differ(s, t, p) ==
  /\ s \in [Positions -> BoardColors] /\ t \in [Positions -> BoardColors]
  /\ p \in Positions /\ s[p] = NONE /\ t[p] # NONE
  /\ \A q \in Positions : q # p => s[q] = t[q]

\* A stone takes one liberty of each group it adjoins.
LEMMA LibertyTaken ==
  ASSUME NEW s, NEW t, NEW p, Differ(s, t, p), NEW G \in SUBSET Positions
  PROVE  Cardinality(Rules!Liberties(s, G)) =
           Cardinality(Rules!Liberties(t, G)) + (IF Adjacent(p) \cap G # {} THEN 1 ELSE 0)
<1> DEFINE S == Rules!Liberties(s, G)
           T == Rules!Liberties(t, G)
<1>1. S \in SUBSET Positions /\ T \in SUBSET Positions
  BY LibertiesAre
<1>2. CASE Adjacent(p) \cap G # {}
  <2>1. p \notin T /\ S = T \cup {p}
    BY <1>2, LibertiesAre DEF Differ
  <2>2. p \in Positions
    BY DEF Differ
  <2> HIDE DEF S, T
  <2>3. Cardinality(S) = Cardinality(T) + 1
    BY <1>1, <2>1, <2>2, OneMore
  <2> QED BY <1>2, <2>3 DEF S, T
<1>3. CASE Adjacent(p) \cap G = {}
  <2>1. S = T
    BY <1>3, LibertiesAre DEF Differ
  <2> HIDE DEF S, T
  <2>2. Cardinality(S) = Cardinality(T) + 0
    BY <1>1, <2>1, PointsOfBoard
  <2> QED BY <1>3, <2>2 DEF S, T
<1> QED BY <1>2, <1>3

\* The points around x that have the content c.
Around(s, x, c) == {n \in Adjacent(x) : s[n] = c}

\* Its neighbours have an empty point less around them, and a stone of its
\* colour more.
LEMMA NeighbourTaken ==
  ASSUME NEW s, NEW t, NEW p, Differ(s, t, p), NEW x \in Positions
  PROVE  /\ Cardinality(Around(s, x, NONE)) =
              Cardinality(Around(t, x, NONE)) + (IF x \in Adjacent(p) THEN 1 ELSE 0)
         /\ \A c \in BoardColors \ {NONE} :
              Cardinality(Around(t, x, c)) =
                Cardinality(Around(s, x, c)) + (IF x \in Adjacent(p) /\ t[p] = c THEN 1 ELSE 0)
         /\ \A u, c : Cardinality(Around(u, x, c)) \in Nat
<1> DEFINE N(u, c) == Around(u, x, c)
<1>1. /\ \A u, c : N(u, c) \in SUBSET Positions
      /\ x \in Adjacent(p) <=> p \in Adjacent(x)
      /\ Adjacent(x) \subseteq Positions /\ p \in Positions
  BY AdjacentPoints DEF Differ, Around
<1>2. Cardinality(N(s, NONE)) = Cardinality(N(t, NONE)) + (IF x \in Adjacent(p) THEN 1 ELSE 0)
  <2>1. CASE x \in Adjacent(p)
    <3>1. p \notin N(t, NONE) /\ N(s, NONE) = N(t, NONE) \cup {p}
      BY <1>1, <2>1 DEF Differ, Around
    <3> HIDE DEF N
    <3> QED BY <1>1, <2>1, <3>1, OneMore
  <2>2. CASE x \notin Adjacent(p)
    <3>1. N(s, NONE) = N(t, NONE)
      BY <1>1, <2>2 DEF Differ, Around
    <3> HIDE DEF N
    <3> QED BY <1>1, <2>2, <3>1, PointsOfBoard
  <2> QED BY <2>1, <2>2
<1>3. ASSUME NEW c \in BoardColors \ {NONE}
      PROVE  Cardinality(N(t, c)) =
               Cardinality(N(s, c)) + (IF x \in Adjacent(p) /\ t[p] = c THEN 1 ELSE 0)
  <2>1. CASE x \in Adjacent(p) /\ t[p] = c
    <3>1. p \notin N(s, c) /\ N(t, c) = N(s, c) \cup {p}
      BY <1>1, <2>1 DEF Differ, Around
    <3> HIDE DEF N
    <3> QED BY <1>1, <2>1, <3>1, OneMore
  <2>2. CASE ~ (x \in Adjacent(p) /\ t[p] = c)
    <3>1. N(s, c) = N(t, c)
      BY <1>1, <2>2 DEF Differ, Around
    <3> HIDE DEF N
    <3> QED BY <1>1, <2>2, <3>1, PointsOfBoard
  <2> QED BY <2>1, <2>2
<1>4. \A u, c : Cardinality(N(u, c)) \in Nat
  BY <1>1, PointsOfBoard
<1> QED BY <1>2, <1>3, <1>4

\* The liberties next to x that the stones of G do not have.
NewLiberties(s, G, x) ==
  Cardinality({n \in Adjacent(x) : s[n] = NONE /\ Adjacent(n) \cap G = {}})

\* A stone brings a group the liberties next to it that the group did not have.
LEMMA LibertiesGrow ==
  ASSUME NEW s, NEW G \in SUBSET Positions, NEW x \in Positions
  PROVE  Cardinality(Rules!Liberties(s, G \cup {x})) =
           Cardinality(Rules!Liberties(s, G))
           + NewLiberties(s, G, x)
<1> DEFINE L == Rules!Liberties(s, G)
           N == {n \in Adjacent(x) : s[n] = NONE /\ Adjacent(n) \cap G = {}}
<1>1. L \in SUBSET Positions /\ N \in SUBSET Positions /\ L \cap N = {}
  BY LibertiesAre, AdjacentPoints
<1>2. Rules!Liberties(s, G \cup {x}) = L \cup N
  <2>1. \A q \in Positions : x \in Adjacent(q) <=> q \in Adjacent(x)
    BY AdjacentPoints
  <2> QED BY <2>1, LibertiesAre, AdjacentPoints
<1> HIDE DEF L, N
<1>3. Cardinality(L \cup N) = Cardinality(L) + Cardinality(N)
  <2>1. Cardinality(L \cup N) = Cardinality(L) + Cardinality(N) - Cardinality(L \cap N)
    BY <1>1, PointsOfBoard, FS_Union
  <2>2. Cardinality(L \cap N) = 0
    BY <1>1, FS_EmptySet
  <2> QED BY <1>1, <2>1, <2>2, PointsOfBoard
<1> QED BY <1>2, <1>3 DEF L, N, NewLiberties

-----------------------------------------------------------------------------
\* What the engine reads from a board.

\* The stones that point to a block object.
Group(b, k) == {p \in Positions : b.blockPointers[p] = k}

\* The types of what blocks and stones are read from.
Typed(b) ==
  /\ b.stones \in [Positions -> BoardColors]
  /\ b.blockPointers \in [Positions -> Blocks \cup {NoBlock}]
  /\ DOMAIN b.blocks = Blocks

\* Stones point to a block and empty points to none.
Linked(b) == \A p \in Positions : b.blockPointers[p] = NoBlock <=> b.stones[p] = NONE

\* The four directions give the points around a point, and OffBoard at the edge.
LEMMA CompassIs ==
  ASSUME NEW p \in Positions
  PROVE  /\ Compass(p) \in Seq(Positions \cup {OffBoard}) /\ Len(Compass(p)) = 4
         /\ Compass(p) = <<North(p), South(p), West(p), East(p)>>
         /\ \A i \in 1..4 : Compass(p)[i] # OffBoard => Compass(p)[i] \in Adjacent(p)
         /\ \A n \in Adjacent(p) : \E i \in 1..4 : Compass(p)[i] = n
         /\ \A i \in 1..4 : Compass(p)[i] \in Positions \cup {OffBoard}
<1>1. /\ North(p) \in Positions \cup {OffBoard} /\ South(p) \in Positions \cup {OffBoard}
      /\ West(p) \in Positions \cup {OffBoard} /\ East(p) \in Positions \cup {OffBoard}
  BY Directions
<1>2. Compass(p) = <<North(p), South(p), West(p), East(p)>>
  BY DEF Compass
<1>3. Compass(p) \in Seq(Positions \cup {OffBoard}) /\ Len(Compass(p)) = 4
  BY <1>1, <1>2
<1>4. \A i \in 1..4 : Compass(p)[i] \in {North(p), South(p), West(p), East(p)}
  BY <1>2
<1>5. \A i \in 1..4 : Compass(p)[i] # OffBoard => Compass(p)[i] \in Adjacent(p)
  BY <1>4 DEF Adjacent
<1>6. \A n \in Adjacent(p) : \E i \in 1..4 : Compass(p)[i] = n
  <2>1. Compass(p)[1] = North(p) /\ Compass(p)[2] = South(p)
        /\ Compass(p)[3] = West(p) /\ Compass(p)[4] = East(p)
    BY <1>2
  <2> QED BY <2>1 DEF Adjacent
<1> QED BY <1>1, <1>2, <1>3, <1>4, <1>5, <1>6

\* The first of four that has a value.
LEMMA FirstOfFour ==
  ASSUME NEW f, NEW i \in 1..4
  PROVE  \E j \in 1..4 : f[j] = f[i] /\ \A k \in 1..(j - 1) : f[k] # f[i]
<1>1. CASE f[1] = f[i]
  BY <1>1
<1>2. CASE f[1] # f[i] /\ f[2] = f[i]
  <2>1. \A k \in 1..(2 - 1) : k = 1
    OBVIOUS
  <2> QED BY <1>2, <2>1
<1>3. CASE f[1] # f[i] /\ f[2] # f[i] /\ f[3] = f[i]
  <2>1. \A k \in 1..(3 - 1) : k = 1 \/ k = 2
    OBVIOUS
  <2> QED BY <1>3, <2>1
<1>4. CASE f[1] # f[i] /\ f[2] # f[i] /\ f[3] # f[i]
  <2>1. \A k \in 1..(4 - 1) : k = 1 \/ k = 2 \/ k = 3
    OBVIOUS
  <2>2. f[4] = f[i]
    BY <1>4
  <2> QED BY <1>4, <2>1, <2>2
<1> QED BY <1>1, <1>2, <1>3, <1>4

\* The blocks that lose a liberty are those with a stone next to the point.
LEMMA LoseLibertyIs ==
  ASSUME NEW b, NEW pos \in Positions, Typed(b), b.blockPointers[pos] = NoBlock,
         \A q \in Positions \ {pos} : b.blockPointers[q] = NoBlock <=> b.stones[q] = NONE
  PROVE  \A k \in Blocks : k \in LoseLiberty(b, pos) <=> Adjacent(pos) \cap Group(b, k) # {}
<1> DEFINE nb == Compass(pos)
           f == [i \in 1..4 |-> PointerAt(b, nb[i])]
<1>1. /\ \A i \in 1..4 : nb[i] # OffBoard => nb[i] \in Adjacent(pos) /\ nb[i] \in Positions
      /\ \A n \in Adjacent(pos) : \E i \in 1..4 : nb[i] = n
      /\ Adjacent(pos) \subseteq Positions /\ pos \notin Adjacent(pos)
      /\ OffBoard \notin Positions /\ NoBlock \notin Blocks
  BY CompassIs, AdjacentPoints, PointsOfBoard
<1>2. /\ \A i \in 1..4 : nb[i] # OffBoard => f[i] = b.blockPointers[nb[i]]
      /\ \A i \in 1..4 : nb[i] = OffBoard => f[i] = NoBlock
  BY DEF PointerAt
<1>3. \A n \in Adjacent(pos) :
        IsLibertyOfBlock(b, pos, n) <=> b.blockPointers[n] # NoBlock
  BY <1>1 DEF IsLibertyOfBlock, Occupied, IsRealPoint
<1>4. ASSUME NEW k \in LoseLiberty(b, pos)
      PROVE  Adjacent(pos) \cap Group(b, k) # {}
  <2>1. PICK i \in 1..4 : nb[i] # OffBoard /\ k = b.blockPointers[nb[i]]
    BY <1>4 DEF LoseLiberty
  <2> QED BY <1>1, <2>1 DEF Group
<1>5. ASSUME NEW k \in Blocks, NEW n \in Adjacent(pos), n \in Group(b, k)
      PROVE  k \in LoseLiberty(b, pos)
  <2>1. PICK i \in 1..4 : nb[i] = n
    BY <1>1
  <2>2. n # OffBoard /\ b.blockPointers[n] = k /\ k # NoBlock
    BY <1>1, <1>5 DEF Group
  <2>3. f[i] = k
    BY <1>2, <2>1, <2>2
  <2>4. PICK j \in 1..4 : f[j] = k /\ \A m \in 1..(j - 1) : f[m] # k
    <3> HIDE DEF f
    <3> QED BY <2>3, FirstOfFour
  <2>5. nb[j] # OffBoard /\ b.blockPointers[nb[j]] = k
    BY <1>2, <2>2, <2>4
  <2>6. IsLibertyOfBlock(b, pos, nb[j])
    BY <1>1, <1>3, <2>2, <2>5
  <2>7. \A m \in 1..(j - 1) : PointerAt(b, nb[j]) # PointerAt(b, nb[m])
    <3>1. \A m \in 1..(j - 1) : m \in 1..4
      OBVIOUS
    <3> QED BY <2>4, <3>1
  <2> HIDE DEF nb
  <2>8. b.blockPointers[nb[j]] \in
          {b.blockPointers[nb[x]] :
             x \in {y \in 1..4 : /\ nb[y] # OffBoard
                                 /\ \A m \in 1..(y - 1) : PointerAt(b, nb[y]) # PointerAt(b, nb[m])
                                 /\ IsLibertyOfBlock(b, pos, nb[y])}}
    BY <2>5, <2>6, <2>7
  <2> QED BY <2>5, <2>8 DEF LoseLiberty, nb
<1> QED BY <1>4, <1>5

\* The blocks that regain one are those, but for the block of the stone that goes.
LEMMA RegainLibertyIs ==
  ASSUME NEW b, NEW pos \in Positions, Typed(b), Linked(b)
  PROVE  \A k \in Blocks :
           k \in RegainLiberty(b, pos) <=>
             k # b.blockPointers[pos] /\ Adjacent(pos) \cap Group(b, k) # {}
<1> DEFINE nb == Compass(pos)
           f == [i \in 1..4 |-> PointerAt(b, nb[i])]
<1>1. /\ \A i \in 1..4 : nb[i] # OffBoard => nb[i] \in Adjacent(pos) /\ nb[i] \in Positions
      /\ \A n \in Adjacent(pos) : \E i \in 1..4 : nb[i] = n
      /\ Adjacent(pos) \subseteq Positions /\ pos \notin Adjacent(pos)
      /\ OffBoard \notin Positions /\ NoBlock \notin Blocks
  BY CompassIs, AdjacentPoints, PointsOfBoard
<1>2. /\ \A i \in 1..4 : nb[i] # OffBoard => f[i] = b.blockPointers[nb[i]]
      /\ \A i \in 1..4 : nb[i] = OffBoard => f[i] = NoBlock
  BY DEF PointerAt
<1>3. ASSUME NEW k \in Blocks, k \in RegainLiberty(b, pos)
      PROVE  k # b.blockPointers[pos] /\ Adjacent(pos) \cap Group(b, k) # {}
  <2>1. PICK i \in 1..4 : /\ IsRealPoint(nb[i]) /\ ~ IsInSameBlock(b, pos, nb[i])
                          /\ k = b.blockPointers[nb[i]] /\ b.stones[nb[i]] # NONE
    BY <1>3 DEF RegainLiberty
  <2>2. nb[i] \in Positions /\ nb[i] # OffBoard /\ nb[i] \in Adjacent(pos)
    BY <1>1, <2>1 DEF IsRealPoint
  <2>3. pos # OffBoard
    BY <1>1
  <2> QED BY <1>1, <2>1, <2>2, <2>3 DEF Group, IsInSameBlock
<1>4. ASSUME NEW k \in Blocks, k # b.blockPointers[pos], NEW n \in Adjacent(pos), n \in Group(b, k)
      PROVE  k \in RegainLiberty(b, pos)
  <2>1. PICK i \in 1..4 : nb[i] = n
    BY <1>1
  <2>2. n # OffBoard /\ b.blockPointers[n] = k /\ k # NoBlock
    BY <1>1, <1>4 DEF Group
  <2>3. f[i] = k
    BY <1>2, <2>1, <2>2
  <2>4. PICK j \in 1..4 : f[j] = k /\ \A m \in 1..(j - 1) : f[m] # k
    <3> HIDE DEF f
    <3> QED BY <2>3, FirstOfFour
  <2>5. nb[j] # OffBoard /\ b.blockPointers[nb[j]] = k
    BY <1>2, <2>2, <2>4
  <2>6. IsRealPoint(nb[j]) /\ b.stones[nb[j]] # NONE /\ ~ IsInSameBlock(b, pos, nb[j])
    BY <1>1, <1>4, <2>2, <2>5 DEF IsRealPoint, Linked, IsInSameBlock
  <2>7. \A m \in 1..(j - 1) : ~ IsInSameBlock(b, nb[j], nb[m])
    <3>1. \A m \in 1..(j - 1) : m \in 1..4
      OBVIOUS
    <3> QED BY <1>2, <2>4, <2>5, <3>1 DEF IsInSameBlock
  <2> HIDE DEF nb
  <2>8. b.blockPointers[nb[j]] \in
          {b.blockPointers[nb[x]] :
             x \in {y \in 1..4 : /\ IsRealPoint(nb[y])
                                 /\ b.stones[nb[y]] # NONE
                                 /\ ~ IsInSameBlock(b, pos, nb[y])
                                 /\ \A m \in 1..(y - 1) : ~ IsInSameBlock(b, nb[y], nb[m])}}
    BY <2>5, <2>6, <2>7
  <2> QED BY <2>5, <2>8 DEF RegainLiberty, nb
<1> QED BY <1>3, <1>4

\* The liberties a stone brings to a block.
LEMMA FindUniqueLibertiesIs ==
  ASSUME NEW b, NEW stone \in Positions, NEW k \in Blocks, Typed(b),
         \A q \in Positions : b.stones[q] = NONE => b.blockPointers[q] = NoBlock,
         b.blocks[k].anchor \in Group(b, k), b.stones[b.blocks[k].anchor] # NONE
  PROVE  FindUniqueLiberties(b, stone, k) =
           NewLiberties(b.stones, Group(b, k), stone)
<1> DEFINE anchor == b.blocks[k].anchor
<1>1. anchor \in Positions /\ b.blockPointers[anchor] = k /\ k # NoBlock /\ Occupied(b, anchor)
  BY PointsOfBoard DEF Group, Occupied, IsRealPoint
<1>2. ASSUME NEW n \in Adjacent(stone), b.stones[n] = NONE
      PROVE  ~ IsLibertyOfBlock(b, n, anchor) <=> Adjacent(n) \cap Group(b, k) = {}
  <2>1. n \in Positions /\ Adjacent(n) \subseteq Positions /\ b.blockPointers[n] = NoBlock
    BY <1>2, AdjacentPoints
  <2> QED BY <1>1, <2>1 DEF IsLibertyOfBlock, Group
<1>3. {n \in Adjacent(stone) : b.stones[n] = NONE /\ ~ IsLibertyOfBlock(b, n, anchor)}
      = {n \in Adjacent(stone) : b.stones[n] = NONE /\ Adjacent(n) \cap Group(b, k) = {}}
  BY <1>2
<1> QED BY <1>3 DEF FindUniqueLiberties, NewLiberties

-----------------------------------------------------------------------------
\* What the steps of the engine change.

\* All but the block objects and the pointers to them.
SamePosition(b, c) ==
  /\ c.stones = b.stones /\ c.koPoint = b.koPoint /\ c.toPlay = b.toPlay
  /\ c.bw_prisoners = b.bw_prisoners /\ c.moves = b.moves
  /\ c.numNeighbours = b.numNeighbours /\ c.numNeighboursEmpty = b.numNeighboursEmpty

\* The same object, field by field.
SameBlock(b, c, k) ==
  /\ c.blocks[k].anchor = b.blocks[k].anchor
  /\ c.blocks[k].liberties = b.blocks[k].liberties
  /\ c.blocks[k].stones = b.blocks[k].stones

\* ImportStone moves one stone to another block object, which counts the liberties
\* that only the stone has.
LEMMA ImportStoneIs ==
  ASSUME NEW b, Typed(b), NEW into \in Blocks, NEW stone \in Positions
  PROVE  LET c == ImportStone(b, into, stone)
             new == FindUniqueLiberties(b, stone, b.blockPointers[b.blocks[into].anchor])
         IN  /\ SamePosition(b, c) /\ c.blockPointer = b.blockPointer
             /\ Typed(c)
             /\ \A q \in Positions :
                  c.blockPointers[q] = IF q = stone THEN into ELSE b.blockPointers[q]
             /\ \A k \in Blocks \ {into} : SameBlock(b, c, k)
             /\ c.blocks[into].anchor = b.blocks[into].anchor
             /\ c.blocks[into].liberties = b.blocks[into].liberties + new
             /\ c.blocks[into].stones = Append(b.blocks[into].stones, stone)
<1> DEFINE new == FindUniqueLiberties(b, stone, b.blockPointers[b.blocks[into].anchor])
<1> HIDE DEF new
<1> DEFINE c == [b EXCEPT !.blocks[into].liberties = @ + new,
                          !.blocks[into].stones = Append(@, stone),
                          !.blockPointers[stone] = into]
<1>1. SamePosition(b, c) /\ c.blockPointer = b.blockPointer
  BY DEF SamePosition
<1>2. Typed(c)
  BY DEF Typed
<1>3. \A q \in Positions :
         c.blockPointers[q] = IF q = stone THEN into ELSE b.blockPointers[q]
  BY DEF Typed
<1>4. \A k \in Blocks \ {into} : SameBlock(b, c, k)
  BY DEF Typed, SameBlock
<1>5. /\ c.blocks[into].anchor = b.blocks[into].anchor
      /\ c.blocks[into].liberties = b.blocks[into].liberties + new
      /\ c.blocks[into].stones = Append(b.blocks[into].stones, stone)
  BY DEF Typed
<1>6. ImportStone(b, into, stone) = c
  BY DEF ImportStone, new
<1> HIDE DEF c
<1> QED BY <1>1, <1>2, <1>3, <1>4, <1>5, <1>6 DEF new

\* AddLiberties changes the counters of the blocks it is given and nothing else.
LEMMA AddLibertiesIs ==
  ASSUME NEW b, Typed(b), NEW ks, NEW d \in Int
  PROVE  LET c == AddLiberties(b, ks, d)
         IN  /\ SamePosition(b, c) /\ c.blockPointer = b.blockPointer
             /\ c.blockPointers = b.blockPointers
             /\ DOMAIN c.blocks = Blocks
             /\ \A k \in Blocks :
                  /\ c.blocks[k].anchor = b.blocks[k].anchor
                  /\ c.blocks[k].stones = b.blocks[k].stones
                  /\ k \in ks => c.blocks[k].liberties = b.blocks[k].liberties + d
                  /\ k \notin ks => c.blocks[k].liberties = b.blocks[k].liberties
<1> DEFINE c == [b EXCEPT !.blocks =
                   [k \in Blocks |-> [b.blocks[k] EXCEPT !.liberties = IF k \in ks THEN @ + d ELSE @]]]
<1>1. SamePosition(b, c) /\ c.blockPointer = b.blockPointer /\ c.blockPointers = b.blockPointers
  BY DEF SamePosition
<1>2. DOMAIN c.blocks = Blocks
  OBVIOUS
<1>3. ASSUME NEW k \in Blocks
      PROVE  /\ c.blocks[k].anchor = b.blocks[k].anchor
             /\ c.blocks[k].stones = b.blocks[k].stones
             /\ k \in ks => c.blocks[k].liberties = b.blocks[k].liberties + d
             /\ k \notin ks => c.blocks[k].liberties = b.blocks[k].liberties
  <2> DEFINE r == [b.blocks[k] EXCEPT !.liberties = IF k \in ks THEN @ + d ELSE @]
  <2>1. c.blocks[k] = r
    OBVIOUS
  <2>2. /\ r.anchor = b.blocks[k].anchor /\ r.stones = b.blocks[k].stones
        /\ r.liberties = IF k \in ks THEN b.blocks[k].liberties + d ELSE b.blocks[k].liberties
    OBVIOUS
  <2> HIDE DEF r, c
  <2> QED BY <2>1, <2>2
<1>4. AddLiberties(b, ks, d) = c
  BY DEF AddLiberties
<1> HIDE DEF c
<1> QED BY <1>1, <1>2, <1>3, <1>4

\* NewBlock hands out the next block object for a stone.
LEMMA NewBlockIs ==
  ASSUME NEW b, Typed(b), NEW pos \in Positions, b.blockPointer \in Blocks
  PROVE  LET c == NewBlock(b, pos)
             k0 == b.blockPointer
         IN  /\ SamePosition(b, c) /\ c.blockPointer = k0 + 1
             /\ Typed(c)
             /\ \A q \in Positions : c.blockPointers[q] = IF q = pos THEN k0 ELSE b.blockPointers[q]
             /\ \A k \in Blocks \ {k0} : SameBlock(b, c, k)
             /\ c.blocks[k0].anchor = pos
             /\ c.blocks[k0].liberties = b.numNeighboursEmpty[pos]
             /\ c.blocks[k0].stones = <<>>
<1> DEFINE k0 == b.blockPointer
           c == [b EXCEPT !.blocks[k0] = [anchor |-> pos, liberties |-> b.numNeighboursEmpty[pos],
                                          stones |-> <<>>],
                          !.blockPointer = @ + 1,
                          !.blockPointers[pos] = k0]
<1>1. SamePosition(b, c) /\ c.blockPointer = k0 + 1
  BY DEF SamePosition
<1>2. Typed(c)
  BY DEF Typed
<1>3. \A q \in Positions : c.blockPointers[q] = IF q = pos THEN k0 ELSE b.blockPointers[q]
  BY DEF Typed
<1>4. \A k \in Blocks \ {k0} : SameBlock(b, c, k)
  BY DEF Typed, SameBlock
<1>5. /\ c.blocks[k0].anchor = pos
      /\ c.blocks[k0].liberties = b.numNeighboursEmpty[pos]
      /\ c.blocks[k0].stones = <<>>
  BY DEF Typed
<1>6. NewBlock(b, pos) = c
  BY DEF NewBlock
<1> HIDE DEF c
<1> QED BY <1>1, <1>2, <1>3, <1>4, <1>5, <1>6

\* The stone on pos has gone: c is b without it.
StoneRemoved(b, c, pos, color) ==
  /\ c.koPoint = b.koPoint /\ c.toPlay = b.toPlay /\ c.moves = b.moves
  /\ c.blockPointer = b.blockPointer
  /\ Typed(c)
  /\ \A q \in Positions :
       /\ c.stones[q] = IF q = pos THEN NONE ELSE b.stones[q]
       /\ c.blockPointers[q] = IF q = pos THEN NoBlock ELSE b.blockPointers[q]
       /\ c.numNeighboursEmpty[q] =
            IF q \in Adjacent(pos) THEN b.numNeighboursEmpty[q] + 1
            ELSE b.numNeighboursEmpty[q]
       /\ c.numNeighbours[color][q] =
            IF q \in Adjacent(pos) THEN b.numNeighbours[color][q] - 1
            ELSE b.numNeighbours[color][q]
       /\ c.numNeighbours[Opponent(color)][q] = b.numNeighbours[Opponent(color)][q]
  /\ c.numNeighbours \in [StoneColors -> [Positions -> Int]]
  /\ c.numNeighboursEmpty \in [Positions -> Int]
  /\ c.bw_prisoners = [b.bw_prisoners EXCEPT ![Opponent(color)] = @ + 1]
  /\ c.blocks = AddLiberties(b, RegainLiberty(b, pos), 1).blocks

\* RemoveStone does what StoneRemoved says.
LEMMA RemoveStoneIs ==
  ASSUME NEW b, Typed(b), NEW pos \in Positions, NEW color \in StoneColors,
         b.stones[pos] = BoardColor(color),
         b.numNeighbours \in [StoneColors -> [Positions -> Int]],
         b.numNeighboursEmpty \in [Positions -> Int],
         b.bw_prisoners \in [StoneColors -> Nat]
  PROVE  StoneRemoved(b, RemoveStone(b, pos), pos, color)
<1> DEFINE l == AddLiberties(b, RegainLiberty(b, pos), 1)
<1>1. /\ SamePosition(b, l) /\ l.blockPointer = b.blockPointer
      /\ l.blockPointers = b.blockPointers /\ DOMAIN l.blocks = Blocks
  BY AddLibertiesIs
<1> HIDE DEF l
<1> DEFINE c == [l EXCEPT
         !.numNeighboursEmpty = [p \in Positions |-> IF p \in Adjacent(pos) THEN @[p] + 1 ELSE @[p]],
         !.numNeighbours[color] = [p \in Positions |-> IF p \in Adjacent(pos) THEN @[p] - 1 ELSE @[p]],
         !.bw_prisoners[Opponent(color)] = @ + 1,
         !.blockPointers[pos] = NoBlock,
         !.stones[pos] = NONE]
<1>2. (IF b.stones[pos] = B_BLACK THEN S_BLACK ELSE S_WHITE) = color
  BY DEF BoardColor, StoneColors, S_BLACK, S_WHITE, B_BLACK, B_WHITE
<1>3. RemoveStone(b, pos) = c
  BY <1>2 DEF RemoveStone, l
<1>4. /\ c.koPoint = b.koPoint /\ c.toPlay = b.toPlay /\ c.moves = b.moves
      /\ c.blockPointer = b.blockPointer
      /\ c.blocks = l.blocks
  BY <1>1 DEF SamePosition
<1>5. /\ Typed(c)
      /\ \A q \in Positions :
           /\ c.stones[q] = IF q = pos THEN NONE ELSE b.stones[q]
           /\ c.blockPointers[q] = IF q = pos THEN NoBlock ELSE b.blockPointers[q]
  BY <1>1 DEF SamePosition, Typed, BoardColors
<1>6. /\ \A q \in Positions :
           c.numNeighboursEmpty[q] = IF q \in Adjacent(pos) THEN b.numNeighboursEmpty[q] + 1
                                     ELSE b.numNeighboursEmpty[q]
      /\ c.numNeighboursEmpty \in [Positions -> Int]
  BY <1>1 DEF SamePosition
<1>7. /\ c.bw_prisoners = [b.bw_prisoners EXCEPT ![Opponent(color)] = @ + 1]
  BY <1>1 DEF SamePosition
<1>8. c.numNeighbours = [b.numNeighbours EXCEPT ![color] =
         [p \in Positions |-> IF p \in Adjacent(pos) THEN @[p] - 1 ELSE @[p]]]
  BY <1>1 DEF SamePosition
<1>9. /\ \A q \in Positions :
           /\ c.numNeighbours[color][q] = IF q \in Adjacent(pos) THEN b.numNeighbours[color][q] - 1
                                          ELSE b.numNeighbours[color][q]
           /\ c.numNeighbours[Opponent(color)][q] = b.numNeighbours[Opponent(color)][q]
      /\ c.numNeighbours \in [StoneColors -> [Positions -> Int]]
  <2> DEFINE g == c.numNeighbours
  <2>1. g = [b.numNeighbours EXCEPT ![color] =
         [p \in Positions |-> IF p \in Adjacent(pos) THEN @[p] - 1 ELSE @[p]]]
    BY <1>8
  <2>2. Opponent(color) \in StoneColors /\ Opponent(color) # color
    BY TwoColors
  <2> HIDE DEF g
  <2>3. g \in [StoneColors -> [Positions -> Int]]
    BY <2>1
  <2>4. g[color] = [p \in Positions |-> IF p \in Adjacent(pos) THEN b.numNeighbours[color][p] - 1
                                                             ELSE b.numNeighbours[color][p]]
    BY <2>1
  <2>5. g[Opponent(color)] = b.numNeighbours[Opponent(color)]
    BY <2>1, <2>2
  <2> QED BY <2>3, <2>4, <2>5 DEF g
<1> HIDE DEF c
<1> QED BY <1>3, <1>4, <1>5, <1>6, <1>7, <1>9 DEF l, StoneRemoved

-----------------------------------------------------------------------------
\* Block objects and what they stand for.

\* The object k of b lists the stones S and counts the liberties of the group G.
Describes(b, k, S, G) ==
  /\ Lists(b.blocks[k].stones, S)
  /\ b.blocks[k].anchor \in S
  /\ b.blocks[k].liberties = Cardinality(Rules!Liberties(b.stones, G))

\* A block object as the constructor leaves it.
Unused(b, k) ==
  b.blocks[k].anchor = -1 /\ b.blocks[k].liberties = 0 /\ b.blocks[k].stones = <<>>

\* A block object is unused or describes the stones that point to it.
BlockExact(b, k) ==
  IF Group(b, k) = {} THEN Unused(b, k) ELSE Describes(b, k, Group(b, k), Group(b, k))

-----------------------------------------------------------------------------
\* Importing a block.

\* The elements of a sequence up to the i-th.
FirstOf(seq, i) == {seq[j] : j \in 1..i}

\* The elements of a list come one by one, none twice.
LEMMA FirstOfIs ==
  ASSUME NEW seq, NEW S, Lists(seq, S)
  PROVE  /\ FirstOf(seq, 0) = {}
         /\ FirstOf(seq, Len(seq)) = S
         /\ Len(seq) \in Nat
         /\ \A i \in 1..Len(seq) :
              /\ FirstOf(seq, i) = FirstOf(seq, i - 1) \cup {seq[i]}
              /\ seq[i] \notin FirstOf(seq, i - 1)
              /\ FirstOf(seq, i) \subseteq S /\ FirstOf(seq, i - 1) \subseteq S
              /\ seq[i] \in S /\ seq[i] \in Positions
<1>1. seq \in Seq(Positions) /\ ToSet(seq) = S /\ IsInjective(seq)
  BY DEF Lists
<1>2. DOMAIN seq = 1..Len(seq) /\ Len(seq) \in Nat
  BY <1>1
<1>3. S = {seq[j] : j \in 1..Len(seq)}
  BY <1>1, <1>2 DEF ToSet
<1>4. ASSUME NEW i \in 1..Len(seq)
      PROVE  /\ FirstOf(seq, i) = FirstOf(seq, i - 1) \cup {seq[i]}
             /\ seq[i] \notin FirstOf(seq, i - 1)
             /\ FirstOf(seq, i) \subseteq S /\ FirstOf(seq, i - 1) \subseteq S
             /\ seq[i] \in S /\ seq[i] \in Positions
  <2>1. \A j \in 1..i : j \in 1..(i - 1) \/ j = i
    BY <1>2
  <2>2. i \in 1..i /\ \A j \in 1..(i - 1) : j \in 1..i /\ j # i
    BY <1>2
  <2>3. \A j \in 1..i : j \in 1..Len(seq)
    BY <1>2
  <2>4. FirstOf(seq, i) = FirstOf(seq, i - 1) \cup {seq[i]}
    BY <2>1, <2>2 DEF FirstOf
  <2>5. seq[i] \notin FirstOf(seq, i - 1)
    BY <1>1, <1>2, <2>2, <2>3 DEF FirstOf, IsInjective
  <2>6. FirstOf(seq, i) \subseteq S
    BY <1>3, <2>3 DEF FirstOf
  <2>7. seq[i] \in S /\ seq[i] \in Positions
    BY <1>1, <1>2, <1>3
  <2> QED BY <2>4, <2>5, <2>6, <2>7
<1>5. FirstOf(seq, 0) = {}
  BY DEF FirstOf
<1>6. FirstOf(seq, Len(seq)) = S
  BY <1>3 DEF FirstOf
<1> QED BY <1>2, <1>4, <1>5, <1>6

\* The loop of ImportBlock, as a fold over the stones of the imported block.
ImportOp(b, into, stone) == ImportStone(b, into, stone)

\* After the first i stones of the block: they point to the importing block, it
\* lists them behind its own, and it has counted their liberties.
Imported(into, base, seq, i, b) ==
  LET F == FirstOf(seq, i)
  IN  /\ SamePosition(base, b) /\ b.blockPointer = base.blockPointer
      /\ Typed(b)
      /\ \A q \in Positions : b.blockPointers[q] = IF q \in F THEN into ELSE base.blockPointers[q]
      /\ \A k \in Blocks \ {into} : SameBlock(base, b, k)
      /\ b.blocks[into].anchor = base.blocks[into].anchor
      /\ Lists(b.blocks[into].stones, ToSet(base.blocks[into].stones) \cup F)
      /\ b.blocks[into].liberties =
           Cardinality(Rules!Liberties(base.stones, Group(base, into) \cup F))

Import == INSTANCE FoldTheorems WITH Op <- ImportOp, Holds <- Imported

\* ImportBlock is that fold.
LEMMA ImportLoop ==
  ASSUME NEW b, NEW into, NEW from, from # NoBlock
  PROVE  ImportBlock(b, into, from) =
           [Import!Folded(into, b, b.blocks[from].stones) EXCEPT !.blocks[from] = ResetBlock]
BY Zenon DEF ImportBlock, Import!Folded, ImportOp, FoldLeft, MapThenFoldSet, Max,
             Import!FoldLeft, Import!MapThenFoldSet, Import!Max

\* One more stone imported.
LEMMA ImportStep ==
  ASSUME NEW b, Typed(b), NEW into \in Blocks, NEW S, NEW T,
         Describes(b, into, S, Group(b, into)), S \subseteq Group(b, into),
         \A q \in Positions : b.stones[q] = NONE => b.blockPointers[q] = NoBlock,
         \A q \in S : b.stones[q] # NONE,
         NEW seq, Lists(seq, T), T \cap Group(b, into) = {},
         NEW i \in 1..Len(seq), NEW c, Imported(into, b, seq, i - 1, c),
         \A q \in T : b.stones[q] # NONE
  PROVE  Imported(into, b, seq, i, ImportStone(c, into, seq[i]))
<1> DEFINE E == FirstOf(seq, i - 1)
           F == FirstOf(seq, i)
           stone == seq[i]
           d == ImportStone(c, into, stone)
           new == FindUniqueLiberties(c, stone, c.blockPointers[c.blocks[into].anchor])
<1>1. /\ F = E \cup {stone} /\ stone \notin E /\ F \subseteq T /\ E \subseteq T
      /\ stone \in T /\ stone \in Positions /\ T \subseteq Positions
  BY FirstOfIs, ListLength
<1> HIDE DEF E, F, stone
<1>2. /\ SamePosition(b, c) /\ c.blockPointer = b.blockPointer
      /\ Typed(c)
      /\ \A q \in Positions : c.blockPointers[q] = IF q \in E THEN into ELSE b.blockPointers[q]
      /\ \A k \in Blocks \ {into} : SameBlock(b, c, k)
      /\ c.blocks[into].anchor = b.blocks[into].anchor
      /\ Lists(c.blocks[into].stones, ToSet(b.blocks[into].stones) \cup E)
      /\ c.blocks[into].liberties =
           Cardinality(Rules!Liberties(b.stones, Group(b, into) \cup E))
  BY DEF Imported, E
<1>3. /\ SamePosition(c, d) /\ d.blockPointer = c.blockPointer
      /\ Typed(d)
      /\ \A q \in Positions :
           d.blockPointers[q] = IF q = stone THEN into ELSE c.blockPointers[q]
      /\ \A k \in Blocks \ {into} : SameBlock(c, d, k)
      /\ d.blocks[into].anchor = c.blocks[into].anchor
      /\ d.blocks[into].liberties = c.blocks[into].liberties + new
      /\ d.blocks[into].stones = Append(c.blocks[into].stones, stone)
  <2>1. stone \in Positions /\ Typed(c)
    BY <1>1, <1>2
  <2> QED BY <2>1, ImportStoneIs
<1>4. /\ ToSet(b.blocks[into].stones) = S /\ b.blocks[into].anchor \in S
      /\ S \subseteq Positions /\ Group(b, into) \subseteq Positions
  BY DEF Describes, Lists, Group
<1>5. c.stones = b.stones
  BY <1>2 DEF SamePosition
<1>6. Group(c, into) = Group(b, into) \cup E
  BY <1>1, <1>2, <1>4 DEF Group
<1>7. new = NewLiberties(c.stones, Group(c, into), stone)
  <2>1. \A q \in Positions : c.stones[q] = NONE => c.blockPointers[q] = NoBlock
    BY <1>1, <1>2, <1>5
  <2>2. c.blocks[into].anchor \in Group(c, into) /\ c.stones[c.blocks[into].anchor] # NONE
    BY <1>2, <1>4, <1>5, <1>6
  <2>3. c.blockPointers[c.blocks[into].anchor] = into
    BY <2>2 DEF Group
  <2> QED BY <1>1, <1>2, <2>1, <2>2, <2>3, FindUniqueLibertiesIs
<1> HIDE DEF new, d
<1>8. d.blocks[into].liberties =
        Cardinality(Rules!Liberties(b.stones, Group(b, into) \cup F))
  <2>1. Group(b, into) \cup F = Group(c, into) \cup {stone}
    BY <1>1, <1>6
  <2>2. Group(c, into) \in SUBSET Positions
    BY DEF Group
  <2>3. Cardinality(Rules!Liberties(c.stones, Group(c, into) \cup {stone})) =
          Cardinality(Rules!Liberties(c.stones, Group(c, into))) + new
    BY <1>1, <1>7, <2>2, LibertiesGrow
  <2> QED BY <1>2, <1>3, <1>5, <1>6, <2>1, <2>3
<1>9. Lists(d.blocks[into].stones, ToSet(b.blocks[into].stones) \cup F)
  <2>1. stone \notin ToSet(b.blocks[into].stones) \cup E
    BY <1>1, <1>4
  <2>2. (ToSet(b.blocks[into].stones) \cup E) \cup {stone} = ToSet(b.blocks[into].stones) \cup F
    BY <1>1
  <2> QED BY <1>1, <1>2, <1>3, <2>1, <2>2, ListAppend
<1>10. /\ SamePosition(b, d) /\ d.blockPointer = b.blockPointer
  BY <1>2, <1>3 DEF SamePosition
<1>11. \A q \in Positions : d.blockPointers[q] = IF q \in F THEN into ELSE b.blockPointers[q]
  BY <1>1, <1>2, <1>3
<1>12. \A k \in Blocks \ {into} : SameBlock(b, d, k)
  BY <1>2, <1>3 DEF SameBlock
<1>13. Imported(into, b, seq, i, d)
  BY <1>2, <1>3, <1>8, <1>9, <1>10, <1>11, <1>12 DEF Imported, F
<1> QED BY <1>13 DEF d, stone

\* The importing block takes the stones of the other and the object is free.
LEMMA ImportBlockIs ==
  ASSUME NEW b, Typed(b), NEW into \in Blocks, NEW from \in Blocks, from # into, NEW S,
         Describes(b, into, S, Group(b, into)), S \subseteq Group(b, into),
         \A q \in Positions : b.stones[q] = NONE => b.blockPointers[q] = NoBlock,
         \A q \in S : b.stones[q] # NONE,
         Describes(b, from, Group(b, from), Group(b, from)),
         \A q \in Group(b, from) : b.stones[q] # NONE
  PROVE  LET c == ImportBlock(b, into, from)
             F == Group(b, from)
         IN  /\ SamePosition(b, c) /\ c.blockPointer = b.blockPointer
             /\ Typed(c)
             /\ \A q \in Positions :
                  c.blockPointers[q] = IF q \in F THEN into ELSE b.blockPointers[q]
             /\ \A k \in Blocks \ {into, from} : SameBlock(b, c, k)
             /\ Unused(c, from)
             /\ Group(c, into) = Group(b, into) \cup F
             /\ Describes(c, into, S \cup F, Group(c, into))
<1> DEFINE F == Group(b, from)
           seq == b.blocks[from].stones
           e == Import!Folded(into, b, seq)
           c == [e EXCEPT !.blocks[from] = ResetBlock]
<1>1. Lists(seq, F) /\ F \cap Group(b, into) = {} /\ F \subseteq Positions
  BY DEF Describes, Group
<1>2. /\ ToSet(b.blocks[into].stones) = S /\ b.blocks[into].anchor \in S
      /\ Lists(b.blocks[into].stones, S)
      /\ b.blocks[into].liberties = Cardinality(Rules!Liberties(b.stones, Group(b, into)))
  BY DEF Describes, Lists
<1> HIDE DEF seq
<1>3. Imported(into, b, seq, 0, b)
  <2>1. FirstOf(seq, 0) = {}
    BY <1>1, FirstOfIs
  <2>2. S \cup {} = S /\ Group(b, into) \cup {} = Group(b, into)
    OBVIOUS
  <2> QED BY <1>2, <2>1, <2>2 DEF Imported, SamePosition, SameBlock
<1>4. ASSUME NEW i \in 1..Len(seq), NEW a, Imported(into, b, seq, i - 1, a)
      PROVE  Imported(into, b, seq, i, ImportOp(a, into, seq[i]))
  BY <1>1, <1>4, ImportStep DEF ImportOp
<1>5. Imported(into, b, seq, Len(seq), e)
  <2>1. seq \in Seq(Positions)
    BY <1>1 DEF Lists
  <2> HIDE DEF ImportOp, Imported
  <2> QED BY <1>3, <1>4, <2>1, Import!FoldInvariant
<1>6. FirstOf(seq, Len(seq)) = F
  BY <1>1, FirstOfIs
<1> HIDE DEF F, e
<1>7. /\ SamePosition(b, e) /\ e.blockPointer = b.blockPointer
      /\ Typed(e)
      /\ \A q \in Positions : e.blockPointers[q] = IF q \in F THEN into ELSE b.blockPointers[q]
      /\ \A k \in Blocks \ {into} : SameBlock(b, e, k)
      /\ e.blocks[into].anchor = b.blocks[into].anchor
      /\ Lists(e.blocks[into].stones, S \cup F)
      /\ e.blocks[into].liberties = Cardinality(Rules!Liberties(b.stones, Group(b, into) \cup F))
  BY <1>2, <1>5, <1>6 DEF Imported
<1>8. ImportBlock(b, into, from) = c
  <2>1. from # NoBlock
    BY PointsOfBoard
  <2> QED BY <2>1, ImportLoop DEF e, seq
<1>9. /\ SamePosition(e, c) /\ c.blockPointer = e.blockPointer
      /\ Typed(c) /\ c.blockPointers = e.blockPointers
      /\ \A k \in Blocks \ {from} : SameBlock(e, c, k)
      /\ Unused(c, from)
  <2>1. SamePosition(e, c) /\ c.blockPointer = e.blockPointer /\ c.blockPointers = e.blockPointers
    BY DEF SamePosition
  <2>2. Typed(c)
    BY <1>7 DEF Typed
  <2>3. \A k \in Blocks \ {from} : SameBlock(e, c, k)
    BY <1>7 DEF Typed, SameBlock
  <2>4. Unused(c, from)
    BY <1>7 DEF Typed, Unused, ResetBlock
  <2> QED BY <2>1, <2>2, <2>3, <2>4
<1> HIDE DEF c
<1>10. SamePosition(b, c) /\ c.blockPointer = b.blockPointer /\ c.stones = b.stones
  BY <1>7, <1>9 DEF SamePosition
<1>11. Group(c, into) = Group(b, into) \cup F
  BY <1>1, <1>7, <1>9 DEF Group, F
<1>12. \A k \in Blocks \ {into, from} : SameBlock(b, c, k)
  BY <1>7, <1>9 DEF SameBlock
<1>13. Describes(c, into, S \cup F, Group(c, into))
  BY <1>2, <1>7, <1>9, <1>10, <1>11 DEF SameBlock, Describes
<1> QED BY <1>7, <1>8, <1>9, <1>10, <1>11, <1>12, <1>13 DEF F

-----------------------------------------------------------------------------
\* Joining blocks.

\* The board that JoinBlocks works on: the stone is on pos, in no block yet.
Unjoined(b, pos) ==
  /\ Typed(b)
  /\ b.blockPointers[pos] = NoBlock
  /\ \A q \in Positions \ {pos} : b.blockPointers[q] = NoBlock <=> b.stones[q] = NONE
  /\ b.stones[pos] # NONE
  /\ \A k \in Blocks : BlockExact(b, k)

\* The block objects of the stones of a colour around a point.
Joining(b, pos, color) ==
  {b.blockPointers[n] : n \in {m \in Adjacent(pos) : b.stones[m] = BoardColor(color)}}

\* The block mine has taken in pos and the blocks ks.
JoinedTo(b, c, pos, mine, ks) ==
  /\ SamePosition(b, c) /\ c.blockPointer = b.blockPointer
  /\ Typed(c)
  /\ \A q \in Positions :
       c.blockPointers[q] = IF q = pos \/ b.blockPointers[q] \in ks THEN mine ELSE b.blockPointers[q]
  /\ \A k \in Blocks \ ks : SameBlock(b, c, k)
  /\ \A k \in ks \ {mine} : Unused(c, k)
  /\ Describes(c, mine, Group(c, mine) \ {pos}, Group(c, mine))

\* x: the board before, the point, the colour and the block that is kept.
JoinOp(c, x, n) ==
  IF StoneAt(x.b, n) = BoardColor(x.color) /\ PointerAt(c, n) # c.blockPointers[x.pos]
  THEN ImportBlock(c, c.blockPointers[x.pos], PointerAt(c, n))
  ELSE c

\* The blocks met in the first i directions, and the one that is kept.
JoinedSoFar(x, i) ==
  {x.mine} \cup {x.b.blockPointers[Compass(x.pos)[j]] :
                   j \in {m \in 1..i : /\ Compass(x.pos)[m] # OffBoard
                                       /\ x.b.stones[Compass(x.pos)[m]] = BoardColor(x.color)}}

\* After the first i directions those blocks are one.
Joined(x, base, seq, i, c) == JoinedTo(x.b, c, x.pos, x.mine, JoinedSoFar(x, i))

Join == INSTANCE FoldTheorems WITH Op <- JoinOp, Holds <- Joined

\* The stone joins the first block.
Begun(b, pos, color) ==
  LET mine == b.blockPointers[FirstFriend(b, pos, color)]
  IN  [b EXCEPT !.blocks[mine].liberties = @ + FindUniqueLiberties(b, pos, mine),
                !.blockPointers[pos] = mine]

\* JoinBlocks is that fold.
LEMMA JoinLoop ==
  ASSUME NEW x
  PROVE  JoinBlocks(x.b, x.pos, x.color) =
           Join!Folded(x, Begun(x.b, x.pos, x.color), Compass(x.pos))
BY Zenon DEF JoinBlocks, Begun, Join!Folded, JoinOp, FoldLeft, MapThenFoldSet, Max,
             Join!FoldLeft, Join!MapThenFoldSet, Join!Max

\* A stone with a friend next to it finds one.
LEMMA FirstFriendIs ==
  ASSUME NEW b, NEW pos \in Positions, NEW color,
         \E n \in Adjacent(pos) : b.stones[n] = BoardColor(color)
  PROVE  /\ FirstFriend(b, pos, color) \in Adjacent(pos)
         /\ b.stones[FirstFriend(b, pos, color)] = BoardColor(color)
<1> DEFINE order == <<South(pos), North(pos), West(pos), East(pos)>>
           ok(i) == order[i] # OffBoard /\ StoneAt(b, order[i]) = BoardColor(color)
           f == [i \in 1..4 |-> IF ok(i) THEN 1 ELSE 0]
<1>1. /\ order[1] = South(pos) /\ order[2] = North(pos)
      /\ order[3] = West(pos) /\ order[4] = East(pos)
  OBVIOUS
<1>2. /\ \A i \in 1..4 : order[i] # OffBoard => order[i] \in Adjacent(pos)
      /\ \A n \in Adjacent(pos) : n # OffBoard /\ \E i \in 1..4 : order[i] = n
  <2> HIDE DEF order
  <2> QED BY <1>1 DEF Adjacent
<1> HIDE DEF order
<1>3. PICK i \in 1..4 : ok(i)
  BY <1>2 DEF StoneAt
<1>4. \E j \in 1..4 : ok(j) /\ \A k \in 1..(j - 1) : ~ ok(k)
  <2>1. f[i] = 1
    BY <1>3
  <2>2. \A k \in 1..4 : f[k] = 1 <=> ok(k)
    OBVIOUS
  <2>3. PICK j \in 1..4 : f[j] = f[i] /\ \A k \in 1..(j - 1) : f[k] # f[i]
    <3> HIDE DEF f
    <3> QED BY FirstOfFour
  <2>4. \A k \in 1..(j - 1) : k \in 1..4
    OBVIOUS
  <2> HIDE DEF f, ok
  <2> QED BY <2>1, <2>2, <2>3, <2>4
<1> DEFINE first == CHOOSE m \in 1..4 : ok(m) /\ \A j \in 1..(m - 1) : ~ ok(j)
<1>5. first \in 1..4 /\ ok(first)
  <2> HIDE DEF ok
  <2> QED BY <1>4
<1>6. FirstFriend(b, pos, color) = order[first]
  BY Zenon DEF FirstFriend, order
<1> HIDE DEF first
<1> QED BY <1>2, <1>5, <1>6 DEF StoneAt

\* At the start only the block of the first friend has taken in the stone.
LEMMA BegunIs ==
  ASSUME NEW b, NEW pos \in Positions, NEW color \in StoneColors, Unjoined(b, pos),
         \E n \in Adjacent(pos) : b.stones[n] = BoardColor(color)
  PROVE  LET mine == b.blockPointers[FirstFriend(b, pos, color)]
         IN  /\ mine \in Blocks /\ mine \in Joining(b, pos, color)
             /\ JoinedTo(b, Begun(b, pos, color), pos, mine, {mine})
<1> DEFINE mine == b.blockPointers[FirstFriend(b, pos, color)]
           G == Group(b, mine)
           new == FindUniqueLiberties(b, pos, mine)
           c == [b EXCEPT !.blocks[mine].liberties = @ + new, !.blockPointers[pos] = mine]
<1>1. mine \in Blocks /\ mine \in Joining(b, pos, color) /\ FirstFriend(b, pos, color) \in G
  <2>1. /\ FirstFriend(b, pos, color) \in Adjacent(pos)
        /\ b.stones[FirstFriend(b, pos, color)] = BoardColor(color)
    BY FirstFriendIs
  <2>2. FirstFriend(b, pos, color) \in Positions \ {pos}
    BY <2>1, AdjacentPoints
  <2>3. mine # NoBlock
    BY <2>1, <2>2, TwoColors DEF Unjoined
  <2> QED BY <2>1, <2>2, <2>3 DEF Unjoined, Typed, Joining, Group
<1> HIDE DEF mine
<1>2. /\ Typed(b) /\ b.blockPointers[pos] = NoBlock /\ pos \notin G /\ G \subseteq Positions
      /\ \A q \in Positions : b.stones[q] = NONE => b.blockPointers[q] = NoBlock
      /\ \A q \in G : b.stones[q] # NONE
  BY <1>1, PointsOfBoard DEF Unjoined, Group
<1>3. Describes(b, mine, G, G)
  BY <1>1 DEF Unjoined, BlockExact
<1>4. new = NewLiberties(b.stones, G, pos)
  <2>1. b.blocks[mine].anchor \in G
    BY <1>3 DEF Describes
  <2> QED BY <1>1, <1>2, <2>1, FindUniqueLibertiesIs
<1> HIDE DEF new
<1>5. SamePosition(b, c) /\ c.blockPointer = b.blockPointer /\ c.stones = b.stones
  BY DEF SamePosition
<1>6. Typed(c)
  BY <1>1, <1>2 DEF Typed
<1>7. \A q \in Positions : c.blockPointers[q] = IF q = pos THEN mine ELSE b.blockPointers[q]
  BY <1>2 DEF Typed
<1>8. \A k \in Blocks \ {mine} : SameBlock(b, c, k)
  BY <1>2 DEF SameBlock, Typed
<1>9. /\ c.blocks[mine].anchor = b.blocks[mine].anchor
      /\ c.blocks[mine].stones = b.blocks[mine].stones
      /\ c.blocks[mine].liberties = b.blocks[mine].liberties + new
  BY <1>1, <1>2 DEF Typed
<1>10. Begun(b, pos, color) = c
  BY DEF Begun, mine, new
<1> HIDE DEF c
<1>11. Group(c, mine) = G \cup {pos} /\ Group(c, mine) \ {pos} = G
  BY <1>2, <1>7 DEF Group
<1> HIDE DEF G
<1>12. Describes(c, mine, G, G \cup {pos})
  <2>1. Cardinality(Rules!Liberties(b.stones, G \cup {pos})) =
          Cardinality(Rules!Liberties(b.stones, G)) + new
    BY <1>2, <1>4, LibertiesGrow
  <2> QED BY <1>3, <1>5, <1>9, <2>1 DEF Describes
<1>13. JoinedTo(b, c, pos, mine, {mine})
  BY <1>5, <1>6, <1>7, <1>8, <1>11, <1>12 DEF JoinedTo
<1> QED BY <1>1, <1>10, <1>13 DEF mine

\* One more block joined, or the same one met again.
LEMMA JoinStep ==
  ASSUME NEW b, NEW pos \in Positions, NEW color \in StoneColors, Unjoined(b, pos),
         NEW mine \in Blocks, NEW ks \in SUBSET Blocks, mine \in ks, NEW c,
         JoinedTo(b, c, pos, mine, ks),
         NEW n \in Adjacent(pos), b.stones[n] = BoardColor(color), NEW x,
         x.b = b, x.pos = pos, x.color = color
  PROVE  /\ b.blockPointers[n] \in Blocks
         /\ JoinedTo(b, JoinOp(c, x, n), pos, mine, ks \cup {b.blockPointers[n]})
<1> DEFINE f == b.blockPointers[n]
           G == Group(c, mine)
           d == ImportBlock(c, mine, f)
<1>1. n \in Positions /\ n # pos /\ n # OffBoard
  BY AdjacentPoints, PointsOfBoard
<1>2. f \in Blocks
  <2>1. b.stones[n] # NONE
    BY TwoColors
  <2> QED BY <1>1, <2>1 DEF Unjoined, Typed
<1>3. /\ SamePosition(b, c) /\ c.blockPointer = b.blockPointer
      /\ Typed(c)
      /\ \A q \in Positions : c.blockPointers[q] =
           IF q = pos \/ b.blockPointers[q] \in ks THEN mine ELSE b.blockPointers[q]
      /\ \A k \in Blocks \ ks : SameBlock(b, c, k)
      /\ \A k \in ks \ {mine} : Unused(c, k)
      /\ Describes(c, mine, G \ {pos}, G)
  BY DEF JoinedTo
<1>4. c.blockPointers[pos] = mine /\ StoneAt(b, n) = BoardColor(color)
      /\ PointerAt(c, n) = (IF f \in ks THEN mine ELSE f)
  BY <1>1, <1>3 DEF StoneAt, PointerAt
<1>5. CASE f \in ks
  <2>1. JoinOp(c, x, n) = c
    BY <1>4, <1>5 DEF JoinOp
  <2>2. ks \cup {f} = ks
    BY <1>5
  <2> QED BY <1>2, <2>1, <2>2
<1>6. CASE f \notin ks
  <2>1. JoinOp(c, x, n) = d
    BY <1>4, <1>6 DEF JoinOp
  <2>2. Group(c, f) = Group(b, f) /\ n \in Group(b, f) /\ f # mine /\ pos \notin Group(b, f)
    BY <1>1, <1>2, <1>3, <1>6, PointsOfBoard DEF Group, Unjoined
  <2>3. c.stones = b.stones /\ \A q \in Positions : c.stones[q] = NONE => c.blockPointers[q] = NoBlock
    <3>1. c.stones = b.stones
      BY <1>3 DEF SamePosition
    <3>2. \A q \in Positions : b.stones[q] = NONE => q # pos /\ b.blockPointers[q] = NoBlock
      BY DEF Unjoined
    <3>3. NoBlock \notin ks
      BY PointsOfBoard
    <3> QED BY <1>3, <3>1, <3>2, <3>3
  <2>4. /\ \A q \in G : q \in Positions /\ c.stones[q] # NONE
        /\ \A q \in Group(c, f) : q \in Positions /\ c.stones[q] # NONE
    BY <1>2, <2>3, PointsOfBoard DEF Group
  <2>5. Describes(c, f, Group(c, f), Group(c, f))
    <3>1. Describes(b, f, Group(b, f), Group(b, f))
      BY <1>2, <2>2 DEF Unjoined, BlockExact
    <3>2. SameBlock(b, c, f)
      BY <1>2, <1>3, <1>6
    <3> QED BY <2>2, <2>3, <3>1, <3>2 DEF Describes, SameBlock
  <2>6. /\ SamePosition(c, d) /\ d.blockPointer = c.blockPointer
        /\ Typed(d)
        /\ \A q \in Positions :
             d.blockPointers[q] = IF q \in Group(c, f) THEN mine ELSE c.blockPointers[q]
        /\ \A k \in Blocks \ {mine, f} : SameBlock(c, d, k)
        /\ Unused(d, f)
        /\ Group(d, mine) = G \cup Group(c, f)
        /\ Describes(d, mine, (G \ {pos}) \cup Group(c, f), Group(d, mine))
    <3> DEFINE S == G \ {pos}
    <3>1. S \subseteq G /\ \A q \in S : c.stones[q] # NONE
      BY <2>4
    <3>2. Describes(c, mine, S, G)
      BY <1>3
    <3>0. /\ Typed(c) /\ Describes(c, f, Group(c, f), Group(c, f)) /\ f # mine /\ f \in Blocks
          /\ \A q \in Positions : c.stones[q] = NONE => c.blockPointers[q] = NoBlock
          /\ \A q \in Group(c, f) : c.stones[q] # NONE
      BY <1>2, <1>3, <2>2, <2>3, <2>4, <2>5
    <3> HIDE DEF S, f
    <3>3. /\ SamePosition(c, d) /\ d.blockPointer = c.blockPointer
          /\ Typed(d)
          /\ \A q \in Positions :
               d.blockPointers[q] = IF q \in Group(c, f) THEN mine ELSE c.blockPointers[q]
          /\ \A k \in Blocks \ {mine, f} : SameBlock(c, d, k)
          /\ Unused(d, f)
          /\ Group(d, mine) = G \cup Group(c, f)
          /\ Describes(d, mine, S \cup Group(c, f), Group(d, mine))
      BY <3>0, <3>1, <3>2, ImportBlockIs
    <3> QED BY <3>3 DEF S
  <2> HIDE DEF d
  <2>7. SamePosition(b, d) /\ d.blockPointer = b.blockPointer
    BY <1>3, <2>6 DEF SamePosition
  <2>8. \A q \in Positions : d.blockPointers[q] =
          IF q = pos \/ b.blockPointers[q] \in ks \cup {f} THEN mine ELSE b.blockPointers[q]
    BY <1>3, <2>2, <2>6 DEF Group
  <2>9. \A k \in Blocks \ (ks \cup {f}) : SameBlock(b, d, k)
    BY <1>3, <2>6 DEF SameBlock
  <2>10. \A k \in (ks \cup {f}) \ {mine} : Unused(d, k)
    BY <1>3, <2>6 DEF SameBlock, Unused
  <2>11. (G \ {pos}) \cup Group(c, f) = Group(d, mine) \ {pos}
    BY <2>2, <2>6
  <2>12. JoinedTo(b, d, pos, mine, ks \cup {f})
    BY <2>6, <2>7, <2>8, <2>9, <2>10, <2>11 DEF JoinedTo
  <2> QED BY <1>2, <2>1, <2>12
<1> QED BY <1>5, <1>6

\* A direction without a friendly stone changes nothing: off the board there is no
\* block, whatever is read for a stone there.
LEMMA JoinSkip ==
  ASSUME NEW c, NEW x, NEW n, x.pos \in Positions, c.blockPointers[x.pos] \in Blocks,
         n = OffBoard \/ x.b.stones[n] # BoardColor(x.color)
  PROVE  JoinOp(c, x, n) = c
<1>1. CASE n = OffBoard
  <2>1. PointerAt(c, n) = NoBlock
    BY <1>1 DEF PointerAt
  <2>2. ImportBlock(c, c.blockPointers[x.pos], NoBlock) = c
    BY Zenon DEF ImportBlock
  <2> QED BY <2>1, <2>2 DEF JoinOp
<1>2. CASE n # OffBoard
  BY <1>2 DEF JoinOp, StoneAt
<1> QED BY <1>1, <1>2

\* JoinBlocks brings all blocks around the stone together, each once.
LEMMA JoinBlocksIs ==
  ASSUME NEW b, NEW pos \in Positions, NEW color \in StoneColors, Unjoined(b, pos),
         \E n \in Adjacent(pos) : b.stones[n] = BoardColor(color)
  PROVE  LET mine == b.blockPointers[FirstFriend(b, pos, color)]
         IN  /\ mine \in Blocks /\ mine \in Joining(b, pos, color)
             /\ Joining(b, pos, color) \subseteq Blocks
             /\ JoinedTo(b, JoinBlocks(b, pos, color), pos, mine, Joining(b, pos, color))
<1> DEFINE mine == b.blockPointers[FirstFriend(b, pos, color)]
           base == Begun(b, pos, color)
           seq == Compass(pos)
           K == Joining(b, pos, color)
<1>0. PICK x : x = [b |-> b, pos |-> pos, color |-> color, mine |-> mine]
  OBVIOUS
<1>1. x.b = b /\ x.pos = pos /\ x.color = color /\ x.mine = mine
  BY <1>0
<1> DEFINE F(i) == JoinedSoFar(x, i)
<1>2. mine \in Blocks /\ mine \in K /\ JoinedTo(b, base, pos, mine, {mine})
  BY BegunIs
<1> HIDE DEF mine, base
<1>3. /\ seq \in Seq(Positions \cup {OffBoard}) /\ Len(seq) = 4
      /\ \A i \in 1..4 : seq[i] # OffBoard => seq[i] \in Adjacent(pos)
      /\ \A n \in Adjacent(pos) : \E i \in 1..4 : seq[i] = n
      /\ \A n \in Adjacent(pos) : n # OffBoard
  BY CompassIs, AdjacentPoints, PointsOfBoard
<1> HIDE DEF seq
<1>4. \A i : F(i) = {mine} \cup {b.blockPointers[seq[j]] :
                   j \in {m \in 1..i : /\ seq[m] # OffBoard /\ b.stones[seq[m]] = BoardColor(color)}}
  BY <1>1 DEF JoinedSoFar, seq
<1>5. \A n \in Adjacent(pos) : b.stones[n] = BoardColor(color) => b.blockPointers[n] \in Blocks
  BY AdjacentPoints, TwoColors DEF Unjoined, Typed
<1> HIDE DEF F
<1>6. \A i \in 0..4 : F(i) \in SUBSET Blocks /\ mine \in F(i)
  BY <1>2, <1>3, <1>4, <1>5
<1>7. \A i \in 0..4 : \A c : Joined(x, base, seq, i, c) <=> JoinedTo(b, c, pos, mine, F(i))
  BY <1>1 DEF Joined, F
<1>8. Joined(x, base, seq, 0, base)
  <2>1. F(0) = {mine}
    BY <1>4
  <2> QED BY <1>2, <1>7, <2>1
<1>9. ASSUME NEW i \in 1..Len(seq), NEW c, Joined(x, base, seq, i - 1, c)
      PROVE  Joined(x, base, seq, i, JoinOp(c, x, seq[i]))
  <2>1. i \in 1..4 /\ i \in 0..4 /\ i - 1 \in 0..4
    BY <1>3
  <2>2. \A j : j \in 1..i <=> j \in 1..(i - 1) \/ j = i
    BY <2>1
  <2>3. JoinedTo(b, c, pos, mine, F(i - 1))
    BY <1>7, <1>9, <2>1
  <2>4. CASE seq[i] # OffBoard /\ b.stones[seq[i]] = BoardColor(color)
    <3>1. F(i) = F(i - 1) \cup {b.blockPointers[seq[i]]}
      BY <1>4, <2>2, <2>4
    <3>2. JoinedTo(b, JoinOp(c, x, seq[i]), pos, mine, F(i - 1) \cup {b.blockPointers[seq[i]]})
      BY <1>1, <1>2, <1>3, <1>6, <2>1, <2>3, <2>4, JoinStep
    <3> QED BY <1>7, <2>1, <3>1, <3>2
  <2>5. CASE ~ (seq[i] # OffBoard /\ b.stones[seq[i]] = BoardColor(color))
    <3>1. F(i) = F(i - 1)
      BY <1>4, <2>2, <2>5
    <3>2. c.blockPointers[pos] = mine
      BY <2>3 DEF JoinedTo
    <3>3. JoinOp(c, x, seq[i]) = c
      BY <1>1, <1>2, <2>5, <3>2, JoinSkip
    <3> QED BY <1>7, <2>1, <2>3, <3>1, <3>3
  <2> QED BY <2>4, <2>5
<1>10. Joined(x, base, seq, 4, Join!Folded(x, base, seq))
  <2>1. Joined(x, base, seq, Len(seq), Join!Folded(x, base, seq))
    <3> HIDE DEF JoinOp, Joined
    <3> QED BY <1>3, <1>8, <1>9, Join!FoldInvariant
  <2> QED BY <1>3, <2>1
<1>11. JoinBlocks(b, pos, color) = Join!Folded(x, base, seq)
  BY <1>1, JoinLoop DEF base, seq
<1>12. F(4) = K
  <2>1. K = {b.blockPointers[n] : n \in {m \in Adjacent(pos) : b.stones[m] = BoardColor(color)}}
    BY DEF Joining
  <2>2. ASSUME NEW k \in F(4) PROVE k \in K
    BY <1>2, <1>3, <1>4, <2>1
  <2>3. ASSUME NEW k \in K PROVE k \in F(4)
    <3>1. PICK n \in Adjacent(pos) : b.stones[n] = BoardColor(color) /\ k = b.blockPointers[n]
      BY <2>1
    <3>2. PICK i \in 1..4 : seq[i] = n
      BY <1>3
    <3>3. n # OffBoard
      BY <1>3
    <3> QED BY <1>4, <3>1, <3>2, <3>3
  <2> QED BY <2>2, <2>3
<1>13. K \subseteq Blocks
  BY <1>6, <1>12
<1> QED BY <1>2, <1>7, <1>10, <1>11, <1>12, <1>13 DEF mine

-----------------------------------------------------------------------------
\* Placing a stone.

\* The neighbour counters are those of the board.
Counted(b) ==
  /\ b.numNeighbours \in [StoneColors -> [Positions -> Int]]
  /\ b.numNeighboursEmpty \in [Positions -> Int]
  /\ NeighbourCountsExactOn(b)

\* The counters of a point, in terms of Around.
LEMMA CountsAre ==
  ASSUME NEW b
  PROVE  NeighbourCountsExactOn(b) <=>
           \A p \in Positions :
             /\ b.numNeighboursEmpty[p] = Cardinality(Around(b.stones, p, NONE))
             /\ \A c \in StoneColors :
                  b.numNeighbours[c][p] = Cardinality(Around(b.stones, p, BoardColor(c)))
BY DEF NeighbourCountsExactOn, Around

\* The bookkeeping of a board agrees with its stones.
Coherent(b) ==
  /\ Typed(b) /\ Linked(b) /\ Counted(b)
  /\ \A p \in Positions :
       b.stones[p] # NONE => Group(b, b.blockPointers[p]) = Rules!Block(b.stones, p)
  /\ \A k \in Blocks : BlockExact(b, k)
  /\ \A k \in Blocks : k >= b.blockPointer => Group(b, k) = {}
  /\ b.blockPointer \in Nat
  /\ b.bw_prisoners \in [StoneColors -> Nat]

\* The rest of the board.
SameRest(b, c) ==
  /\ c.koPoint = b.koPoint /\ c.toPlay = b.toPlay
  /\ c.bw_prisoners = b.bw_prisoners /\ c.moves = b.moves

\* What AddStone does before it updates the blocks.
Put(b, point, color) ==
  [b EXCEPT
     !.stones[point] = BoardColor(color),
     !.numNeighboursEmpty = [p \in Positions |-> IF p \in Adjacent(point) THEN @[p] - 1 ELSE @[p]],
     !.numNeighbours[color] = [p \in Positions |-> IF p \in Adjacent(point) THEN @[p] + 1 ELSE @[p]]]

\* The positions before and after a stone is placed differ in that point.
LEMMA PlacedDiffers ==
  ASSUME NEW s \in [Positions -> BoardColors], NEW pos \in Positions, s[pos] = NONE,
         NEW color \in StoneColors
  PROVE  /\ Differ(s, Rules!Placed(s, pos, color), pos)
         /\ Rules!Placed(s, pos, color)[pos] = BoardColor(color)
BY PlacedIs, TwoColors DEF Differ

\* Putting the stone keeps the neighbour counters right.
LEMMA PutIs ==
  ASSUME NEW b, Typed(b), Counted(b), NEW pos \in Positions, b.stones[pos] = NONE,
         NEW color \in StoneColors
  PROVE  LET c == Put(b, pos, color)
         IN  /\ c.stones = Rules!Placed(b.stones, pos, color)
             /\ SameRest(b, c) /\ c.blockPointer = b.blockPointer
             /\ c.blockPointers = b.blockPointers /\ c.blocks = b.blocks
             /\ Counted(c)
<1> DEFINE t == Rules!Placed(b.stones, pos, color)
           c == [b EXCEPT
             !.stones[pos] = BoardColor(color),
             !.numNeighboursEmpty = [p \in Positions |-> IF p \in Adjacent(pos) THEN @[p] - 1 ELSE @[p]],
             !.numNeighbours[color] = [p \in Positions |-> IF p \in Adjacent(pos) THEN @[p] + 1 ELSE @[p]]]
<1>1. /\ b.stones \in [Positions -> BoardColors]
      /\ b.numNeighbours \in [StoneColors -> [Positions -> Int]]
      /\ b.numNeighboursEmpty \in [Positions -> Int]
      /\ NeighbourCountsExactOn(b)
  BY DEF Typed, Counted
<1>2. c.stones = t
  <2>1. c.stones = [b.stones EXCEPT ![pos] = BoardColor(color)]
    OBVIOUS
  <2>2. t = [b.stones EXCEPT ![pos] = BoardColor(color)]
    BY <1>1, PlacedIs
  <2> HIDE DEF c, t
  <2> QED BY <2>1, <2>2
<1>3. /\ SameRest(b, c) /\ c.blockPointer = b.blockPointer
      /\ c.blockPointers = b.blockPointers /\ c.blocks = b.blocks
  BY DEF SameRest
<1>4. /\ c.numNeighboursEmpty \in [Positions -> Int]
      /\ \A q \in Positions : c.numNeighboursEmpty[q] =
           IF q \in Adjacent(pos) THEN b.numNeighboursEmpty[q] - 1 ELSE b.numNeighboursEmpty[q]
  BY <1>1
<1>5. /\ c.numNeighbours \in [StoneColors -> [Positions -> Int]]
      /\ \A q \in Positions :
           /\ c.numNeighbours[color][q] =
                IF q \in Adjacent(pos) THEN b.numNeighbours[color][q] + 1
                ELSE b.numNeighbours[color][q]
           /\ c.numNeighbours[Opponent(color)][q] = b.numNeighbours[Opponent(color)][q]
  <2> DEFINE g == c.numNeighbours
  <2>1. g = [b.numNeighbours EXCEPT ![color] =
         [p \in Positions |-> IF p \in Adjacent(pos) THEN @[p] + 1 ELSE @[p]]]
    OBVIOUS
  <2>2. Opponent(color) \in StoneColors /\ Opponent(color) # color
    BY TwoColors
  <2> HIDE DEF g
  <2>3. g \in [StoneColors -> [Positions -> Int]]
    BY <1>1, <2>1
  <2>4. g[color] = [p \in Positions |-> IF p \in Adjacent(pos) THEN b.numNeighbours[color][p] + 1
                                                             ELSE b.numNeighbours[color][p]]
    BY <1>1, <2>1
  <2>5. g[Opponent(color)] = b.numNeighbours[Opponent(color)]
    BY <1>1, <2>1, <2>2
  <2> QED BY <2>3, <2>4, <2>5 DEF g
<1>6. Put(b, pos, color) = c
  BY DEF Put
<1> HIDE DEF c, t
<1>7. Differ(b.stones, t, pos) /\ t[pos] = BoardColor(color)
  BY <1>1, PlacedDiffers DEF t
<1>8. NeighbourCountsExactOn(c)
  <2>1. ASSUME NEW x \in Positions
        PROVE  c.numNeighboursEmpty[x] = Cardinality(Around(c.stones, x, NONE))
    <3>1. Cardinality(Around(b.stones, x, NONE)) =
            Cardinality(Around(t, x, NONE)) + (IF x \in Adjacent(pos) THEN 1 ELSE 0)
      BY <1>7, NeighbourTaken
    <3>2. Cardinality(Around(t, x, NONE)) \in Nat
      BY <1>7, NeighbourTaken
    <3>3. b.numNeighboursEmpty[x] = Cardinality(Around(b.stones, x, NONE))
      BY <1>1, CountsAre
    <3> QED BY <1>2, <1>4, <3>1, <3>2, <3>3
  <2>2. ASSUME NEW x \in Positions, NEW e \in StoneColors
        PROVE  c.numNeighbours[e][x] = Cardinality(Around(c.stones, x, BoardColor(e)))
    <3>1. BoardColor(e) \in BoardColors \ {NONE}
      BY TwoColors
    <3>2. Cardinality(Around(t, x, BoardColor(e))) =
            Cardinality(Around(b.stones, x, BoardColor(e)))
            + (IF x \in Adjacent(pos) /\ t[pos] = BoardColor(e) THEN 1 ELSE 0)
      BY <1>7, <3>1, NeighbourTaken
    <3>3. Cardinality(Around(b.stones, x, BoardColor(e))) \in Nat
      BY <1>7, NeighbourTaken
    <3>4. b.numNeighbours[e][x] = Cardinality(Around(b.stones, x, BoardColor(e)))
      BY <1>1, CountsAre
    <3>5. CASE e = color
      BY <1>2, <1>5, <1>7, <3>2, <3>3, <3>4, <3>5
    <3>6. CASE e # color
      <4>1. e = Opponent(color) /\ t[pos] # BoardColor(e)
        BY <1>7, <3>6, TwoColors
      <4> QED BY <1>2, <1>5, <3>2, <3>3, <3>4, <4>1
    <3> QED BY <3>5, <3>6
  <2> QED BY <2>1, <2>2, CountsAre
<1> QED BY <1>2, <1>3, <1>4, <1>5, <1>6, <1>8 DEF Counted, t

\* The blocks around the stone are a liberty short.
LEMMA LostIs ==
  ASSUME NEW b, Coherent(b), NEW pos \in Positions, b.stones[pos] = NONE, NEW color \in StoneColors
  PROVE  LET c == Put(b, pos, color)
             l == AddLiberties(c, LoseLiberty(c, pos), -1)
         IN  /\ l.stones = Rules!Placed(b.stones, pos, color)
             /\ SameRest(b, l) /\ l.blockPointer = b.blockPointer
             /\ l.blockPointers = b.blockPointers
             /\ Counted(l) /\ Unjoined(l, pos)
             /\ l.numNeighbours = c.numNeighbours
<1> DEFINE c == Put(b, pos, color)
           l == AddLiberties(c, LoseLiberty(c, pos), -1)
           t == Rules!Placed(b.stones, pos, color)
<1>1. /\ c.stones = t /\ SameRest(b, c) /\ c.blockPointer = b.blockPointer
      /\ c.blockPointers = b.blockPointers /\ c.blocks = b.blocks /\ Counted(c)
  BY PutIs DEF Coherent
<1>2. /\ b.stones \in [Positions -> BoardColors]
      /\ b.blockPointers \in [Positions -> Blocks \cup {NoBlock}] /\ DOMAIN b.blocks = Blocks
      /\ \A q \in Positions : b.blockPointers[q] = NoBlock <=> b.stones[q] = NONE
      /\ \A k \in Blocks : BlockExact(b, k)
  BY DEF Coherent, Typed, Linked
<1>3. /\ Differ(b.stones, t, pos) /\ t[pos] = BoardColor(color) /\ t[pos] # NONE
      /\ t \in [Positions -> BoardColors]
      /\ \A q \in Positions \ {pos} : t[q] = b.stones[q]
  BY <1>2, PlacedDiffers, TwoColors DEF Differ
<1> HIDE DEF c, t
<1>4. Typed(c)
  BY <1>1, <1>2, <1>3 DEF Typed
<1>5. \A k \in Blocks : k \in LoseLiberty(c, pos) <=> Adjacent(pos) \cap Group(b, k) # {}
  <2>1. \A k \in Blocks : k \in LoseLiberty(c, pos) <=> Adjacent(pos) \cap Group(c, k) # {}
    BY <1>1, <1>2, <1>3, <1>4, LoseLibertyIs
  <2> QED BY <1>1, <2>1 DEF Group
<1> DEFINE ks == LoseLiberty(c, pos)
<1> HIDE DEF ks
<1>6. /\ SamePosition(c, l) /\ l.blockPointer = c.blockPointer
      /\ l.blockPointers = c.blockPointers
      /\ DOMAIN l.blocks = Blocks
      /\ \A k \in Blocks :
           /\ l.blocks[k].anchor = c.blocks[k].anchor
           /\ l.blocks[k].stones = c.blocks[k].stones
           /\ k \in ks => l.blocks[k].liberties = c.blocks[k].liberties + (-1)
           /\ k \notin ks => l.blocks[k].liberties = c.blocks[k].liberties
  BY <1>4, AddLibertiesIs DEF ks
<1> HIDE DEF l
<1>7. /\ l.stones = t /\ SameRest(b, l) /\ l.blockPointer = b.blockPointer
      /\ l.blockPointers = b.blockPointers /\ Counted(l) /\ Typed(l)
      /\ l.numNeighbours = c.numNeighbours
  <2>1. /\ l.stones = t /\ SameRest(b, l) /\ l.blockPointer = b.blockPointer
        /\ l.blockPointers = b.blockPointers
        /\ l.numNeighbours = c.numNeighbours /\ l.numNeighboursEmpty = c.numNeighboursEmpty
    BY <1>1, <1>6 DEF SamePosition, SameRest
  <2>2. Counted(l)
    <3>1. Counted(c) /\ l.stones = c.stones
      BY <1>1, <2>1
    <3> QED BY <2>1, <3>1, CountsAre DEF Counted
  <2>3. Typed(l)
    BY <1>2, <1>3, <1>6, <2>1 DEF Typed
  <2> QED BY <2>1, <2>2, <2>3
<1>8. ASSUME NEW k \in Blocks
      PROVE  BlockExact(l, k)
  <2> DEFINE G == Group(b, k)
  <2>1. Group(l, k) = G /\ G \in SUBSET Positions
    BY <1>7 DEF Group
  <2>2. k \in ks <=> Adjacent(pos) \cap G # {}
    BY <1>5 DEF ks
  <2>3. CASE G = {}
    <3>1. Unused(b, k)
      BY <1>2, <2>3 DEF BlockExact
    <3>2. Unused(l, k)
      BY <1>1, <1>6, <2>2, <2>3, <3>1 DEF Unused
    <3> QED BY <2>1, <2>3, <3>2 DEF BlockExact
  <2>4. CASE G # {}
    <3>1. Describes(b, k, G, G)
      BY <1>2, <2>4 DEF BlockExact
    <3> HIDE DEF G
    <3>2. Cardinality(Rules!Liberties(b.stones, G)) =
            Cardinality(Rules!Liberties(t, G)) + (IF Adjacent(pos) \cap G # {} THEN 1 ELSE 0)
      BY <1>3, <2>1, LibertyTaken
    <3>3. Cardinality(Rules!Liberties(t, G)) \in Nat
      <4>1. Rules!Liberties(t, G) \in SUBSET Positions
        BY LibertiesAre
      <4> QED BY <4>1, PointsOfBoard
    <3>4. l.blocks[k].liberties = Cardinality(Rules!Liberties(t, G))
      <4>1. b.blocks[k].liberties = Cardinality(Rules!Liberties(b.stones, G))
        BY <3>1 DEF Describes
      <4>2. CASE k \in ks
        BY <1>1, <1>6, <2>2, <3>2, <3>3, <4>1, <4>2
      <4>3. CASE k \notin ks
        BY <1>1, <1>6, <2>2, <3>2, <3>3, <4>1, <4>3
      <4> QED BY <4>2, <4>3
    <3>5. Describes(l, k, G, G)
      BY <1>1, <1>6, <1>7, <3>1, <3>4 DEF Describes
    <3> QED BY <2>1, <2>4, <3>5 DEF BlockExact
  <2> QED BY <2>3, <2>4
<1>9. Unjoined(l, pos)
  BY <1>2, <1>3, <1>7, <1>8 DEF Unjoined
<1> QED BY <1>7, <1>9 DEF c, l, t

-----------------------------------------------------------------------------
\* The stone takes its place in a block.

\* The blocks around a stone just put are a liberty short ...
Lost(b, pos, color) == LET c == Put(b, pos, color) IN AddLiberties(c, LoseLiberty(c, pos), -1)

\* ... and then is in a block ...
Taken(b, pos, color) ==
  IF Put(b, pos, color).numNeighbours[color][pos] = 0 THEN NewBlock(Lost(b, pos, color), pos)
  ELSE JoinBlocks(Lost(b, pos, color), pos, color)

\* ... which lists it.
Settled(b, pos, color) ==
  LET j == Taken(b, pos, color)
  IN  [j EXCEPT !.blocks[j.blockPointers[pos]].stones = Append(@, pos)]

\* AddStone puts the stone, settles it in a block and captures.
LEMMA AddStoneIs ==
  ASSUME NEW b, NEW pos, NEW color
  PROVE  AddStone(b, pos, color) = KillSurroundingDeadBlocks(Settled(b, pos, color), pos)
BY Zenon DEF AddStone, UpdateBlocks, Put, Lost, Taken, Settled

\* The block mine has taken in the blocks ks, or is new.
TakenBy(l, j, pos, mine, ks) ==
  /\ mine \in ks \/ (ks = {} /\ mine = l.blockPointer)
  /\ SamePosition(l, j)
  /\ j.blockPointer = (IF mine \in ks THEN l.blockPointer ELSE l.blockPointer + 1)
  /\ Typed(j)
  /\ \A q \in Positions :
       j.blockPointers[q] = IF q = pos \/ l.blockPointers[q] \in ks THEN mine ELSE l.blockPointers[q]
  /\ \A k \in Blocks \ (ks \cup {mine}) : SameBlock(l, j, k)
  /\ \A k \in ks \ {mine} : Unused(j, k)
  /\ Lists(j.blocks[mine].stones, Group(j, mine) \ {pos})
  /\ j.blocks[mine].anchor \in Group(j, mine)
  /\ j.blocks[mine].liberties = Cardinality(Rules!Liberties(j.stones, Group(j, mine)))

\* The empty list lists nothing.
LEMMA EmptyList == Lists(<<>>, {})
BY DEF Lists, ToSet, IsInjective

\* The stone gets a new block object, or joins the blocks around it.
LEMMA TakenIs ==
  ASSUME NEW b, Coherent(b), NEW pos \in Positions, b.stones[pos] = NONE,
         NEW color \in StoneColors, b.blockPointer \in Blocks
  PROVE  LET l == Lost(b, pos, color)
             ks == Joining(l, pos, color)
         IN  /\ ks \subseteq Blocks
             /\ \E mine \in Blocks : TakenBy(l, Taken(b, pos, color), pos, mine, ks)
<1> DEFINE l == Lost(b, pos, color)
           t == Rules!Placed(b.stones, pos, color)
           ks == Joining(l, pos, color)
<1>1. /\ l.stones = t /\ l.blockPointer = b.blockPointer /\ l.blockPointers = b.blockPointers
      /\ Counted(l) /\ Unjoined(l, pos)
      /\ l.numNeighbours = Put(b, pos, color).numNeighbours
  BY LostIs DEF Lost
<1>2. \A k \in Blocks : k >= b.blockPointer => Group(b, k) = {}
  BY DEF Coherent
<1> HIDE DEF l, t
<1>3. /\ Cardinality(Around(l.stones, pos, BoardColor(color))) = l.numNeighbours[color][pos]
      /\ Cardinality(Around(l.stones, pos, NONE)) = l.numNeighboursEmpty[pos]
  BY <1>1, CountsAre DEF Counted
<1>4. Around(l.stones, pos, BoardColor(color)) \in SUBSET Positions
  BY AdjacentPoints DEF Around
<1>5. Put(b, pos, color).numNeighbours[color][pos] = 0 <=>
        ~ \E n \in Adjacent(pos) : l.stones[n] = BoardColor(color)
  <2>1. Cardinality(Around(l.stones, pos, BoardColor(color))) = 0 <=>
          Around(l.stones, pos, BoardColor(color)) = {}
    BY <1>4, PointsOfBoard, FS_EmptySet
  <2> QED BY <1>1, <1>3, <2>1 DEF Around
<1>6. CASE \E n \in Adjacent(pos) : l.stones[n] = BoardColor(color)
  <2> DEFINE j == JoinBlocks(l, pos, color)
             mine == l.blockPointers[FirstFriend(l, pos, color)]
  <2>1. Taken(b, pos, color) = j
    BY <1>5, <1>6 DEF Taken, l
  <2>2. mine \in Blocks /\ mine \in ks /\ ks \subseteq Blocks /\ JoinedTo(l, j, pos, mine, ks)
    BY <1>1, <1>6, JoinBlocksIs
  <2> HIDE DEF j, mine, ks
  <2>3. j.stones = l.stones
    BY <2>2 DEF JoinedTo, SamePosition
  <2>4. TakenBy(l, j, pos, mine, ks)
    <3>1. Describes(j, mine, Group(j, mine) \ {pos}, Group(j, mine))
      BY <2>2 DEF JoinedTo
    <3>2. /\ Lists(j.blocks[mine].stones, Group(j, mine) \ {pos})
          /\ j.blocks[mine].anchor \in Group(j, mine)
          /\ j.blocks[mine].liberties = Cardinality(Rules!Liberties(j.stones, Group(j, mine)))
      BY <3>1 DEF Describes
    <3>3. /\ SamePosition(l, j) /\ j.blockPointer = l.blockPointer /\ Typed(j)
          /\ \A q \in Positions : j.blockPointers[q] =
               IF q = pos \/ l.blockPointers[q] \in ks THEN mine ELSE l.blockPointers[q]
          /\ \A k \in Blocks \ ks : SameBlock(l, j, k)
          /\ \A k \in ks \ {mine} : Unused(j, k)
      BY <2>2 DEF JoinedTo
    <3>4. \A k \in Blocks \ (ks \cup {mine}) : SameBlock(l, j, k)
      BY <3>3
    <3>5. j.blockPointer = (IF mine \in ks THEN l.blockPointer ELSE l.blockPointer + 1)
      BY <2>2, <3>3
    <3>6. mine \in ks
      BY <2>2
    <3> QED BY <3>2, <3>3, <3>4, <3>5, <3>6, Zenon DEF TakenBy
  <2> QED BY <2>1, <2>2, <2>4 DEF l, ks
<1>7. CASE ~ \E n \in Adjacent(pos) : l.stones[n] = BoardColor(color)
  <2> DEFINE j == NewBlock(l, pos)
             k0 == l.blockPointer
  <2>1. Taken(b, pos, color) = j
    BY <1>5, <1>7 DEF Taken, l
  <2>2. ks = {}
    BY <1>7 DEF Joining
  <2>3. /\ SamePosition(l, j) /\ j.blockPointer = k0 + 1
        /\ Typed(j)
        /\ \A q \in Positions : j.blockPointers[q] = IF q = pos THEN k0 ELSE l.blockPointers[q]
        /\ \A k \in Blocks \ {k0} : SameBlock(l, j, k)
        /\ j.blocks[k0].anchor = pos
        /\ j.blocks[k0].liberties = l.numNeighboursEmpty[pos]
        /\ j.blocks[k0].stones = <<>>
    BY <1>1, NewBlockIs DEF Unjoined
  <2> HIDE DEF j, ks
  <2>4. Group(j, k0) = {pos}
    <3>1. Group(b, k0) = {}
      BY <1>1, <1>2 DEF Blocks
    <3> QED BY <1>1, <2>3, <3>1 DEF Group
  <2>5. Rules!Liberties(j.stones, {pos}) = Around(l.stones, pos, NONE)
    <3>1. j.stones = l.stones
      BY <2>3 DEF SamePosition
    <3>2. \A q \in Positions : pos \in Adjacent(q) <=> q \in Adjacent(pos)
      BY AdjacentPoints
    <3> QED BY <3>1, <3>2, LibertiesAre, AdjacentPoints DEF Around
  <2>6. Group(j, k0) \ {pos} = {}
    BY <2>4
  <2>7. TakenBy(l, j, pos, k0, ks)
    BY <1>3, <2>2, <2>3, <2>4, <2>5, <2>6, EmptyList DEF TakenBy
  <2> QED BY <1>1, <2>1, <2>2, <2>7 DEF l, ks
<1> QED BY <1>6, <1>7

\* Before the captures the bookkeeping agrees with the position the rules place
\* the stone in.
LEMMA SettledIs ==
  ASSUME NEW b, Coherent(b), NEW pos \in Positions, b.stones[pos] = NONE,
         NEW color \in StoneColors, b.blockPointer \in Blocks
  PROVE  LET c == Settled(b, pos, color)
         IN  /\ c.stones = Rules!Placed(b.stones, pos, color)
             /\ SameRest(b, c)
             /\ c.blockPointer \in {b.blockPointer, b.blockPointer + 1}
             /\ Coherent(c)
<1> DEFINE l == Lost(b, pos, color)
           t == Rules!Placed(b.stones, pos, color)
           ks == Joining(l, pos, color)
           j == Taken(b, pos, color)
<1>1. /\ l.stones = t /\ SameRest(b, l) /\ l.blockPointer = b.blockPointer
      /\ l.blockPointers = b.blockPointers
      /\ Counted(l) /\ Unjoined(l, pos)
  BY LostIs DEF Lost
<1>2. PICK mine \in Blocks : TakenBy(l, j, pos, mine, ks)
  BY TakenIs
<1>3. ks \subseteq Blocks
  BY TakenIs
<1> DEFINE c == [j EXCEPT !.blocks[mine].stones = Append(@, pos)]
<1>4. /\ b.stones \in [Positions -> BoardColors]
      /\ b.blockPointers \in [Positions -> Blocks \cup {NoBlock}]
      /\ \A q \in Positions : b.blockPointers[q] = NoBlock <=> b.stones[q] = NONE
      /\ \A q \in Positions :
           b.stones[q] # NONE => Group(b, b.blockPointers[q]) = Rules!Block(b.stones, q)
      /\ \A k \in Blocks : k >= b.blockPointer => Group(b, k) = {}
      /\ b.blockPointer \in Nat
      /\ b.bw_prisoners \in [StoneColors -> Nat]
  BY DEF Coherent, Typed, Linked
<1>5. /\ t \in [Positions -> BoardColors]
      /\ t[pos] = BoardColor(color) /\ t[pos] # NONE
      /\ \A q \in Positions \ {pos} : t[q] = b.stones[q]
  BY <1>4, PlacedDiffers, TwoColors DEF Differ
<1>6. ks = {b.blockPointers[n] : n \in {m \in Adjacent(pos) : b.stones[m] = BoardColor(color)}}
  <2>1. \A m \in Adjacent(pos) : m \in Positions \ {pos}
    BY AdjacentPoints
  <2> QED BY <1>1, <1>5, <2>1 DEF Joining
<1> HIDE DEF l, t, ks, j
<1>7. /\ mine \in ks \/ (ks = {} /\ mine = b.blockPointer)
      /\ SamePosition(l, j)
      /\ j.blockPointer = (IF mine \in ks THEN b.blockPointer ELSE b.blockPointer + 1)
      /\ Typed(j)
      /\ \A q \in Positions :
           j.blockPointers[q] = IF q = pos \/ b.blockPointers[q] \in ks THEN mine
                                ELSE b.blockPointers[q]
      /\ \A k \in Blocks \ (ks \cup {mine}) : SameBlock(l, j, k)
      /\ \A k \in ks \ {mine} : Unused(j, k)
      /\ Lists(j.blocks[mine].stones, Group(j, mine) \ {pos})
      /\ j.blocks[mine].anchor \in Group(j, mine)
      /\ j.blocks[mine].liberties = Cardinality(Rules!Liberties(j.stones, Group(j, mine)))
  BY <1>1, <1>2 DEF TakenBy
<1>8. Settled(b, pos, color) = c
  BY <1>7 DEF Settled, j
<1>9. /\ SamePosition(j, c) /\ c.blockPointer = j.blockPointer
      /\ c.blockPointers = j.blockPointers /\ Typed(c)
      /\ \A k \in Blocks \ {mine} : SameBlock(j, c, k)
      /\ c.blocks[mine].anchor = j.blocks[mine].anchor
      /\ c.blocks[mine].liberties = j.blocks[mine].liberties
      /\ c.blocks[mine].stones = Append(j.blocks[mine].stones, pos)
  <2>1. SamePosition(j, c) /\ c.blockPointer = j.blockPointer /\ c.blockPointers = j.blockPointers
    BY DEF SamePosition
  <2>2. Typed(c)
    BY <1>7 DEF Typed
  <2>3. /\ \A k \in Blocks \ {mine} : SameBlock(j, c, k)
        /\ c.blocks[mine].anchor = j.blocks[mine].anchor
        /\ c.blocks[mine].liberties = j.blocks[mine].liberties
        /\ c.blocks[mine].stones = Append(j.blocks[mine].stones, pos)
    BY <1>7 DEF Typed, SameBlock
  <2> QED BY <2>1, <2>2, <2>3
<1> HIDE DEF c
<1>10. /\ c.stones = t /\ j.stones = t /\ SameRest(b, c) /\ Counted(c)
       /\ c.blockPointer \in {b.blockPointer, b.blockPointer + 1}
       /\ c.blockPointer \in Nat
  <2>1. c.stones = t /\ j.stones = t /\ SameRest(b, c)
    BY <1>1, <1>7, <1>9 DEF SamePosition, SameRest
  <2>2. c.numNeighbours = l.numNeighbours /\ c.numNeighboursEmpty = l.numNeighboursEmpty
    BY <1>7, <1>9 DEF SamePosition
  <2>3. Counted(c)
    <3>1. Counted(l) /\ c.stones = l.stones
      BY <1>1, <2>1
    <3> QED BY <2>2, <3>1, CountsAre DEF Counted
  <2> QED BY <1>4, <1>7, <1>9, <2>1, <2>3
<1>11. \A k : Group(c, k) = Group(j, k)
  BY <1>9 DEF Group
<1>12. \A q \in Positions : b.stones[q] = BoardColor(color) =>
         b.blockPointers[q] \in Blocks /\ Group(b, b.blockPointers[q]) = Rules!Block(b.stones, q)
  BY <1>4, TwoColors
<1>13. /\ b.blockPointers[pos] = NoBlock /\ NoBlock \notin ks
       /\ \A q \in Positions : b.blockPointers[q] = mine => b.blockPointers[q] \in ks
  <2>1. mine \notin ks => Group(b, mine) = {}
    BY <1>4, <1>7 DEF Blocks
  <2> QED BY <1>3, <1>4, <2>1, PointsOfBoard DEF Group
<1>14. /\ \A q \in Positions : q \in Group(c, mine) <=> q = pos \/ b.blockPointers[q] \in ks
       /\ \A k \in ks \ {mine} : Group(c, k) = {}
       /\ \A k \in Blocks \ (ks \cup {mine}) : Group(c, k) = Group(b, k)
  <2>1. \A k : \A q \in Positions : q \in Group(c, k) <=> j.blockPointers[q] = k
    BY <1>11 DEF Group
  <2>2. \A k : \A q \in Positions : q \in Group(b, k) <=> b.blockPointers[q] = k
    BY DEF Group
  <2>3. \A k : Group(c, k) \subseteq Positions /\ Group(b, k) \subseteq Positions
    BY DEF Group
  <2>4. \A q \in Positions : q \in Group(c, mine) <=> q = pos \/ b.blockPointers[q] \in ks
    BY <1>7, <1>13, <2>1
  <2>5. ASSUME NEW k \in ks \ {mine} PROVE Group(c, k) = {}
    BY <1>7, <1>13, <2>1, <2>3
  <2>6. ASSUME NEW k \in Blocks \ (ks \cup {mine}) PROVE Group(c, k) = Group(b, k)
    <3>1. \A q \in Positions : j.blockPointers[q] = k <=> b.blockPointers[q] = k
      BY <1>7, <1>13, PointsOfBoard
    <3>2. \A q \in Positions : q \in Group(c, k) <=> q \in Group(b, k)
      BY <2>1, <2>2, <3>1
    <3> QED BY <2>3, <3>2, Zenon
  <2> QED BY <2>4, <2>5, <2>6
<1>15. Group(c, mine) = Rules!Block(t, pos)
  <2> DEFINE Touched == {n \in Adjacent(pos) : b.stones[n] = BoardColor(color)}
             B == {pos} \cup UNION {Rules!Block(b.stones, n) : n \in Touched}
  <2>1. Rules!Block(t, pos) = B
    BY <1>4, BlockOfPlaced DEF t
  <2>2. \A n \in Touched : n \in Positions
    BY AdjacentPoints
  <2>3. ASSUME NEW q \in Positions
        PROVE  q \in Group(c, mine) <=> q \in B
    <3>1. b.blockPointers[q] \in ks <=> \E n \in Touched : b.blockPointers[n] = b.blockPointers[q]
      BY <1>6
    <3>2. \A n \in Touched : b.blockPointers[n] = b.blockPointers[q] <=> q \in Rules!Block(b.stones, n)
      <4>1. \A n \in Touched : q \in Group(b, b.blockPointers[n]) <=> q \in Rules!Block(b.stones, n)
        BY <1>12, <2>2
      <4> QED BY <4>1 DEF Group
    <3> QED BY <1>14, <3>1, <3>2
  <2>4. B \subseteq Positions /\ Group(c, mine) \subseteq Positions
    BY <2>2, BlockBasics DEF Group
  <2> HIDE DEF B
  <2> QED BY <2>1, <2>3, <2>4
<1>16. Linked(c)
  <2>1. ASSUME NEW q \in Positions PROVE c.blockPointers[q] = NoBlock <=> c.stones[q] = NONE
    <3>1. CASE q = pos \/ b.blockPointers[q] \in ks
      <4>1. c.blockPointers[q] = mine /\ mine # NoBlock
        BY <1>7, <1>9, <3>1, PointsOfBoard
      <4>2. q # pos => b.stones[q] # NONE
        BY <1>4, <1>13, <3>1
      <4> QED BY <1>5, <1>10, <4>1, <4>2
    <3>2. CASE ~ (q = pos \/ b.blockPointers[q] \in ks)
      BY <1>4, <1>5, <1>7, <1>9, <1>10, <3>2
    <3> QED BY <3>1, <3>2
  <2> QED BY <2>1 DEF Linked
<1>17. ASSUME NEW q \in Positions, c.stones[q] # NONE
       PROVE  Group(c, c.blockPointers[q]) = Rules!Block(c.stones, q)
  <2>1. CASE q \in Group(c, mine)
    <3>1. c.blockPointers[q] = mine
      BY <2>1 DEF Group
    <3>2. Rules!Block(t, q) = Rules!Block(t, pos)
      BY <1>15, <2>1, BlockOfMember
    <3> QED BY <1>10, <1>15, <3>1, <3>2
  <2>2. CASE q \notin Group(c, mine)
    <3> DEFINE k == b.blockPointers[q]
    <3>1. q # pos /\ k \notin ks /\ c.blockPointers[q] = k /\ b.stones[q] # NONE
      BY <1>5, <1>7, <1>9, <1>10, <1>14, <1>17, <2>2
    <3>2. k \in Blocks \ (ks \cup {mine})
      BY <1>4, <1>13, <3>1
    <3>3. Group(c, k) = Rules!Block(b.stones, q)
      BY <1>4, <1>14, <3>1, <3>2
    <3>4. Rules!Block(t, q) = Rules!Block(b.stones, q)
      BY <1>4, <1>15, <2>2, <3>1, BlockNotPlaced DEF t
    <3> HIDE DEF k
    <3> QED BY <1>10, <3>1, <3>3, <3>4
  <2> QED BY <2>1, <2>2
<1>18. ASSUME NEW k \in Blocks PROVE BlockExact(c, k)
  <2>1. CASE k = mine
    <3>1. pos \in Group(c, mine)
      BY <1>14
    <3>2. Lists(c.blocks[mine].stones, (Group(c, mine) \ {pos}) \cup {pos})
      BY <1>7, <1>9, <1>11, ListAppend
    <3>3. (Group(c, mine) \ {pos}) \cup {pos} = Group(c, mine)
      BY <3>1
    <3>4. Describes(c, mine, Group(c, mine), Group(c, mine))
      BY <1>7, <1>9, <1>10, <1>11, <3>2, <3>3 DEF Describes
    <3> QED BY <2>1, <3>1, <3>4 DEF BlockExact
  <2>2. CASE k \in ks \ {mine}
    <3>1. Group(c, k) = {} /\ SameBlock(j, c, k) /\ Unused(j, k)
      BY <1>7, <1>9, <1>14, <2>2
    <3> QED BY <3>1 DEF BlockExact, Unused, SameBlock
  <2>3. CASE k \in Blocks \ (ks \cup {mine})
    <3>1. Group(c, k) = Group(l, k) /\ SameBlock(j, c, k) /\ SameBlock(l, j, k)
      BY <1>1, <1>7, <1>9, <1>14, <2>3 DEF Group
    <3>2. SameBlock(l, c, k) /\ c.stones = l.stones /\ BlockExact(l, k)
      BY <1>1, <1>10, <3>1 DEF SameBlock, Unjoined
    <3>3. CASE Group(l, k) = {}
      BY <3>1, <3>2, <3>3 DEF BlockExact, Unused, SameBlock
    <3>4. CASE Group(l, k) # {}
      BY <3>1, <3>2, <3>4 DEF BlockExact, Describes, SameBlock
    <3> QED BY <3>3, <3>4
  <2> QED BY <2>1, <2>2, <2>3
<1>19. ASSUME NEW k \in Blocks, k >= c.blockPointer PROVE Group(c, k) = {}
  <2>1. k >= b.blockPointer /\ Group(b, k) = {}
    BY <1>4, <1>10, <1>19 DEF Blocks
  <2>2. k \notin ks
    <3>1. ASSUME NEW n \in Adjacent(pos), b.blockPointers[n] = k PROVE FALSE
      BY <2>1, <3>1, AdjacentPoints DEF Group
    <3> QED BY <1>6, <3>1
  <2>3. k # mine
    <3>1. CASE mine \in ks
      BY <2>2, <3>1
    <3>2. CASE mine \notin ks
      BY <1>4, <1>7, <1>9, <1>19, <3>2
    <3> QED BY <3>1, <3>2
  <2> QED BY <1>14, <2>1, <2>2, <2>3
<1>20. Coherent(c)
  <2>1. c.bw_prisoners \in [StoneColors -> Nat]
    BY <1>4, <1>10 DEF SameRest
  <2> QED BY <1>9, <1>10, <1>16, <1>17, <1>18, <1>19, <2>1 DEF Coherent
<1> QED BY <1>8, <1>10, <1>20 DEF t

-----------------------------------------------------------------------------
\* Taking stones off.

\* The counters stay right when a stone goes.
LEMMA RemovalCounted ==
  ASSUME NEW b, Typed(b), Counted(b), NEW pos \in Positions, NEW color \in StoneColors,
         b.stones[pos] = BoardColor(color), NEW c, StoneRemoved(b, c, pos, color)
  PROVE  Differ(c.stones, b.stones, pos) /\ Counted(c)
<1>1. /\ b.numNeighbours \in [StoneColors -> [Positions -> Int]]
      /\ b.numNeighboursEmpty \in [Positions -> Int]
      /\ NeighbourCountsExactOn(b)
  BY DEF Counted
<1>2. /\ Typed(c)
      /\ \A q \in Positions :
           /\ c.stones[q] = IF q = pos THEN NONE ELSE b.stones[q]
           /\ c.numNeighboursEmpty[q] =
                IF q \in Adjacent(pos) THEN b.numNeighboursEmpty[q] + 1
                ELSE b.numNeighboursEmpty[q]
           /\ c.numNeighbours[color][q] =
                IF q \in Adjacent(pos) THEN b.numNeighbours[color][q] - 1
                ELSE b.numNeighbours[color][q]
           /\ c.numNeighbours[Opponent(color)][q] = b.numNeighbours[Opponent(color)][q]
      /\ c.numNeighbours \in [StoneColors -> [Positions -> Int]]
      /\ c.numNeighboursEmpty \in [Positions -> Int]
  BY DEF StoneRemoved
<1>3. Differ(c.stones, b.stones, pos)
  <2>1. BoardColor(color) # NONE
    BY TwoColors
  <2> QED BY <1>2, <2>1 DEF Differ, Typed
<1>4. NeighbourCountsExactOn(c)
  <2>1. ASSUME NEW x \in Positions
        PROVE  c.numNeighboursEmpty[x] = Cardinality(Around(c.stones, x, NONE))
    <3>1. Cardinality(Around(c.stones, x, NONE)) =
            Cardinality(Around(b.stones, x, NONE)) + (IF x \in Adjacent(pos) THEN 1 ELSE 0)
      BY <1>3, NeighbourTaken
    <3>2. Cardinality(Around(b.stones, x, NONE)) \in Nat
      BY <1>3, NeighbourTaken
    <3>3. b.numNeighboursEmpty[x] = Cardinality(Around(b.stones, x, NONE))
      BY <1>1, CountsAre
    <3> QED BY <1>2, <3>1, <3>2, <3>3
  <2>2. ASSUME NEW x \in Positions, NEW e \in StoneColors
        PROVE  c.numNeighbours[e][x] = Cardinality(Around(c.stones, x, BoardColor(e)))
    <3>1. BoardColor(e) \in BoardColors \ {NONE}
      BY TwoColors
    <3>2. Cardinality(Around(b.stones, x, BoardColor(e))) =
            Cardinality(Around(c.stones, x, BoardColor(e)))
            + (IF x \in Adjacent(pos) /\ b.stones[pos] = BoardColor(e) THEN 1 ELSE 0)
      BY <1>3, <3>1, NeighbourTaken
    <3>3. Cardinality(Around(c.stones, x, BoardColor(e))) \in Nat
      BY <1>3, NeighbourTaken
    <3>4. b.numNeighbours[e][x] = Cardinality(Around(b.stones, x, BoardColor(e)))
      BY <1>1, CountsAre
    <3>5. CASE e = color
      <4>1. c.numNeighbours[e][x] = IF x \in Adjacent(pos) THEN b.numNeighbours[e][x] - 1
                                    ELSE b.numNeighbours[e][x]
        BY <1>2, <3>5
      <4> QED BY <3>2, <3>3, <3>4, <3>5, <4>1
    <3>6. CASE e # color
      <4>1. e = Opponent(color) /\ b.stones[pos] # BoardColor(e)
        BY <3>6, TwoColors
      <4> QED BY <1>2, <3>2, <3>3, <3>4, <4>1
    <3> QED BY <3>5, <3>6
  <2> QED BY <2>1, <2>2, CountsAre
<1>5. Counted(c)
  <2>1. /\ c.numNeighbours \in [StoneColors -> [Positions -> Int]]
        /\ c.numNeighboursEmpty \in [Positions -> Int]
    BY <1>2
  <2> QED BY <1>4, <2>1, Zenon DEF Counted
<1> QED BY <1>3, <1>5

\* A stone that goes leaves the other blocks and the counters exact.
LEMMA RemoveOneIs ==
  ASSUME NEW b, Typed(b), Linked(b), Counted(b), b.bw_prisoners \in [StoneColors -> Nat],
         NEW pos \in Positions, NEW color \in StoneColors, b.stones[pos] = BoardColor(color)
  PROVE  LET c == RemoveStone(b, pos)
         IN  /\ c.koPoint = b.koPoint /\ c.toPlay = b.toPlay /\ c.moves = b.moves
             /\ c.blockPointer = b.blockPointer
             /\ c.bw_prisoners = [b.bw_prisoners EXCEPT ![Opponent(color)] = @ + 1]
             /\ Typed(c) /\ Linked(c) /\ Counted(c)
             /\ \A q \in Positions :
                  /\ c.stones[q] = IF q = pos THEN NONE ELSE b.stones[q]
                  /\ c.blockPointers[q] = IF q = pos THEN NoBlock ELSE b.blockPointers[q]
             /\ \A k \in Blocks \ {b.blockPointers[pos]} : BlockExact(b, k) => BlockExact(c, k)
<1> DEFINE c == RemoveStone(b, pos)
           ks == RegainLiberty(b, pos)
           l == AddLiberties(b, ks, 1)
<1>1. /\ b.numNeighbours \in [StoneColors -> [Positions -> Int]]
      /\ b.numNeighboursEmpty \in [Positions -> Int]
      /\ NeighbourCountsExactOn(b)
  BY DEF Counted
<1>2. StoneRemoved(b, c, pos, color)
  BY <1>1, RemoveStoneIs
<1>3. /\ c.koPoint = b.koPoint /\ c.toPlay = b.toPlay /\ c.moves = b.moves
      /\ c.blockPointer = b.blockPointer
      /\ Typed(c)
      /\ \A q \in Positions :
           /\ c.stones[q] = IF q = pos THEN NONE ELSE b.stones[q]
           /\ c.blockPointers[q] = IF q = pos THEN NoBlock ELSE b.blockPointers[q]
           /\ c.numNeighboursEmpty[q] =
                IF q \in Adjacent(pos) THEN b.numNeighboursEmpty[q] + 1
                ELSE b.numNeighboursEmpty[q]
           /\ c.numNeighbours[color][q] =
                IF q \in Adjacent(pos) THEN b.numNeighbours[color][q] - 1
                ELSE b.numNeighbours[color][q]
           /\ c.numNeighbours[Opponent(color)][q] = b.numNeighbours[Opponent(color)][q]
      /\ c.numNeighbours \in [StoneColors -> [Positions -> Int]]
      /\ c.numNeighboursEmpty \in [Positions -> Int]
      /\ c.bw_prisoners = [b.bw_prisoners EXCEPT ![Opponent(color)] = @ + 1]
      /\ c.blocks = l.blocks
  <2> HIDE DEF c, ks
  <2> QED BY <1>2 DEF StoneRemoved, ks
<1>4. \A k \in Blocks :
         k \in ks <=> k # b.blockPointers[pos] /\ Adjacent(pos) \cap Group(b, k) # {}
  BY RegainLibertyIs
<1> HIDE DEF ks, c
<1>5. \A k \in Blocks :
           /\ l.blocks[k].anchor = b.blocks[k].anchor
           /\ l.blocks[k].stones = b.blocks[k].stones
           /\ k \in ks => l.blocks[k].liberties = b.blocks[k].liberties + 1
           /\ k \notin ks => l.blocks[k].liberties = b.blocks[k].liberties
  BY AddLibertiesIs
<1> HIDE DEF l
<1>6. Linked(c)
  BY <1>3 DEF Linked
<1>7. Differ(c.stones, b.stones, pos)
  BY <1>2, RemovalCounted
<1>8. Counted(c)
  BY <1>2, RemovalCounted
<1>9. ASSUME NEW k \in Blocks \ {b.blockPointers[pos]}, BlockExact(b, k)
      PROVE  BlockExact(c, k)
  <2> DEFINE G == Group(b, k)
  <2>1. Group(c, k) = G /\ G \in SUBSET Positions
    <3>1. k # NoBlock /\ k # b.blockPointers[pos]
      BY PointsOfBoard
    <3>2. \A q \in Positions : c.blockPointers[q] = IF q = pos THEN NoBlock ELSE b.blockPointers[q]
      BY <1>3
    <3> QED BY <3>1, <3>2 DEF Group
  <2>2. k \in ks <=> Adjacent(pos) \cap G # {}
    BY <1>4
  <2>3. CASE G = {}
    <3>1. Unused(b, k)
      BY <1>9, <2>3 DEF BlockExact
    <3>2. Unused(c, k)
      BY <1>3, <1>5, <2>2, <2>3, <3>1 DEF Unused
    <3> QED BY <2>1, <2>3, <3>2 DEF BlockExact
  <2>4. CASE G # {}
    <3>1. Describes(b, k, G, G)
      BY <1>9, <2>4 DEF BlockExact
    <3> HIDE DEF G
    <3>2. Cardinality(Rules!Liberties(c.stones, G)) =
            Cardinality(Rules!Liberties(b.stones, G)) + (IF Adjacent(pos) \cap G # {} THEN 1 ELSE 0)
      BY <1>7, <2>1, LibertyTaken
    <3>3. Cardinality(Rules!Liberties(b.stones, G)) \in Nat
      <4>1. Rules!Liberties(b.stones, G) \in SUBSET Positions
        BY LibertiesAre
      <4> QED BY <4>1, PointsOfBoard
    <3>4. c.blocks[k].liberties = Cardinality(Rules!Liberties(c.stones, G))
      <4>1. b.blocks[k].liberties = Cardinality(Rules!Liberties(b.stones, G))
        BY <3>1 DEF Describes
      <4>2. CASE k \in ks
        BY <1>3, <1>5, <2>2, <3>2, <3>3, <4>1, <4>2
      <4>3. CASE k \notin ks
        BY <1>3, <1>5, <2>2, <3>2, <3>3, <4>1, <4>3
      <4> QED BY <4>2, <4>3
    <3>5. Describes(c, k, G, G)
      BY <1>3, <1>5, <3>1, <3>4 DEF Describes
    <3> QED BY <2>1, <2>4, <3>5 DEF BlockExact
  <2> QED BY <2>3, <2>4
<1> QED BY <1>3, <1>6, <1>8, <1>9 DEF c

\* x: the block of the stones that go and their colour.
ClearOp(b, x, pos) == RemoveStone(b, pos)

\* After the first i stones of the block are gone, all but the block's own object
\* is exact.
Cleared(x, base, seq, i, c) ==
  LET F == FirstOf(seq, i)
  IN  /\ c.koPoint = base.koPoint /\ c.toPlay = base.toPlay /\ c.moves = base.moves
      /\ c.blockPointer = base.blockPointer
      /\ c.bw_prisoners = [base.bw_prisoners EXCEPT ![Opponent(x.color)] = @ + i]
      /\ Typed(c) /\ Linked(c) /\ Counted(c)
      /\ \A q \in Positions :
           /\ c.stones[q] = IF q \in F THEN NONE ELSE base.stones[q]
           /\ c.blockPointers[q] = IF q \in F THEN NoBlock ELSE base.blockPointers[q]
      /\ \A k \in Blocks \ {x.k} : BlockExact(c, k)

Clear == INSTANCE FoldTheorems WITH Op <- ClearOp, Holds <- Cleared

\* RemoveStones is that fold.
LEMMA ClearLoop ==
  ASSUME NEW b, NEW k, NEW x
  PROVE  RemoveStones(b, k) = Clear!Folded(x, b, b.blocks[k].stones)
BY Zenon DEF RemoveStones, Clear!Folded, ClearOp, FoldLeft, MapThenFoldSet, Max,
             Clear!FoldLeft, Clear!MapThenFoldSet, Clear!Max

\* One more stone removed: the counters of every other block stay exact.
LEMMA ClearStep ==
  ASSUME NEW b, NEW seq, NEW G, Lists(seq, G), NEW x, x.color \in StoneColors,
         b.bw_prisoners \in [StoneColors -> Nat],
         \A q \in G : b.stones[q] = BoardColor(x.color) /\ b.blockPointers[q] = x.k,
         NEW i \in 1..Len(seq), NEW c, Cleared(x, b, seq, i - 1, c)
  PROVE  Cleared(x, b, seq, i, RemoveStone(c, seq[i]))
<1> DEFINE E == FirstOf(seq, i - 1)
           F == FirstOf(seq, i)
           pos == seq[i]
           color == x.color
           d == RemoveStone(c, pos)
<1>1. /\ F = E \cup {pos} /\ pos \notin E /\ F \subseteq G /\ E \subseteq G
      /\ pos \in G /\ pos \in Positions /\ Len(seq) \in Nat
  BY FirstOfIs
<1> HIDE DEF E, F, pos
<1>2. /\ c.koPoint = b.koPoint /\ c.toPlay = b.toPlay /\ c.moves = b.moves
      /\ c.blockPointer = b.blockPointer
      /\ c.bw_prisoners = [b.bw_prisoners EXCEPT ![Opponent(color)] = @ + (i - 1)]
      /\ Typed(c) /\ Linked(c) /\ Counted(c)
      /\ \A q \in Positions :
           /\ c.stones[q] = IF q \in E THEN NONE ELSE b.stones[q]
           /\ c.blockPointers[q] = IF q \in E THEN NoBlock ELSE b.blockPointers[q]
      /\ \A k \in Blocks \ {x.k} : BlockExact(c, k)
  BY DEF Cleared, E
<1>3. c.stones[pos] = BoardColor(color) /\ c.blockPointers[pos] = x.k
  BY <1>1, <1>2
<1>4. Opponent(color) \in StoneColors /\ i \in Nat /\ i - 1 \in Nat
  BY <1>1, TwoColors
<1>5. c.bw_prisoners \in [StoneColors -> Nat]
  BY <1>2, <1>4
<1> HIDE DEF d, color
<1>6. /\ d.koPoint = c.koPoint /\ d.toPlay = c.toPlay /\ d.moves = c.moves
      /\ d.blockPointer = c.blockPointer
      /\ d.bw_prisoners = [c.bw_prisoners EXCEPT ![Opponent(color)] = @ + 1]
      /\ Typed(d) /\ Linked(d) /\ Counted(d)
      /\ \A q \in Positions :
           /\ d.stones[q] = IF q = pos THEN NONE ELSE c.stones[q]
           /\ d.blockPointers[q] = IF q = pos THEN NoBlock ELSE c.blockPointers[q]
      /\ \A k \in Blocks \ {x.k} : BlockExact(c, k) => BlockExact(d, k)
  <2>1. color \in StoneColors
    BY DEF color
  <2> QED BY <1>1, <1>2, <1>3, <1>5, <2>1, RemoveOneIs DEF d
<1>7. d.bw_prisoners = [b.bw_prisoners EXCEPT ![Opponent(color)] = @ + i]
  <2>1. b.bw_prisoners[Opponent(color)] \in Nat
    BY <1>4
  <2>2. (b.bw_prisoners[Opponent(color)] + (i - 1)) + 1 = b.bw_prisoners[Opponent(color)] + i
    BY <1>4, <2>1
  <2> QED BY <1>2, <1>4, <1>6, <2>2
<1>8. \A q \in Positions :
         /\ d.stones[q] = IF q \in F THEN NONE ELSE b.stones[q]
         /\ d.blockPointers[q] = IF q \in F THEN NoBlock ELSE b.blockPointers[q]
  BY <1>1, <1>2, <1>6
<1>9. \A k \in Blocks \ {x.k} : BlockExact(d, k)
  BY <1>2, <1>6
<1>10. Cleared(x, b, seq, i, d)
  BY <1>2, <1>6, <1>7, <1>8, <1>9 DEF Cleared, F, color
<1> QED BY <1>10 DEF d, pos

-----------------------------------------------------------------------------
\* Capturing a block.

\* Nothing of this looks at the ko point.
LEMMA KoPointFree ==
  ASSUME NEW b, Coherent(b), NEW v
  PROVE  LET c == [b EXCEPT !.koPoint = v]
         IN  /\ Coherent(c)
             /\ c.stones = b.stones /\ c.blockPointers = b.blockPointers /\ c.blocks = b.blocks
             /\ c.toPlay = b.toPlay /\ c.moves = b.moves /\ c.blockPointer = b.blockPointer
             /\ c.bw_prisoners = b.bw_prisoners
<1> DEFINE c == [b EXCEPT !.koPoint = v]
<1>1. /\ c.stones = b.stones /\ c.blockPointers = b.blockPointers /\ c.blocks = b.blocks
      /\ c.toPlay = b.toPlay /\ c.moves = b.moves /\ c.blockPointer = b.blockPointer
      /\ c.bw_prisoners = b.bw_prisoners /\ c.numNeighbours = b.numNeighbours
      /\ c.numNeighboursEmpty = b.numNeighboursEmpty
  OBVIOUS
<1> HIDE DEF c
<1>2. Typed(c) /\ Linked(c)
  BY <1>1 DEF Coherent, Typed, Linked
<1>3. Counted(c)
  <2>1. Counted(b)
    BY DEF Coherent
  <2> QED BY <1>1, <2>1, CountsAre DEF Counted
<1>4. \A k : Group(c, k) = Group(b, k)
  BY <1>1 DEF Group
<1>5. \A k : BlockExact(b, k) => BlockExact(c, k)
  BY <1>1, <1>4 DEF BlockExact, Unused, Describes
<1>6. Coherent(c)
  BY <1>1, <1>2, <1>3, <1>4, <1>5 DEF Coherent
<1> QED BY <1>1, <1>6 DEF c

\* RemoveStones takes a whole group off the board.
LEMMA RemoveStonesIs ==
  ASSUME NEW b, Coherent(b), NEW n \in Positions, NEW color \in StoneColors,
         b.stones[n] = BoardColor(color)
  PROVE  LET k == b.blockPointers[n]
             c == RemoveStones(b, k)
             D == Rules!Block(b.stones, n)
         IN  /\ k \in Blocks /\ Group(b, k) = D /\ Len(b.blocks[k].stones) = Cardinality(D)
             /\ c.koPoint = b.koPoint /\ c.toPlay = b.toPlay /\ c.moves = b.moves
             /\ c.blockPointer = b.blockPointer
             /\ c.bw_prisoners = [b.bw_prisoners EXCEPT ![Opponent(color)] = @ + Cardinality(D)]
             /\ Typed(c) /\ Linked(c) /\ Counted(c)
             /\ \A q \in Positions :
                  /\ c.stones[q] = IF q \in D THEN NONE ELSE b.stones[q]
                  /\ c.blockPointers[q] = IF q \in D THEN NoBlock ELSE b.blockPointers[q]
             /\ \A j \in Blocks \ {k} : BlockExact(c, j)
<1> DEFINE k == b.blockPointers[n]
           D == Rules!Block(b.stones, n)
           seq == b.blocks[k].stones
<1>0. PICK x : x = [k |-> k, color |-> color]
  OBVIOUS
<1>1. x.k = k /\ x.color = color
  BY <1>0
<1>2. /\ Typed(b) /\ Linked(b) /\ Counted(b) /\ b.bw_prisoners \in [StoneColors -> Nat]
      /\ \A j \in Blocks : BlockExact(b, j)
      /\ b.stones[n] # NONE => Group(b, b.blockPointers[n]) = Rules!Block(b.stones, n)
  BY DEF Coherent
<1>3. k \in Blocks /\ Group(b, k) = D
  BY <1>2, TwoColors DEF Typed, Linked
<1>4. /\ \A q \in D : b.stones[q] = BoardColor(x.color) /\ b.blockPointers[q] = x.k
      /\ n \in D
  <2>1. n \in D /\ \A q \in D : b.stones[q] = b.stones[n]
    BY BlockBasics
  <2>2. \A q \in Group(b, k) : b.blockPointers[q] = k
    BY DEF Group
  <2> QED BY <1>1, <1>3, <2>1, <2>2
<1> HIDE DEF k
<1>5. Lists(seq, D)
  <2>1. Describes(b, k, D, D)
    BY <1>2, <1>3, <1>4 DEF BlockExact
  <2> QED BY <2>1 DEF Describes
<1> HIDE DEF D
<1> DEFINE c == Clear!Folded(x, b, seq)
<1>6. RemoveStones(b, k) = c
  BY ClearLoop
<1> HIDE DEF seq
<1>7. Cleared(x, b, seq, 0, b)
  <2>1. FirstOf(seq, 0) = {}
    BY <1>5, FirstOfIs
  <2>2. b.bw_prisoners = [b.bw_prisoners EXCEPT ![Opponent(x.color)] = @ + 0]
    BY <1>1, <1>2, TwoColors
  <2> QED BY <1>2, <2>1, <2>2 DEF Cleared
<1>8. ASSUME NEW i \in 1..Len(seq), NEW a, Cleared(x, b, seq, i - 1, a)
      PROVE  Cleared(x, b, seq, i, ClearOp(a, x, seq[i]))
  <2>1. x.color \in StoneColors
    BY <1>1
  <2> QED BY <1>2, <1>4, <1>5, <1>8, <2>1, ClearStep DEF ClearOp
<1>9. Cleared(x, b, seq, Len(seq), c)
  <2>1. seq \in Seq(Positions)
    BY <1>5 DEF Lists
  <2> HIDE DEF ClearOp, Cleared
  <2> QED BY <1>7, <1>8, <2>1, Clear!FoldInvariant
<1> HIDE DEF c
<1>10. FirstOf(seq, Len(seq)) = D /\ Len(seq) = Cardinality(D)
  BY <1>5, FirstOfIs, ListLength
<1>11. /\ c.koPoint = b.koPoint /\ c.toPlay = b.toPlay /\ c.moves = b.moves
       /\ c.blockPointer = b.blockPointer
       /\ c.bw_prisoners = [b.bw_prisoners EXCEPT ![Opponent(color)] = @ + Cardinality(D)]
       /\ Typed(c) /\ Linked(c) /\ Counted(c)
       /\ \A q \in Positions :
            /\ c.stones[q] = IF q \in D THEN NONE ELSE b.stones[q]
            /\ c.blockPointers[q] = IF q \in D THEN NoBlock ELSE b.blockPointers[q]
       /\ \A j \in Blocks \ {k} : BlockExact(c, j)
  BY <1>1, <1>9, <1>10 DEF Cleared
<1> QED BY <1>3, <1>6, <1>10, <1>11 DEF k, D, seq

\* The bookkeeping agrees again when the object of a captured block is reset.
LEMMA ClearedIs ==
  ASSUME NEW b, Coherent(b), NEW n \in Positions, NEW color \in StoneColors,
         b.stones[n] = BoardColor(color)
  PROVE  LET k == b.blockPointers[n]
             c == [RemoveStones(b, k) EXCEPT !.blocks[k] = ResetBlock]
             D == Rules!Block(b.stones, n)
         IN  /\ c.stones = Rules!Removed(b.stones, D)
             /\ Coherent(c)
             /\ c.koPoint = b.koPoint /\ c.toPlay = b.toPlay /\ c.moves = b.moves
             /\ c.blockPointer = b.blockPointer
             /\ c.bw_prisoners = [b.bw_prisoners EXCEPT ![Opponent(color)] = @ + Cardinality(D)]
<1> DEFINE k == b.blockPointers[n]
           r == RemoveStones(b, k)
           c == [r EXCEPT !.blocks[k] = ResetBlock]
           D == Rules!Block(b.stones, n)
<1>1. /\ k \in Blocks /\ Group(b, k) = D
      /\ r.koPoint = b.koPoint /\ r.toPlay = b.toPlay /\ r.moves = b.moves
      /\ r.blockPointer = b.blockPointer
      /\ r.bw_prisoners = [b.bw_prisoners EXCEPT ![Opponent(color)] = @ + Cardinality(D)]
      /\ Typed(r) /\ Linked(r) /\ Counted(r)
      /\ \A q \in Positions :
           /\ r.stones[q] = IF q \in D THEN NONE ELSE b.stones[q]
           /\ r.blockPointers[q] = IF q \in D THEN NoBlock ELSE b.blockPointers[q]
      /\ \A j \in Blocks \ {k} : BlockExact(r, j)
  BY RemoveStonesIs
<1>2. /\ Typed(b) /\ b.bw_prisoners \in [StoneColors -> Nat]
      /\ \A q \in Positions :
           b.stones[q] # NONE => Group(b, b.blockPointers[q]) = Rules!Block(b.stones, q)
      /\ \A j \in Blocks : j >= b.blockPointer => Group(b, j) = {}
      /\ b.blockPointer \in Nat
      /\ Linked(b)
  BY DEF Coherent
<1>3. /\ n \in D /\ D \in SUBSET Positions
      /\ \A q \in D : \A m \in Adjacent(q) : b.stones[m] = b.stones[q] => m \in D
  BY BlockBasics, BlockClosed
<1> HIDE DEF D, k, r
<1>4. /\ c.koPoint = r.koPoint /\ c.toPlay = r.toPlay /\ c.moves = r.moves
      /\ c.blockPointer = r.blockPointer /\ c.bw_prisoners = r.bw_prisoners
      /\ c.stones = r.stones /\ c.blockPointers = r.blockPointers
      /\ c.numNeighbours = r.numNeighbours /\ c.numNeighboursEmpty = r.numNeighboursEmpty
  OBVIOUS
<1>5. /\ DOMAIN c.blocks = Blocks /\ Unused(c, k)
      /\ \A j \in Blocks \ {k} : SameBlock(r, c, j)
  BY <1>1 DEF Typed, Unused, ResetBlock, SameBlock
<1> HIDE DEF c
<1>6. Typed(c) /\ Linked(c) /\ Counted(c)
  <2>1. Typed(c)
    BY <1>1, <1>4, <1>5 DEF Typed
  <2>2. Linked(c)
    BY <1>1, <1>4 DEF Linked
  <2>3. Counted(c)
    BY <1>1, <1>4, CountsAre DEF Counted
  <2> QED BY <2>1, <2>2, <2>3
<1>7. c.stones = Rules!Removed(b.stones, D)
  <2>1. b.stones \in [Positions -> BoardColors] /\ c.stones \in [Positions -> BoardColors]
    BY <1>2, <1>6 DEF Typed
  <2>2. /\ Rules!Removed(b.stones, D) \in [Positions -> BoardColors]
        /\ \A q \in Positions : Rules!Removed(b.stones, D)[q] = c.stones[q]
    BY <1>1, <1>4, <2>1, RemovedIs
  <2> QED BY <2>1, <2>2
<1>8. /\ Group(c, k) = {}
      /\ \A j \in Blocks \ {k} : Group(c, j) = Group(r, j) /\ Group(c, j) = Group(b, j)
  <2>1. \A q \in Positions : c.blockPointers[q] = IF q \in D THEN NoBlock ELSE b.blockPointers[q]
    BY <1>1, <1>4
  <2>2. \A q \in Positions : q \in D <=> b.blockPointers[q] = k
    BY <1>1 DEF Group
  <2>3. \A j \in Blocks : j # NoBlock
    BY PointsOfBoard
  <2>4. Group(c, k) = {}
    BY <1>1, <2>1, <2>2, <2>3 DEF Group
  <2>5. \A j \in Blocks \ {k} : Group(c, j) = Group(b, j)
    BY <2>1, <2>2, <2>3 DEF Group
  <2>6. \A j : Group(c, j) = Group(r, j)
    BY <1>4 DEF Group
  <2> QED BY <2>4, <2>5, <2>6
<1>9. ASSUME NEW j \in Blocks PROVE BlockExact(c, j)
  <2>1. CASE j = k
    BY <1>5, <1>8, <2>1 DEF BlockExact
  <2>2. CASE j # k
    <3>1. BlockExact(r, j) /\ SameBlock(r, c, j) /\ Group(c, j) = Group(r, j) /\ c.stones = r.stones
      BY <1>1, <1>4, <1>5, <1>8, <2>2
    <3>2. CASE Group(r, j) = {}
      BY <3>1, <3>2 DEF BlockExact, SameBlock, Unused
    <3>3. CASE Group(r, j) # {}
      BY <3>1, <3>3 DEF BlockExact, SameBlock, Describes
    <3> QED BY <3>2, <3>3
  <2> QED BY <2>1, <2>2
<1>10. ASSUME NEW q \in Positions, c.stones[q] # NONE
       PROVE  Group(c, c.blockPointers[q]) = Rules!Block(c.stones, q)
  <2>1. q \notin D /\ b.stones[q] # NONE /\ c.blockPointers[q] = b.blockPointers[q]
    BY <1>1, <1>4, <1>10
  <2>2. b.blockPointers[q] \in Blocks \ {k}
    <3>1. b.blockPointers[q] # k
      BY <1>1, <2>1 DEF Group
    <3> QED BY <1>2, <2>1, <3>1 DEF Typed, Linked
  <2>3. Group(c, b.blockPointers[q]) = Rules!Block(b.stones, q)
    BY <1>2, <1>8, <2>1, <2>2
  <2>4. Rules!Block(Rules!Removed(b.stones, D), q) = Rules!Block(b.stones, q)
    <3>1. b.stones \in [Positions -> BoardColors]
      BY <1>2 DEF Typed
    <3> QED BY <1>3, <2>1, <3>1, BlockNotRemoved
  <2> QED BY <1>7, <2>1, <2>3, <2>4
<1>11. ASSUME NEW j \in Blocks, j >= c.blockPointer PROVE Group(c, j) = {}
  BY <1>1, <1>2, <1>4, <1>8, <1>11
<1>12. c.bw_prisoners = [b.bw_prisoners EXCEPT ![Opponent(color)] = @ + Cardinality(D)]
  BY <1>1, <1>4
<1>13. c.bw_prisoners \in [StoneColors -> Nat]
  <2>1. Cardinality(D) \in Nat /\ Opponent(color) \in StoneColors
    BY <1>3, PointsOfBoard, TwoColors
  <2> QED BY <1>2, <1>12, <2>1
<1>14. Coherent(c)
  BY <1>1, <1>2, <1>4, <1>6, <1>9, <1>10, <1>11, <1>13 DEF Coherent
<1> QED BY <1>1, <1>4, <1>7, <1>12, <1>14 DEF c, r, k, D

\* One block is captured, a single stone marks the ko point or takes it back.
LEMMA KillBlockIs ==
  ASSUME NEW b, Coherent(b), NEW n \in Positions, NEW color \in StoneColors,
         b.stones[n] = BoardColor(color), NEW sk
  PROVE  LET r == KillBlock(b, sk, n)
             c == r.board
             D == Rules!Block(b.stones, n)
         IN  /\ c.stones = Rules!Removed(b.stones, D)
             /\ Coherent(c)
             /\ c.toPlay = b.toPlay /\ c.moves = b.moves /\ c.blockPointer = b.blockPointer
             /\ c.bw_prisoners = [b.bw_prisoners EXCEPT ![Opponent(color)] = @ + Cardinality(D)]
             /\ c.koPoint = IF Cardinality(D) = 1 THEN IF sk THEN NO_KO_POINT ELSE n ELSE b.koPoint
             /\ r.single = (sk \/ Cardinality(D) = 1)
<1> DEFINE k == b.blockPointers[n]
           D == Rules!Block(b.stones, n)
           v == IF sk THEN NO_KO_POINT ELSE n
           single == Len(b.blocks[k].stones) = 1
           marked == IF single THEN [b EXCEPT !.koPoint = v] ELSE b
           c == [RemoveStones(marked, k) EXCEPT !.blocks[k] = ResetBlock]
<1>1. single <=> Cardinality(D) = 1
  <2>1. Len(b.blocks[k].stones) = Cardinality(D)
    <3> HIDE DEF v, marked, c
    <3> QED BY RemoveStonesIs, ZenonT(30)
  <2> QED BY <2>1
<1>2. KillBlock(b, sk, n) = [board |-> c, single |-> sk \/ single]
  BY DEF KillBlock
<1>3. /\ Coherent(marked)
      /\ marked.stones = b.stones /\ marked.blockPointers = b.blockPointers
      /\ marked.toPlay = b.toPlay /\ marked.moves = b.moves
      /\ marked.blockPointer = b.blockPointer /\ marked.bw_prisoners = b.bw_prisoners
      /\ marked.koPoint = IF single THEN v ELSE b.koPoint
  <2>1. CASE single
    <3> DEFINE e == [b EXCEPT !.koPoint = v]
    <3>1. /\ Coherent(e)
          /\ e.stones = b.stones /\ e.blockPointers = b.blockPointers
          /\ e.toPlay = b.toPlay /\ e.moves = b.moves
          /\ e.blockPointer = b.blockPointer /\ e.bw_prisoners = b.bw_prisoners
      BY KoPointFree
    <3>2. e.koPoint = v
      OBVIOUS
    <3>3. marked = e
      BY <2>1
    <3> HIDE DEF e, marked, v, single
    <3> QED BY <2>1, <3>1, <3>2, <3>3
  <2>2. CASE ~ single
    BY <2>2
  <2> QED BY <2>1, <2>2
<1> DEFINE r == [board |-> c, single |-> sk \/ single]
<1>4. r.board = c /\ r.single = (sk \/ single)
  OBVIOUS
<1> HIDE DEF marked
<1>5. /\ c.stones = Rules!Removed(b.stones, D)
      /\ Coherent(c)
      /\ c.koPoint = marked.koPoint /\ c.toPlay = b.toPlay /\ c.moves = b.moves
      /\ c.blockPointer = b.blockPointer
      /\ c.bw_prisoners = [b.bw_prisoners EXCEPT ![Opponent(color)] = @ + Cardinality(D)]
  <2>1. marked.stones[n] = BoardColor(color) /\ marked.blockPointers[n] = k
    BY <1>3
  <2>2. /\ c.stones = Rules!Removed(marked.stones, Rules!Block(marked.stones, n))
        /\ Coherent(c)
        /\ c.koPoint = marked.koPoint /\ c.toPlay = marked.toPlay /\ c.moves = marked.moves
        /\ c.blockPointer = marked.blockPointer
        /\ c.bw_prisoners = [marked.bw_prisoners EXCEPT ![Opponent(color)] =
                                @ + Cardinality(Rules!Block(marked.stones, n))]
    <3> DEFINE e == [RemoveStones(marked, marked.blockPointers[n])
                       EXCEPT !.blocks[marked.blockPointers[n]] = ResetBlock]
    <3>1. c = e
      BY <2>1
    <3>2. /\ e.stones = Rules!Removed(marked.stones, Rules!Block(marked.stones, n))
          /\ Coherent(e)
          /\ e.koPoint = marked.koPoint /\ e.toPlay = marked.toPlay /\ e.moves = marked.moves
          /\ e.blockPointer = marked.blockPointer
          /\ e.bw_prisoners = [marked.bw_prisoners EXCEPT ![Opponent(color)] =
                                @ + Cardinality(Rules!Block(marked.stones, n))]
      BY <1>3, <2>1, ClearedIs, SMTT(20)
    <3> HIDE DEF c, e
    <3> QED BY <3>1, <3>2
  <2> HIDE DEF c
  <2> QED BY <1>3, <2>2
<1> HIDE DEF c, D, single, r
<1>6. KillBlock(b, sk, n) = r
  BY <1>2 DEF r
<1>7. r.board.koPoint = IF Cardinality(D) = 1 THEN IF sk THEN NO_KO_POINT ELSE n ELSE b.koPoint
  BY <1>1, <1>3, <1>4, <1>5
<1>8. r.single = (sk \/ Cardinality(D) = 1)
  BY <1>1, <1>4
<1> QED BY <1>4, <1>5, <1>6, <1>7, <1>8 DEF D

-----------------------------------------------------------------------------
\* Blocks of one colour.

\* A set of blocks of the stones e.
BlocksOf(t, Bs, e) ==
  \A B \in Bs : \E m \in Positions : t[m] = e /\ B = Rules!Block(t, m)

\* They are groups of stones of that colour, and apart from the others.
LEMMA BlocksApart ==
  ASSUME NEW t \in [Positions -> BoardColors], NEW Bs, NEW e \in BoardColors \ {NONE},
         BlocksOf(t, Bs, e)
  PROVE  /\ UNION Bs \in SUBSET Positions
         /\ \A q \in UNION Bs : t[q] = e
         /\ \A q \in UNION Bs : \A r \in Adjacent(q) : t[r] = t[q] => r \in UNION Bs
         /\ \A n \in UNION Bs : Rules!Block(t, n) \in Bs
         /\ \A n \in Positions : t[n] = e /\ n \notin UNION Bs =>
              /\ Rules!Block(t, n) \cap UNION Bs = {}
              /\ \A q \in Rules!Block(t, n) : Adjacent(q) \cap UNION Bs = {}
<1>1. ASSUME NEW B \in Bs, NEW q \in B
      PROVE  /\ q \in Positions /\ t[q] = e /\ Rules!Block(t, q) = B
             /\ \A r \in Adjacent(q) : t[r] = t[q] => r \in B
  <2>1. PICK m \in Positions : t[m] = e /\ B = Rules!Block(t, m)
    BY DEF BlocksOf
  <2> QED BY <2>1, BlockBasics, BlockClosed, BlockOfMember
<1>2. ASSUME NEW n \in Positions, t[n] = e, n \notin UNION Bs,
             NEW q \in Rules!Block(t, n)
      PROVE  q \notin UNION Bs /\ Adjacent(q) \cap UNION Bs = {}
  <2>1. q \in Positions /\ t[q] = e /\ Rules!Block(t, q) = Rules!Block(t, n)
    BY <1>2, BlockBasics, BlockOfMember
  <2>2. n \in Rules!Block(t, n)
    BY BlockBasics
  <2>3. q \notin UNION Bs
    BY <1>1, <1>2, <2>1, <2>2
  <2>4. ASSUME NEW r \in Adjacent(q), NEW B \in Bs, r \in B PROVE FALSE
    <3>1. r \in Positions /\ q \in Adjacent(r) /\ t[r] = e
      BY <1>1, <2>1, <2>4, AdjacentPoints
    <3>2. q \in B
      BY <1>1, <2>1, <2>4, <3>1
    <3> QED BY <2>3, <3>2
  <2> QED BY <2>3, <2>4
<1>3. UNION Bs \in SUBSET Positions /\ \A q \in UNION Bs : t[q] = e
  BY <1>1
<1>4. \A q \in UNION Bs : \A r \in Adjacent(q) : t[r] = t[q] => r \in UNION Bs
  BY <1>1
<1>5. \A n \in UNION Bs : Rules!Block(t, n) \in Bs
  BY <1>1
<1>6. \A n \in Positions : t[n] = e /\ n \notin UNION Bs =>
        /\ Rules!Block(t, n) \cap UNION Bs = {}
        /\ \A q \in Rules!Block(t, n) : Adjacent(q) \cap UNION Bs = {}
  BY <1>2
<1> QED BY <1>3, <1>4, <1>5, <1>6

\* So that taking some of them off gives no liberty to another.
LEMMA LibertiesKept ==
  ASSUME NEW t \in [Positions -> BoardColors], NEW Bs, NEW e \in BoardColors \ {NONE},
         BlocksOf(t, Bs, e), NEW n \in Positions, t[n] = e, n \notin UNION Bs
  PROVE  LET s == Rules!Removed(t, UNION Bs)
         IN  /\ Rules!Block(s, n) = Rules!Block(t, n)
             /\ Rules!Liberties(s, Rules!Block(t, n)) = Rules!Liberties(t, Rules!Block(t, n))
<1> DEFINE D == UNION Bs
           s == Rules!Removed(t, D)
           B == Rules!Block(t, n)
<1>1. /\ D \in SUBSET Positions
      /\ \A q \in D : \A r \in Adjacent(q) : t[r] = t[q] => r \in D
      /\ \A q \in B : Adjacent(q) \cap D = {}
      /\ B \subseteq Positions
  BY BlocksApart, BlockBasics
<1>2. \A q \in Positions : s[q] = IF q \in D THEN NONE ELSE t[q]
  BY RemovedIs
<1>3. Rules!Block(s, n) = B
  <2> HIDE DEF D
  <2> QED BY <1>1, BlockNotRemoved DEF D
<1> HIDE DEF D, s, B
<1>4. \A q \in D : Adjacent(q) \cap B = {}
  <2>1. ASSUME NEW q \in D, NEW r \in Adjacent(q), r \in B PROVE FALSE
    <3>1. q \in Adjacent(r)
      BY <1>1, AdjacentPoints
    <3> QED BY <1>1, <2>1, <3>1
  <2> QED BY <2>1
<1>5. Rules!Liberties(s, B) = Rules!Liberties(t, B)
  BY <1>2, <1>4, LibertiesAre
<1> QED BY <1>3, <1>5 DEF D, s, B

\* The ko point as one more block is captured.
LEMMA KoNext ==
  ASSUME NEW Bs, NEW n \in Positions, NEW B, n \in B, B \in SUBSET Positions, n \notin UNION Bs
  PROVE  LET Sg == Rules!SingleStones(Bs)
             Tg == Rules!SingleStones(Bs \cup {B})
         IN  /\ Tg # {} <=> Sg # {} \/ Cardinality(B) = 1
             /\ Rules!KoAfter(Bs \cup {B}) =
                  IF Cardinality(B) = 1 THEN IF Sg # {} THEN NO_KO_POINT ELSE n
                  ELSE Rules!KoAfter(Bs)
<1> DEFINE Sg == Rules!SingleStones(Bs)
           Tg == Rules!SingleStones(Bs \cup {B})
           Ko(S) == IF \E q \in Positions : S = {q} THEN CHOOSE q \in Positions : S = {q}
                    ELSE NO_KO_POINT
<1>1. Cardinality(B) = 1 <=> B = {n}
  <2>1. Cardinality({n}) = 1
    BY FS_Singleton
  <2>2. ASSUME Cardinality(B) = 1 PROVE B = {n}
    <3>1. IsFiniteSet(B)
      BY PointsOfBoard
    <3>2. \E x : B = {x}
      BY <2>2, <3>1, FS_Singleton
    <3> QED BY <3>2
  <2> QED BY <2>1, <2>2
<1>2. /\ \A Cs : Rules!SingleStones(Cs) = {q \in Positions : {q} \in Cs}
      /\ n \notin Sg
  BY DEF Rules!SingleStones
<1>3. Tg = IF B = {n} THEN Sg \cup {n} ELSE Sg
  BY <1>2
<1> HIDE DEF Sg, Tg
<1>4. Rules!KoAfter(Bs \cup {B}) = Ko(Tg) /\ Rules!KoAfter(Bs) = Ko(Sg)
  BY SameConstants DEF Rules!KoAfter, Sg, Tg
<1>6. CASE B = {n} /\ Sg # {}
  <2>1. ~ \E q \in Positions : Tg = {q}
    BY <1>2, <1>3, <1>6
  <2>2. Tg # {}
    BY <1>3, <1>6
  <2>3. Rules!KoAfter(Bs \cup {B}) = NO_KO_POINT
    BY <1>4, <2>1
  <2>4. Cardinality(B) = 1 /\ Sg # {}
    BY <1>1, <1>6
  <2> QED BY <2>2, <2>3, <2>4 DEF Sg, Tg
<1>7. CASE B = {n} /\ Sg = {}
  <2>1. Tg = {n}
    BY <1>3, <1>7
  <2>2. (CHOOSE q \in Positions : Tg = {q}) = n
    BY <2>1
  <2> QED BY <1>1, <1>3, <1>4, <1>7, <2>1, <2>2 DEF Sg, Tg
<1>8. CASE B # {n}
  <2>1. Tg = Sg
    BY <1>3, <1>8
  <2>2. Rules!KoAfter(Bs \cup {B}) = Rules!KoAfter(Bs)
    <3> HIDE DEF Ko
    <3> QED BY <1>4, <2>1
  <2>3. ~ (Cardinality(B) = 1)
    BY <1>1, <1>8
  <2> QED BY <2>1, <2>2, <2>3 DEF Sg, Tg
<1> QED BY <1>6, <1>7, <1>8

-----------------------------------------------------------------------------
\* Capturing the dead blocks around a stone.

\* The blocks Bs of b have been captured by color.
Captures(b, k, Bs, color) ==
  LET c == k.board
      D == UNION Bs
  IN  /\ c.stones = Rules!Removed(b.stones, D)
      /\ Coherent(c)
      /\ c.toPlay = b.toPlay /\ c.moves = b.moves /\ c.blockPointer = b.blockPointer
      /\ c.bw_prisoners = [b.bw_prisoners EXCEPT ![color] = @ + Cardinality(D)]
      /\ c.koPoint = Rules!KoAfter(Bs)
      /\ k.single <=> Rules!SingleStones(Bs) # {}

\* The dead enemy blocks met in the first i directions.
DeadUpTo(t, pos, color, i) ==
  {Rules!Block(t, Compass(pos)[j]) :
     j \in {m \in 1..i :
              /\ Compass(pos)[m] # OffBoard
              /\ t[Compass(pos)[m]] = BoardColor(Opponent(color))
              /\ Rules!Liberties(t, Rules!Block(t, Compass(pos)[m])) = {}}}

\* A neighbour that KillSurroundingDeadBlocks takes for dead.
KillDead(c, pos, n) ==
  /\ IsRealPoint(n)
  /\ c.stones[n] \notin {NONE, c.stones[pos]}
  /\ c.blockPointers[n] # NoBlock
  /\ LibertiesAt(c, n) = 0

\* x: the board before, the point and the colour of the stone.
KillOp(k, x, n) ==
  IF KillDead(k.board, x.pos, n) THEN KillBlock(k.board, k.single, n) ELSE k

\* After the first i directions the dead blocks met are captured.
Killed(x, base, seq, i, k) ==
  Captures(x.b, k, DeadUpTo(x.b.stones, x.pos, x.color, i), x.color)

Kill == INSTANCE FoldTheorems WITH Op <- KillOp, Holds <- Killed

\* Before the first direction no ko point is set and no single stone was captured.
KillStart(b) == [board |-> [b EXCEPT !.koPoint = NO_KO_POINT], single |-> FALSE]

\* KillSurroundingDeadBlocks is that fold.
LEMMA KillLoop ==
  ASSUME NEW x
  PROVE  KillSurroundingDeadBlocks(x.b, x.pos) =
           Kill!Folded(x, KillStart(x.b), Compass(x.pos)).board
BY Zenon DEF KillSurroundingDeadBlocks, KillStart, Kill!Folded, KillOp, KillDead,
             FoldLeft, MapThenFoldSet, Max, Kill!FoldLeft, Kill!MapThenFoldSet, Kill!Max

\* The counter of a block tells whether it has a liberty.
LEMMA LibertiesAtIs ==
  ASSUME NEW b, Coherent(b), NEW n \in Positions, b.stones[n] # NONE
  PROVE  /\ b.blockPointers[n] \in Blocks
         /\ LibertiesAt(b, n) = Cardinality(Rules!Liberties(b.stones, Rules!Block(b.stones, n)))
         /\ LibertiesAt(b, n) = 0 <=> Rules!Liberties(b.stones, Rules!Block(b.stones, n)) = {}
<1> DEFINE k == b.blockPointers[n]
           L == Rules!Liberties(b.stones, Rules!Block(b.stones, n))
<1>1. k \in Blocks
  BY DEF Coherent, Typed, Linked
<1>2. Group(b, k) = Rules!Block(b.stones, n) /\ n \in Group(b, k)
  <2>1. Group(b, k) = Rules!Block(b.stones, n)
    BY DEF Coherent
  <2> QED BY <2>1, BlockBasics
<1> HIDE DEF k
<1>3. BlockExact(b, k)
  BY <1>1 DEF Coherent
<1>4. b.blocks[k].liberties = Cardinality(L)
  BY <1>2, <1>3 DEF BlockExact, Describes
<1>5. L \in SUBSET Positions
  BY LibertiesAre
<1>6. Cardinality(L) = 0 <=> L = {}
  <2> HIDE DEF L
  <2> QED BY <1>5, PointsOfBoard, FS_EmptySet
<1> QED BY <1>1, <1>4, <1>6 DEF LibertiesAt, k

\* One direction: a block that is dead there and not yet captured is captured.
LEMMA KillStep ==
  ASSUME NEW b, Coherent(b), NEW pos \in Positions, NEW color \in StoneColors,
         b.stones[pos] = BoardColor(color),
         NEW Bs, BlocksOf(b.stones, Bs, BoardColor(Opponent(color))),
         NEW k, Captures(b, k, Bs, color),
         NEW n \in Positions, b.stones[n] = BoardColor(Opponent(color)),
         NEW x, x.pos = pos
  PROVE  LET B == Rules!Block(b.stones, n)
             dead == Rules!Liberties(b.stones, B) = {}
         IN  Captures(b, KillOp(k, x, n), IF dead THEN Bs \cup {B} ELSE Bs, color)
<1> DEFINE t == b.stones
           D == UNION Bs
           e == BoardColor(Opponent(color))
           c == k.board
           B == Rules!Block(b.stones, n)
           dead == Rules!Liberties(b.stones, B) = {}
           j == KillOp(k, x, n)
           Cs == IF dead THEN Bs \cup {B} ELSE Bs
<1>1. /\ t \in [Positions -> BoardColors] /\ b.bw_prisoners \in [StoneColors -> Nat]
      /\ e \in BoardColors \ {NONE} /\ t[pos] # e /\ t[pos] # NONE /\ Opponent(color) \in StoneColors
      /\ Opponent(Opponent(color)) = color
  <2>1. t \in [Positions -> BoardColors] /\ b.bw_prisoners \in [StoneColors -> Nat]
    BY DEF Coherent, Typed
  <2> QED BY <2>1, TwoColors
<1>2. /\ D \in SUBSET Positions
      /\ \A q \in D : t[q] = e
      /\ \A m \in D : Rules!Block(t, m) \in Bs
      /\ n \notin D => B \cap D = {}
  BY <1>1, BlocksApart
<1>3. /\ c.stones = Rules!Removed(t, D)
      /\ Coherent(c)
      /\ c.toPlay = b.toPlay /\ c.moves = b.moves /\ c.blockPointer = b.blockPointer
      /\ c.bw_prisoners = [b.bw_prisoners EXCEPT ![color] = @ + Cardinality(D)]
      /\ c.koPoint = Rules!KoAfter(Bs)
      /\ k.single <=> Rules!SingleStones(Bs) # {}
  BY DEF Captures
<1>4. n \in B /\ B \in SUBSET Positions
  BY BlockBasics
<1> HIDE DEF t, D, e, c, B, j
<1>5. /\ \A q \in Positions : c.stones[q] = IF q \in D THEN NONE ELSE t[q]
      /\ c.stones[pos] = t[pos]
  <2>1. \A q \in Positions : c.stones[q] = IF q \in D THEN NONE ELSE t[q]
    BY <1>1, <1>3, RemovedIs
  <2> QED BY <1>1, <1>2, <2>1
<1>6. CASE n \in D
  <2>1. ~ KillDead(c, x.pos, n)
    BY <1>5, <1>6 DEF KillDead
  <2>2. j = k
    BY <2>1 DEF j, KillOp, c
  <2>3. B \in Bs
    BY <1>2, <1>6 DEF B, t
  <2>4. Cs = Bs
    BY <2>3
  <2> HIDE DEF Cs
  <2>5. Captures(b, j, Cs, color)
    BY <2>2, <2>4
  <2> QED BY <2>5 DEF Cs, j, B
<1>7. CASE n \notin D
  <2>1. c.stones[n] = e
    BY <1>5, <1>7 DEF e, t
  <2>2. Rules!Block(c.stones, n) = B /\ Rules!Liberties(c.stones, B) = Rules!Liberties(t, B)
    BY <1>1, <1>3, <1>7, LibertiesKept DEF t, D, e, B
  <2>3. KillDead(c, x.pos, n) <=> dead
    <3>1. c.blockPointers[n] \in Blocks
      BY <1>1, <1>3, <2>1, LibertiesAtIs
    <3>2. LibertiesAt(c, n) = 0 <=> dead
      <4>1. LibertiesAt(c, n) = 0 <=> Rules!Liberties(c.stones, Rules!Block(c.stones, n)) = {}
        BY <1>1, <1>3, <2>1, LibertiesAtIs
      <4> QED BY <2>2, <4>1 DEF t
    <3>3. IsRealPoint(n) /\ c.stones[n] \notin {NONE, c.stones[pos]} /\ c.blockPointers[n] # NoBlock
      BY <1>1, <1>5, <2>1, <3>1, PointsOfBoard DEF IsRealPoint
    <3> QED BY <3>2, <3>3 DEF KillDead
  <2>4. CASE ~ dead
    <3>1. j = k /\ Cs = Bs
      BY <2>3, <2>4 DEF j, KillOp, c
    <3> HIDE DEF Cs
    <3>2. Captures(b, j, Cs, color)
      BY <3>1
    <3> QED BY <3>2 DEF Cs, j, B
  <2>5. CASE dead
    <3> DEFINE d == j.board
               E == UNION Cs
    <3>1. j = KillBlock(c, k.single, n) /\ Cs = Bs \cup {B}
      BY <2>3, <2>5 DEF j, KillOp, c
    <3> HIDE DEF Cs
    <3>2. E = D \cup B /\ D \cap B = {}
      BY <1>2, <1>7, <3>1 DEF D
    <3>3. /\ d.stones = Rules!Removed(c.stones, B)
          /\ Coherent(d)
          /\ d.toPlay = c.toPlay /\ d.moves = c.moves /\ d.blockPointer = c.blockPointer
          /\ d.bw_prisoners = [c.bw_prisoners EXCEPT ![color] = @ + Cardinality(B)]
          /\ d.koPoint = IF Cardinality(B) = 1 THEN IF k.single THEN NO_KO_POINT ELSE n ELSE c.koPoint
          /\ j.single = (k.single \/ Cardinality(B) = 1)
      <4>1. c.stones[n] = BoardColor(Opponent(color))
        BY <2>1 DEF e
      <4> QED BY <1>1, <1>3, <2>2, <3>1, <4>1, KillBlockIs
    <3> HIDE DEF d, E
    <3>4. d.stones = Rules!Removed(t, E)
      <4>1. c.stones \in [Positions -> BoardColors]
        BY <1>3 DEF Coherent, Typed
      <4>2. \A q \in Positions : d.stones[q] = Rules!Removed(t, E)[q]
        BY <1>1, <1>5, <3>2, <3>3, <4>1, RemovedIs
      <4>3. d.stones \in [Positions -> BoardColors] /\ Rules!Removed(t, E) \in [Positions -> BoardColors]
        BY <1>1, <3>3, <4>1, RemovedIs
      <4> QED BY <4>2, <4>3
    <3>5. Cardinality(E) = Cardinality(D) + Cardinality(B)
          /\ Cardinality(D) \in Nat /\ Cardinality(B) \in Nat
      <4>1. Cardinality(D \cup B) = Cardinality(D) + Cardinality(B) - Cardinality(D \cap B)
        BY <1>2, <1>4, PointsOfBoard, FS_Union
      <4>2. Cardinality(D \cap B) = 0
        BY <3>2, FS_EmptySet
      <4>3. Cardinality(D) \in Nat /\ Cardinality(B) \in Nat
        BY <1>2, <1>4, PointsOfBoard
      <4> QED BY <3>2, <4>1, <4>2, <4>3
    <3>6. d.bw_prisoners = [b.bw_prisoners EXCEPT ![color] = @ + Cardinality(E)]
      <4>1. b.bw_prisoners[color] \in Nat
        BY <1>1
      <4>2. (b.bw_prisoners[color] + Cardinality(D)) + Cardinality(B) = b.bw_prisoners[color] + Cardinality(E)
        BY <3>5, <4>1
      <4> QED BY <1>1, <1>3, <3>3, <4>2
    <3>7. /\ Rules!SingleStones(Cs) # {} <=> Rules!SingleStones(Bs) # {} \/ Cardinality(B) = 1
          /\ Rules!KoAfter(Cs) =
               IF Cardinality(B) = 1 THEN IF Rules!SingleStones(Bs) # {} THEN NO_KO_POINT ELSE n
               ELSE Rules!KoAfter(Bs)
      BY <1>4, <1>7, <3>1, KoNext DEF D
    <3>8. d.koPoint = Rules!KoAfter(Cs)
      BY <1>3, <3>3, <3>7
    <3>9. j.single <=> Rules!SingleStones(Cs) # {}
      BY <1>3, <3>3, <3>7
    <3>10. d.toPlay = b.toPlay /\ d.moves = b.moves /\ d.blockPointer = b.blockPointer
      BY <1>3, <3>3
    <3>11. Captures(b, j, Cs, color)
      BY <3>3, <3>4, <3>6, <3>8, <3>9, <3>10 DEF Captures, d, E, t
    <3> QED BY <3>11 DEF Cs, j, B
  <2> QED BY <2>4, <2>5
<1> QED BY <1>6, <1>7

\* A direction that meets no stone of the enemy changes nothing.
LEMMA KillSkip ==
  ASSUME NEW b, Coherent(b), NEW pos \in Positions, NEW color \in StoneColors,
         b.stones[pos] = BoardColor(color),
         NEW Bs, BlocksOf(b.stones, Bs, BoardColor(Opponent(color))),
         NEW k, Captures(b, k, Bs, color), NEW n,
         n \notin Positions \/ b.stones[n] # BoardColor(Opponent(color)),
         NEW x, x.pos = pos
  PROVE  KillOp(k, x, n) = k
<1> DEFINE c == k.board
           D == UNION Bs
<1>1. /\ b.stones \in [Positions -> BoardColors]
      /\ BoardColor(Opponent(color)) \in BoardColors \ {NONE}
      /\ BoardColor(color) # BoardColor(Opponent(color))
      /\ \A v \in BoardColors : v \in {NONE, BoardColor(color), BoardColor(Opponent(color))}
  BY TwoColors DEF Coherent, Typed
<1>2. \A q \in D : b.stones[q] = BoardColor(Opponent(color))
  BY <1>1, BlocksApart
<1>3. c.stones = Rules!Removed(b.stones, D)
  BY DEF Captures
<1> HIDE DEF c, D
<1>4. \A q \in Positions : c.stones[q] = IF q \in D THEN NONE ELSE b.stones[q]
  BY <1>1, <1>3, RemovedIs
<1>5. c.stones[pos] = BoardColor(color)
  BY <1>1, <1>2, <1>4
<1>6. ~ KillDead(c, pos, n)
  <2>1. CASE n \notin Positions
    BY <2>1 DEF KillDead, IsRealPoint
  <2>2. CASE n \in Positions
    <3>1. b.stones[n] \in {NONE, BoardColor(color)}
      BY <1>1, <2>2
    <3>2. c.stones[n] \in {NONE, c.stones[pos]}
      BY <1>4, <1>5, <2>2, <3>1
    <3> QED BY <3>2 DEF KillDead
  <2> QED BY <2>1, <2>2
<1> QED BY <1>6 DEF KillOp, c

\* The captures of the rules, in the board's own terms.
LEMMA CapturedBlocksAre ==
  ASSUME NEW t, NEW pos \in Positions, NEW color
  PROVE  /\ Rules!CapturedBlocks(t, pos, color) =
              {Rules!Block(t, n) : n \in {m \in Adjacent(pos) :
                 /\ t[m] = BoardColor(Opponent(color))
                 /\ Rules!Liberties(t, Rules!Block(t, m)) = {}}}
         /\ Rules!Captured(t, pos, color) = UNION Rules!CapturedBlocks(t, pos, color)
BY SameConstants DEF Rules!CapturedBlocks, Rules!Captured

\* All four directions: the captures of the rules.
LEMMA KillsAre ==
  ASSUME NEW b, Coherent(b), NEW pos \in Positions, NEW color \in StoneColors,
         b.stones[pos] = BoardColor(color)
  PROVE  LET c == KillSurroundingDeadBlocks(b, pos)
             D == Rules!Captured(b.stones, pos, color)
         IN  /\ c.stones = Rules!Removed(b.stones, D)
             /\ Coherent(c)
             /\ c.toPlay = b.toPlay /\ c.moves = b.moves /\ c.blockPointer = b.blockPointer
             /\ c.bw_prisoners = [b.bw_prisoners EXCEPT ![color] = @ + Cardinality(D)]
             /\ c.koPoint = Rules!KoAfter(Rules!CapturedBlocks(b.stones, pos, color))
<1> DEFINE seq == Compass(pos)
           base == KillStart(b)
           e == BoardColor(Opponent(color))
           dead(n) == Rules!Liberties(b.stones, Rules!Block(b.stones, n)) = {}
<1>0. PICK x : x = [b |-> b, pos |-> pos, color |-> color]
  OBVIOUS
<1>1. x.b = b /\ x.pos = pos /\ x.color = color
  BY <1>0
<1> DEFINE F(i) == DeadUpTo(b.stones, pos, color, i)
<1>2. /\ seq \in Seq(Positions \cup {OffBoard}) /\ Len(seq) = 4
      /\ \A i \in 1..4 : seq[i] # OffBoard => seq[i] \in Adjacent(pos)
      /\ \A n \in Adjacent(pos) : \E i \in 1..4 : seq[i] = n
      /\ Adjacent(pos) \subseteq Positions /\ OffBoard \notin Positions
  BY CompassIs, AdjacentPoints, PointsOfBoard
<1>3. \A i : F(i) = {Rules!Block(b.stones, seq[j]) :
                       j \in {m \in 1..i : seq[m] # OffBoard /\ b.stones[seq[m]] = e /\ dead(seq[m])}}
  BY DEF DeadUpTo
<1> HIDE DEF seq, F, dead
<1>4. \A i \in 0..4 : BlocksOf(b.stones, F(i), e)
  BY <1>2, <1>3 DEF BlocksOf
<1>5. \A i, k : Killed(x, base, seq, i, k) <=> Captures(b, k, F(i), color)
  BY <1>1 DEF Killed, F
<1>6. Killed(x, base, seq, 0, base)
  <2>1. F(0) = {}
    BY <1>3
  <2> DEFINE c == [b EXCEPT !.koPoint = NO_KO_POINT]
  <2>2. base.board = c /\ base.single = FALSE
    BY DEF KillStart
  <2>3. /\ Coherent(c) /\ c.stones = b.stones
        /\ c.toPlay = b.toPlay /\ c.moves = b.moves /\ c.blockPointer = b.blockPointer
        /\ c.bw_prisoners = b.bw_prisoners
    BY KoPointFree
  <2>4. c.koPoint = NO_KO_POINT
    OBVIOUS
  <2> HIDE DEF c, base
  <2>5. Rules!SingleStones({}) = {} /\ Rules!KoAfter({}) = NO_KO_POINT
    BY SameConstants DEF Rules!SingleStones, Rules!KoAfter
  <2>6. UNION {} = {} /\ Cardinality({}) = 0
    BY FS_EmptySet
  <2>7. b.stones \in [Positions -> BoardColors] /\ b.bw_prisoners \in [StoneColors -> Nat]
    BY DEF Coherent, Typed
  <2>8. Rules!Removed(b.stones, {}) = b.stones
    BY <2>7 DEF Rules!Removed
  <2>9. b.bw_prisoners = [b.bw_prisoners EXCEPT ![color] = @ + 0]
    BY <2>7
  <2>10. Captures(b, base, {}, color)
    BY <2>2, <2>3, <2>4, <2>5, <2>6, <2>8, <2>9 DEF Captures
  <2> QED BY <1>5, <2>1, <2>10
<1> HIDE DEF base
<1>7. ASSUME NEW i \in 1..Len(seq), NEW k, Killed(x, base, seq, i - 1, k)
      PROVE  Killed(x, base, seq, i, KillOp(k, x, seq[i]))
  <2>1. i \in 1..4 /\ i \in 0..4 /\ i - 1 \in 0..4
    BY <1>2
  <2>2. \A j : j \in 1..i <=> j \in 1..(i - 1) \/ j = i
    BY <2>1
  <2>3. Captures(b, k, F(i - 1), color) /\ BlocksOf(b.stones, F(i - 1), e)
    BY <1>4, <1>5, <1>7, <2>1
  <2>4. CASE seq[i] # OffBoard /\ b.stones[seq[i]] = e
    <3> DEFINE B == Rules!Block(b.stones, seq[i])
    <3>1. F(i) = IF dead(seq[i]) THEN F(i - 1) \cup {B} ELSE F(i - 1)
      <4>1. CASE dead(seq[i])
        BY <1>3, <2>2, <2>4, <4>1
      <4>2. CASE ~ dead(seq[i])
        BY <1>3, <2>2, <4>2
      <4> QED BY <4>1, <4>2
    <3>2. seq[i] \in Positions
      BY <1>2, <2>1, <2>4
    <3>3. Captures(b, KillOp(k, x, seq[i]), IF dead(seq[i]) THEN F(i - 1) \cup {B} ELSE F(i - 1), color)
      BY <1>1, <2>3, <2>4, <3>2, KillStep DEF dead
    <3> QED BY <1>5, <3>1, <3>3
  <2>5. CASE ~ (seq[i] # OffBoard /\ b.stones[seq[i]] = e)
    <3>1. F(i) = F(i - 1)
      BY <1>3, <2>2, <2>5
    <3>2. KillOp(k, x, seq[i]) = k
      BY <1>1, <1>2, <2>3, <2>5, KillSkip
    <3> QED BY <1>5, <2>3, <3>1, <3>2
  <2> QED BY <2>4, <2>5
<1> DEFINE k == Kill!Folded(x, base, seq)
<1>8. Killed(x, base, seq, 4, k)
  <2>1. Killed(x, base, seq, Len(seq), k)
    <3> HIDE DEF KillOp, Killed
    <3> QED BY <1>2, <1>6, <1>7, Kill!FoldInvariant
  <2> QED BY <1>2, <2>1
<1>9. KillSurroundingDeadBlocks(b, pos) = k.board
  BY <1>1, KillLoop DEF base, seq
<1>10. F(4) = Rules!CapturedBlocks(b.stones, pos, color)
  <2>1. Rules!CapturedBlocks(b.stones, pos, color) =
          {Rules!Block(b.stones, n) : n \in {m \in Adjacent(pos) : b.stones[m] = e /\ dead(m)}}
    BY CapturedBlocksAre DEF dead
  <2>2. ASSUME NEW B \in F(4) PROVE B \in Rules!CapturedBlocks(b.stones, pos, color)
    BY <1>2, <1>3, <2>1
  <2>3. ASSUME NEW B \in Rules!CapturedBlocks(b.stones, pos, color) PROVE B \in F(4)
    <3>1. PICK n \in Adjacent(pos) : b.stones[n] = e /\ dead(n) /\ B = Rules!Block(b.stones, n)
      BY <2>1
    <3>2. PICK i \in 1..4 : seq[i] = n
      BY <1>2
    <3>3. n # OffBoard
      BY <1>2
    <3> QED BY <1>3, <3>1, <3>2, <3>3
  <2> QED BY <2>2, <2>3
<1> HIDE DEF k
<1>11. Captures(b, k, Rules!CapturedBlocks(b.stones, pos, color), color)
  BY <1>5, <1>8, <1>10
<1>12. Rules!Captured(b.stones, pos, color) = UNION Rules!CapturedBlocks(b.stones, pos, color)
  BY CapturedBlocksAre
<1> DEFINE Cs == Rules!CapturedBlocks(b.stones, pos, color)
           D == Rules!Captured(b.stones, pos, color)
<1> HIDE DEF Cs, D
<1>13. Captures(b, k, Cs, color) /\ D = UNION Cs
  BY <1>11, <1>12 DEF Cs, D
<1>14. /\ k.board.stones = Rules!Removed(b.stones, D)
       /\ Coherent(k.board)
       /\ k.board.toPlay = b.toPlay /\ k.board.moves = b.moves
       /\ k.board.blockPointer = b.blockPointer
       /\ k.board.bw_prisoners = [b.bw_prisoners EXCEPT ![color] = @ + Cardinality(D)]
       /\ k.board.koPoint = Rules!KoAfter(Cs)
  BY <1>13 DEF Captures
<1> QED BY <1>9, <1>14 DEF Cs, D

-----------------------------------------------------------------------------
\* A play.

\* What the rules make of the board: p and what is captured, the ko point, the prisoners.
PlayedOn(b, c, p, color) ==
  LET t == Rules!Placed(b.stones, p, color)
      D == Rules!Captured(t, p, color)
  IN  /\ c.stones = Rules!Removed(t, D)
      /\ c.koPoint = Rules!KoAfter(Rules!CapturedBlocks(t, p, color))
      /\ c.bw_prisoners = [b.bw_prisoners EXCEPT ![color] = @ + Cardinality(D)]

\* AddStone plays by the rules and leaves the bookkeeping exact.
LEMMA AddedIs ==
  ASSUME NEW b, Coherent(b), NEW p \in Positions, b.stones[p] = NONE,
         NEW color \in StoneColors, b.blockPointer \in Blocks
  PROVE  LET c == AddStone(b, p, color)
         IN  /\ PlayedOn(b, c, p, color) /\ Coherent(c)
             /\ c.moves = b.moves
             /\ c.blockPointer \in {b.blockPointer, b.blockPointer + 1}
<1> DEFINE c == AddStone(b, p, color)
           s == Settled(b, p, color)
           t == Rules!Placed(b.stones, p, color)
           D == Rules!Captured(t, p, color)
           Cs == Rules!CapturedBlocks(t, p, color)
<1>1. /\ s.stones = t /\ SameRest(b, s) /\ Coherent(s)
      /\ s.blockPointer \in {b.blockPointer, b.blockPointer + 1}
  BY SettledIs
<1>2. c = KillSurroundingDeadBlocks(s, p)
  BY AddStoneIs
<1>3. t[p] = BoardColor(color)
  <2>1. b.stones \in [Positions -> BoardColors]
    BY DEF Coherent, Typed
  <2> QED BY <2>1, PlacedDiffers
<1> HIDE DEF c, s, t
<1>4. /\ c.stones = Rules!Removed(s.stones, Rules!Captured(s.stones, p, color))
      /\ Coherent(c)
      /\ c.moves = s.moves /\ c.blockPointer = s.blockPointer
      /\ c.bw_prisoners =
           [s.bw_prisoners EXCEPT ![color] = @ + Cardinality(Rules!Captured(s.stones, p, color))]
      /\ c.koPoint = Rules!KoAfter(Rules!CapturedBlocks(s.stones, p, color))
  BY <1>1, <1>2, <1>3, KillsAre
<1>5. s.moves = b.moves /\ s.bw_prisoners = b.bw_prisoners
  BY <1>1 DEF SameRest
<1> HIDE DEF D, Cs
<1>6. /\ c.stones = Rules!Removed(t, D)
      /\ c.koPoint = Rules!KoAfter(Cs)
      /\ c.bw_prisoners = [b.bw_prisoners EXCEPT ![color] = @ + Cardinality(D)]
  BY <1>1, <1>4, <1>5 DEF D, Cs
<1>7. PlayedOn(b, c, p, color)
  BY <1>6 DEF PlayedOn, t, D, Cs
<1> QED BY <1>1, <1>4, <1>5, <1>7 DEF c

\* Play is AddStone, a move more in the list and the turn of the other player.
LEMMA PlayIs ==
  ASSUME NEW b, Coherent(b), NEW p \in Positions, b.stones[p] = NONE,
         NEW color \in StoneColors, b.blockPointer \in Blocks
  PROVE  LET c == Play(b, p, color)
         IN  /\ PlayedOn(b, c, p, color) /\ Coherent(c)
             /\ c.toPlay = Opponent(color)
             /\ c.moves = Append(b.moves, [Color |-> color, Point |-> p])
             /\ c.blockPointer \in {b.blockPointer, b.blockPointer + 1}
<1> DEFINE a == AddStone(b, p, color)
           c == [a EXCEPT !.toPlay = Opponent(color),
                          !.moves = Append(@, [Color |-> color, Point |-> p])]
<1>1. /\ PlayedOn(b, a, p, color) /\ Coherent(a)
      /\ a.moves = b.moves
      /\ a.blockPointer \in {b.blockPointer, b.blockPointer + 1}
  BY AddedIs
<1>2. Play(b, p, color) = c
  BY DEF Play
<1> HIDE DEF a
<1>3. /\ c.stones = a.stones /\ c.blockPointers = a.blockPointers /\ c.blocks = a.blocks
      /\ c.koPoint = a.koPoint /\ c.blockPointer = a.blockPointer
      /\ c.bw_prisoners = a.bw_prisoners /\ c.numNeighbours = a.numNeighbours
      /\ c.numNeighboursEmpty = a.numNeighboursEmpty
      /\ c.toPlay = Opponent(color)
      /\ c.moves = Append(a.moves, [Color |-> color, Point |-> p])
  OBVIOUS
<1> HIDE DEF c
<1>4. Typed(c) /\ Linked(c) /\ Counted(c)
  <2>1. Typed(c)
    BY <1>1, <1>3 DEF Coherent, Typed
  <2>2. Linked(c)
    BY <1>1, <1>3 DEF Coherent, Linked
  <2>3. Counted(c)
    <3>1. Counted(a)
      BY <1>1 DEF Coherent
    <3> QED BY <1>3, <3>1, CountsAre DEF Counted
  <2> QED BY <2>1, <2>2, <2>3
<1>5. \A k : Group(c, k) = Group(a, k)
  BY <1>3 DEF Group
<1>6. \A k : BlockExact(a, k) => BlockExact(c, k)
  BY <1>3, <1>5 DEF BlockExact, Unused, Describes
<1>7. Coherent(c)
  BY <1>1, <1>3, <1>4, <1>5, <1>6 DEF Coherent
<1>8. PlayedOn(b, c, p, color)
  BY <1>1, <1>3 DEF PlayedOn
<1> QED BY <1>1, <1>2, <1>3, <1>7, <1>8

\* The counters of a board without stones, as the constructor and reset() set them.
LEMMA EmptyCounted ==
  ASSUME NEW c, c.stones = [p \in Positions |-> NONE],
         c.numNeighbours = [d \in StoneColors |-> [p \in Positions |-> 0]],
         c.numNeighboursEmpty = [p \in Positions |-> InitialEmptyNeighbours(p)]
  PROVE  Counted(c)
<1>1. ASSUME NEW p \in Positions
      PROVE  /\ c.numNeighboursEmpty[p] = Cardinality(Around(c.stones, p, NONE))
             /\ InitialEmptyNeighbours(p) \in Int
             /\ \A d \in StoneColors :
                  c.numNeighbours[d][p] = Cardinality(Around(c.stones, p, BoardColor(d)))
  <2>1. \A n \in Adjacent(p) : c.stones[n] = NONE
    BY AdjacentPoints
  <2>2. Around(c.stones, p, NONE) = Adjacent(p)
    BY <2>1 DEF Around
  <2>3. \A d \in StoneColors : Around(c.stones, p, BoardColor(d)) = {}
    BY <2>1, TwoColors DEF Around
  <2>4. Cardinality(Adjacent(p)) = InitialEmptyNeighbours(p)
    BY NeighboursCounted
  <2>5. InitialEmptyNeighbours(p) \in Int
    BY DEF InitialEmptyNeighbours
  <2>6. c.numNeighboursEmpty[p] = InitialEmptyNeighbours(p)
    OBVIOUS
  <2>7. \A d \in StoneColors : c.numNeighbours[d][p] = 0
    OBVIOUS
  <2>8. Cardinality({}) = 0
    BY FS_EmptySet
  <2> QED BY <2>2, <2>3, <2>4, <2>5, <2>6, <2>7, <2>8
<1>2. c.numNeighbours \in [StoneColors -> [Positions -> Int]]
  OBVIOUS
<1>3. c.numNeighboursEmpty \in [Positions -> Int]
  BY <1>1
<1> QED BY <1>1, <1>2, <1>3, CountsAre DEF Counted

\* A new board has no stone, and its bookkeeping says so.
LEMMA NewBoardIs ==
  ASSUME NEW v
  PROVE  LET c == NewBoard(v)
         IN  /\ Coherent(c)
             /\ c.stones = [p \in Positions |-> NONE]
             /\ c.koPoint = NO_KO_POINT /\ c.toPlay = v
             /\ c.bw_prisoners = [d \in StoneColors |-> 0]
             /\ c.moves = <<>> /\ c.blockPointer = 0
<1> DEFINE c == NewBoard(v)
<1>1. /\ c.stones = [p \in Positions |-> NONE]
      /\ c.koPoint = NO_KO_POINT /\ c.toPlay = v
      /\ c.bw_prisoners = [d \in StoneColors |-> 0]
      /\ c.moves = <<>> /\ c.blockPointer = 0
      /\ c.numNeighbours = [d \in StoneColors |-> [p \in Positions |-> 0]]
      /\ c.numNeighboursEmpty = [p \in Positions |-> InitialEmptyNeighbours(p)]
      /\ c.blockPointers = [p \in Positions |-> NoBlock]
      /\ c.blocks = [k \in Blocks |-> ResetBlock]
  BY DEF NewBoard
<1> HIDE DEF c
<1>2. Typed(c) /\ Linked(c)
  BY <1>1 DEF Typed, Linked, BoardColors
<1>3. Counted(c)
  BY <1>1, EmptyCounted
<1>4. \A k \in Blocks : Group(c, k) = {} /\ Unused(c, k)
  BY <1>1, PointsOfBoard DEF Group, Unused, ResetBlock
<1>5. Coherent(c)
  <2>1. c.bw_prisoners \in [StoneColors -> Nat]
    BY <1>1
  <2> QED BY <1>1, <1>2, <1>3, <1>4, <2>1 DEF Coherent, BlockExact
<1> QED BY <1>1, <1>5 DEF c

-----------------------------------------------------------------------------
\* Legality.

\* The counters tell what is suicide.
LEMMA SuicideAgrees ==
  ASSUME NEW b, Coherent(b), NEW p \in Positions, b.stones[p] = NONE, NEW color \in StoneColors
  PROVE  IsSuicide(b, p, color) <=> Rules!IsSuicide(b.stones, p, color)
<1> DEFINE L(n) == Rules!Liberties(b.stones, Rules!Block(b.stones, n))
           own == BoardColor(color)
           enemy == BoardColor(Opponent(color))
<1>1. /\ own # NONE /\ enemy # NONE /\ own # enemy
      /\ \A v \in BoardColors : v \in {NONE, own, enemy}
  BY TwoColors
<1>2. /\ b.stones \in [Positions -> BoardColors] /\ NeighbourCountsExactOn(b)
  BY DEF Coherent, Typed, Counted
<1>3. \A n \in Adjacent(p) : n \in Positions /\ p \in Adjacent(n) /\ b.stones[n] \in BoardColors
  BY <1>2, AdjacentPoints
<1>4. b.numNeighboursEmpty[p] <= 0 <=> \A n \in Adjacent(p) : b.stones[n] # NONE
  <2> DEFINE A == Around(b.stones, p, NONE)
  <2>1. b.numNeighboursEmpty[p] = Cardinality(A)
    BY <1>2, CountsAre
  <2>2. A \in SUBSET Positions
    BY <1>3 DEF Around
  <2>3. Cardinality(A) \in Nat /\ (Cardinality(A) = 0 <=> A = {})
    <3> HIDE DEF A
    <3> QED BY <2>2, PointsOfBoard, FS_EmptySet
  <2>4. A = {} <=> \A n \in Adjacent(p) : b.stones[n] # NONE
    BY DEF Around
  <2> HIDE DEF A
  <2> QED BY <2>1, <2>3, <2>4
<1>5. ASSUME NEW n \in Adjacent(p), b.stones[n] # NONE
      PROVE  /\ LibertiesAt(b, n) <= 1 <=> L(n) \subseteq {p}
             /\ LibertiesAt(b, n) = 1 <=> L(n) = {p}
  <2>1. LibertiesAt(b, n) = Cardinality(L(n))
    BY <1>3, <1>5, LibertiesAtIs
  <2>2. p \in L(n) /\ L(n) \in SUBSET Positions
    BY <1>3, BlockBasics, LibertiesAre
  <2> DEFINE M == L(n) \ {p}
  <2> HIDE DEF L
  <2>3. Cardinality(L(n)) = Cardinality(M) + 1
    <3>1. M \in SUBSET Positions /\ p \notin M /\ L(n) = M \cup {p}
      BY <2>2
    <3> HIDE DEF M
    <3> QED BY <2>2, <3>1, OneMore
  <2>4. Cardinality(M) \in Nat /\ (Cardinality(M) = 0 <=> M = {})
    <3>1. M \in SUBSET Positions
      BY <2>2
    <3> HIDE DEF M
    <3> QED BY <3>1, PointsOfBoard, FS_EmptySet
  <2>5. M = {} <=> L(n) \subseteq {p}
    OBVIOUS
  <2>6. L(n) \subseteq {p} <=> L(n) = {p}
    BY <2>2
  <2> HIDE DEF M
  <2> QED BY <2>1, <2>3, <2>4, <2>5, <2>6
<1>6. IsSuicide(b, p, color) <=>
        /\ \A n \in Adjacent(p) : b.stones[n] # NONE
        /\ \A n \in Adjacent(p) : b.stones[n] = own => LibertiesAt(b, n) <= 1
        /\ \A n \in Adjacent(p) : b.stones[n] = enemy => LibertiesAt(b, n) # 1
  BY <1>1, <1>3, <1>4 DEF IsSuicide
<1>7. Rules!IsSuicide(b.stones, p, color) <=>
        /\ \A n \in Adjacent(p) : b.stones[n] # NONE
        /\ \A n \in Adjacent(p) : b.stones[n] = own => L(n) \subseteq {p}
        /\ \A n \in Adjacent(p) : b.stones[n] = enemy => L(n) # {p}
  BY SameConstants DEF Rules!IsSuicide
<1> HIDE DEF L, own, enemy
<1> QED BY <1>1, <1>5, <1>6, <1>7

-----------------------------------------------------------------------------
\* The game.

\* The list of moves has its type.
MovesOK(b) == b.moves \in Seq([Color : StoneColors, Point : Positions])

\* The inductive invariant: the bookkeeping of the board is exact, and every block
\* object handed out stands for a play.
GameInv ==
  /\ Coherent(board)
  /\ board.koPoint \in Positions \cup {NO_KO_POINT}
  /\ board.toPlay \in StoneColors
  /\ MovesOK(board)
  /\ board.blockPointer <= Len(board.moves)
  /\ Len(board.moves) <= MaxMoves

\* A ko point is a point of the board or none.
LEMMA KoAfterType == ASSUME NEW Bs PROVE Rules!KoAfter(Bs) \in Positions \cup {NO_KO_POINT}
BY SameConstants DEF Rules!KoAfter

\* A board from the constructor satisfies the invariant.
LEMMA FreshBoard ==
  ASSUME NEW c \in StoneColors, NEW b, b = NewBoard(c)
  PROVE  /\ Coherent(b) /\ b.koPoint \in Positions \cup {NO_KO_POINT}
         /\ b.toPlay \in StoneColors /\ MovesOK(b)
         /\ b.blockPointer <= Len(b.moves) /\ Len(b.moves) <= MaxMoves
<1>1. /\ Coherent(b) /\ b.koPoint = NO_KO_POINT /\ b.toPlay = c
      /\ b.moves = <<>> /\ b.blockPointer = 0
  BY NewBoardIs
<1>2. Len(<<>>) = 0 /\ <<>> \in Seq([Color : StoneColors, Point : Positions])
  OBVIOUS
<1> QED BY <1>1, <1>2, MaxMovesAssumption DEF MovesOK

\* A play keeps the invariant, and plays by the rules.
LEMMA PlayKeepsGame ==
  ASSUME GameInv, NEW p \in Positions, NEW color \in StoneColors, PlayStone(color, p)
  PROVE  /\ GameInv'
         /\ board.stones[p] = NONE
         /\ PlayedOn(board, board', p, color)
         /\ board'.toPlay = Opponent(color)
         /\ Len(board'.moves) = Len(board.moves) + 1
<1>1. /\ Len(board.moves) < MaxMoves /\ IsLegal(board, p, color)
      /\ board' = Play(board, p, color)
  BY DEF PlayStone
<1>2. /\ Coherent(board) /\ MovesOK(board)
      /\ board.blockPointer <= Len(board.moves) /\ Len(board.moves) <= MaxMoves
  BY DEF GameInv
<1>3. board.stones[p] = NONE
  BY <1>1 DEF IsLegal, Occupied
<1>4. Len(board.moves) \in Nat /\ board.blockPointer \in Nat /\ MaxMoves \in Nat /\ MaxMoves <= MaxBlocks
      /\ MaxBlocks \in Nat
  BY <1>2, MaxMovesAssumption, BoardSizeAssumption DEF MovesOK, Coherent
<1>5. board.blockPointer \in Blocks
  BY <1>1, <1>2, <1>4 DEF Blocks
<1>6. /\ PlayedOn(board, board', p, color) /\ Coherent(board')
      /\ board'.toPlay = Opponent(color)
      /\ board'.moves = Append(board.moves, [Color |-> color, Point |-> p])
      /\ board'.blockPointer \in {board.blockPointer, board.blockPointer + 1}
  BY <1>1, <1>2, <1>3, <1>5, PlayIs
<1>7. /\ MovesOK(board') /\ Len(board'.moves) = Len(board.moves) + 1
  BY <1>2, <1>6 DEF MovesOK
<1>8. board'.koPoint \in Positions \cup {NO_KO_POINT}
  BY <1>6, KoAfterType DEF PlayedOn
<1>9. board'.toPlay \in StoneColors
  BY <1>6, TwoColors
<1>10. board'.blockPointer <= Len(board'.moves) /\ Len(board'.moves) <= MaxMoves
  BY <1>1, <1>2, <1>4, <1>6, <1>7
<1>11. GameInv'
  BY <1>6, <1>7, <1>8, <1>9, <1>10 DEF GameInv
<1> QED BY <1>3, <1>6, <1>7, <1>11

\* A game begins with a fresh board.
LEMMA InitGame == Init => GameInv
<1>1. ASSUME Init PROVE GameInv
  <2>1. PICK c \in StoneColors : board = NewBoard(c)
    BY <1>1 DEF Init
  <2> QED BY <2>1, FreshBoard DEF GameInv
<1> QED BY <1>1

\* A cleared board is a fresh board.
LEMMA ClearKeepsGame ==
  ASSUME ClearBoard
  PROVE  GameInv'
<1>1. PICK c \in StoneColors : board' = NewBoard(c)
  BY DEF ClearBoard
<1>2. /\ Coherent(board') /\ board'.koPoint \in Positions \cup {NO_KO_POINT}
      /\ board'.toPlay \in StoneColors /\ MovesOK(board')
      /\ board'.blockPointer <= Len(board'.moves) /\ Len(board'.moves) <= MaxMoves
  BY <1>1, FreshBoard
<1> QED BY <1>2 DEF GameInv

\* The invariant is inductive.
LEMMA NextKeepsGame == GameInv /\ [Next]_vars => GameInv'
<1> SUFFICES ASSUME GameInv, [Next]_vars PROVE GameInv'
  OBVIOUS
<1>1. CASE \E color \in StoneColors, p \in Positions : PlayStone(color, p)
  BY <1>1, PlayKeepsGame
<1>2. CASE ClearBoard
  BY <1>2, ClearKeepsGame
<1>3. CASE UNCHANGED vars
  BY <1>3 DEF vars, GameInv
<1> QED BY <1>1, <1>2, <1>3 DEF Next

\* The bookkeeping is exact in every state of a game.
THEOREM GameIsCoherent == Spec => []GameInv
<1> QED BY InitGame, NextKeepsGame, PTL DEF Spec

-----------------------------------------------------------------------------
\* What follows from it.

\* The fields of the board have their types; no counter leaves its range.
LEMMA TypesFollow == GameInv => TypeOK
<1> SUFFICES ASSUME GameInv PROVE TypeOK
  OBVIOUS
<1>1. /\ Coherent(board) /\ MovesOK(board) /\ board.koPoint \in Positions \cup {NO_KO_POINT}
      /\ board.toPlay \in StoneColors
      /\ board.blockPointer <= Len(board.moves) /\ Len(board.moves) <= MaxMoves
  BY DEF GameInv
<1>2. /\ board.stones \in [Positions -> BoardColors]
      /\ board.blockPointers \in [Positions -> Blocks \cup {NoBlock}]
      /\ board.bw_prisoners \in [StoneColors -> Nat]
      /\ board.blockPointer \in Nat /\ NeighbourCountsExactOn(board)
      /\ board.numNeighbours \in [StoneColors -> [Positions -> Int]]
      /\ board.numNeighboursEmpty \in [Positions -> Int]
      /\ \A k \in Blocks : BlockExact(board, k)
  BY <1>1 DEF Coherent, Typed, Counted
<1>3. \A p \in Positions : \A v : Cardinality(Around(board.stones, p, v)) \in 0..4
  <2>1. ASSUME NEW p \in Positions, NEW v
        PROVE  Cardinality(Around(board.stones, p, v)) \in 0..4
    <3> DEFINE A == Around(board.stones, p, v)
    <3>1. A \subseteq Adjacent(p) /\ Adjacent(p) \in SUBSET Positions /\ A \in SUBSET Positions
      BY AdjacentPoints DEF Around
    <3>2. Cardinality(Adjacent(p)) \in 0..4
      BY NeighboursCounted DEF InitialEmptyNeighbours
    <3> HIDE DEF A
    <3>3. Cardinality(A) \in Nat /\ Cardinality(A) <= Cardinality(Adjacent(p))
      BY <3>1, PointsOfBoard, FS_Subset
    <3>4. Cardinality(A) \in 0..4
      BY <3>2, <3>3
    <3> QED BY <3>4 DEF A
  <2> QED BY <2>1
<1>4. /\ \A p \in Positions : board.numNeighboursEmpty[p] \in 0..4
      /\ \A c \in StoneColors : \A p \in Positions : board.numNeighbours[c][p] \in 0..4
  BY <1>2, <1>3, CountsAre
<1>5. /\ board.numNeighboursEmpty \in [Positions -> 0..4]
      /\ board.numNeighbours \in [StoneColors -> [Positions -> 0..4]]
  <2>1. board.numNeighboursEmpty \in [Positions -> 0..4]
    BY <1>2, <1>4
  <2>2. \A c \in StoneColors : board.numNeighbours[c] \in [Positions -> 0..4]
    BY <1>2, <1>4
  <2> QED BY <1>2, <2>1, <2>2
<1>6. board.blockPointer \in 0..MaxBlocks
  BY <1>1, <1>2, MaxMovesAssumption, BoardSizeAssumption DEF MovesOK
<1>7. ASSUME NEW k \in Blocks
      PROVE  /\ board.blocks[k].anchor \in Positions \cup {-1}
             /\ board.blocks[k].liberties \in Nat
             /\ board.blocks[k].stones \in Seq(Positions)
  <2> DEFINE G == Group(board, k)
  <2>1. CASE G = {}
    <3>1. Unused(board, k)
      BY <1>2, <2>1 DEF BlockExact
    <3> QED BY <3>1 DEF Unused
  <2>2. CASE G # {}
    <3>1. Describes(board, k, G, G)
      BY <1>2, <2>2 DEF BlockExact
    <3>2. Rules!Liberties(board.stones, G) \in SUBSET Positions /\ G \in SUBSET Positions
      BY LibertiesAre DEF Group
    <3> HIDE DEF G
    <3> QED BY <3>1, <3>2, PointsOfBoard DEF Describes, Lists
  <2> QED BY <2>1, <2>2
<1>8. \A i \in DOMAIN board.moves : board.moves[i] \in [Color : StoneColors, Point : Positions]
  <2> DEFINE Moves == [Color : StoneColors, Point : Positions]
  <2>1. board.moves \in Seq(Moves)
    BY <1>1 DEF MovesOK
  <2> HIDE DEF Moves
  <2>2. \A i \in DOMAIN board.moves : board.moves[i] \in Moves
    BY <2>1
  <2> QED BY <2>2 DEF Moves
<1> QED BY <1>1, <1>2, <1>5, <1>6, <1>7, <1>8 DEF TypeOK

\* The neighbour counters are part of the invariant.
LEMMA CountsFollow == GameInv => NeighbourCountsExact
BY DEF GameInv, Coherent, Counted, NeighbourCountsExact

\* The counter that LibertiesAt reads is that of the stone's group.
LEMMA LibertiesFollow == GameInv => LibertiesExact
<1> SUFFICES ASSUME GameInv PROVE LibertiesExact
  OBVIOUS
<1>1. Coherent(board)
  BY DEF GameInv
<1>2. ASSUME NEW p \in Positions, board.stones[p] # NONE
      PROVE  LibertiesAt(board, p) =
               Cardinality(Rules!Liberties(board.stones, Rules!Block(board.stones, p)))
  BY <1>1, <1>2, LibertiesAtIs
<1>3. \A S : Rules!Cardinality(S) = Cardinality(S)
  BY SameFiniteness
<1> QED BY <1>2, <1>3 DEF LibertiesExact, LibertiesExactOn

\* The block object of a stone lists its group.
LEMMA GroupsFollow == GameInv => BlocksAreGroups
<1> SUFFICES ASSUME GameInv PROVE BlocksAreGroups
  OBVIOUS
<1>1. Coherent(board)
  BY DEF GameInv
<1>2. \A p \in Positions : board.stones[p] = NONE => board.blockPointers[p] = NoBlock
  BY <1>1 DEF Coherent, Linked
<1>3. ASSUME NEW p \in Positions, board.stones[p] # NONE
      PROVE  LET k == board.blockPointers[p]
             IN  /\ k # NoBlock
                 /\ ToSet(board.blocks[k].stones) = Rules!Block(board.stones, p)
                 /\ IsInjective(board.blocks[k].stones)
                 /\ board.blocks[k].anchor \in ToSet(board.blocks[k].stones)
  <2> DEFINE k == board.blockPointers[p]
  <2>1. k \in Blocks /\ k # NoBlock
    BY <1>1, <1>3, LibertiesAtIs, PointsOfBoard
  <2>2. Group(board, k) = Rules!Block(board.stones, p) /\ BlockExact(board, k)
    BY <1>1, <1>3, <2>1 DEF Coherent
  <2>3. Group(board, k) # {}
    BY <2>2, BlockBasics
  <2> HIDE DEF k
  <2>4. Describes(board, k, Group(board, k), Group(board, k))
    BY <2>2, <2>3 DEF BlockExact
  <2>5. /\ ToSet(board.blocks[k].stones) = Rules!Block(board.stones, p)
        /\ IsInjective(board.blocks[k].stones)
        /\ board.blocks[k].anchor \in ToSet(board.blocks[k].stones)
    BY <2>2, <2>4 DEF Describes, Lists
  <2> QED BY <2>1, <2>5 DEF k
<1> QED BY <1>2, <1>3 DEF BlocksAreGroups, GroupsExactOn

\* What the engine refuses, the rules refuse, and conversely.
LEMMA LegalFollows == GameInv => LegalMovesAgree
<1> SUFFICES ASSUME GameInv PROVE LegalMovesAgree
  OBVIOUS
<1>1. Coherent(board)
  BY DEF GameInv
<1>2. ASSUME NEW color \in StoneColors, NEW p \in Positions
      PROVE  IsLegal(board, p, color) <=> Rules!IsLegal(p, color)
  <2>1. IsLegal(board, p, color) <=>
          board.stones[p] = NONE /\ p # board.koPoint /\ ~ IsSuicide(board, p, color)
    BY DEF IsLegal, IsRealPoint, Occupied
  <2>2. Rules!IsLegal(p, color) <=>
          board.stones[p] = NONE /\ p # board.koPoint /\ ~ Rules!IsSuicide(board.stones, p, color)
    BY SameConstants DEF Rules!IsLegal
  <2>3. CASE board.stones[p] = NONE
    <3>1. IsSuicide(board, p, color) <=> Rules!IsSuicide(board.stones, p, color)
      BY <1>1, <2>3, SuicideAgrees
    <3> QED BY <2>1, <2>2, <3>1
  <2>4. CASE board.stones[p] # NONE
    BY <2>1, <2>2, <2>4
  <2> QED BY <2>3, <2>4
<1> QED BY <1>2 DEF LegalMovesAgree

-----------------------------------------------------------------------------
\* The theorems.

\* The fields of the board keep their types and ranges, whatever is played
\* (TypeOK: the counters AddStone and RemoveStone update, the block objects).
THEOREM TypeCorrect == Spec => []TypeOK
BY GameIsCoherent, TypesFollow, PTL

\* The neighbour counters are those of the stones around a point, for every point
\* and colour (AddStone, RemoveStone).
THEOREM CountsExact == Spec => []NeighbourCountsExact
BY GameIsCoherent, CountsFollow, PTL

\* A stone's block object lists its group and nothing else, across joins and
\* captures (UpdateBlocks, ImportBlock, RemoveStones).
THEOREM GroupsExact == Spec => []BlocksAreGroups
BY GameIsCoherent, GroupsFollow, PTL

\* The liberty counter of every block is the number of its liberties (LoseLiberty,
\* RegainLiberty, FindUniqueLiberties): what suicide and capture are decided by.
THEOREM CountedLibertiesExact == Spec => []LibertiesExact
BY GameIsCoherent, LibertiesFollow, PTL

\* The engine allows exactly the moves the rules allow (IsLegal, IsSuicide).
THEOREM LegalityAgrees == Spec => []LegalMovesAgree
BY GameIsCoherent, LegalFollows, PTL

-----------------------------------------------------------------------------
\* The engine implements the rules.

\* A game begins as the rules begin.
LEMMA RulesInit == Init => Rules!Init
<1> SUFFICES ASSUME NEW c \in StoneColors, board = NewBoard(c) PROVE Rules!Init
  BY DEF Init
<1>1. /\ board.stones = [p \in Positions |-> NONE]
      /\ board.koPoint = NO_KO_POINT /\ board.toPlay = c
      /\ board.bw_prisoners = [d \in StoneColors |-> 0]
      /\ board.moves = <<>>
  BY NewBoardIs
<1> QED BY <1>1, SameConstants DEF Rules!Init

\* A play of the engine is a play of the rules.
LEMMA RulesPlay ==
  ASSUME GameInv, NEW p \in Positions, NEW color \in StoneColors, PlayStone(color, p)
  PROVE  Rules!Play(p, color)
<1>1. /\ PlayedOn(board, board', p, color)
      /\ board'.toPlay = Opponent(color)
      /\ Len(board'.moves) = Len(board.moves) + 1
  BY PlayKeepsGame
<1>2. Len(board.moves) < MaxMoves /\ IsLegal(board, p, color)
  BY DEF PlayStone
<1>3. Rules!IsLegal(p, color)
  BY <1>2, LegalFollows DEF LegalMovesAgree
<1>4. /\ \A S : Rules!Cardinality(S) = Cardinality(S)
      /\ Rules!Opponent(color) = Opponent(color)
  BY SameConstants, SameFiniteness
<1> QED BY <1>1, <1>2, <1>3, <1>4 DEF PlayedOn, Rules!Play

\* A cleared board is where the rules begin.
LEMMA RulesClear == ClearBoard => Rules!ClearBoard
<1> SUFFICES ASSUME NEW c \in StoneColors, board' = NewBoard(c) PROVE Rules!ClearBoard
  BY DEF ClearBoard
<1>1. /\ board'.stones = [p \in Positions |-> NONE]
      /\ board'.koPoint = NO_KO_POINT /\ board'.toPlay = c
      /\ board'.bw_prisoners = [d \in StoneColors |-> 0]
      /\ board'.moves = <<>>
  BY NewBoardIs
<1> QED BY <1>1, SameConstants DEF Rules!ClearBoard

\* Every step of the game is a step of the rules, or changes nothing they know of.
LEMMA RulesNext == GameInv /\ [Next]_vars => [Rules!Next]_(Rules!vars)
<1> SUFFICES ASSUME GameInv, [Next]_vars PROVE [Rules!Next]_(Rules!vars)
  OBVIOUS
<1>1. ASSUME NEW color \in StoneColors, NEW p \in Positions, PlayStone(color, p)
      PROVE  Rules!Next
  BY <1>1, RulesPlay, SameConstants DEF Rules!Next
<1>2. CASE ClearBoard
  BY <1>2, RulesClear DEF Rules!Next
<1>3. CASE UNCHANGED vars
  BY <1>3 DEF vars, Rules!vars
<1> QED BY <1>1, <1>2, <1>3 DEF Next

\* Every play of the engine is a play of the rules, with its captures, its ko
\* point and its prisoners (GoBoard::Play against GoRules).
THEOREM EngineImplementsRules == Spec => ImplementsRules
<1>1. Spec => Rules!Spec
  BY RulesInit, RulesNext, GameIsCoherent, PTL DEF Spec, Rules!Spec
<1> QED BY <1>1 DEF ImplementsRules

-----------------------------------------------------------------------------
\* The promises of the rules.

\* What the theorems about the rules speak of is what the rules on this board are.
LEMMA SameOperators ==
  /\ \A s, p : Facts!Block(s, p) = Rules!Block(s, p)
  /\ \A s, B : Facts!Liberties(s, B) = Rules!Liberties(s, B)
  /\ \A s, p, c : Facts!Placed(s, p, c) = Rules!Placed(s, p, c)
  /\ \A s, D : Facts!Removed(s, D) = Rules!Removed(s, D)
  /\ \A Bs : Facts!KoAfter(Bs) = Rules!KoAfter(Bs)
<1>1. \A s, B : Facts!Liberties(s, B) = Rules!Liberties(s, B)
  BY SameConstants DEF Facts!Liberties, Rules!Liberties
<1>2. \A s, p, c : Facts!Placed(s, p, c) = Rules!Placed(s, p, c)
  BY SameConstants DEF Facts!Placed, Rules!Placed
<1>3. \A s, D : Facts!Removed(s, D) = Rules!Removed(s, D)
  BY SameConstants DEF Facts!Removed, Rules!Removed
<1>4. \A Bs : Facts!KoAfter(Bs) = Rules!KoAfter(Bs)
  BY SameConstants DEF Facts!KoAfter, Rules!KoAfter, Facts!SingleStones, Rules!SingleStones
<1> QED BY <1>1, <1>2, <1>3, <1>4, SameBlocks

\* So are the captures,
LEMMA SameCaptures ==
  \A t, p, c : /\ Facts!CapturedBlocks(t, p, c) = Rules!CapturedBlocks(t, p, c)
               /\ Facts!Captured(t, p, c) = Rules!Captured(t, p, c)
BY SameConstants, SameOperators
   DEF Facts!CapturedBlocks, Rules!CapturedBlocks, Facts!Captured, Rules!Captured

\* legality,
LEMMA SameLegality ==
  \A p, c : Facts!IsLegal(p, c) <=> Rules!IsLegal(p, c)
BY SameConstants, SameOperators
   DEF Facts!IsLegal, Rules!IsLegal, Facts!IsSuicide, Rules!IsSuicide

\* a play,
LEMMA SamePlay ==
  \A p, c : Rules!Play(p, c) => Facts!Play(p, c)
BY SameConstants, SameOperators, SameCaptures, SameLegality, SameFiniteness
   DEF Facts!Play, Rules!Play

\* every step,
LEMMA SameStep == [Rules!Next]_(Rules!vars) => [Facts!Next]_(Facts!vars)
BY SamePlay, SameConstants
   DEF Facts!Next, Rules!Next, Facts!vars, Rules!vars, Facts!ClearBoard, Rules!ClearBoard

\* the beginning,
LEMMA SameInit == Rules!Init => Facts!Init
BY SameConstants DEF Facts!Init, Rules!Init

\* and what is promised.
LEMMA SameProperties ==
  /\ Facts!NoDeadBlocks => Rules!NoDeadBlocks
  /\ Facts!KoPointEnclosed => Rules!KoPointEnclosed
  /\ Facts!StoneConservation => Rules!StoneConservation
BY SameConstants, SameOperators, SameFiniteness
   DEF Facts!NoDeadBlocks, Rules!NoDeadBlocks, Facts!KoPointEnclosed, Rules!KoPointEnclosed,
       Facts!StoneConservation, Rules!StoneConservation, Facts!StonesOn, Rules!StonesOn,
       S_BLACK, S_WHITE, Facts!S_BLACK, Facts!S_WHITE, Rules!S_BLACK, Rules!S_WHITE

\* So what the rules promise holds of the engine: after any plays every block has a
\* liberty, a ko point is empty and enclosed by the player who captured, and stones and
\* prisoners add up to the plays (KillSurroundingDeadBlocks, IsSuicide, RemoveStone).
THEOREM EngineKeepsRules ==
  Spec => [](Rules!NoDeadBlocks /\ Rules!KoPointEnclosed /\ Rules!StoneConservation)
<1>1. Spec => Facts!Spec
  <2>1. Rules!Spec => Facts!Spec
    BY SameInit, SameStep, PTL DEF Rules!Spec, Facts!Spec
  <2> QED BY <2>1, EngineImplementsRules DEF ImplementsRules
<1>2. Facts!Spec => []Facts!NoDeadBlocks /\ []Facts!KoPointEnclosed /\ []Facts!StoneConservation
  BY BoardGraph, SameConstants, SameFiniteness,
     Facts!BlocksLive, Facts!KoEnclosed, Facts!StonesConserved
<1> QED BY <1>1, <1>2, SameProperties, PTL
=============================================================================
