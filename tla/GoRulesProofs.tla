--------------------------- MODULE GoRulesProofs ---------------------------
(***************************************************************************)
(* Theorems about the rules of GoRules, for every finite graph of points   *)
(* and every bound on the moves.                                           *)
(***************************************************************************)
EXTENDS GoRules, FiniteSetTheorems, TLAPS

USE DEF StoneColors, BoardColors, S_BLACK, S_WHITE, NONE, B_BLACK, B_WHITE,
        BoardColor, Opponent

-----------------------------------------------------------------------------
\* Blocks.

\* A block contains its point and is made of stones like it.
LEMMA BlockBasics ==
  ASSUME NEW s, NEW p \in Points
  PROVE  /\ p \in Block(s, p)
         /\ Block(s, p) \subseteq SameColor(s, p)
         /\ SameColor(s, p) \subseteq Points
BY DEF Block, SameColor

\* A block is closed under adjacency among the stones of its colour.
LEMMA BlockClosed ==
  ASSUME NEW s, NEW p \in Points,
         NEW q \in Block(s, p), NEW r \in Points, r \in Neighbours[q], s[r] = s[q]
  PROVE  r \in Block(s, p)
<1>1. q \in SameColor(s, p) /\ r \in SameColor(s, p)
  BY DEF Block, SameColor
<1>2. ASSUME NEW B \in SUBSET SameColor(s, p), p \in B, ClosedIn(B, SameColor(s, p))
      PROVE  r \in B
  <2>1. q \in B
    BY <1>2 DEF Block
  <2>2. QED
    BY <1>1, <1>2, <2>1 DEF ClosedIn
<1>3. QED
  BY <1>1, <1>2 DEF Block

\* A block is the least such set.
LEMMA BlockLeast ==
  ASSUME NEW s, NEW p \in Points,
         NEW B \in SUBSET SameColor(s, p), p \in B,
         \A q \in B : \A r \in Points : r \in Neighbours[q] /\ s[r] = s[q] => r \in B
  PROVE  Block(s, p) \subseteq B
<1>1. ClosedIn(B, SameColor(s, p))
  BY DEF ClosedIn, SameColor
<1>2. QED
  BY <1>1 DEF Block

\* Any stone of a block determines it.
LEMMA BlockOfMember ==
  ASSUME NEW s, NEW p \in Points, NEW q \in Block(s, p)
  PROVE  Block(s, q) = Block(s, p)
<1>1. q \in Points /\ s[q] = s[p] /\ SameColor(s, q) = SameColor(s, p)
  BY DEF Block, SameColor
<1>2. Block(s, q) \subseteq Block(s, p)
  <2>1. Block(s, p) \in SUBSET SameColor(s, q)
    BY <1>1, BlockBasics
  <2>2. \A x \in Block(s, p) : \A r \in Points :
           r \in Neighbours[x] /\ s[r] = s[x] => r \in Block(s, p)
    BY BlockClosed
  <2>3. QED
    BY <1>1, <2>1, <2>2, BlockLeast
<1>3. p \in Block(s, q)
  <2>1. SUFFICES ASSUME p \notin Block(s, q) PROVE FALSE
    OBVIOUS
  <2> DEFINE Rest == Block(s, p) \ Block(s, q)
  <2>2. Rest \in SUBSET SameColor(s, p) /\ p \in Rest
    BY <2>1, BlockBasics
  <2>3. ASSUME NEW x \in Rest, NEW r \in Points, r \in Neighbours[x], s[r] = s[x]
        PROVE  r \in Rest
    <3>1. r \in Block(s, p)
      BY <2>3, BlockClosed
    <3>2. x \in Points
      BY BlockBasics
    <3>3. x \in Neighbours[r]
      BY <2>3, <3>2, NeighboursAssumption
    <3>4. r \notin Block(s, q)
      BY <1>1, <2>3, <3>2, <3>3, BlockClosed
    <3>5. QED
      BY <3>1, <3>4
  <2>4. Block(s, p) \subseteq Rest
    <3> HIDE DEF Rest
    <3>1. QED
      BY <2>2, <2>3, BlockLeast
  <2>5. q \in Block(s, q)
    BY <1>1, BlockBasics
  <2>6. QED
    BY <2>4, <2>5
<1>4. Block(s, p) \subseteq Block(s, q)
  <2>1. Block(s, q) \in SUBSET SameColor(s, p)
    BY <1>1, BlockBasics
  <2>2. \A x \in Block(s, q) : \A r \in Points :
           r \in Neighbours[x] /\ s[r] = s[x] => r \in Block(s, q)
    BY <1>1, BlockClosed
  <2>3. QED
    BY <1>3, <2>1, <2>2, BlockLeast
<1>5. QED
  BY <1>2, <1>4

-----------------------------------------------------------------------------
\* Captures.

\* Captured stones are enemy stones next to which the capturer has just played;
\* each belongs, with its whole block, to a block without liberties.
LEMMA CapturedStones ==
  ASSUME NEW t, NEW p \in Points, NEW color \in StoneColors
  PROVE  /\ Captured(t, p, color) \subseteq Points
         /\ \A q \in Captured(t, p, color) : t[q] = BoardColor(Opponent(color))
         /\ IsFiniteSet(Captured(t, p, color))
         /\ Cardinality(Captured(t, p, color)) \in Nat
<1> DEFINE D == Captured(t, p, color)
<1>1. ASSUME NEW q \in D
      PROVE  q \in Points /\ t[q] = BoardColor(Opponent(color))
  <2>1. PICK n \in Neighbours[p] : /\ t[n] = BoardColor(Opponent(color))
                                   /\ q \in Block(t, n)
    BY DEF Captured, CapturedBlocks
  <2>2. n \in Points
    BY NeighboursAssumption
  <2>3. QED
    BY <2>1, <2>2, BlockBasics DEF SameColor
<1>2. D \subseteq Points
  BY <1>1
<1>3. IsFiniteSet(D)
  BY <1>2, PointsAssumption, FS_Subset
<1>4. Cardinality(D) \in Nat
  BY <1>3, FS_CardinalityType
<1>5. QED
  BY <1>1, <1>2, <1>3, <1>4

\* The ko point is a point or none at all.
LEMMA KoAfterType ==
  ASSUME NEW Bs
  PROVE  KoAfter(Bs) \in Points \cup {NO_KO_POINT}
<1>1. CASE \E q \in Points : SingleStones(Bs) = {q}
  BY <1>1 DEF KoAfter
<1>2. CASE ~ \E q \in Points : SingleStones(Bs) = {q}
  BY <1>2 DEF KoAfter
<1>3. QED
  BY <1>1, <1>2

\* When there is a ko point it is the one captured block that is a single stone.
LEMMA KoAfterSingle ==
  ASSUME NEW Bs, KoAfter(Bs) # NO_KO_POINT
  PROVE  KoAfter(Bs) \in Points /\ SingleStones(Bs) = {KoAfter(Bs)}
<1>1. \E q \in Points : SingleStones(Bs) = {q}
  BY DEF KoAfter
<1>2. KoAfter(Bs) = CHOOSE q \in Points : SingleStones(Bs) = {q}
  BY <1>1 DEF KoAfter
<1>3. QED
  BY <1>1, <1>2

-----------------------------------------------------------------------------
\* Type correctness.

\* A step keeps the types.
LEMMA TypeStep ==
  ASSUME TypeOK, [Next]_vars
  PROVE  TypeOK'
<1>1. ASSUME NEW p \in Points, NEW color \in StoneColors, Play(p, color)
      PROVE  TypeOK'
  <2> DEFINE t == Placed(stones, p, color)
             D == Captured(t, p, color)
  <2>1. t \in [Points -> BoardColors]
    BY DEF TypeOK, Placed
  <2>2. stones' \in [Points -> BoardColors]
    BY <1>1, <2>1 DEF Play, Removed
  <2>3. koPoint' \in Points \cup {NO_KO_POINT}
    BY <1>1, KoAfterType DEF Play
  <2>4. Cardinality(D) \in Nat
    BY CapturedStones
  <2>5. prisoners' = [prisoners EXCEPT ![color] = @ + Cardinality(D)]
    BY <1>1 DEF Play
  <2>6. prisoners' \in [StoneColors -> Nat]
    <3> HIDE DEF D
    <3>1. QED
      BY <2>4, <2>5 DEF TypeOK
  <2>7. toPlay' \in StoneColors /\ movePointer' \in Nat
    BY <1>1 DEF Play, TypeOK
  <2>8. QED
    BY <2>2, <2>3, <2>6, <2>7 DEF TypeOK
<1>2. ASSUME ClearBoard
      PROVE  TypeOK'
  BY <1>2 DEF ClearBoard, TypeOK
<1>3. CASE UNCHANGED vars
  BY <1>3 DEF TypeOK, vars
<1>4. QED
  BY <1>1, <1>2, <1>3 DEF Next

\* Every variable keeps its type, whatever the board and the moves.
THEOREM TypeCorrect == Spec => []TypeOK
<1>1. Init => TypeOK
  BY DEF Init, TypeOK
<1>2. TypeOK /\ [Next]_vars => TypeOK'
  BY TypeStep
<1>3. QED
  BY <1>1, <1>2, PTL DEF Spec

-----------------------------------------------------------------------------
\* No dead blocks.  Below, s is the position before a play, t the position with
\* the stone placed and a the position after the captures.

\* Playing on an empty point leaves the enemy's blocks as they were.
LEMMA EnemyBlockKept ==
  ASSUME NEW s \in [Points -> BoardColors], NEW p \in Points, s[p] = NONE,
         NEW color \in StoneColors, NEW x \in Points,
         s[x] = BoardColor(Opponent(color))
  PROVE  /\ Placed(s, p, color)[x] = s[x]
         /\ Block(Placed(s, p, color), x) = Block(s, x)
         /\ Liberties(Placed(s, p, color), Block(s, x)) = Liberties(s, Block(s, x)) \ {p}
<1> DEFINE t == Placed(s, p, color)
<1>1. /\ \A q \in Points : t[q] = IF q = p THEN BoardColor(color) ELSE s[q]
      /\ BoardColor(color) # BoardColor(Opponent(color))
      /\ BoardColor(color) # NONE /\ BoardColor(Opponent(color)) # NONE
  BY DEF Placed
<1>2. t[x] = s[x]
  BY <1>1
<1>3. SameColor(t, x) = SameColor(s, x)
  BY <1>1 DEF SameColor
<1>4. Block(t, x) = Block(s, x)
  BY <1>3 DEF Block
<1>5. Liberties(t, Block(s, x)) = Liberties(s, Block(s, x)) \ {p}
  BY <1>1 DEF Liberties
<1>6. QED
  BY <1>2, <1>4, <1>5

\* It can only extend the player's own blocks.
LEMMA OwnBlockGrows ==
  ASSUME NEW s \in [Points -> BoardColors], NEW p \in Points, s[p] = NONE,
         NEW color \in StoneColors, NEW x \in Points, s[x] = BoardColor(color)
  PROVE  Block(s, x) \subseteq Block(Placed(s, p, color), x)
<1> DEFINE t == Placed(s, p, color)
           B == Block(t, x) \ {p}
<1>1. /\ \A q \in Points : t[q] = IF q = p THEN BoardColor(color) ELSE s[q]
      /\ BoardColor(color) # NONE /\ x # p
  BY DEF Placed
<1>2. B \in SUBSET SameColor(s, x) /\ x \in B
  BY <1>1, BlockBasics DEF SameColor
<1>3. ASSUME NEW q \in B, NEW r \in Points, r \in Neighbours[q], s[r] = s[q]
      PROVE  r \in B
  <2>1. q \in Points /\ q # p /\ s[q] = BoardColor(color)
    BY <1>1, <1>2 DEF SameColor
  <2>2. r # p /\ t[r] = t[q]
    BY <1>1, <1>3, <2>1
  <2>3. r \in Block(t, x)
    <3>1. q \in Block(t, x)
      OBVIOUS
    <3> HIDE DEF B, t
    <3>2. QED
      BY <1>3, <2>2, <3>1, BlockClosed
  <2>4. QED
    BY <2>2, <2>3
<1>4. Block(s, x) \subseteq B
  <2> HIDE DEF B
  <2>1. QED
    BY <1>2, <1>3, BlockLeast
<1>5. QED
  BY <1>4

\* A block that no captured stone touches can only have grown.
LEMMA UntouchedBlockGrows ==
  ASSUME NEW t \in [Points -> BoardColors], NEW D \in SUBSET Points,
         NEW x \in Points, x \notin D, t[x] # NONE,
         \A y \in Block(Removed(t, D), x) : Neighbours[y] \cap D = {}
  PROVE  Block(t, x) \subseteq Block(Removed(t, D), x)
<1> DEFINE a == Removed(t, D)
           B == Block(a, x)
<1>1. \A q \in Points : a[q] = IF q \in D THEN NONE ELSE t[q]
  BY DEF Removed
<1>2. \A q \in B : q \in Points /\ q \notin D /\ a[q] = t[q] /\ t[q] = t[x]
  BY <1>1, BlockBasics DEF SameColor
<1>3. B \in SUBSET SameColor(t, x) /\ x \in B
  BY <1>2, BlockBasics DEF SameColor
<1>4. ASSUME NEW q \in B, NEW r \in Points, r \in Neighbours[q], t[r] = t[q]
      PROVE  r \in B
  <2>1. r \notin D
    BY <1>4
  <2>2. a[r] = a[q]
    BY <1>1, <1>2, <1>4, <2>1
  <2>3. QED
    <3> HIDE DEF a
    <3>1. QED
      BY <1>4, <2>2, BlockClosed
<1>5. QED
  <2> HIDE DEF B
  <2>1. Block(t, x) \subseteq B
    BY <1>3, <1>4, BlockLeast
  <2>2. QED
    BY <2>1 DEF B

\* A legal stone lands in a block that has a liberty, or that takes one from a
\* captured neighbour.
LEMMA LegalStoneLives ==
  ASSUME NEW s \in [Points -> BoardColors], NEW p \in Points, s[p] = NONE,
         NEW color \in StoneColors, ~ IsSuicide(s, p, color)
  PROVE  LET t == Placed(s, p, color)
         IN  \/ Liberties(t, Block(t, p)) # {}
             \/ Neighbours[p] \cap Captured(t, p, color) # {}
<1> DEFINE t == Placed(s, p, color)
<1>0. \A n \in Neighbours[p] : n \in Points /\ n # p /\ p \in Neighbours[n]
  BY NeighboursAssumption
<1>1. /\ \A q \in Points : t[q] = IF q = p THEN BoardColor(color) ELSE s[q]
      /\ BoardColor(color) # NONE
      /\ p \in Block(t, p)
  BY BlockBasics DEF Placed
<1>2. CASE \E n \in Neighbours[p] : s[n] = NONE
  <2>1. PICK n \in Neighbours[p] : s[n] = NONE
    BY <1>2
  <2>2. t[n] = NONE /\ p \in Neighbours[n] /\ n \in Points
    BY <1>0, <1>1, <2>1
  <2>3. n \in Liberties(t, Block(t, p))
    BY <1>1, <2>2 DEF Liberties
  <2>4. QED
    BY <2>3
<1>3. CASE \E n \in Neighbours[p] : /\ s[n] = BoardColor(color)
                                    /\ ~ (Liberties(s, Block(s, n)) \subseteq {p})
  <2>1. PICK n \in Neighbours[p] : /\ s[n] = BoardColor(color)
                                   /\ ~ (Liberties(s, Block(s, n)) \subseteq {p})
    BY <1>3
  <2>2. PICK l \in Liberties(s, Block(s, n)) : l # p
    BY <2>1
  <2>3. Block(s, n) \subseteq Block(t, n)
    BY <1>0, <2>1, OwnBlockGrows
  <2>4. t[n] = t[p]
    BY <1>0, <1>1, <2>1
  <2>5. n \in Block(t, p)
    <3> HIDE DEF t
    <3>1. QED
      BY <1>0, <1>1, <2>4, BlockClosed
  <2>6. Block(t, n) = Block(t, p)
    BY <2>5, BlockOfMember
  <2>7. l \in Points /\ t[l] = NONE
    BY <1>1, <2>2 DEF Liberties
  <2>8. Neighbours[l] \cap Block(t, p) # {}
    BY <2>2, <2>3, <2>6 DEF Liberties
  <2>9. l \in Liberties(t, Block(t, p))
    BY <2>7, <2>8 DEF Liberties
  <2>10. QED
    BY <2>9
<1>4. CASE \E n \in Neighbours[p] : /\ s[n] = BoardColor(Opponent(color))
                                    /\ Liberties(s, Block(s, n)) = {p}
  <2>1. PICK n \in Neighbours[p] : /\ s[n] = BoardColor(Opponent(color))
                                   /\ Liberties(s, Block(s, n)) = {p}
    BY <1>4
  <2>2. /\ t[n] = BoardColor(Opponent(color))
        /\ Liberties(t, Block(t, n)) = {}
    BY <1>0, <2>1, EnemyBlockKept
  <2>3. n \in Block(t, n)
    BY <1>0, BlockBasics
  <2>4. n \in Captured(t, p, color)
    BY <2>2, <2>3 DEF Captured, CapturedBlocks
  <2>5. QED
    BY <2>4
<1>5. QED
  BY <1>2, <1>3, <1>4 DEF IsSuicide

\* After a legal play every block left on the board has a liberty.
LEMMA PlayLeavesNoDeadBlock ==
  ASSUME NEW s \in [Points -> BoardColors], NEW p \in Points, s[p] = NONE,
         NEW color \in StoneColors, ~ IsSuicide(s, p, color),
         \A x \in Points : s[x] # NONE => Liberties(s, Block(s, x)) # {},
         NEW x \in Points,
         Removed(Placed(s, p, color), Captured(Placed(s, p, color), p, color))[x] # NONE
  PROVE  LET a == Removed(Placed(s, p, color), Captured(Placed(s, p, color), p, color))
         IN  Liberties(a, Block(a, x)) # {}
<1> DEFINE t == Placed(s, p, color)
           D == Captured(t, p, color)
           a == Removed(t, D)
<1>0. /\ t \in [Points -> BoardColors]
      /\ D \in SUBSET Points
      /\ \A q \in D : t[q] = BoardColor(Opponent(color))
  <2>1. t \in [Points -> BoardColors]
    BY DEF Placed
  <2> HIDE DEF t
  <2>2. QED
    BY <2>1, CapturedStones
<1>1. /\ \A q \in Points : t[q] = IF q = p THEN BoardColor(color) ELSE s[q]
      /\ \A q \in Points : a[q] = IF q \in D THEN NONE ELSE t[q]
      /\ x \notin D /\ t[x] # NONE
  BY DEF Placed, Removed
<1>2. CASE \E y \in Block(a, x) : Neighbours[y] \cap D # {}
  <2>1. PICK y \in Block(a, x), z \in D : z \in Neighbours[y]
    BY <1>2
  <2>2. y \in Points /\ z \in Points /\ y \in Neighbours[z]
    BY <1>0, <2>1, BlockBasics, NeighboursAssumption
  <2>3. a[z] = NONE
    BY <1>1, <2>1, <2>2
  <2>4. z \in Liberties(a, Block(a, x))
    <3> HIDE DEF a
    <3>1. QED
      BY <2>1, <2>2, <2>3 DEF Liberties
  <2>5. QED
    BY <2>4
<1>3. CASE \A y \in Block(a, x) : Neighbours[y] \cap D = {}
  <2>1. Block(t, x) \subseteq Block(a, x)
    <3> HIDE DEF t, D
    <3>1. QED
      BY <1>0, <1>1, <1>3, UntouchedBlockGrows
  <2>2. SUFFICES Liberties(t, Block(t, x)) # {}
    BY <1>1, <2>1 DEF Liberties
  <2>3. CASE s[x] = BoardColor(Opponent(color)) /\ x # p
    <3>1. /\ Block(t, x) = Block(s, x)
          /\ Liberties(t, Block(t, x)) = Liberties(s, Block(s, x)) \ {p}
      BY <2>3, EnemyBlockKept
    <3>2. SUFFICES ASSUME Liberties(t, Block(t, x)) = {} PROVE FALSE
      OBVIOUS
    <3>3. p \in Liberties(s, Block(s, x))
      BY <2>3, <3>1, <3>2
    <3>4. PICK n \in Neighbours[p] : n \in Block(s, x)
      BY <3>3 DEF Liberties
    <3>5. Block(t, n) = Block(t, x)
      BY <3>1, <3>4, BlockOfMember
    <3>6. t[n] = BoardColor(Opponent(color))
      <4>1. n \in Block(t, x)
        BY <3>1, <3>4
      <4>2. t[n] = t[x]
        BY <4>1, BlockBasics DEF SameColor
      <4>3. QED
        BY <1>1, <2>3, <4>2
    <3>7. x \in D
      <4>1. x \in Block(t, n)
        BY <3>5, BlockBasics
      <4>2. QED
        BY <3>2, <3>5, <3>6, <4>1 DEF Captured, CapturedBlocks
    <3>8. QED
      BY <1>1, <3>7
  <2>4. CASE t[x] = BoardColor(color) /\ p \notin Block(t, x)
    <3>1. x # p /\ s[x] = BoardColor(color) /\ s[x] # NONE
      BY <1>1, <2>4, BlockBasics
    <3>2. Block(s, x) \subseteq Block(t, x)
      BY <3>1, OwnBlockGrows
    <3>3. PICK l \in Liberties(s, Block(s, x)) : TRUE
      BY <3>1
    <3>4. l \in Points /\ s[l] = NONE /\ Neighbours[l] \cap Block(t, x) # {}
      BY <3>2, <3>3 DEF Liberties
    <3>5. l # p
      <4>1. SUFFICES ASSUME l = p PROVE FALSE
        OBVIOUS
      <4>2. PICK n \in Neighbours[p] : n \in Block(t, x)
        BY <3>4, <4>1
      <4>3. n \in Points /\ p \in Neighbours[n] /\ t[n] = t[x]
        BY <4>2, BlockBasics, NeighboursAssumption DEF SameColor
      <4>4. t[p] = t[n]
        BY <1>1, <2>4, <4>3
      <4>5. p \in Block(t, x)
        <5> HIDE DEF t
        <5>1. QED
          BY <4>2, <4>3, <4>4, BlockClosed
      <4>6. QED
        BY <2>4, <4>5
    <3>6. l \in Liberties(t, Block(t, x))
      BY <1>1, <3>4, <3>5 DEF Liberties
    <3>7. QED
      BY <3>6
  <2>5. CASE p \in Block(t, x)
    <3>1. Block(t, p) = Block(t, x)
      BY <2>5, BlockOfMember
    <3>2. p \in Block(a, x)
      BY <2>1, <2>5
    <3>3. Neighbours[p] \cap D = {}
      BY <1>3, <3>2
    <3>4. Liberties(t, Block(t, p)) # {}
      BY <3>3, LegalStoneLives
    <3>5. QED
      BY <3>1, <3>4
  <2>6. QED
    <3>1. t[x] = BoardColor(color) \/ (s[x] = BoardColor(Opponent(color)) /\ x # p)
      BY <1>0, <1>1
    <3>2. QED
      BY <2>3, <2>4, <2>5, <3>1
<1>4. QED
  BY <1>2, <1>3

\* A step leaves no dead block.
LEMMA NoDeadBlocksStep ==
  ASSUME TypeOK, NoDeadBlocks, [Next]_vars
  PROVE  NoDeadBlocks'
<1>1. ASSUME NEW p \in Points, NEW color \in StoneColors, Play(p, color)
      PROVE  NoDeadBlocks'
  <2>1. /\ stones \in [Points -> BoardColors]
        /\ stones[p] = NONE
        /\ ~ IsSuicide(stones, p, color)
        /\ stones' = Removed(Placed(stones, p, color),
                             Captured(Placed(stones, p, color), p, color))
    BY <1>1 DEF Play, IsLegal, TypeOK
  <2>2. QED
    BY <2>1, PlayLeavesNoDeadBlock DEF NoDeadBlocks
<1>2. ASSUME ClearBoard
      PROVE  NoDeadBlocks'
  BY <1>2 DEF ClearBoard, NoDeadBlocks
<1>3. CASE UNCHANGED vars
  BY <1>3 DEF NoDeadBlocks, vars
<1>4. QED
  BY <1>1, <1>2, <1>3 DEF Next

\* Between two plays no block on the board is without liberties.
THEOREM BlocksLive == Spec => []NoDeadBlocks
<1>1. Init => NoDeadBlocks
  BY DEF Init, NoDeadBlocks
<1>2. TypeOK /\ NoDeadBlocks /\ [Next]_vars => NoDeadBlocks'
  BY NoDeadBlocksStep
<1>3. QED
  BY <1>1, <1>2, TypeCorrect, PTL DEF Spec

-----------------------------------------------------------------------------
\* The ko point.

\* The stones a play takes off were on the board before it.
LEMMA CapturedWereThere ==
  ASSUME NEW s \in [Points -> BoardColors], NEW p \in Points, s[p] = NONE,
         NEW color \in StoneColors
  PROVE  LET t == Placed(s, p, color)
             D == Captured(t, p, color)
         IN  {q \in Points : s[q] # NONE /\ Removed(t, D)[q] = NONE} = D
<1> DEFINE t == Placed(s, p, color)
           D == Captured(t, p, color)
<1>1. \A q \in D : q \in Points /\ t[q] = BoardColor(Opponent(color))
  BY CapturedStones
<1>2. \A q \in Points : t[q] = IF q = p THEN BoardColor(color) ELSE s[q]
  BY DEF Placed
<1>3. \A q \in Points : Removed(t, D)[q] = IF q \in D THEN NONE ELSE t[q]
  BY DEF Removed
<1>4. BoardColor(color) # BoardColor(Opponent(color))
      /\ BoardColor(color) # NONE /\ BoardColor(Opponent(color)) # NONE
  OBVIOUS
<1>5. QED
  <2> HIDE DEF D, t
  <2>1. \A q \in D : s[q] # NONE
    BY <1>1, <1>2, <1>4
  <2>2. QED
    BY <1>1, <1>2, <1>3, <1>4, <2>1 DEF D, t

\* One captured stone is one captured block, and becomes the ko point.
LEMMA OneCaptureIsKo ==
  ASSUME NEW t, NEW p \in Points, NEW color \in StoneColors,
         NEW q \in Points, Captured(t, p, color) = {q}
  PROVE  KoAfter(CapturedBlocks(t, p, color)) = q
<1> DEFINE Bs == CapturedBlocks(t, p, color)
<1>1. ASSUME NEW B \in Bs
      PROVE  B = {q}
  <2>1. PICK n \in Neighbours[p] : B = Block(t, n)
    BY DEF CapturedBlocks
  <2>2. n \in B
    BY <2>1, BlockBasics, NeighboursAssumption
  <2>3. B \subseteq {q}
    BY DEF Captured
  <2>4. QED
    BY <2>2, <2>3
<1>2. Bs # {}
  BY DEF Captured
<1>3. SingleStones(Bs) = {q}
  <2> HIDE DEF Bs
  <2>1. {q} \in Bs
    BY <1>1, <1>2
  <2>2. QED
    BY <1>1, <2>1 DEF SingleStones
<1>4. QED
  BY <1>3 DEF KoAfter

\* A ko point was captured, and the stones around it are the capturer's.
LEMMA KoAfterEnclosed ==
  ASSUME NEW t \in [Points -> BoardColors], NEW p \in Points, NEW color \in StoneColors,
         NEW q, q = KoAfter(CapturedBlocks(t, p, color)), q # NO_KO_POINT
  PROVE  /\ q \in Points
         /\ q \in Captured(t, p, color)
         /\ \A m \in Neighbours[q] :
               Removed(t, Captured(t, p, color))[m] = BoardColor(color)
<1> DEFINE D == Captured(t, p, color)
<1>1. q \in Points /\ {q} \in CapturedBlocks(t, p, color)
  BY KoAfterSingle DEF SingleStones
<1>2. q \in D
  BY <1>1 DEF Captured
<1>3. PICK n \in Neighbours[p] : /\ {q} = Block(t, n)
                                 /\ t[n] = BoardColor(Opponent(color))
                                 /\ Liberties(t, Block(t, n)) = {}
  BY <1>1 DEF CapturedBlocks
<1>4. n = q
  BY <1>3, BlockBasics, NeighboursAssumption
<1>5. ASSUME NEW m \in Neighbours[q]
      PROVE  Removed(t, D)[m] = BoardColor(color)
  <2>1. m \in Points /\ m # q /\ q \in Neighbours[m]
    BY <1>1, NeighboursAssumption
  <2>2. t[m] # NONE
    BY <1>3, <2>1 DEF Liberties
  <2>3. t[m] # t[q]
    <3>1. SUFFICES ASSUME t[m] = t[q] PROVE FALSE
      OBVIOUS
    <3>2. q \in Block(t, q)
      BY <1>1, BlockBasics
    <3>3. m \in Block(t, q)
      BY <1>1, <2>1, <3>1, <3>2, BlockClosed
    <3>4. QED
      BY <1>3, <1>4, <2>1, <3>3
  <2>4. t[m] = BoardColor(color)
    BY <1>3, <1>4, <2>1, <2>2, <2>3
  <2>5. m \notin D
    BY <2>4, CapturedStones
  <2>6. QED
    BY <2>1, <2>4, <2>5 DEF Removed
<1>6. QED
  BY <1>1, <1>2, <1>5

\* What a play does, with its legality spelled out.
LEMMA PlayFacts ==
  ASSUME TypeOK, NEW p \in Points, NEW color \in StoneColors, Play(p, color)
  PROVE  LET t == Placed(stones, p, color)
             D == Captured(t, p, color)
         IN  /\ t \in [Points -> BoardColors]
             /\ stones[p] = NONE
             /\ p # koPoint
             /\ stones' = Removed(t, D)
             /\ koPoint' = KoAfter(CapturedBlocks(t, p, color))
             /\ toPlay' = Opponent(color)
             /\ prisoners' = [prisoners EXCEPT ![color] = @ + Cardinality(D)]
             /\ movePointer' = movePointer + 1
BY DEF Play, IsLegal, Placed, TypeOK

\* A step keeps the ko point enclosed.
LEMMA KoPointEnclosedStep ==
  ASSUME TypeOK, KoPointEnclosed, [Next]_vars
  PROVE  KoPointEnclosed'
<1>1. ASSUME NEW p \in Points, NEW color \in StoneColors, Play(p, color)
      PROVE  KoPointEnclosed'
  <2> DEFINE t == Placed(stones, p, color)
             D == Captured(t, p, color)
  <2>1. /\ t \in [Points -> BoardColors]
        /\ stones' = Removed(t, D)
        /\ koPoint' = KoAfter(CapturedBlocks(t, p, color))
        /\ BoardColor(Opponent(toPlay')) = BoardColor(color)
    BY <1>1, PlayFacts
  <2>2. ASSUME koPoint' # NO_KO_POINT
        PROVE  /\ stones'[koPoint'] = NONE
               /\ \A n \in Neighbours[koPoint'] :
                     stones'[n] = BoardColor(Opponent(toPlay'))
    <3> HIDE DEF t
    <3>1. /\ koPoint' \in Points
          /\ koPoint' \in D
          /\ \A m \in Neighbours[koPoint'] : Removed(t, D)[m] = BoardColor(color)
      BY <2>1, <2>2, KoAfterEnclosed
    <3>2. stones'[koPoint'] = NONE
      BY <2>1, <3>1 DEF Removed
    <3>3. QED
      <4> HIDE DEF D
      <4>1. QED
        BY <2>1, <3>1, <3>2
  <2>3. QED
    BY <2>2 DEF KoPointEnclosed
<1>2. ASSUME ClearBoard
      PROVE  KoPointEnclosed'
  BY <1>2 DEF ClearBoard, KoPointEnclosed
<1>3. CASE UNCHANGED vars
  BY <1>3 DEF KoPointEnclosed, vars
<1>4. QED
  BY <1>1, <1>2, <1>3 DEF Next

\* The ko point is always an empty point enclosed by the player who captured.
THEOREM KoEnclosed == Spec => []KoPointEnclosed
<1>1. Init => KoPointEnclosed
  BY DEF Init, KoPointEnclosed
<1>2. TypeOK /\ KoPointEnclosed /\ [Next]_vars => KoPointEnclosed'
  BY KoPointEnclosedStep
<1>3. QED
  BY <1>1, <1>2, TypeCorrect, PTL DEF Spec

-----------------------------------------------------------------------------
\* Conservation of stones.

\* A play adds one stone and takes the captured ones off.
LEMMA PlayCount ==
  ASSUME NEW s \in [Points -> BoardColors], NEW p \in Points, s[p] = NONE,
         NEW color \in StoneColors
  PROVE  LET t == Placed(s, p, color)
             D == Captured(t, p, color)
         IN  /\ Cardinality(StonesOn(s)) \in Nat
             /\ Cardinality(D) \in Nat
             /\ Cardinality(StonesOn(Removed(t, D)))
                  = Cardinality(StonesOn(s)) + 1 - Cardinality(D)
<1> DEFINE t == Placed(s, p, color)
           D == Captured(t, p, color)
<1>1. /\ \A q \in Points : t[q] = IF q = p THEN BoardColor(color) ELSE s[q]
      /\ \A q \in Points : Removed(t, D)[q] = IF q \in D THEN NONE ELSE t[q]
      /\ BoardColor(color) # NONE /\ BoardColor(Opponent(color)) # NONE
  BY DEF Placed, Removed
<1>2. /\ D \subseteq Points /\ Cardinality(D) \in Nat
      /\ \A q \in D : t[q] = BoardColor(Opponent(color))
  BY CapturedStones
<1>3. IsFiniteSet(StonesOn(s)) /\ Cardinality(StonesOn(s)) \in Nat
  <2>1. StonesOn(s) \in SUBSET Points
    BY DEF StonesOn
  <2>2. IsFiniteSet(StonesOn(s))
    BY <2>1, PointsAssumption, FS_Subset
  <2>3. QED
    BY <2>2, FS_CardinalityType
<1>4. StonesOn(t) = StonesOn(s) \cup {p} /\ p \notin StonesOn(s)
  BY <1>1 DEF StonesOn
<1>5. /\ IsFiniteSet(StonesOn(t))
      /\ Cardinality(StonesOn(t)) = Cardinality(StonesOn(s)) + 1
  BY <1>3, <1>4, FS_AddElement
<1>6. StonesOn(Removed(t, D)) = StonesOn(t) \ D
  <2> HIDE DEF t, D
  <2>1. QED
    BY <1>1 DEF StonesOn
<1>7. StonesOn(t) \cap D = D
  <2> HIDE DEF t, D
  <2>1. QED
    BY <1>1, <1>2 DEF StonesOn
<1>8. Cardinality(StonesOn(t) \ D) = Cardinality(StonesOn(t)) - Cardinality(D)
  <2> DEFINE S == StonesOn(t)
  <2> HIDE DEF S, D
  <2>1. IsFiniteSet(S)
    BY <1>5 DEF S
  <2>2. Cardinality(S \ D) = Cardinality(S) - Cardinality(S \cap D)
    BY <2>1, FS_Difference
  <2>3. QED
    BY <1>7, <2>2 DEF S
<1>9. QED
  BY <1>2, <1>3, <1>5, <1>6, <1>8

\* A step conserves the stones.
LEMMA ConservationStep ==
  ASSUME TypeOK, StoneConservation, [Next]_vars
  PROVE  StoneConservation'
<1>1. ASSUME NEW p \in Points, NEW color \in StoneColors, Play(p, color)
      PROVE  StoneConservation'
  <2> DEFINE D == Captured(Placed(stones, p, color), p, color)
             c == Cardinality(D)
             n == Cardinality(StonesOn(stones))
  <2>1. /\ stones \in [Points -> BoardColors] /\ stones[p] = NONE
        /\ stones' = Removed(Placed(stones, p, color), D)
        /\ prisoners' = [prisoners EXCEPT ![color] = @ + c]
        /\ movePointer' = movePointer + 1
    BY <1>1, PlayFacts DEF TypeOK
  <2>2. /\ n \in Nat /\ c \in Nat
        /\ Cardinality(StonesOn(stones')) = n + 1 - c
    BY <2>1, PlayCount
  <2>3. prisoners'[S_BLACK] + prisoners'[S_WHITE]
          = prisoners[S_BLACK] + prisoners[S_WHITE] + c
    <3> HIDE DEF c
    <3>1. QED
      BY <2>1, <2>2 DEF TypeOK
  <2>4. n + prisoners[S_BLACK] + prisoners[S_WHITE] = movePointer
    BY DEF StoneConservation
  <2>5. /\ prisoners[S_BLACK] \in Nat /\ prisoners[S_WHITE] \in Nat
        /\ prisoners'[S_BLACK] \in Nat /\ prisoners'[S_WHITE] \in Nat
        /\ movePointer \in Nat
    BY TypeStep DEF TypeOK
  <2>6. QED
    <3> HIDE DEF n, c
    <3>1. QED
      BY <2>1, <2>2, <2>3, <2>4, <2>5 DEF StoneConservation
<1>2. ASSUME ClearBoard
      PROVE  StoneConservation'
  <2>1. StonesOn(stones') = {}
    BY <1>2 DEF ClearBoard, StonesOn
  <2>2. prisoners'[S_BLACK] = 0 /\ prisoners'[S_WHITE] = 0 /\ movePointer' = 0
    BY <1>2 DEF ClearBoard
  <2>3. QED
    BY <2>1, <2>2, FS_EmptySet DEF StoneConservation
<1>3. CASE UNCHANGED vars
  BY <1>3 DEF StoneConservation, StonesOn, vars
<1>4. QED
  BY <1>1, <1>2, <1>3 DEF Next

\* Every stone played is on the board or counted once as a prisoner.
THEOREM StonesConserved == Spec => []StoneConservation
<1>1. Init => StoneConservation
  <2>1. SUFFICES ASSUME Init PROVE StoneConservation
    OBVIOUS
  <2>2. StonesOn(stones) = {}
    BY <2>1 DEF Init, StonesOn
  <2>3. prisoners[S_BLACK] = 0 /\ prisoners[S_WHITE] = 0 /\ movePointer = 0
    BY <2>1 DEF Init
  <2>4. QED
    BY <2>2, <2>3, FS_EmptySet DEF StoneConservation
<1>2. TypeOK /\ StoneConservation /\ [Next]_vars => StoneConservation'
  BY ConservationStep
<1>3. QED
  BY <1>1, <1>2, TypeCorrect, PTL DEF Spec
=============================================================================
