------------------------------ MODULE GoRules ------------------------------
(***************************************************************************)
(* What the board engine promises: the game of Go as GoBoard::Play and     *)
(* GoBoard::IsLegal decide it, over any finite graph of points and without *)
(* any of the incremental bookkeeping (block objects, liberty counters,    *)
(* neighbour counters) that GoBoard.tla models.                            *)
(*                                                                         *)
(* A block is a maximal connected set of stones of one colour.  It is the  *)
(* intersection of the sets of such stones that contain a point and are    *)
(* closed under adjacency, so that no recursion is needed.                 *)
(***************************************************************************)
EXTENDS GoPoint, FiniteSets

CONSTANTS Points,      \* the intersections of the board
          Neighbours,  \* the points adjacent to a point
          MaxMoves     \* bound: plays since the board was cleared

ASSUME PointsAssumption == IsFiniteSet(Points) /\ NO_KO_POINT \notin Points

ASSUME NeighboursAssumption ==
  /\ Neighbours \in [Points -> SUBSET Points]
  /\ \A p, q \in Points : q \in Neighbours[p] => p \in Neighbours[q]
  /\ \A p \in Points : p \notin Neighbours[p]

VARIABLES stones,      \* the content of every point
          koPoint,     \* the point the next play may not take, or NO_KO_POINT
          toPlay,      \* the colour that did not play last
          prisoners,   \* stones captured by each colour
          movePointer  \* number of plays since the board was cleared

vars == <<stones, koPoint, toPlay, prisoners, movePointer>>

-----------------------------------------------------------------------------
\* Blocks and liberties of a position s.

SameColor(s, p) == {q \in Points : s[q] = s[p]}

ClosedIn(B, S) == \A q \in B : Neighbours[q] \cap S \subseteq B

Block(s, p) ==
  {q \in SameColor(s, p) :
     \A B \in SUBSET SameColor(s, p) :
        p \in B /\ ClosedIn(B, SameColor(s, p)) => q \in B}

Liberties(s, B) == {q \in Points : s[q] = NONE /\ Neighbours[q] \cap B # {}}

-----------------------------------------------------------------------------
\* Legality.  As in the code, anyone may move: IsLegal ignores toPlay, and the
\* ko point is closed to both colours.

\* Mutant of IsSuicide: joining a block is always safe.
IsSuicideUnlessJoined(s, p, color) ==
  /\ \A n \in Neighbours[p] : s[n] = BoardColor(Opponent(color))
  /\ \A n \in Neighbours[p] : Liberties(s, Block(s, n)) # {p}

IsSuicide(s, p, color) ==
  /\ \A n \in Neighbours[p] : s[n] # NONE
  /\ \A n \in Neighbours[p] :
        s[n] = BoardColor(color) => Liberties(s, Block(s, n)) \subseteq {p}
  /\ \A n \in Neighbours[p] :
        s[n] = BoardColor(Opponent(color)) => Liberties(s, Block(s, n)) # {p}

\* Mutant of IsLegal: the ko point is not looked at.
IsLegalWithoutKo(p, color) == stones[p] = NONE /\ ~ IsSuicide(stones, p, color)

IsLegal(p, color) ==
  /\ stones[p] = NONE
  /\ p # koPoint
  /\ ~ IsSuicide(stones, p, color)

-----------------------------------------------------------------------------
\* The effect of a play.

Placed(s, p, color) == [s EXCEPT ![p] = BoardColor(color)]

\* The enemy blocks next to p that the stone just placed on p left dead.
CapturedBlocks(t, p, color) ==
  {Block(t, n) : n \in {m \in Neighbours[p] :
                          /\ t[m] = BoardColor(Opponent(color))
                          /\ Liberties(t, Block(t, m)) = {}}}

Captured(t, p, color) == UNION CapturedBlocks(t, p, color)

Removed(t, D) == [q \in Points |-> IF q \in D THEN NONE ELSE t[q]]

\* The ko point is the captured stone when exactly one of the captured blocks
\* is a single stone, whatever else the play captures.
SingleStones(Bs) == {q \in Points : {q} \in Bs}

\* Mutant of KoAfter: the size of the captured block is not looked at.
KoAfterAnyCapture(Bs) == IF Bs = {} THEN NO_KO_POINT ELSE CHOOSE q \in UNION Bs : TRUE

KoAfter(Bs) ==
  IF \E q \in Points : SingleStones(Bs) = {q}
  THEN CHOOSE q \in Points : SingleStones(Bs) = {q}
  ELSE NO_KO_POINT

Play(p, color) ==
  LET t == Placed(stones, p, color)
      D == Captured(t, p, color)
  IN  /\ movePointer < MaxMoves
      /\ IsLegal(p, color)
      /\ stones' = Removed(t, D)
      /\ koPoint' = KoAfter(CapturedBlocks(t, p, color))
      /\ toPlay' = Opponent(color)
      /\ prisoners' = [prisoners EXCEPT ![color] = @ + Cardinality(D)]
      /\ movePointer' = movePointer + 1

\* Mutants of ClearBoard: the prisoners, or the ko point, are not reset.
ClearBoardKeepsPrisoners ==
  /\ stones' = [p \in Points |-> NONE]
  /\ koPoint' = NO_KO_POINT
  /\ toPlay' \in StoneColors
  /\ movePointer' = 0
  /\ UNCHANGED prisoners

ClearBoardKeepsKo ==
  /\ stones' = [p \in Points |-> NONE]
  /\ toPlay' \in StoneColors
  /\ prisoners' = [c \in StoneColors |-> 0]
  /\ movePointer' = 0
  /\ UNCHANGED koPoint

\* A fresh board does not set the colour to play.
ClearBoard ==
  /\ stones' = [p \in Points |-> NONE]
  /\ koPoint' = NO_KO_POINT
  /\ toPlay' \in StoneColors
  /\ prisoners' = [c \in StoneColors |-> 0]
  /\ movePointer' = 0

Init ==
  /\ stones = [p \in Points |-> NONE]
  /\ koPoint = NO_KO_POINT
  /\ toPlay \in StoneColors
  /\ prisoners = [c \in StoneColors |-> 0]
  /\ movePointer = 0

Next ==
  \/ \E p \in Points, color \in StoneColors : Play(p, color)
  \/ ClearBoard

Spec == Init /\ [][Next]_vars

-----------------------------------------------------------------------------
\* Properties.

\* The variables have their types.
TypeOK ==
  /\ stones \in [Points -> BoardColors]
  /\ koPoint \in Points \cup {NO_KO_POINT}
  /\ toPlay \in StoneColors
  /\ prisoners \in [StoneColors -> Nat]
  /\ movePointer \in Nat

\* Between two plays every block on the board has a liberty: IsSuicide refuses
\* exactly the plays that would leave a dead block, and the search for dead
\* blocks next to the stone played (KillSurroundingDeadBlocks) finds them all.
NoDeadBlocks ==
  \A p \in Points : stones[p] # NONE => Liberties(stones, Block(stones, p)) # {}

\* A ko point set by KillSurroundingDeadBlocks is an empty point enclosed by
\* stones of the player who captured: closing it refuses the opponent a point
\* that only a recapture could take.
KoPointEnclosed ==
  koPoint # NO_KO_POINT =>
    /\ stones[koPoint] = NONE
    /\ \A n \in Neighbours[koPoint] : stones[n] = BoardColor(Opponent(toPlay))

StonesOn(s) == {p \in Points : s[p] # NONE}

\* Every stone ever played is on the board or counted once as a prisoner
\* (RemoveStone is the only writer of bw_prisoners).
StoneConservation ==
  Cardinality(StonesOn(stones)) + prisoners[S_BLACK] + prisoners[S_WHITE] = movePointer
=============================================================================
