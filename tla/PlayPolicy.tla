----------------------------- MODULE PlayPolicy -----------------------------
(***************************************************************************)
(* Local answers to the last play (PlayPolicy.cpp): the last liberties of  *)
(* the blocks around it, and the empty points around it whose neighbours   *)
(* match a hane or a cut.  Also how a finished board is scored.            *)
(*                                                                         *)
(* Patterns are read with plain index arithmetic, which leaves the board   *)
(* at its edges: a row goes on in the next one, and the rows below the     *)
(* first and above the last are memory of GoState.                         *)
(***************************************************************************)
EXTENDS GoGame

BOARD_MAX_SIZE == 19

POS_NS == BoardSize
POS_WE == 1

\* What State.stones[i] reads.  Below the stones lie the prisoners, the player to
\* move and the ko point, and before these a pointer of the object; above the
\* stones of a full board lie its neighbour counters, above those of a smaller
\* one what nobody has written, taken for no colour here.
StoneMemory(b, i) ==
  LET beyond == i - BOARD_MAX_SIZE * BOARD_MAX_SIZE
  IN  CASE IsRealPoint(i) -> b.stones[i]
        [] i = -1 -> b.bw_prisoners[S_WHITE]
        [] i = -2 -> b.bw_prisoners[S_BLACK]
        [] i = -3 -> b.toPlay
        [] i = -4 -> b.koPoint
        [] i < -4 -> NONE
        [] OTHER  -> IF BoardSize = BOARD_MAX_SIZE THEN b.numNeighbours[S_BLACK][beyond] ELSE NONE

IsColor(b, i, color) == StoneMemory(b, i) = BoardColor(color)
IsEmpty(b, i) == ~ Occupied(b, i)

-----------------------------------------------------------------------------
\* Patterns around the empty point p, with a direction for up and one for right.
\* Most of them match whichever of the two colours is "mine".

Hane1(b, p, up, right) ==
  /\ IsEmpty(b, p - right) /\ IsEmpty(b, p + right)
  /\ \E mine \in StoneColors :
       /\ IsColor(b, p + up, Opponent(mine))
       /\ IsColor(b, p + up - right, mine) /\ IsColor(b, p + up + right, mine)

Hane2(b, p, up, right) ==
  /\ IsEmpty(b, p + up + right) /\ IsEmpty(b, p - right) /\ IsEmpty(b, p + right)
  /\ \E mine \in StoneColors :
       IsColor(b, p + up, Opponent(mine)) /\ IsColor(b, p + up - right, mine)

Hane3(b, p, up, right) ==
  /\ IsEmpty(b, p + right) /\ IsEmpty(b, p - up)
  /\ \E mine \in StoneColors :
       /\ IsColor(b, p + up, Opponent(mine))
       /\ IsColor(b, p + up - right, mine) /\ IsColor(b, p - right, mine)

\* Only for the player to move.
Hane4(b, p, color, up, right) ==
  /\ IsColor(b, p + up, Opponent(color)) /\ IsColor(b, p + up + right, Opponent(color))
  /\ IsColor(b, p + up - right, color)
  /\ IsEmpty(b, p - right) /\ IsEmpty(b, p + right) /\ IsEmpty(b, p - up)

Cut1(b, p, up, right) ==
  \E mine \in StoneColors :
    /\ IsColor(b, p + up, Opponent(mine)) /\ IsColor(b, p - right, Opponent(mine))
    /\ IsColor(b, p + up - right, mine)
    /\ ~ IsColor(b, p + right, Opponent(mine)) /\ ~ IsColor(b, p - up, Opponent(mine))

Cut2(b, p, color, up, right) ==
  /\ IsColor(b, p + up, color)
  /\ IsColor(b, p + right, Opponent(color)) /\ IsColor(b, p - right, Opponent(color))
  /\ \A i \in {p - up, p - up - right, p - up + right} : IsColor(b, i, color) \/ IsEmpty(b, i)

TestAllHane(b, p, color, up, right) ==
  Hane1(b, p, up, right) \/ Hane2(b, p, up, right) \/ Hane3(b, p, up, right)
    \/ Hane4(b, p, color, up, right)

TestAllCut(b, p, color, up, right) == Cut1(b, p, up, right) \/ Cut2(b, p, color, up, right)

\* Mutant of RightDirection: right of north stays right of east.
RightOfNorth(up) == CASE up = POS_NS -> POS_WE [] up = -POS_NS -> -POS_WE
                      [] up = POS_WE -> POS_WE [] up = -POS_WE -> -POS_WE

RightDirection(up) == CASE up = POS_NS -> POS_WE  [] up = -POS_NS -> -POS_WE
                        [] up = POS_WE -> -POS_NS [] up = -POS_WE -> POS_NS

\* Every pattern, in every direction, and with its left and right exchanged.
MatchAny(b, p, color) ==
  \E up \in {POS_NS, -POS_NS, POS_WE, -POS_WE} :
    \E right \in {RightDirection(up), -RightDirection(up)} :
      TestAllHane(b, p, color, up, right) \/ TestAllCut(b, p, color, up, right)

-----------------------------------------------------------------------------
\* Local moves.

\* Mutant of LastLiberty: the last stone of the block is not looked at.
LastLibertyButLast(b, k) ==
  LET stones == b.blocks[k].stones
      around == FlattenSeq([i \in 1..(Len(stones) - 1) |-> Compass(stones[i])])
      first  == SelectInSeq(around, LAMBDA n : ~ Occupied(b, n))
  IN  IF first = 0 THEN OffBoard ELSE around[first]

\* The first point around a block that is not occupied, in the order of its stones:
\* a point off the board is none.
LastLiberty(b, k) ==
  LET stones == b.blocks[k].stones
      around == FlattenSeq([i \in DOMAIN stones |-> Compass(stones[i])])
      first  == SelectInSeq(around, LAMBDA n : ~ Occupied(b, n))
  IN  IF first = 0 THEN OffBoard ELSE around[first]

\* The points around the last play, in the order of the code.
AllLocalMoves(p) ==
  <<North(p), West(p), East(p), South(p),
    North(East(p)), North(West(p)), South(East(p)), South(West(p))>>

\* Mutant of LibertyMoves: any block near the last play is in atari.
LibertyMovesOfAny(b, n) ==
  LET lib == LastLiberty(b, b.blockPointers[n])
  IN  IF \E c \in StoneColors : IsLegal(b, lib, c) THEN <<lib>> ELSE <<>>

\* A block in atari near the last play has its last liberty tried, by whichever
\* colour may play there.
LibertyMoves(b, n) ==
  LET lib == LastLiberty(b, b.blockPointers[n])
  IN  IF LibertiesAt(b, n) = 1 /\ \E c \in StoneColors : IsLegal(b, lib, c)
      THEN <<lib>> ELSE <<>>

PatternMoves(b, n) ==
  IF IsLegal(b, n, b.toPlay) /\ MatchAny(b, n, b.toPlay) THEN <<n>> ELSE <<>>

LocalMovesAround(b, last) ==
  LET MovesAt(n) == CASE ~ IsRealPoint(n) -> <<>>
                      [] Occupied(b, n)   -> LibertyMoves(b, n)
                      [] OTHER            -> PatternMoves(b, n)
      around == AllLocalMoves(last)
  IN  FlattenSeq([i \in DOMAIN around |-> MovesAt(around[i])])

FindPossibleLocalMoves(b) ==
  IF b.moves = <<>> THEN <<>> ELSE LocalMovesAround(b, b.moves[Len(b.moves)].Point)

-----------------------------------------------------------------------------
\* Scoring.

\* Mutant of ScoreWithoutKomi: the prisoners are given to the player who lost them.
ScoreSwappedPrisoners(b) ==
  LET Having(c) == {p \in Positions : b.stones[p] = c}
      NearBlack == {p \in Having(NONE) : \E i \in 1..4 : StoneAt(b, Compass(p)[i]) = B_BLACK}
  IN  b.bw_prisoners[S_WHITE] - b.bw_prisoners[S_BLACK]
        + Cardinality(Having(B_BLACK) \cup NearBlack)
        - Cardinality(Having(B_WHITE) \cup (Having(NONE) \ NearBlack))

\* The score before half a point is taken off for white.  An empty point next to
\* black is black's and any other is white's; off the board lies the number of
\* white's prisoners.
ScoreWithoutKomi(b) ==
  LET Having(c) == {p \in Positions : b.stones[p] = c}
      NearBlack == {p \in Having(NONE) : \E i \in 1..4 : StoneAt(b, Compass(p)[i]) = B_BLACK}
  IN  b.bw_prisoners[S_BLACK] - b.bw_prisoners[S_WHITE]
        + Cardinality(Having(B_BLACK) \cup NearBlack)
        - Cardinality(Having(B_WHITE) \cup (Having(NONE) \ NearBlack))

-----------------------------------------------------------------------------
\* Properties.

\* The last liberty of a block with one liberty is that liberty, whatever the
\* block went through, or it is not found; that happens at an edge only, where the
\* point off the board passes for empty (GoBlock::LastLiberty).
LastLibertyTrue ==
  \A p \in Positions :
    board.stones[p] # NONE /\ LibertiesAt(board, p) = 1 =>
      LET block == Rules!Block(board.stones, p)
          lib   == LastLiberty(board, board.blockPointers[p])
      IN  \/ {lib} = Rules!Liberties(board.stones, block)
          \/ lib = OffBoard /\ \E q \in block : IsBorder(q)

\* A local move that the player to move may not play, which ends the search that
\* tries it, is the last liberty of a block of his own that cannot be saved: a
\* capture and a pattern can always be played (FindPossibleLocalMoves, whose
\* answers simulateMove plays for the player to move).
UnplayableMovesAreLost ==
  \A last \in Positions :
    board.stones[last] = BoardColor(Opponent(board.toPlay)) =>
      \A p \in ToSet(LocalMovesAround(board, last)) :
        ~ IsLegal(board, p, board.toPlay) =>
          /\ p # board.koPoint
          /\ \E q \in Adjacent(p) :
               /\ board.stones[q] = BoardColor(board.toPlay)
               /\ Rules!Liberties(board.stones, Rules!Block(board.stones, q)) = {p}

\* Whether a point off the edges matches a pattern does not depend on how the board
\* is turned or mirrored (getRightDirection against the offsets of the patterns).
Turned(b, Image(_)) == [b EXCEPT !.stones = [p \in Positions |-> @[Image(p)]]]
Transposed(p) == (p % BoardSize) * BoardSize + p \div BoardSize
Mirrored(p)   == (p \div BoardSize) * BoardSize + (BoardSize - 1 - (p % BoardSize))

PatternsTurnWithBoard ==
  \A p \in {q \in Positions : ~ IsBorder(q) /\ board.stones[q] = NONE}, c \in StoneColors :
    /\ MatchAny(board, p, c) = MatchAny(Turned(board, Transposed), Transposed(p), c)
    /\ MatchAny(board, p, c) = MatchAny(Turned(board, Mirrored), Mirrored(p), c)

\* The empty points whose region meets stones of one colour only.
Territory(c) ==
  {p \in Positions : board.stones[p] = NONE /\
     LET region == Rules!Block(board.stones, p)
     IN  {board.stones[n] : n \in UNION {Adjacent(q) : q \in region}} \ {NONE} = {BoardColor(c)}}

\* On a settled board, where every empty point is white's, or black's and next to a
\* stone of black, the score is area and prisoners; only that a count of exactly one
\* prisoner of white, read at an edge for a stone, gives every point of white's
\* territory there to black (GetScoreInternal).
ScoreIsArea ==
  (\A p \in Positions : board.stones[p] = NONE =>
     \/ p \in Territory(S_WHITE)
     \/ p \in Territory(S_BLACK) /\ \E n \in Adjacent(p) : board.stones[n] = B_BLACK)
  => LET Area(c) == Cardinality(Territory(c))
                      + Cardinality({p \in Positions : board.stones[p] = BoardColor(c)})
         misread == IF board.bw_prisoners[S_WHITE] = 1
                    THEN Cardinality({p \in Territory(S_WHITE) : IsBorder(p)}) ELSE 0
     IN  ScoreWithoutKomi(board) =
           Area(S_BLACK) - Area(S_WHITE) + 2 * misread
             + board.bw_prisoners[S_BLACK] - board.bw_prisoners[S_WHITE]
=============================================================================
