------------------------------- MODULE GoGame -------------------------------
(***************************************************************************)
(* A game on one board: the state of GoGame / GTPEngine that the commands  *)
(* "play", "clear_board" and "boardsize" change.  Its promise is GoRules:  *)
(* the bookkeeping of GoBoard decides and plays exactly the moves that the *)
(* rules, which know nothing of it, decide and play.                       *)
(***************************************************************************)
EXTENDS GoBoard

CONSTANT MaxMoves  \* bound: plays since the board was cleared (1000 in the code)

\* A play hands out at most one block object.
ASSUME MaxMovesAssumption == MaxMoves \in Nat /\ MaxMoves <= MaxBlocks

VARIABLE board

vars == <<board>>

Init == \E c \in StoneColors : board = NewBoard(c)

\* GTP "play": an illegal point raises an exception and changes nothing.  Either
\* colour may play at any time.  On a board of less than 19 points a side a column
\* beyond the edge is not refused: it is a point of the next row, p all the same.
PlayStone(color, p) ==
  /\ Len(board.moves) < MaxMoves
  /\ IsLegal(board, p, color)
  /\ board' = Play(board, p, color)

\* GTP "clear_board" and "boardsize" delete the game and make a new one.
ClearBoard == \E c \in StoneColors : board' = NewBoard(c)

Next ==
  \/ \E color \in StoneColors, p \in Positions : PlayStone(color, p)
  \/ ClearBoard

Spec == Init /\ [][Next]_vars

-----------------------------------------------------------------------------
\* The rules on this board.

Rules == INSTANCE GoRules WITH
           Points      <- Positions,
           Neighbours  <- [p \in Positions |-> Adjacent(p)],
           stones      <- board.stones,
           koPoint     <- board.koPoint,
           toPlay      <- board.toPlay,
           prisoners   <- board.bw_prisoners,
           movePointer <- Len(board.moves)

\* The game implements the rules: every play of the engine is a play the rules
\* allow, with its captures, ko point and prisoners.
ImplementsRules == Rules!Spec

\* The engine refuses no move that the rules allow, and allows no other
\* (IsLegal, which looks at counters, against the rules, which look at the board).
LegalMovesAgree ==
  \A color \in StoneColors, p \in Positions :
     IsLegal(board, p, color) <=> Rules!IsLegal(p, color)

-----------------------------------------------------------------------------
\* The bookkeeping.

TypeOK ==
  /\ board.koPoint \in Positions \cup {NO_KO_POINT}
  /\ board.toPlay \in StoneColors
  /\ board.stones \in [Positions -> BoardColors]
  /\ board.bw_prisoners \in [StoneColors -> Nat]
  /\ board.numNeighbours \in [StoneColors -> [Positions -> 0..4]]
  /\ board.numNeighboursEmpty \in [Positions -> 0..4]
  /\ board.blockPointers \in [Positions -> Blocks \cup {NoBlock}]
  /\ board.blockPointer \in 0..MaxBlocks
  /\ \A k \in Blocks :
        /\ board.blocks[k].anchor \in Positions \cup {-1}
        /\ board.blocks[k].liberties \in Nat
        /\ board.blocks[k].stones \in Seq(Positions)
  /\ \A i \in DOMAIN board.moves :
        board.moves[i] \in [Color : StoneColors, Point : Positions]

\* Every block object counts the liberties its stones have: the counter that
\* IsSuicide and KillSurroundingDeadBlocks trust is never off after joins,
\* captures and recaptures (UpdateBlocks, ImportBlock, RemoveStone).
LibertiesExactOn(b) ==
  \A p \in Positions :
    b.stones[p] # NONE =>
      LibertiesAt(b, p) = Cardinality(Rules!Liberties(b.stones, Rules!Block(b.stones, p)))

LibertiesExact == LibertiesExactOn(board)

\* The block a stone points to lists each stone of its group once, and nothing
\* else, and its anchor is one of them.
GroupsExactOn(b) ==
  \A p \in Positions :
    b.stones[p] # NONE =>
      LET k == b.blockPointers[p]
      IN  /\ k # NoBlock
          /\ ToSet(b.blocks[k].stones) = Rules!Block(b.stones, p)
          /\ IsInjective(b.blocks[k].stones)
          /\ b.blocks[k].anchor \in ToSet(b.blocks[k].stones)

\* So it is on the board of the game, where empty points point to no block
\* (UpdateBlocks, ImportBlock, RemoveStone).
BlocksAreGroups ==
  /\ GroupsExactOn(board)
  /\ \A p \in Positions : board.stones[p] = NONE => board.blockPointers[p] = NoBlock

\* The neighbour counters of a point are those of the board around it (AddStone
\* and RemoveStone update them point by point).
NeighbourCountsExactOn(b) ==
  \A p \in Positions :
    /\ b.numNeighboursEmpty[p] = Cardinality({n \in Adjacent(p) : b.stones[n] = NONE})
    /\ \A c \in StoneColors :
         b.numNeighbours[c][p] = Cardinality({n \in Adjacent(p) : b.stones[n] = BoardColor(c)})

NeighbourCountsExact == NeighbourCountsExactOn(board)
=============================================================================
