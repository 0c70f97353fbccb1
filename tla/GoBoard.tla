------------------------------- MODULE GoBoard -------------------------------
(***************************************************************************)
(* The board engine (GoBoard.cpp, GoBlock.cpp, GoState.h) as functions on  *)
(* a board record: the incremental bookkeeping of blocks, liberties and    *)
(* neighbour counts, in the order the code performs it.                    *)
(*                                                                         *)
(* A block pointer is an index of blocks, or NoBlock.  NoBlock stands for  *)
(* the null pointer and for what an unset pointer holds on a fresh board:  *)
(* the code only compares such a pointer, it never follows it.             *)
(***************************************************************************)
EXTENDS GoPoint, FiniteSets, SequencesExt

CONSTANTS BoardSize,  \* points on a side; BOARD_MINIMUM_SIZE .. BOARD_MAX_SIZE
          MaxBlocks   \* bound: block objects of a board (1000 in the code)

ASSUME BoardSizeAssumption == BoardSize \in 2 .. 19 /\ MaxBlocks \in Nat \ {0}

Positions == 0 .. BoardSize * BoardSize - 1

OffBoard == -1
NoBlock  == -1
Blocks   == 0 .. MaxBlocks - 1

BOARD_TOP_LEFT     == BoardSize * BoardSize - BoardSize
BOARD_TOP_RIGHT    == BoardSize * BoardSize - 1
BOARD_BOTTOM_LEFT  == 0
BOARD_BOTTOM_RIGHT == BoardSize - 1

-----------------------------------------------------------------------------
\* Geometry.

North(p) ==
  IF p >= BOARD_TOP_LEFT \/ p < BOARD_BOTTOM_LEFT THEN OffBoard ELSE p + BoardSize

South(p) ==
  IF p <= BOARD_BOTTOM_RIGHT \/ p > BOARD_TOP_RIGHT THEN OffBoard ELSE p - BoardSize

West(p) ==
  IF p % BoardSize = 0 \/ p < BOARD_BOTTOM_LEFT THEN OffBoard ELSE p - 1

East(p) ==
  IF \/ p < BOARD_BOTTOM_LEFT \/ p > BOARD_TOP_RIGHT
     \/ (p + 1) % BoardSize = 0 /\ p # 0
  THEN OffBoard ELSE p + 1

\* The order in which the code visits the neighbours of a point.
Compass(p) == <<North(p), South(p), West(p), East(p)>>

Adjacent(p) == {North(p), South(p), West(p), East(p)} \ {OffBoard}

IsRealPoint(p) == p \in Positions

IsCorner(p) ==
  p \in {0, BoardSize - 1, BoardSize * BoardSize - 1, BoardSize * BoardSize - BoardSize}

IsBorder(p) ==
  \/ p % BoardSize \in {0, BoardSize - 1}
  \/ p \in 0 .. BoardSize - 1
  \/ p \in BOARD_TOP_LEFT .. BOARD_TOP_RIGHT

\* The points diagonal to p, all of them on the board.
Diagonals(p) ==
  {d \in Positions : \E v \in {North(p), South(p)} \ {OffBoard} : d \in {West(v), East(v)}}

-----------------------------------------------------------------------------
\* Reading a board.

\* GoState lays bw_prisoners[S_WHITE] out just before stones[0], so the code's
\* unguarded stones[-1] reads the number of white's prisoners.
StoneAt(b, p) == IF p = OffBoard THEN b.bw_prisoners[S_WHITE] ELSE b.stones[p]

\* blockPointers[-1] is the padding after isNewPosition, which nothing sets.
PointerAt(b, p) == IF p = OffBoard THEN NoBlock ELSE b.blockPointers[p]

Occupied(b, p) == IsRealPoint(p) /\ b.stones[p] # NONE

\* An anchor that is not an occupied point (that of a block reset) has no liberty.
IsLibertyOfBlock(b, point, anchor) ==
  /\ Occupied(b, anchor)
  /\ \E n \in Adjacent(point) :
        /\ b.blockPointers[n] = b.blockPointers[anchor]
        /\ b.blockPointers[n] # b.blockPointers[point]

\* Mutant of FindUniqueLiberties: liberties that the block has are counted again.
FindAllLiberties(b, stone, block) == Cardinality({n \in Adjacent(stone) : b.stones[n] = NONE})

FindUniqueLiberties(b, stone, block) ==
  Cardinality({n \in Adjacent(stone) :
                 /\ b.stones[n] = NONE
                 /\ ~ IsLibertyOfBlock(b, n, b.blocks[block].anchor)})

IsInSameBlock(b, pos1, pos2) ==
  /\ pos1 # OffBoard /\ pos2 # OffBoard
  /\ b.blockPointers[pos1] = b.blockPointers[pos2]
  /\ b.blockPointers[pos1] # NoBlock

LibertiesAt(b, p) == b.blocks[b.blockPointers[p]].liberties

\* Mutant of IsSuicide: no play is saved by what it captures.
IsSuicideDespiteCapture(b, pos, color) ==
  /\ b.numNeighboursEmpty[pos] <= 0
  /\ \A n \in Adjacent(pos) : b.stones[n] = BoardColor(color) => LibertiesAt(b, n) <= 1

IsSuicide(b, pos, color) ==
  LET own   == {n \in Adjacent(pos) : b.stones[n] = BoardColor(color)}
      enemy == {n \in Adjacent(pos) : b.stones[n] \notin {NONE, BoardColor(color)}}
  IN  /\ b.numNeighboursEmpty[pos] <= 0
      /\ \A n \in own : LibertiesAt(b, n) <= 1
      /\ \A n \in enemy : LibertiesAt(b, n) # 1

\* Mutant of IsLegal: the ko point is not looked at.
IsLegalWithoutKo(b, p, color) ==
  IsRealPoint(p) /\ ~ Occupied(b, p) /\ ~ IsSuicide(b, p, color)

IsLegal(b, p, color) ==
  /\ IsRealPoint(p)
  /\ ~ Occupied(b, p)
  /\ p # b.koPoint
  /\ ~ IsSuicide(b, p, color)

\* An empty or occupied point whose neighbours all have the colour and most of
\* whose diagonals do.
IsTrueEye(b, point, boardColor) ==
  /\ \A n \in Adjacent(point) : b.stones[n] = boardColor
  /\ 2 * Cardinality({d \in Diagonals(point) : b.stones[d] = boardColor})
       > Cardinality(Diagonals(point))

-----------------------------------------------------------------------------
\* GoBlock.

ResetBlock == [anchor |-> -1, liberties |-> 0, stones |-> <<>>]

\* Changes the liberties of some blocks by d.
AddLiberties(b, ks, d) ==
  [b EXCEPT !.blocks =
     [k \in Blocks |-> [b.blocks[k] EXCEPT !.liberties = IF k \in ks THEN @ + d ELSE @]]]

\* Mutant of ImportStone: the stone goes on pointing to its old block.
ImportStoneUnmoved(b, into, stone) ==
  LET new == FindUniqueLiberties(b, stone, b.blockPointers[b.blocks[into].anchor])
  IN  [b EXCEPT !.blocks[into].liberties = @ + new,
                !.blocks[into].stones = Append(@, stone)]

\* One stone of the imported block: its liberties that the importing block did
\* not have, then the stone itself.
ImportStone(b, into, stone) ==
  LET new == FindUniqueLiberties(b, stone, b.blockPointers[b.blocks[into].anchor])
  IN  [b EXCEPT !.blocks[into].liberties = @ + new,
                !.blocks[into].stones = Append(@, stone),
                !.blockPointers[stone] = into]

ImportBlock(b, into, from) ==
  IF from = NoBlock THEN b
  ELSE LET Step(c, stone) == ImportStone(c, into, stone)
       IN  [FoldLeft(Step, b, b.blocks[from].stones) EXCEPT !.blocks[from] = ResetBlock]

\* Mutant of RegainLiberty: north is forgotten.
RegainLibertyButNorth(b, pos) ==
  {b.blockPointers[n] :
     n \in {m \in Adjacent(pos) \ {North(pos)} : b.stones[m] # NONE /\ ~ IsInSameBlock(b, pos, m)}}

\* The blocks around pos that regain a liberty when the stone on pos goes: each
\* counts once, at the first direction that meets it.
RegainLiberty(b, pos) ==
  LET nb == Compass(pos)
  IN  {b.blockPointers[nb[i]] :
         i \in {j \in 1..4 : /\ IsRealPoint(nb[j])
                             /\ b.stones[nb[j]] # NONE
                             /\ ~ IsInSameBlock(b, pos, nb[j])
                             /\ \A k \in 1..(j - 1) : ~ IsInSameBlock(b, nb[j], nb[k])}}

\* Mutant of RemoveStone: the points around the stone stay short of an empty one.
RemoveStoneUncounted(b, pos) ==
  LET color == IF b.stones[pos] = B_BLACK THEN S_BLACK ELSE S_WHITE
  IN  [AddLiberties(b, RegainLiberty(b, pos), 1) EXCEPT
         !.numNeighbours[color] = [p \in Positions |-> IF p \in Adjacent(pos) THEN @[p] - 1 ELSE @[p]],
         !.bw_prisoners[Opponent(color)] = @ + 1,
         !.blockPointers[pos] = NoBlock,
         !.stones[pos] = NONE]

RemoveStone(b, pos) ==
  LET color == IF b.stones[pos] = B_BLACK THEN S_BLACK ELSE S_WHITE
  IN  [AddLiberties(b, RegainLiberty(b, pos), 1) EXCEPT
         !.numNeighboursEmpty = [p \in Positions |-> IF p \in Adjacent(pos) THEN @[p] + 1 ELSE @[p]],
         !.numNeighbours[color] = [p \in Positions |-> IF p \in Adjacent(pos) THEN @[p] - 1 ELSE @[p]],
         !.bw_prisoners[Opponent(color)] = @ + 1,
         !.blockPointers[pos] = NoBlock,
         !.stones[pos] = NONE]

RemoveStones(b, k) == FoldLeft(RemoveStone, b, b.blocks[k].stones)

-----------------------------------------------------------------------------
\* Playing a stone.

\* Mutant of LoseLiberty: west is forgotten.
LoseLibertyButWest(b, pos) ==
  {b.blockPointers[n] : n \in {m \in Adjacent(pos) \ {West(pos)} : IsLibertyOfBlock(b, pos, m)}}

\* The blocks around pos that lose a liberty when a stone takes pos.
LoseLiberty(b, pos) ==
  LET nb == Compass(pos)
  IN  {b.blockPointers[nb[i]] :
         i \in {j \in 1..4 : /\ nb[j] # OffBoard
                             /\ \A k \in 1..(j - 1) : PointerAt(b, nb[j]) # PointerAt(b, nb[k])
                             /\ IsLibertyOfBlock(b, pos, nb[j])}}

\* A stone without neighbours of its colour starts the next unused block object.
NewBlock(b, pos) ==
  [b EXCEPT !.blocks[b.blockPointer] = [anchor    |-> pos,
                                        liberties |-> b.numNeighboursEmpty[pos],
                                        stones    |-> <<>>],
            !.blockPointer = @ + 1,
            !.blockPointers[pos] = b.blockPointer]

\* Mutant of JoinBlocks: only the first friendly neighbour's block is joined.
JoinFirstBlock(b, pos, color) ==
  LET friends == {n \in Adjacent(pos) : b.stones[n] = BoardColor(color)}
      mine    == b.blockPointers[CHOOSE n \in friends : TRUE]
  IN  [b EXCEPT !.blocks[mine].liberties = @ + FindUniqueLiberties(b, pos, mine),
                !.blockPointers[pos] = mine]

\* The first friendly neighbour, south first.
FirstFriend(b, pos, color) ==
  LET own(n)  == StoneAt(b, n) = BoardColor(color)
      order   == <<South(pos), North(pos), West(pos), East(pos)>>
  IN  order[CHOOSE i \in 1..4 :
              /\ order[i] # OffBoard /\ own(order[i])
              /\ \A j \in 1..(i - 1) : ~ (order[j] # OffBoard /\ own(order[j]))]

\* Another joins the block of its first friend, which then imports the other
\* friendly blocks around it.
JoinBlocks(b, pos, color) ==
  LET mine    == b.blockPointers[FirstFriend(b, pos, color)]
      joined  == [b EXCEPT !.blocks[mine].liberties = @ + FindUniqueLiberties(b, pos, mine),
                           !.blockPointers[pos] = mine]
      Step(c, n) == IF StoneAt(b, n) = BoardColor(color) /\ PointerAt(c, n) # c.blockPointers[pos]
                    THEN ImportBlock(c, c.blockPointers[pos], PointerAt(c, n))
                    ELSE c
  IN  FoldLeft(Step, joined, Compass(pos))

\* Mutant of KillBlock: a second single stone does not take the ko point back.
KillBlockKeepsKo(b, singleKilled, n) ==
  LET k      == b.blockPointers[n]
      single == Len(b.blocks[k].stones) = 1
      marked == IF single THEN [b EXCEPT !.koPoint = n] ELSE b
  IN  [board  |-> [RemoveStones(marked, k) EXCEPT !.blocks[k] = ResetBlock],
       single |-> singleKilled \/ single]

\* Captures.  singleKilled remembers that one captured block was a single stone:
\* a second one takes the ko point back.
KillBlock(b, singleKilled, n) ==
  LET k      == b.blockPointers[n]
      single == Len(b.blocks[k].stones) = 1
      marked == IF single THEN [b EXCEPT !.koPoint = IF singleKilled THEN NO_KO_POINT ELSE n]
                ELSE b
  IN  [board  |-> [RemoveStones(marked, k) EXCEPT !.blocks[k] = ResetBlock],
       single |-> singleKilled \/ single]

\* Mutant of KillSurroundingDeadBlocks: the old ko point stays.
KillKeepsOldKo(b, pos) ==
  LET Dead(c, n) == /\ IsRealPoint(n)
                    /\ c.stones[n] \notin {NONE, c.stones[pos]}
                    /\ LibertiesAt(c, n) = 0
      Step(k, n) == IF Dead(k.board, n) THEN KillBlock(k.board, k.single, n) ELSE k
  IN  FoldLeft(Step, [board |-> b, single |-> FALSE], Compass(pos)).board

KillSurroundingDeadBlocks(b, pos) ==
  LET Dead(c, n) == /\ IsRealPoint(n)
                    /\ c.stones[n] \notin {NONE, c.stones[pos]}
                    /\ c.blockPointers[n] # NoBlock
                    /\ LibertiesAt(c, n) = 0
      Step(k, n) == IF Dead(k.board, n) THEN KillBlock(k.board, k.single, n) ELSE k
      start      == [board |-> [b EXCEPT !.koPoint = NO_KO_POINT], single |-> FALSE]
  IN  FoldLeft(Step, start, Compass(pos)).board

UpdateBlocks(b, pos, color) ==
  LET lost   == AddLiberties(b, LoseLiberty(b, pos), -1)
      joined == IF b.numNeighbours[color][pos] = 0 THEN NewBlock(lost, pos)
                ELSE JoinBlocks(lost, pos, color)
      mine   == joined.blockPointers[pos]
  IN  KillSurroundingDeadBlocks([joined EXCEPT !.blocks[mine].stones = Append(@, pos)], pos)

AddStone(b, point, color) ==
  UpdateBlocks(
    [b EXCEPT
       !.stones[point] = BoardColor(color),
       !.numNeighboursEmpty = [p \in Positions |-> IF p \in Adjacent(point) THEN @[p] - 1 ELSE @[p]],
       !.numNeighbours[color] = [p \in Positions |-> IF p \in Adjacent(point) THEN @[p] + 1 ELSE @[p]]],
    point, color)

\* A legal play.  Play throws before it changes anything when ~ IsLegal(b, p, color).
Play(b, p, color) ==
  [AddStone(b, p, color) EXCEPT !.toPlay = Opponent(color),
                                !.moves = Append(@, [Color |-> color, Point |-> p])]
-----------------------------------------------------------------------------
\* Making and reusing a board.

\* Mutant of InitialEmptyNeighbours: corners count as borders.
InitialWithoutCorners(p) == IF IsBorder(p) THEN 3 ELSE 4

InitialEmptyNeighbours(p) == IF IsCorner(p) THEN 2 ELSE IF IsBorder(p) THEN 3 ELSE 4

\* Mutant of Reset: the neighbour counters of the colours are left, too.
ResetKeepsNeighbours(b) ==
  [b EXCEPT !.koPoint = NO_KO_POINT,
            !.stones = [p \in Positions |-> NONE],
            !.numNeighboursEmpty = [p \in Positions |-> InitialEmptyNeighbours(p)],
            !.bw_prisoners = [c \in StoneColors |-> 0],
            !.blocks = [k \in Blocks |-> IF k <= b.blockPointer THEN ResetBlock ELSE @[k]],
            !.blockPointer = 0,
            !.moves = <<>>]

\* reset() leaves State.blockPointers and State.toPlay as they are, and resets
\* only the block objects handed out since the last reset.
Reset(b) ==
  [b EXCEPT !.koPoint = NO_KO_POINT,
            !.stones = [p \in Positions |-> NONE],
            !.numNeighbours = [c \in StoneColors |-> [p \in Positions |-> 0]],
            !.numNeighboursEmpty = [p \in Positions |-> InitialEmptyNeighbours(p)],
            !.bw_prisoners = [c \in StoneColors |-> 0],
            !.blocks = [k \in Blocks |-> IF k <= b.blockPointer THEN ResetBlock ELSE @[k]],
            !.blockPointer = 0,
            !.moves = <<>>]

\* A board from the constructor; toPlay is whatever the memory held.
NewBoard(toPlay) ==
  [koPoint |-> NO_KO_POINT,
   toPlay  |-> toPlay,
   stones  |-> [p \in Positions |-> NONE],
   numNeighbours      |-> [c \in StoneColors |-> [p \in Positions |-> 0]],
   numNeighboursEmpty |-> [p \in Positions |-> InitialEmptyNeighbours(p)],
   bw_prisoners  |-> [c \in StoneColors |-> 0],
   blockPointers |-> [p \in Positions |-> NoBlock],
   blocks        |-> [k \in Blocks |-> ResetBlock],
   blockPointer  |-> 0,
   moves         |-> <<>>]

\* Plays a list of moves on b as long as they are legal there; the code throws at
\* the first one that is not, and leaves the board as it then is.
Replay(b, ms) ==
  LET Step(r, m) == IF r.ok /\ IsLegal(r.board, m.Point, m.Color)
                    THEN [r EXCEPT !.board = Play(@, m.Point, m.Color)]
                    ELSE [r EXCEPT !.ok = FALSE]
  IN  FoldLeft(Step, [board |-> b, ok |-> TRUE], ms)

copyBoard(b, toPlay) == Replay(NewBoard(toPlay), b.moves)

resetAndReplayMoves(b, source) == Replay(Reset(b), source.moves)
=============================================================================
