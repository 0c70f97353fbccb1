------------------------------ MODULE MCGoGame ------------------------------
(***************************************************************************)
(* GoGame for TLC, from an empty board or from the position after one of a *)
(* set of openings, lists of legal moves that bring the interesting joins  *)
(* and captures within reach of a small number of plays.                   *)
(*                                                                         *)
(* The list of moves is what a later replay reads and what no play depends *)
(* on, so the view keeps its length only.                                  *)
(***************************************************************************)
EXTENDS PlayPolicy

View == [board EXCEPT !.moves = Len(@)]

Black(p) == [Color |-> S_BLACK, Point |-> p]
White(p) == [Color |-> S_WHITE, Point |-> p]

\* On 3 x 3 points, numbered from the bottom left, 4 in the middle.
Openings == {
  \* Four single stones that a stone on 4 joins at once.
  <<Black(1), Black(3), Black(5), Black(7)>>,
  \* Two single white stones that black's stone on 1 captures at once.
  <<Black(3), Black(5), White(0), White(2)>>,
  \* A ko: black takes the stone on 4 by playing 5.
  <<Black(1), Black(3), Black(7), White(2), White(8), White(4)>>,
  \* A white block of six stones with two liberties around a black stone.
  <<Black(4), White(0), White(1), White(2), White(5), White(3), White(6)>>,
  \* A single stone and a block of two, which black's stone on 4 captures at once.
  <<Black(1), White(0), White(3), Black(6), White(5), Black(2), Black(8)>>}

OpeningInit ==
  \E o \in Openings : board = Replay(NewBoard(S_BLACK), o).board

\* Only plays: a cleared board is where the other run starts.
OpeningNext == \E color \in StoneColors, p \in Positions : PlayStone(color, p)

OpeningSpec == OpeningInit /\ [][OpeningNext]_vars

\* Every play from an opening is a play of the rules.
ImplementsRulesStep == [][Rules!Next]_(Rules!vars)

ASSUME OpeningsAreLegal == \A o \in Openings : BoardSize = 3 => Replay(NewBoard(S_BLACK), o).ok
=============================================================================
