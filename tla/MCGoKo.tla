------------------------------- MODULE MCGoKo -------------------------------
(***************************************************************************)
(* GoKo on a board of Width x Height points, numbered as GoBoard does.     *)
(***************************************************************************)
EXTENDS GoKo

CONSTANTS Width, Height

MCPoints == 0 .. Width * Height - 1

MCNeighbours ==
  [p \in MCPoints |->
     {q \in MCPoints :
        \/ q \div Width = p \div Width /\ q - p \in {-1, 1}
        \/ q % Width = p % Width /\ q - p \in {-Width, Width}}]
=============================================================================
