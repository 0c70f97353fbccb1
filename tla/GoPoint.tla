------------------------------ MODULE GoPoint ------------------------------
(***************************************************************************)
(* The enumerations of GoPoint.h and the ko constant of Config.h.  A       *)
(* player's colour and the content of a point are two different            *)
(* enumerations: S_BLACK and NONE are the same integer, as in the code.    *)
(***************************************************************************)
EXTENDS Integers

S_BLACK == 0
S_WHITE == 1
StoneColors == {S_BLACK, S_WHITE}

NONE == 0
B_BLACK == 1
B_WHITE == 2
BoardColors == {NONE, B_BLACK, B_WHITE}

NO_KO_POINT == -1

\* The content of a point on which a player has played.
BoardColor(color) == IF color = S_BLACK THEN B_BLACK ELSE B_WHITE

\* Mutant of Opponent: the colours counted up without an end.
OpponentUnwrapped(color) == color + 1

Opponent(color) == IF color = S_BLACK THEN S_WHITE ELSE S_BLACK
=============================================================================
