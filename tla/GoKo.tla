-------------------------------- MODULE GoKo --------------------------------
(***************************************************************************)
(* GoRules with one history variable, the position before the last play,   *)
(* to state what the ko point is for: a play may not bring that position   *)
(* back.                                                                   *)
(***************************************************************************)
EXTENDS GoRules

VARIABLE previous  \* the position before the last play

kovars == <<vars, previous>>

KoInit == Init /\ previous = [p \in Points |-> NONE]

KoPlay(p, color) == Play(p, color) /\ previous' = stones

KoClearBoard == ClearBoard /\ previous' = [p \in Points |-> NONE]

KoNext ==
  \/ \E p \in Points, color \in StoneColors : KoPlay(p, color)
  \/ KoClearBoard

KoSpec == KoInit /\ [][KoNext]_kovars

-----------------------------------------------------------------------------
\* The stones the last play took off the board.
LastCaptured == {q \in Points : previous[q] # NONE /\ stones[q] = NONE}

\* A play that took exactly one stone has left the ko point on it, and a ko
\* point is always on a stone the last play took
\* (GoBoard::KillSurroundingDeadBlocks resets the ko point first).
KoPointRecordsCapture ==
  /\ previous \in [Points -> BoardColors]
  /\ \A q \in Points : LastCaptured = {q} => koPoint = q
  /\ koPoint # NO_KO_POINT => koPoint \in LastCaptured

\* No play brings back the position before the previous play (GoBoard::IsLegal
\* refuses the ko point): a ko cannot be retaken at once, by either colour.
KoForbidsRepetition ==
  [][\A p \in Points, color \in StoneColors :
        KoPlay(p, color) => stones' # previous]_kovars
=============================================================================
