--------------------------- MODULE GoTimeHandler ---------------------------
(***************************************************************************)
(* The time a game has left (GoTimeHandler.h): Canadian byoyomi as a GTP   *)
(* controller reports it.                                                  *)
(***************************************************************************)
EXTENDS Integers

GO_TIME_NOT_ACTIVE == -1
GO_TIME_PROCESSING_BUFFER == 5

\* A new game has no clock.
NoTimeHandler ==
  [mainTime |-> 0, byoyomiTime |-> 0, byoyomiStones |-> 0, isActive |-> FALSE]

TimeHandler(main, byo, stones) ==
  [mainTime |-> main, byoyomiTime |-> byo, byoyomiStones |-> stones, isActive |-> TRUE]

\* Mutant of UpdateTime: the stones of the last report stay.
UpdateTimeKeepsStones(h, time, stones) ==
  IF stones = 0 THEN [h EXCEPT !.isActive = TRUE, !.mainTime = time]
                ELSE [h EXCEPT !.isActive = TRUE, !.byoyomiTime = time]

UpdateTime(h, time, stones) ==
  IF stones = 0
  THEN [h EXCEPT !.isActive = TRUE, !.mainTime = time, !.byoyomiStones = 0]
  ELSE [h EXCEPT !.isActive = TRUE, !.byoyomiTime = time, !.byoyomiStones = stones]

\* All that is left of a byoyomi period, however many stones it is for.
GetTimeRemainingForMove(h) ==
  CASE ~ h.isActive        -> GO_TIME_NOT_ACTIVE
    [] h.byoyomiStones = 0 -> h.mainTime
    [] OTHER               -> h.byoyomiTime
=============================================================================
