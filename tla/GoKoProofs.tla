----------------------------- MODULE GoKoProofs -----------------------------
(***************************************************************************)
(* Theorems about the ko rule of GoKo, for every finite graph of points    *)
(* and every bound on the moves.                                           *)
(***************************************************************************)
EXTENDS GoKo, GoRulesProofs

USE DEF StoneColors, BoardColors, S_BLACK, S_WHITE, NONE, B_BLACK, B_WHITE,
        BoardColor, Opponent

-----------------------------------------------------------------------------
\* The ko rule.

\* A step records a single capture in the ko point.
LEMMA KoRecordStep ==
  ASSUME TypeOK, KoPointRecordsCapture, [KoNext]_kovars
  PROVE  KoPointRecordsCapture'
<1>1. ASSUME NEW p \in Points, NEW color \in StoneColors, KoPlay(p, color)
      PROVE  KoPointRecordsCapture'
  <2> DEFINE t == Placed(stones, p, color)
             D == Captured(t, p, color)
  <2>1. /\ t \in [Points -> BoardColors]
        /\ stones \in [Points -> BoardColors] /\ stones[p] = NONE
        /\ stones' = Removed(t, D)
        /\ koPoint' = KoAfter(CapturedBlocks(t, p, color))
        /\ previous' = stones
    BY <1>1, PlayFacts DEF KoPlay, TypeOK
  <2>2. LastCaptured' = D
    BY <2>1, CapturedWereThere DEF LastCaptured
  <2>3. \A q \in Points : D = {q} => koPoint' = q
    BY <2>1, OneCaptureIsKo
  <2>4. koPoint' # NO_KO_POINT => koPoint' \in D
    BY <2>1, KoAfterEnclosed
  <2>5. QED
    <3> HIDE DEF D
    <3>1. QED
      BY <2>1, <2>2, <2>3, <2>4 DEF KoPointRecordsCapture
<1>2. ASSUME KoClearBoard
      PROVE  KoPointRecordsCapture'
  BY <1>2 DEF KoClearBoard, ClearBoard, KoPointRecordsCapture, LastCaptured
<1>3. CASE UNCHANGED kovars
  BY <1>3 DEF KoPointRecordsCapture, LastCaptured, kovars, vars
<1>4. QED
  BY <1>1, <1>2, <1>3 DEF KoNext

\* The history variable only watches.
LEMMA KoStepIsStep ==
  ASSUME [KoNext]_kovars
  PROVE  [Next]_vars
BY DEF KoNext, KoPlay, KoClearBoard, Next, kovars

\* The ko point remembers the last play's single capture.
THEOREM KoRecorded == KoSpec => [](TypeOK /\ KoPointRecordsCapture)
<1>1. KoInit => TypeOK /\ KoPointRecordsCapture
  BY DEF KoInit, Init, TypeOK, KoPointRecordsCapture, LastCaptured
<1>2. TypeOK /\ KoPointRecordsCapture /\ [KoNext]_kovars
        => (TypeOK /\ KoPointRecordsCapture)'
  BY KoRecordStep, KoStepIsStep, TypeStep
<1>3. QED
  BY <1>1, <1>2, PTL DEF KoSpec

\* A play that brought the previous position back would put a stone on the only
\* point that lost one, the ko point.
LEMMA NoRepetitionStep ==
  ASSUME TypeOK, KoPointRecordsCapture,
         NEW p \in Points, NEW color \in StoneColors, KoPlay(p, color)
  PROVE  stones' # previous
<1> DEFINE t == Placed(stones, p, color)
           D == Captured(t, p, color)
<1>1. /\ stones' = Removed(t, D) /\ p # koPoint /\ stones[p] = NONE
      /\ BoardColor(color) # NONE /\ BoardColor(color) # BoardColor(Opponent(color))
  BY PlayFacts DEF KoPlay
<1>2. /\ \A q \in Points : t[q] = IF q = p THEN BoardColor(color) ELSE stones[q]
      /\ \A q \in Points : Removed(t, D)[q] = IF q \in D THEN NONE ELSE t[q]
  BY DEF Placed, Removed, TypeOK
<1>3. p \notin D
  BY <1>1, <1>2, CapturedStones
<1>4. SUFFICES ASSUME stones' = previous PROVE FALSE
  OBVIOUS
<1>5. \A q \in Points : previous[q] = IF q \in D THEN NONE ELSE t[q]
  <2> HIDE DEF D, t
  <2>1. QED
    BY <1>1, <1>2, <1>4
<1>6. LastCaptured = {p}
  <2> HIDE DEF D, t
  <2>1. QED
    BY <1>1, <1>2, <1>3, <1>5 DEF LastCaptured
<1>7. QED
  BY <1>1, <1>6 DEF KoPointRecordsCapture

\* No play brings back the position before the previous one.
THEOREM KoRule == KoSpec => KoForbidsRepetition
<1>1. TypeOK /\ KoPointRecordsCapture /\ [KoNext]_kovars
        => [\A p \in Points, color \in StoneColors :
              KoPlay(p, color) => stones' # previous]_kovars
  BY NoRepetitionStep
<1>2. QED
  BY <1>1, KoRecorded, PTL DEF KoSpec, KoForbidsRepetition
=============================================================================
