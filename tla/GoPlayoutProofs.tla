--------------------------- MODULE GoPlayoutProofs ---------------------------
(***************************************************************************)
(* Theorems about what a search does with boards, on a board of any size   *)
(* the code allows: the patterns of PlayPolicy see a point off the edges   *)
(* alike however the board lies, a settled board is scored by area, and    *)
(* the working board of GoPlayout keeps its groups and its counters however*)
(* often it is reset and replayed.                                         *)
(*                                                                         *)
(* The last cannot use Coherent of GoGameProofs.  After reset() the       *)
(* pointers of empty points lead to blocks of an earlier simulation, which *)
(* makes the liberty counters, and with them captures, unreliable.  Grouped*)
(* is what holds all the same, and no lemma on it speaks of liberties.     *)
(***************************************************************************)
EXTENDS GoPlayout, GoGameProofs

-----------------------------------------------------------------------------
\* The patterns.

\* The points off the edges.
Inner == {q \in Positions : ~ IsBorder(q)}

\* A point has a row and a column.
LEMMA Coordinates ==
  ASSUME NEW r \in 0 .. BoardSize - 1, NEW c \in 0 .. BoardSize - 1
  PROVE  /\ r * BoardSize + c \in Positions
         /\ (r * BoardSize + c) \div BoardSize = r
         /\ (r * BoardSize + c) % BoardSize = c
<1> USE DEF Positions
<1>1. CASE BoardSize = 2 BY <1>1
<1>2. CASE BoardSize = 3 BY <1>2
<1>3. CASE BoardSize = 4 BY <1>3
<1>4. CASE BoardSize = 5 BY <1>4
<1>5. CASE BoardSize = 6 BY <1>5
<1>6. CASE BoardSize = 7 BY <1>6
<1>7. CASE BoardSize = 8 BY <1>7
<1>8. CASE BoardSize = 9 BY <1>8
<1>9. CASE BoardSize = 10 BY <1>9
<1>10. CASE BoardSize = 11 BY <1>10
<1>11. CASE BoardSize = 12 BY <1>11
<1>12. CASE BoardSize = 13 BY <1>12
<1>13. CASE BoardSize = 14 BY <1>13
<1>14. CASE BoardSize = 15 BY <1>14
<1>15. CASE BoardSize = 16 BY <1>15
<1>16. CASE BoardSize = 17 BY <1>16
<1>17. CASE BoardSize = 18 BY <1>17
<1>18. CASE BoardSize = 19 BY <1>18
<1> QED BY SizeCases, <1>1, <1>2, <1>3, <1>4, <1>5, <1>6, <1>7, <1>8, <1>9,
         <1>10, <1>11, <1>12, <1>13, <1>14, <1>15, <1>16, <1>17, <1>18

\* One off the edges is in neither the first nor the last of them.
LEMMA InnerCoordinates ==
  ASSUME NEW p \in Inner
  PROVE  /\ p \div BoardSize \in 1 .. BoardSize - 2
         /\ p % BoardSize \in 1 .. BoardSize - 2
         /\ p = (p \div BoardSize) * BoardSize + (p % BoardSize)
<1> USE DEF Inner, Positions, IsBorder, BOARD_TOP_LEFT, BOARD_TOP_RIGHT
<1>1. CASE BoardSize = 2 BY <1>1
<1>2. CASE BoardSize = 3 BY <1>2
<1>3. CASE BoardSize = 4 BY <1>3
<1>4. CASE BoardSize = 5 BY <1>4
<1>5. CASE BoardSize = 6 BY <1>5
<1>6. CASE BoardSize = 7 BY <1>6
<1>7. CASE BoardSize = 8 BY <1>7
<1>8. CASE BoardSize = 9 BY <1>8
<1>9. CASE BoardSize = 10 BY <1>9
<1>10. CASE BoardSize = 11 BY <1>10
<1>11. CASE BoardSize = 12 BY <1>11
<1>12. CASE BoardSize = 13 BY <1>12
<1>13. CASE BoardSize = 14 BY <1>13
<1>14. CASE BoardSize = 15 BY <1>14
<1>15. CASE BoardSize = 16 BY <1>15
<1>16. CASE BoardSize = 17 BY <1>16
<1>17. CASE BoardSize = 18 BY <1>17
<1>18. CASE BoardSize = 19 BY <1>18
<1> QED BY SizeCases, <1>1, <1>2, <1>3, <1>4, <1>5, <1>6, <1>7, <1>8, <1>9,
         <1>10, <1>11, <1>12, <1>13, <1>14, <1>15, <1>16, <1>17, <1>18

\* A turn exchanges a step along a row and one along a column.
LEMMA TransposedStep ==
  ASSUME NEW p \in Inner, NEW i \in {-1, 0, 1}, NEW j \in {-1, 0, 1}
  PROVE  /\ BoardSize >= 3
         /\ p + i * BoardSize + j \in Positions
         /\ Transposed(p) + j * BoardSize + i \in Positions
         /\ Transposed(Transposed(p) + j * BoardSize + i) = p + i * BoardSize + j
<1> DEFINE N == BoardSize
           r == p \div N
           c == p % N
<1>1. /\ N \in Int /\ r \in 1 .. N - 2 /\ c \in 1 .. N - 2
      /\ p = r * N + c /\ Transposed(p) = c * N + r
  BY InnerCoordinates, BoardSizeAssumption DEF Transposed
<1> HIDE DEF N, r, c
<1>2. /\ N >= 3 /\ r + i \in 0 .. N - 1 /\ c + j \in 0 .. N - 1
      /\ p + i * N + j = (r + i) * N + (c + j)
      /\ Transposed(p) + j * N + i = (c + j) * N + (r + i)
  BY <1>1
<1>3. /\ (r + i) * N + (c + j) \in Positions
      /\ (c + j) * N + (r + i) \in Positions
      /\ Transposed((c + j) * N + (r + i)) = (r + i) * N + (c + j)
  BY <1>2, Coordinates DEF Transposed, N
<1> QED BY <1>2, <1>3 DEF N

\* A mirror turns a step along a row round.
LEMMA MirroredStep ==
  ASSUME NEW p \in Inner, NEW i \in {-1, 0, 1}, NEW j \in {-1, 0, 1}
  PROVE  /\ BoardSize >= 3
         /\ p + i * BoardSize + j \in Positions
         /\ Mirrored(p) + i * BoardSize - j \in Positions
         /\ Mirrored(Mirrored(p) + i * BoardSize - j) = p + i * BoardSize + j
<1> DEFINE N == BoardSize
           r == p \div N
           c == p % N
<1>1. /\ N \in Int /\ r \in 1 .. N - 2 /\ c \in 1 .. N - 2
      /\ p = r * N + c /\ Mirrored(p) = r * N + (N - 1 - c)
  BY InnerCoordinates, BoardSizeAssumption DEF Mirrored
<1> HIDE DEF N, r, c
<1>2. /\ N >= 3 /\ r + i \in 0 .. N - 1 /\ c + j \in 0 .. N - 1 /\ N - 1 - (c + j) \in 0 .. N - 1
      /\ p + i * N + j = (r + i) * N + (c + j)
      /\ Mirrored(p) + i * N - j = (r + i) * N + (N - 1 - (c + j))
      /\ N - 1 - (N - 1 - (c + j)) = c + j
  BY <1>1
<1>3. /\ (r + i) * N + (c + j) \in Positions
      /\ (r + i) * N + (N - 1 - (c + j)) \in Positions
      /\ Mirrored((r + i) * N + (N - 1 - (c + j))) = (r + i) * N + (c + j)
  BY <1>2, Coordinates DEF Mirrored, N
<1> QED BY <1>2, <1>3 DEF N

\* All the patterns in one view.
Matches(b, p, color, up, right) ==
  TestAllHane(b, p, color, up, right) \/ TestAllCut(b, p, color, up, right)

\* The eight views.
LEMMA Views ==
  ASSUME BoardSize >= 3, NEW b, NEW p, NEW color
  PROVE  MatchAny(b, p, color) <=>
           \E i, j \in {-1, 1} : \/ Matches(b, p, color, i * BoardSize, j)
                                 \/ Matches(b, p, color, j, i * BoardSize)
<1>0. BoardSize \in Int
  BY BoardSizeAssumption
<1> DEFINE N == BoardSize
<1>1. /\ RightDirection(N) = 1 /\ RightDirection(-N) = -1
      /\ RightDirection(1) = -N /\ RightDirection(-1) = N
  BY <1>0 DEF RightDirection, POS_NS, POS_WE
<1>2. MatchAny(b, p, color) <=>
        \/ Matches(b, p, color, N, 1) \/ Matches(b, p, color, N, -1)
        \/ Matches(b, p, color, -N, -1) \/ Matches(b, p, color, -N, 1)
        \/ Matches(b, p, color, 1, -N) \/ Matches(b, p, color, 1, N)
        \/ Matches(b, p, color, -1, N) \/ Matches(b, p, color, -1, -N)
  <2>1. /\ {RightDirection(N), -RightDirection(N)} = {1, -1}
        /\ {RightDirection(-N), -RightDirection(-N)} = {1, -1}
        /\ {RightDirection(1), -RightDirection(1)} = {N, -N}
        /\ {RightDirection(-1), -RightDirection(-1)} = {N, -N}
    BY <1>0, <1>1
  <2>2. MatchAny(b, p, color) <=>
          \E up \in {N, -N, 1, -1} : \E right \in {RightDirection(up), -RightDirection(up)} :
             Matches(b, p, color, up, right)
    BY DEF MatchAny, Matches, POS_NS, POS_WE
  <2> HIDE DEF N
  <2> QED BY <2>1, <2>2
<1>3. 1 * N = N /\ (-1) * N = -N
  BY <1>0
<1> QED BY <1>2, <1>3

\* What is read at a point of the board is its stone.
LEMMA PointsOnly ==
  ASSUME NEW b, NEW x \in Positions
  PROVE  StoneMemory(b, x) = b.stones[x]
<1>1. x # -1 /\ x # -2 /\ x # -3 /\ x # -4 /\ ~ (x < -4)
  BY BoardSizeAssumption DEF Positions
<1> HIDE DEF Positions
<1> QED BY <1>1 DEF StoneMemory, IsRealPoint

\* Whether the patterns match is up to the stones around.
LEMMA MatchesSame ==
  ASSUME NEW b, NEW d, NEW p \in Int, NEW q \in Int, NEW color,
         NEW u \in Int, NEW r \in Int, NEW v \in Int, NEW w \in Int,
         \A i, j \in {-1, 0, 1} :
           /\ p + i * u + j * r \in Positions /\ q + i * v + j * w \in Positions
           /\ b.stones[p + i * u + j * r] = d.stones[q + i * v + j * w]
  PROVE  Matches(b, p, color, u, r) <=> Matches(d, q, color, v, w)
<1> DEFINE Same(x, y) == /\ \A c : IsColor(b, x, c) <=> IsColor(d, y, c)
                         /\ IsEmpty(b, x) <=> IsEmpty(d, y)
<1>1. ASSUME NEW x \in Positions, NEW y \in Positions, b.stones[x] = d.stones[y]
      PROVE  Same(x, y)
  <2>1. StoneMemory(b, x) = b.stones[x] /\ StoneMemory(d, y) = d.stones[y]
    BY PointsOnly
  <2> QED BY <1>1, <2>1, Zenon DEF IsColor, IsEmpty, Occupied, IsRealPoint
<1>2. /\ Same(p + u, q + v) /\ Same(p - u, q - v) /\ Same(p + r, q + w) /\ Same(p - r, q - w)
      /\ Same(p + u + r, q + v + w) /\ Same(p + u - r, q + v - w)
      /\ Same(p - u + r, q - v + w) /\ Same(p - u - r, q - v - w)
  <2> DEFINE At(i, j) == p + i * u + j * r
             By(i, j) == q + i * v + j * w
  <2>1. \A i, j \in {-1, 0, 1} : Same(At(i, j), By(i, j))
    <3> HIDE DEF Same
    <3> QED BY <1>1
  <2>2. /\ At(1, 0) = p + u /\ At(-1, 0) = p - u /\ At(0, 1) = p + r /\ At(0, -1) = p - r
        /\ At(1, 1) = p + u + r /\ At(1, -1) = p + u - r
        /\ At(-1, 1) = p - u + r /\ At(-1, -1) = p - u - r
    OBVIOUS
  <2>3. /\ By(1, 0) = q + v /\ By(-1, 0) = q - v /\ By(0, 1) = q + w /\ By(0, -1) = q - w
        /\ By(1, 1) = q + v + w /\ By(1, -1) = q + v - w
        /\ By(-1, 1) = q - v + w /\ By(-1, -1) = q - v - w
    OBVIOUS
  <2> HIDE DEF At, By, Same
  <2> QED BY <2>1, <2>2, <2>3
<1>3. TestAllHane(b, p, color, u, r) <=> TestAllHane(d, q, color, v, w)
  BY <1>2, Zenon DEF TestAllHane, Hane1, Hane2, Hane3, Hane4
<1>4. TestAllCut(b, p, color, u, r) <=> TestAllCut(d, q, color, v, w)
  <2>1. Cut1(b, p, u, r) <=> Cut1(d, q, v, w)
    BY <1>2, Zenon DEF Cut1
  <2>2. Cut2(b, p, color, u, r) <=> Cut2(d, q, color, v, w)
    <3> HIDE DEF Same
    <3>1. /\ \A c : IsColor(b, p + u, c) <=> IsColor(d, q + v, c)
          /\ \A c : IsColor(b, p + r, c) <=> IsColor(d, q + w, c)
          /\ \A c : IsColor(b, p - r, c) <=> IsColor(d, q - w, c)
      BY <1>2 DEF Same
    <3> DEFINE Free(a, x) == IsColor(a, x, color) \/ IsEmpty(a, x)
    <3>2. /\ Free(b, p - u) <=> Free(d, q - v)
          /\ Free(b, p - u - r) <=> Free(d, q - v - w)
          /\ Free(b, p - u + r) <=> Free(d, q - v + w)
      BY <1>2 DEF Same
    <3>3. /\ Cut2(b, p, color, u, r) <=>
               /\ IsColor(b, p + u, color)
               /\ IsColor(b, p + r, Opponent(color)) /\ IsColor(b, p - r, Opponent(color))
               /\ Free(b, p - u) /\ Free(b, p - u - r) /\ Free(b, p - u + r)
          /\ Cut2(d, q, color, v, w) <=>
               /\ IsColor(d, q + v, color)
               /\ IsColor(d, q + w, Opponent(color)) /\ IsColor(d, q - w, Opponent(color))
               /\ Free(d, q - v) /\ Free(d, q - v - w) /\ Free(d, q - v + w)
      BY Zenon DEF Cut2
    <3> HIDE DEF Free
    <3> QED BY <3>1, <3>2, <3>3, Zenon
  <2> QED BY <2>1, <2>2 DEF TestAllCut
<1> QED BY <1>3, <1>4 DEF Matches

\* Patterns match a turned board at the turned point.
LEMMA TurnedMatches ==
  ASSUME NEW b, b.stones \in [Positions -> BoardColors], NEW d,
         d.stones = [q \in Positions |-> b.stones[Transposed(q)]],
         NEW p \in Inner, NEW color
  PROVE  MatchAny(b, p, color) <=> MatchAny(d, Transposed(p), color)
<1> DEFINE N == BoardSize
           t == Transposed(p)
<1>1. N \in Int /\ p \in Int /\ t \in Int /\ N >= 3
  <2>1. BoardSize >= 3
    BY TransposedStep
  <2>2. p \in Int /\ BoardSize \in Int
    BY BoardSizeAssumption DEF Inner, Positions
  <2> QED BY <2>1, <2>2 DEF Transposed
<1>2. \A i, j \in {-1, 0, 1} :
        /\ p + i * N + j \in Positions /\ t + j * N + i \in Positions
        /\ b.stones[p + i * N + j] = d.stones[t + j * N + i]
  BY TransposedStep
<1> HIDE DEF N, t
<1>3. ASSUME NEW i \in {-1, 1}, NEW j \in {-1, 1}
      PROVE  /\ Matches(b, p, color, i * N, j) <=> Matches(d, t, color, i, j * N)
             /\ Matches(b, p, color, i, j * N) <=> Matches(d, t, color, i * N, j)
  <2>1. i * N \in Int /\ j * N \in Int /\ i \in Int /\ j \in Int
    BY <1>1
  <2>2. ASSUME NEW k \in {-1, 0, 1}, NEW l \in {-1, 0, 1}
        PROVE  LET x == p + k * (i * N) + l * j
                   y == t + k * i + l * (j * N)
               IN  x \in Positions /\ y \in Positions /\ b.stones[x] = d.stones[y]
    <3>1. k * i \in {-1, 0, 1} /\ l * j \in {-1, 0, 1}
      OBVIOUS
    <3>2. /\ p + k * (i * N) + l * j = p + (k * i) * N + l * j
          /\ t + k * i + l * (j * N) = t + (l * j) * N + k * i
      BY <1>1
    <3> QED BY <1>2, <3>1, <3>2
  <2>3. ASSUME NEW k \in {-1, 0, 1}, NEW l \in {-1, 0, 1}
        PROVE  LET x == p + k * i + l * (j * N)
                   y == t + k * (i * N) + l * j
               IN  x \in Positions /\ y \in Positions /\ b.stones[x] = d.stones[y]
    <3>1. k * i \in {-1, 0, 1} /\ l * j \in {-1, 0, 1}
      OBVIOUS
    <3>2. /\ p + k * i + l * (j * N) = p + (l * j) * N + k * i
          /\ t + k * (i * N) + l * j = t + (k * i) * N + l * j
      BY <1>1
    <3> QED BY <1>2, <3>1, <3>2
  <2>4. Matches(b, p, color, i * N, j) <=> Matches(d, t, color, i, j * N)
    BY <1>1, <2>1, <2>2, MatchesSame
  <2>5. Matches(b, p, color, i, j * N) <=> Matches(d, t, color, i * N, j)
    BY <1>1, <2>1, <2>3, MatchesSame
  <2> QED BY <2>4, <2>5
<1>4. /\ MatchAny(b, p, color) <=>
           \E i, j \in {-1, 1} : \/ Matches(b, p, color, i * N, j)
                                 \/ Matches(b, p, color, j, i * N)
      /\ MatchAny(d, t, color) <=>
           \E i, j \in {-1, 1} : \/ Matches(d, t, color, i * N, j)
                                 \/ Matches(d, t, color, j, i * N)
  BY <1>1, Views DEF N
<1>5. MatchAny(b, p, color) <=> MatchAny(d, t, color)
  BY <1>3, <1>4, Zenon
<1> QED BY <1>5 DEF t

\* Patterns match a mirrored board at the mirrored point.
LEMMA MirroredMatches ==
  ASSUME NEW b, b.stones \in [Positions -> BoardColors], NEW d,
         d.stones = [q \in Positions |-> b.stones[Mirrored(q)]],
         NEW p \in Inner, NEW color
  PROVE  MatchAny(b, p, color) <=> MatchAny(d, Mirrored(p), color)
<1> DEFINE N == BoardSize
           t == Mirrored(p)
<1>1. N \in Int /\ p \in Int /\ t \in Int /\ N >= 3
  <2>1. BoardSize >= 3
    BY MirroredStep
  <2>2. p \in Int /\ BoardSize \in Int
    BY BoardSizeAssumption DEF Inner, Positions
  <2> QED BY <2>1, <2>2 DEF Mirrored
<1>2. \A i, j \in {-1, 0, 1} :
        /\ p + i * N + j \in Positions /\ t + i * N - j \in Positions
        /\ b.stones[p + i * N + j] = d.stones[t + i * N - j]
  BY MirroredStep
<1> HIDE DEF N, t
<1>3. ASSUME NEW i \in {-1, 1}, NEW j \in {-1, 1}
      PROVE  /\ Matches(b, p, color, i * N, j) <=> Matches(d, t, color, i * N, -j)
             /\ Matches(b, p, color, j, i * N) <=> Matches(d, t, color, -j, i * N)
  <2>1. i * N \in Int /\ i \in Int /\ j \in Int /\ -j \in Int
    BY <1>1
  <2>2. ASSUME NEW k \in {-1, 0, 1}, NEW l \in {-1, 0, 1}
        PROVE  LET x == p + k * (i * N) + l * j
                   y == t + k * (i * N) + l * (-j)
               IN  x \in Positions /\ y \in Positions /\ b.stones[x] = d.stones[y]
    <3>1. k * i \in {-1, 0, 1} /\ l * j \in {-1, 0, 1}
      OBVIOUS
    <3>2. /\ p + k * (i * N) + l * j = p + (k * i) * N + l * j
          /\ t + k * (i * N) + l * (-j) = t + (k * i) * N - l * j
      BY <1>1
    <3> QED BY <1>2, <3>1, <3>2
  <2>3. ASSUME NEW k \in {-1, 0, 1}, NEW l \in {-1, 0, 1}
        PROVE  LET x == p + k * j + l * (i * N)
                   y == t + k * (-j) + l * (i * N)
               IN  x \in Positions /\ y \in Positions /\ b.stones[x] = d.stones[y]
    <3>1. l * i \in {-1, 0, 1} /\ k * j \in {-1, 0, 1}
      OBVIOUS
    <3>2. /\ p + k * j + l * (i * N) = p + (l * i) * N + k * j
          /\ t + k * (-j) + l * (i * N) = t + (l * i) * N - k * j
      BY <1>1
    <3> QED BY <1>2, <3>1, <3>2
  <2>4. Matches(b, p, color, i * N, j) <=> Matches(d, t, color, i * N, -j)
    BY <1>1, <2>1, <2>2, MatchesSame
  <2>5. Matches(b, p, color, j, i * N) <=> Matches(d, t, color, -j, i * N)
    BY <1>1, <2>1, <2>3, MatchesSame
  <2> QED BY <2>4, <2>5
<1>4. /\ MatchAny(b, p, color) <=>
           \E i, j \in {-1, 1} : \/ Matches(b, p, color, i * N, j)
                                 \/ Matches(b, p, color, j, i * N)
      /\ MatchAny(d, t, color) <=>
           \E i, j \in {-1, 1} : \/ Matches(d, t, color, i * N, j)
                                 \/ Matches(d, t, color, j, i * N)
  BY <1>1, Views DEF N
<1>5. \A j \in {-1, 1} : -j \in {-1, 1} /\ -(-j) = j
  OBVIOUS
<1>6. MatchAny(b, p, color) <=> MatchAny(d, t, color)
  <2>1. MatchAny(b, p, color) => MatchAny(d, t, color)
    BY <1>3, <1>4, <1>5, Zenon
  <2>2. MatchAny(d, t, color) => MatchAny(b, p, color)
    <3>1. ASSUME NEW i \in {-1, 1}, NEW j \in {-1, 1}
          PROVE  /\ Matches(d, t, color, i * N, j) => Matches(b, p, color, i * N, -j)
                 /\ Matches(d, t, color, j, i * N) => Matches(b, p, color, -j, i * N)
      BY <1>3, <1>5
    <3> QED BY <1>4, <1>5, <3>1, Zenon
  <2> QED BY <2>1, <2>2
<1> QED BY <1>6 DEF t

\* So they do on the board of the game.
LEMMA PatternsFollow == GameInv => PatternsTurnWithBoard
<1> SUFFICES ASSUME GameInv, NEW p \in {q \in Positions : ~ IsBorder(q) /\ board.stones[q] = NONE},
                    NEW c \in StoneColors
             PROVE  /\ MatchAny(board, p, c) = MatchAny(Turned(board, Transposed), Transposed(p), c)
                    /\ MatchAny(board, p, c) = MatchAny(Turned(board, Mirrored), Mirrored(p), c)
  BY DEF PatternsTurnWithBoard
<1>1. /\ board.stones \in [Positions -> BoardColors] /\ p \in Inner
      /\ Turned(board, Transposed).stones = [q \in Positions |-> board.stones[Transposed(q)]]
      /\ Turned(board, Mirrored).stones = [q \in Positions |-> board.stones[Mirrored(q)]]
  BY DEF GameInv, Coherent, Typed, Inner, Turned
<1>2. /\ MatchAny(board, p, c) <=> MatchAny(Turned(board, Transposed), Transposed(p), c)
      /\ MatchAny(board, p, c) <=> MatchAny(Turned(board, Mirrored), Mirrored(p), c)
  <2> DEFINE d == Turned(board, Transposed)
             m == Turned(board, Mirrored)
  <2>1. /\ d.stones = [q \in Positions |-> board.stones[Transposed(q)]]
        /\ m.stones = [q \in Positions |-> board.stones[Mirrored(q)]]
    BY <1>1
  <2> HIDE DEF d, m
  <2>2. MatchAny(board, p, c) <=> MatchAny(d, Transposed(p), c)
    BY <1>1, <2>1, TurnedMatches
  <2>3. MatchAny(board, p, c) <=> MatchAny(m, Mirrored(p), c)
    BY <1>1, <2>1, MirroredMatches
  <2> QED BY <2>2, <2>3 DEF d, m
<1> QED BY <1>2, Zenon DEF MatchAny

\* Every position of a game matches the patterns at an inner point as the turned and
\* the mirrored board do at its image: the eight directions that MatchAny tries and
\* the offsets that getRightDirection gives them are those of a square.
THEOREM PatternsTurn == Spec => []PatternsTurnWithBoard
BY GameIsCoherent, PatternsFollow, PTL

-----------------------------------------------------------------------------
\* The score.

\* The edges are where a direction leads off the board.
LEMMA Edges ==
  ASSUME NEW p \in Positions
  PROVE  IsBorder(p) <=> OffBoard \in {North(p), South(p), West(p), East(p)}
<1> USE DEF Positions, North, South, West, East, OffBoard, IsBorder,
            BOARD_TOP_LEFT, BOARD_TOP_RIGHT, BOARD_BOTTOM_LEFT, BOARD_BOTTOM_RIGHT
<1>1. CASE BoardSize = 2 BY <1>1
<1>2. CASE BoardSize = 3 BY <1>2
<1>3. CASE BoardSize = 4 BY <1>3
<1>4. CASE BoardSize = 5 BY <1>4
<1>5. CASE BoardSize = 6 BY <1>5
<1>6. CASE BoardSize = 7 BY <1>6
<1>7. CASE BoardSize = 8 BY <1>7
<1>8. CASE BoardSize = 9 BY <1>8
<1>9. CASE BoardSize = 10 BY <1>9
<1>10. CASE BoardSize = 11 BY <1>10
<1>11. CASE BoardSize = 12 BY <1>11
<1>12. CASE BoardSize = 13 BY <1>12
<1>13. CASE BoardSize = 14 BY <1>13
<1>14. CASE BoardSize = 15 BY <1>14
<1>15. CASE BoardSize = 16 BY <1>15
<1>16. CASE BoardSize = 17 BY <1>16
<1>17. CASE BoardSize = 18 BY <1>17
<1>18. CASE BoardSize = 19 BY <1>18
<1> QED BY SizeCases, <1>1, <1>2, <1>3, <1>4, <1>5, <1>6, <1>7, <1>8, <1>9,
         <1>10, <1>11, <1>12, <1>13, <1>14, <1>15, <1>16, <1>17, <1>18

\* A territory meets no stones of the other colour.
LEMMA TerritoryMeets ==
  ASSUME NEW c \in StoneColors, NEW p \in Territory(c)
  PROVE  /\ p \in Positions /\ board.stones[p] = NONE
         /\ \A n \in Adjacent(p) : board.stones[n] \in {NONE, BoardColor(c)}
<1> DEFINE region == Rules!Block(board.stones, p)
           met == {board.stones[n] : n \in UNION {Adjacent(q) : q \in region}}
<1>1. p \in Positions /\ board.stones[p] = NONE /\ met \ {NONE} = {BoardColor(c)}
  BY DEF Territory
<1>2. p \in region /\ region \subseteq Positions
  BY <1>1, BlockBasics
<1> HIDE DEF region
<1>3. \A n \in Adjacent(p) : board.stones[n] \in met
  BY <1>2
<1>6. \A n \in Adjacent(p) : board.stones[n] \in {NONE, BoardColor(c)}
  <2> HIDE DEF met
  <2> QED BY <1>1, <1>3
<1> QED BY <1>1, <1>6

\* The size of two sets without a common member.
LEMMA DisjointSizes ==
  ASSUME NEW S \in SUBSET Positions, NEW T \in SUBSET Positions, S \cap T = {}
  PROVE  /\ Cardinality(S \cup T) = Cardinality(S) + Cardinality(T)
         /\ Cardinality(S) \in Nat /\ Cardinality(T) \in Nat
<1>1. IsFiniteSet(S) /\ IsFiniteSet(T) /\ Cardinality(S) \in Nat /\ Cardinality(T) \in Nat
  BY PointsOfBoard
<1>2. Cardinality(S \cup T) = Cardinality(S) + Cardinality(T) - Cardinality(S \cap T)
  BY <1>1, FS_Union
<1>3. Cardinality(S \cap T) = 0
  BY FS_EmptySet
<1> QED BY <1>1, <1>2, <1>3

\* The score of a settled board.
LEMMA ScoreFollows == GameInv => ScoreIsArea
<1> DEFINE TB == Territory(S_BLACK)
           TW == Territory(S_WHITE)
           HB == {p \in Positions : board.stones[p] = B_BLACK}
           HW == {p \in Positions : board.stones[p] = B_WHITE}
           E == {p \in Positions : board.stones[p] = NONE}
           pb == board.bw_prisoners[S_BLACK]
           pw == board.bw_prisoners[S_WHITE]
           Near == {p \in E : \E i \in 1..4 : StoneAt(board, Compass(p)[i]) = B_BLACK}
           Edge == {p \in TW : IsBorder(p)}
           M == IF pw = 1 THEN Edge ELSE {}
<1> SUFFICES ASSUME GameInv,
                    \A p \in Positions : board.stones[p] = NONE =>
                      \/ p \in TW
                      \/ p \in TB /\ \E n \in Adjacent(p) : board.stones[n] = B_BLACK
             PROVE  LET Area(c) == Cardinality(Territory(c))
                                     + Cardinality({p \in Positions : board.stones[p] = BoardColor(c)})
                        misread == IF pw = 1 THEN Cardinality(Edge) ELSE 0
                    IN  ScoreWithoutKomi(board) =
                          Area(S_BLACK) - Area(S_WHITE) + 2 * misread + pb - pw
  BY DEF ScoreIsArea
<1>1. /\ BoardColor(S_BLACK) = B_BLACK /\ BoardColor(S_WHITE) = B_WHITE /\ B_BLACK = 1
      /\ B_BLACK # NONE /\ B_WHITE # NONE /\ B_BLACK # B_WHITE
      /\ S_BLACK \in StoneColors /\ S_WHITE \in StoneColors
  BY DEF BoardColor, S_BLACK, S_WHITE, B_BLACK, B_WHITE, NONE, StoneColors
<1>2. pb \in Nat /\ pw \in Nat
  BY <1>1 DEF GameInv, Coherent
<1>3. /\ \A p \in TB : p \in E /\ \A n \in Adjacent(p) : board.stones[n] # B_WHITE
      /\ \A p \in TW : p \in E /\ \A n \in Adjacent(p) : board.stones[n] # B_BLACK
  BY <1>1, TerritoryMeets
<1>4. \A p \in E : \/ p \in TW
                   \/ p \in TB /\ \E n \in Adjacent(p) : board.stones[n] = B_BLACK
  OBVIOUS
<1>5. TB \cap TW = {}
  <2>1. ASSUME NEW p \in TB, p \in TW PROVE FALSE
    <3> DEFINE met == {board.stones[n] : n \in UNION {Adjacent(q) : q \in Rules!Block(board.stones, p)}}
    <3>1. met \ {NONE} = {BoardColor(S_BLACK)} /\ met \ {NONE} = {BoardColor(S_WHITE)}
      BY <2>1 DEF Territory
    <3> HIDE DEF met
    <3> QED BY <1>1, <3>1
  <2> QED BY <2>1
<1>6. ASSUME NEW p \in E
      PROVE  p \in Near <=> \/ \E n \in Adjacent(p) : board.stones[n] = B_BLACK
                            \/ pw = 1 /\ IsBorder(p)
  <2>1. p \in Positions
    OBVIOUS
  <2>2. p \in Near <=> \E x \in {North(p), South(p), West(p), East(p)} : StoneAt(board, x) = B_BLACK
    BY DEF Compass
  <2>3. Adjacent(p) = {North(p), South(p), West(p), East(p)} \ {OffBoard}
    BY DEF Adjacent
  <2> QED BY <1>1, <2>1, <2>2, <2>3, Edges DEF StoneAt
<1>7. Near = TB \cup M
  <2> HIDE DEF TB, TW, E, Near, pw
  <2>1. Near \subseteq E
    BY DEF Near
  <2> QED BY <1>3, <1>4, <1>5, <1>6, <2>1
<1>8. ScoreWithoutKomi(board) = pb - pw + Cardinality(HB \cup Near) - Cardinality(HW \cup (E \ Near))
  BY DEF ScoreWithoutKomi
<1>9. /\ TB \in SUBSET Positions /\ TW \in SUBSET Positions /\ HB \in SUBSET Positions
      /\ HW \in SUBSET Positions /\ M \in SUBSET TW /\ Edge \in SUBSET Positions
      /\ HB \cap E = {} /\ HW \cap E = {} /\ E = TB \cup TW
  <2>1. E = TB \cup TW
    BY <1>3, <1>4
  <2> QED BY <1>1, <2>1 DEF Territory
<1> HIDE DEF TB, TW, HB, HW, E, Near, Edge, M, pb, pw
<1>10. Cardinality(HB \cup Near) = Cardinality(HB) + Cardinality(TB) + Cardinality(M)
  <2>1. Cardinality(TB \cup M) = Cardinality(TB) + Cardinality(M)
        /\ Cardinality(TB) \in Nat /\ Cardinality(M) \in Nat
    <3>1. TB \in SUBSET Positions /\ M \in SUBSET Positions /\ TB \cap M = {}
      BY <1>5, <1>9
    <3> QED BY <3>1, DisjointSizes
  <2>2. Cardinality(HB \cup (TB \cup M)) = Cardinality(HB) + Cardinality(TB \cup M)
        /\ Cardinality(HB) \in Nat
    <3>1. TB \cup M \in SUBSET Positions /\ HB \cap (TB \cup M) = {}
      BY <1>9
    <3> QED BY <1>9, <3>1, DisjointSizes
  <2>3. Cardinality(HB \cup Near) = Cardinality(HB \cup (TB \cup M))
    BY <1>7, Zenon
  <2> DEFINE x == Cardinality(HB \cup (TB \cup M))
             y == Cardinality(TB \cup M)
  <2>4. x = Cardinality(HB) + y /\ y = Cardinality(TB) + Cardinality(M)
    BY <2>1, <2>2
  <2> HIDE DEF x, y
  <2>5. x = Cardinality(HB) + Cardinality(TB) + Cardinality(M)
    BY <2>1, <2>2, <2>4
  <2> QED BY <2>3, <2>5, Zenon DEF x
<1>11. Cardinality(HW \cup (E \ Near)) = Cardinality(HW) + Cardinality(TW) - Cardinality(M)
  <2>1. E \ Near = TW \ M
    BY <1>5, <1>7, <1>9
  <2>2. Cardinality((TW \ M) \cup M) = Cardinality(TW \ M) + Cardinality(M)
        /\ Cardinality(TW \ M) \in Nat /\ Cardinality(M) \in Nat
    <3>1. TW \ M \in SUBSET Positions /\ M \in SUBSET Positions /\ (TW \ M) \cap M = {}
      BY <1>9
    <3> QED BY <3>1, DisjointSizes
  <2>3. (TW \ M) \cup M = TW
    BY <1>9
  <2>4. Cardinality(HW \cup (TW \ M)) = Cardinality(HW) + Cardinality(TW \ M)
        /\ Cardinality(HW) \in Nat
    BY <1>9, DisjointSizes
  <2>5. Cardinality(HW \cup (E \ Near)) = Cardinality(HW \cup (TW \ M))
    BY <2>1, Zenon
  <2>6. Cardinality(TW) = Cardinality(TW \ M) + Cardinality(M)
    BY <2>2, <2>3, Zenon
  <2> DEFINE x == Cardinality(HW \cup (TW \ M))
             y == Cardinality(TW \ M)
  <2>7. x = Cardinality(HW) + y /\ y \in Nat
    BY <2>2, <2>4
  <2> HIDE DEF x, y
  <2>8. x = Cardinality(HW) + (y + Cardinality(M)) - Cardinality(M)
    BY <2>2, <2>4, <2>7
  <2> QED BY <2>5, <2>6, <2>8, Zenon DEF x, y
<1>12. Cardinality(M) = IF pw = 1 THEN Cardinality(Edge) ELSE 0
  BY FS_EmptySet DEF M
<1>13. /\ Cardinality(HB) \in Nat /\ Cardinality(HW) \in Nat /\ Cardinality(TB) \in Nat
       /\ Cardinality(TW) \in Nat /\ Cardinality(M) \in Nat
  BY <1>9, PointsOfBoard
<1>14. /\ {p \in Positions : board.stones[p] = BoardColor(S_BLACK)} = HB
       /\ {p \in Positions : board.stones[p] = BoardColor(S_WHITE)} = HW
  BY <1>1 DEF HB, HW
<1>15. ScoreWithoutKomi(board) =
         (Cardinality(TB) + Cardinality(HB)) - (Cardinality(TW) + Cardinality(HW))
           + 2 * Cardinality(M) + pb - pw
  BY <1>2, <1>8, <1>10, <1>11, <1>13
<1> QED BY <1>12, <1>14, <1>15 DEF TB, TW

\* GetScoreInternal counts the area of every settled position of a game, but for the
\* territory of white at the edges when white has just one prisoner.
THEOREM ScoresArea == Spec => []ScoreIsArea
BY GameIsCoherent, ScoreFollows, PTL

-----------------------------------------------------------------------------
\* A board that was reset.

\* The stones that point to the object k.
Standing(b, k) == {p \in Positions : b.stones[p] # NONE /\ b.blockPointers[p] = k}

\* The object k lists the stones S, and has one of them as its anchor if there are any.
Keeps(b, k, S) ==
  /\ Lists(b.blocks[k].stones, S)
  /\ S # {} => b.blocks[k].anchor \in S

\* What is left of Coherent when empty points may point anywhere and nothing is known
\* of the liberties.
Grouped(b) ==
  /\ Typed(b) /\ Counted(b)
  /\ \A p \in Positions :
       b.stones[p] # NONE => /\ b.blockPointers[p] \in Blocks
                             /\ Standing(b, b.blockPointers[p]) = Rules!Block(b.stones, p)
  /\ \A k \in Blocks : Keeps(b, k, Standing(b, k))
  /\ \A k \in Blocks : k >= b.blockPointer => Standing(b, k) = {}
  /\ b.blockPointer \in Nat
  /\ b.bw_prisoners \in [StoneColors -> Nat]

\* The same but for the liberties.
SameList(b, c, k) ==
  c.blocks[k].anchor = b.blocks[k].anchor /\ c.blocks[k].stones = b.blocks[k].stones

-----------------------------------------------------------------------------
\* Importing a block.

\* After the first i stones of the block: they point to the importing block, which
\* lists them behind its own.
Gathered(into, base, seq, i, b) ==
  LET F == FirstOf(seq, i)
  IN  /\ SamePosition(base, b) /\ b.blockPointer = base.blockPointer
      /\ Typed(b)
      /\ \A q \in Positions : b.blockPointers[q] = IF q \in F THEN into ELSE base.blockPointers[q]
      /\ \A k \in Blocks \ {into} : SameList(base, b, k)
      /\ b.blocks[into].anchor = base.blocks[into].anchor
      /\ Lists(b.blocks[into].stones, ToSet(base.blocks[into].stones) \cup F)

Gather == INSTANCE FoldTheorems WITH Op <- ImportOp, Holds <- Gathered

\* ImportBlock is that fold.
LEMMA GatherLoop ==
  ASSUME NEW b, NEW into, NEW from, from # NoBlock
  PROVE  ImportBlock(b, into, from) =
           [Gather!Folded(into, b, b.blocks[from].stones) EXCEPT !.blocks[from] = ResetBlock]
BY Zenon DEF ImportBlock, Gather!Folded, ImportOp, FoldLeft, MapThenFoldSet, Max,
             Gather!FoldLeft, Gather!MapThenFoldSet, Gather!Max

\* One more stone.
LEMMA GatherStep ==
  ASSUME NEW b, NEW into \in Blocks, NEW S, Lists(b.blocks[into].stones, S),
         NEW seq, NEW T, Lists(seq, T), S \cap T = {},
         NEW i \in 1..Len(seq), NEW c, Gathered(into, b, seq, i - 1, c)
  PROVE  Gathered(into, b, seq, i, ImportStone(c, into, seq[i]))
<1> DEFINE E == FirstOf(seq, i - 1)
           F == FirstOf(seq, i)
           stone == seq[i]
           d == ImportStone(c, into, stone)
<1>1. /\ F = E \cup {stone} /\ stone \notin E /\ F \subseteq T /\ E \subseteq T
      /\ stone \in T /\ stone \in Positions /\ ToSet(b.blocks[into].stones) = S
  BY FirstOfIs DEF Lists
<1> HIDE DEF E, F, stone
<1>2. /\ SamePosition(b, c) /\ c.blockPointer = b.blockPointer
      /\ Typed(c)
      /\ \A q \in Positions : c.blockPointers[q] = IF q \in E THEN into ELSE b.blockPointers[q]
      /\ \A k \in Blocks \ {into} : SameList(b, c, k)
      /\ c.blocks[into].anchor = b.blocks[into].anchor
      /\ Lists(c.blocks[into].stones, S \cup E)
  BY <1>1 DEF Gathered, E
<1>3. /\ SamePosition(c, d) /\ d.blockPointer = c.blockPointer
      /\ Typed(d)
      /\ \A q \in Positions :
           d.blockPointers[q] = IF q = stone THEN into ELSE c.blockPointers[q]
      /\ \A k \in Blocks \ {into} : SameBlock(c, d, k)
      /\ d.blocks[into].anchor = c.blocks[into].anchor
      /\ d.blocks[into].stones = Append(c.blocks[into].stones, stone)
  <2>1. stone \in Positions /\ Typed(c)
    BY <1>1, <1>2
  <2> QED BY <2>1, ImportStoneIs
<1> HIDE DEF d
<1>4. Lists(d.blocks[into].stones, S \cup F)
  <2>1. stone \notin S \cup E /\ (S \cup E) \cup {stone} = S \cup F
    BY <1>1
  <2> QED BY <1>1, <1>2, <1>3, <2>1, ListAppend
<1>5. SamePosition(b, d) /\ d.blockPointer = b.blockPointer
  BY <1>2, <1>3 DEF SamePosition
<1>6. \A q \in Positions : d.blockPointers[q] = IF q \in F THEN into ELSE b.blockPointers[q]
  BY <1>1, <1>2, <1>3
<1>7. \A k \in Blocks \ {into} : SameList(b, d, k)
  BY <1>2, <1>3 DEF SameBlock, SameList
<1>8. Gathered(into, b, seq, i, d)
  BY <1>1, <1>2, <1>3, <1>4, <1>5, <1>6, <1>7 DEF Gathered, F
<1> QED BY <1>8 DEF d, stone

\* The importing block takes the stones of the other, which keeps none.
LEMMA GatherBlockIs ==
  ASSUME NEW b, Typed(b), NEW into \in Blocks, NEW from \in Blocks, from # into,
         NEW S, Lists(b.blocks[into].stones, S),
         NEW T, Lists(b.blocks[from].stones, T), S \cap T = {}
  PROVE  LET c == ImportBlock(b, into, from)
         IN  /\ SamePosition(b, c) /\ c.blockPointer = b.blockPointer
             /\ Typed(c)
             /\ \A q \in Positions :
                  c.blockPointers[q] = IF q \in T THEN into ELSE b.blockPointers[q]
             /\ \A k \in Blocks \ {into, from} : SameList(b, c, k)
             /\ c.blocks[from].stones = <<>>
             /\ c.blocks[into].anchor = b.blocks[into].anchor
             /\ Lists(c.blocks[into].stones, S \cup T)
<1> DEFINE seq == b.blocks[from].stones
           e == Gather!Folded(into, b, seq)
           c == [e EXCEPT !.blocks[from] = ResetBlock]
<1>1. Lists(seq, T) /\ seq \in Seq(Positions) /\ ToSet(b.blocks[into].stones) = S
  BY DEF Lists
<1> HIDE DEF seq
<1>2. Gathered(into, b, seq, 0, b)
  <2>1. FirstOf(seq, 0) = {} /\ S \cup {} = S
    BY <1>1, FirstOfIs
  <2> QED BY <1>1, <2>1 DEF Gathered, SamePosition, SameList
<1>3. ASSUME NEW i \in 1..Len(seq), NEW a, Gathered(into, b, seq, i - 1, a)
      PROVE  Gathered(into, b, seq, i, ImportOp(a, into, seq[i]))
  BY <1>1, <1>3, GatherStep DEF ImportOp
<1>4. Gathered(into, b, seq, Len(seq), e)
  <2> HIDE DEF ImportOp, Gathered
  <2> QED BY <1>1, <1>2, <1>3, Gather!FoldInvariant
<1>5. FirstOf(seq, Len(seq)) = T
  BY <1>1, FirstOfIs
<1> HIDE DEF e
<1>6. /\ SamePosition(b, e) /\ e.blockPointer = b.blockPointer
      /\ Typed(e)
      /\ \A q \in Positions : e.blockPointers[q] = IF q \in T THEN into ELSE b.blockPointers[q]
      /\ \A k \in Blocks \ {into} : SameList(b, e, k)
      /\ e.blocks[into].anchor = b.blocks[into].anchor
      /\ Lists(e.blocks[into].stones, S \cup T)
  BY <1>1, <1>4, <1>5 DEF Gathered
<1>7. ImportBlock(b, into, from) = c
  <2>1. from # NoBlock
    BY PointsOfBoard
  <2> QED BY <2>1, GatherLoop DEF e, seq
<1>8. /\ SamePosition(e, c) /\ c.blockPointer = e.blockPointer /\ c.blockPointers = e.blockPointers
      /\ DOMAIN c.blocks = Blocks
      /\ \A k \in Blocks \ {from} : c.blocks[k] = e.blocks[k]
      /\ c.blocks[from].stones = <<>>
  BY <1>6 DEF Typed, SamePosition, ResetBlock
<1> HIDE DEF c
<1>9. SamePosition(b, c) /\ Typed(c)
  BY <1>6, <1>8 DEF SamePosition, Typed
<1> QED BY <1>6, <1>7, <1>8, <1>9 DEF SameList

-----------------------------------------------------------------------------
\* Joining blocks.

\* The other stones that point to the object k.
Others(b, k, pos) == Standing(b, k) \ {pos}

\* The board that JoinBlocks works on: a stone is on pos, and where pos points to is
\* not known.
Waiting(b, pos) ==
  /\ Typed(b)
  /\ b.stones[pos] # NONE
  /\ \A q \in Positions \ {pos} : b.stones[q] # NONE => b.blockPointers[q] \in Blocks
  /\ \A k \in Blocks : Keeps(b, k, Others(b, k, pos))

\* The other stones of all the objects ks.
AllOthers(b, ks, pos) ==
  {q \in Positions \ {pos} : b.stones[q] # NONE /\ b.blockPointers[q] \in ks}

\* The block mine has taken in the stone and the blocks ks.
Merged(b, c, pos, mine, ks) ==
  /\ SamePosition(b, c) /\ c.blockPointer = b.blockPointer
  /\ Typed(c)
  /\ \A q \in Positions : c.blockPointers[q] =
       IF q = pos \/ q \in AllOthers(b, ks, pos) THEN mine ELSE b.blockPointers[q]
  /\ \A k \in Blocks \ ks : SameList(b, c, k)
  /\ \A k \in ks \ {mine} : c.blocks[k].stones = <<>>
  /\ c.blocks[mine].anchor = b.blocks[mine].anchor
  /\ Lists(c.blocks[mine].stones, AllOthers(b, ks, pos))

\* After the first i directions.
MergedSoFar(x, base, seq, i, c) == Merged(x.b, c, x.pos, x.mine, JoinedSoFar(x, i))

Merge == INSTANCE FoldTheorems WITH Op <- JoinOp, Holds <- MergedSoFar

\* JoinBlocks is that fold.
LEMMA MergeLoop ==
  ASSUME NEW x
  PROVE  JoinBlocks(x.b, x.pos, x.color) =
           Merge!Folded(x, Begun(x.b, x.pos, x.color), Compass(x.pos))
BY Zenon DEF JoinBlocks, Begun, Merge!Folded, JoinOp, FoldLeft, MapThenFoldSet, Max,
             Merge!FoldLeft, Merge!MapThenFoldSet, Merge!Max

\* At the start only the block of the first friend has taken in the stone.
LEMMA MergeBegins ==
  ASSUME NEW b, NEW pos \in Positions, NEW color \in StoneColors, Waiting(b, pos),
         \E n \in Adjacent(pos) : b.stones[n] = BoardColor(color)
  PROVE  LET mine == b.blockPointers[FirstFriend(b, pos, color)]
         IN  /\ mine \in Blocks /\ mine \in Joining(b, pos, color)
             /\ Others(b, mine, pos) # {}
             /\ Merged(b, Begun(b, pos, color), pos, mine, {mine})
<1> DEFINE friend == FirstFriend(b, pos, color)
           mine == b.blockPointers[friend]
           new == FindUniqueLiberties(b, pos, mine)
           c == [b EXCEPT !.blocks[mine].liberties = @ + new, !.blockPointers[pos] = mine]
<1>1. mine \in Blocks /\ mine \in Joining(b, pos, color) /\ Others(b, mine, pos) # {}
  <2>1. friend \in Adjacent(pos) /\ b.stones[friend] = BoardColor(color)
    BY FirstFriendIs
  <2>2. friend \in Positions \ {pos} /\ b.stones[friend] # NONE
    BY <2>1, AdjacentPoints, TwoColors
  <2> HIDE DEF friend
  <2> QED BY <2>1, <2>2 DEF Waiting, Joining, Others, Standing
<1> HIDE DEF mine, new
<1>2. SamePosition(b, c) /\ c.blockPointer = b.blockPointer
  BY DEF SamePosition
<1>3. Typed(c) /\ \A q \in Positions : c.blockPointers[q] = IF q = pos THEN mine ELSE b.blockPointers[q]
  BY <1>1 DEF Waiting, Typed
<1>4. \A k \in Blocks : SameList(b, c, k)
  <2>1. /\ \A k \in Blocks \ {mine} : c.blocks[k] = b.blocks[k]
        /\ c.blocks[mine] = [b.blocks[mine] EXCEPT !.liberties = @ + new]
    BY <1>1 DEF Waiting, Typed
  <2> QED BY <2>1 DEF SameList
<1>5. Begun(b, pos, color) = c
  BY DEF Begun, mine, new
<1> HIDE DEF c
<1>6. AllOthers(b, {mine}, pos) = Others(b, mine, pos)
  BY DEF AllOthers, Others, Standing
<1>7. \A q \in Positions :
        c.blockPointers[q] = IF q = pos \/ q \in AllOthers(b, {mine}, pos) THEN mine ELSE b.blockPointers[q]
  BY <1>3 DEF AllOthers
<1>8. Lists(c.blocks[mine].stones, AllOthers(b, {mine}, pos))
  BY <1>1, <1>4, <1>6 DEF Waiting, Keeps, SameList
<1>9. Merged(b, c, pos, mine, {mine})
  BY <1>1, <1>2, <1>3, <1>4, <1>7, <1>8 DEF Merged, SameList
<1> QED BY <1>1, <1>5, <1>9 DEF mine

\* One more block, or the same one met again.
LEMMA MergeStep ==
  ASSUME NEW b, NEW pos \in Positions, NEW color \in StoneColors, Waiting(b, pos),
         NEW mine \in Blocks, NEW ks \in SUBSET Blocks, mine \in ks, NEW c,
         Merged(b, c, pos, mine, ks),
         NEW n \in Adjacent(pos), b.stones[n] = BoardColor(color), NEW x,
         x.b = b, x.pos = pos, x.color = color
  PROVE  /\ b.blockPointers[n] \in Blocks
         /\ Merged(b, JoinOp(c, x, n), pos, mine, ks \cup {b.blockPointers[n]})
<1> DEFINE f == b.blockPointers[n]
           d == ImportBlock(c, mine, f)
           S == AllOthers(b, ks, pos)
           T == Others(b, f, pos)
<1>1. n \in Positions /\ n # pos /\ n # OffBoard /\ b.stones[n] # NONE /\ f \in Blocks
  <2>1. n \in Positions /\ n # pos /\ n # OffBoard /\ b.stones[n] # NONE
    BY AdjacentPoints, PointsOfBoard, TwoColors
  <2> QED BY <2>1 DEF Waiting
<1>2. /\ SamePosition(b, c) /\ c.blockPointer = b.blockPointer
      /\ Typed(c)
      /\ \A q \in Positions : c.blockPointers[q] =
           IF q = pos \/ q \in S THEN mine ELSE b.blockPointers[q]
      /\ \A k \in Blocks \ ks : SameList(b, c, k)
      /\ \A k \in ks \ {mine} : c.blocks[k].stones = <<>>
      /\ c.blocks[mine].anchor = b.blocks[mine].anchor
      /\ Lists(c.blocks[mine].stones, S)
  BY DEF Merged
<1>3. n \in S <=> f \in ks
  BY <1>1 DEF AllOthers
<1>4. c.blockPointers[pos] = mine /\ StoneAt(b, n) = BoardColor(color)
      /\ PointerAt(c, n) = (IF f \in ks THEN mine ELSE f)
  BY <1>1, <1>2, <1>3 DEF StoneAt, PointerAt
<1>5. CASE f \in ks
  <2>1. JoinOp(c, x, n) = c
    BY <1>4, <1>5 DEF JoinOp
  <2>2. ks \cup {f} = ks
    BY <1>5
  <2> QED BY <1>1, <2>1, <2>2
<1>6. CASE f \notin ks
  <2>1. JoinOp(c, x, n) = d
    BY <1>4, <1>6 DEF JoinOp
  <2>2. Lists(c.blocks[f].stones, T) /\ f # mine
    BY <1>1, <1>2, <1>6 DEF Waiting, Keeps, SameList
  <2>3. S \cap T = {} /\ AllOthers(b, ks \cup {f}, pos) = S \cup T
    BY <1>6 DEF AllOthers, Others, Standing
  <2> HIDE DEF S, T, f
  <2>4. /\ SamePosition(c, d) /\ d.blockPointer = c.blockPointer
        /\ Typed(d)
        /\ \A q \in Positions : d.blockPointers[q] = IF q \in T THEN mine ELSE c.blockPointers[q]
        /\ \A k \in Blocks \ {mine, f} : SameList(c, d, k)
        /\ d.blocks[f].stones = <<>>
        /\ d.blocks[mine].anchor = c.blocks[mine].anchor
        /\ Lists(d.blocks[mine].stones, S \cup T)
    BY <1>1, <1>2, <2>2, <2>3, GatherBlockIs
  <2> HIDE DEF d
  <2>5. SamePosition(b, d) /\ d.blockPointer = b.blockPointer
    BY <1>2, <2>4 DEF SamePosition
  <2>6. \A q \in Positions : d.blockPointers[q] =
          IF q = pos \/ q \in AllOthers(b, ks \cup {f}, pos) THEN mine ELSE b.blockPointers[q]
    BY <1>2, <2>3, <2>4
  <2>7. \A k \in Blocks \ (ks \cup {f}) : SameList(b, d, k)
    BY <1>2, <2>4 DEF SameList
  <2>8. \A k \in (ks \cup {f}) \ {mine} : d.blocks[k].stones = <<>>
    BY <1>2, <2>4 DEF SameList
  <2>9. Merged(b, d, pos, mine, ks \cup {f})
    BY <1>2, <2>3, <2>4, <2>5, <2>6, <2>7, <2>8 DEF Merged
  <2> QED BY <1>1, <2>1, <2>9 DEF f
<1> QED BY <1>5, <1>6

\* JoinBlocks brings all blocks around the stone together, each once.
LEMMA MergedBlocksAre ==
  ASSUME NEW b, NEW pos \in Positions, NEW color \in StoneColors, Waiting(b, pos),
         \E n \in Adjacent(pos) : b.stones[n] = BoardColor(color)
  PROVE  LET mine == b.blockPointers[FirstFriend(b, pos, color)]
         IN  /\ mine \in Blocks /\ mine \in Joining(b, pos, color)
             /\ Others(b, mine, pos) # {}
             /\ Joining(b, pos, color) \subseteq Blocks
             /\ Merged(b, JoinBlocks(b, pos, color), pos, mine, Joining(b, pos, color))
<1> DEFINE mine == b.blockPointers[FirstFriend(b, pos, color)]
           base == Begun(b, pos, color)
           seq == Compass(pos)
           K == Joining(b, pos, color)
<1>0. PICK x : x = [b |-> b, pos |-> pos, color |-> color, mine |-> mine]
  OBVIOUS
<1>1. x.b = b /\ x.pos = pos /\ x.color = color /\ x.mine = mine
  BY <1>0
<1> DEFINE F(i) == JoinedSoFar(x, i)
<1>2. mine \in Blocks /\ mine \in K /\ Others(b, mine, pos) # {} /\ Merged(b, base, pos, mine, {mine})
  BY MergeBegins
<1> HIDE DEF mine, base
<1>3. /\ seq \in Seq(Positions \cup {OffBoard}) /\ Len(seq) = 4
      /\ \A i \in 1..4 : seq[i] # OffBoard => seq[i] \in Adjacent(pos)
      /\ \A n \in Adjacent(pos) : \E i \in 1..4 : seq[i] = n
      /\ \A n \in Adjacent(pos) : n # OffBoard
  BY CompassIs, AdjacentPoints, PointsOfBoard
<1> HIDE DEF seq
<1>4. \A i : F(i) = {mine} \cup {b.blockPointers[seq[j]] :
                   j \in {m \in 1..i : /\ seq[m] # OffBoard /\ b.stones[seq[m]] = BoardColor(color)}}
  BY <1>1 DEF JoinedSoFar, seq
<1>5. \A n \in Adjacent(pos) : b.stones[n] = BoardColor(color) => b.blockPointers[n] \in Blocks
  BY AdjacentPoints, TwoColors DEF Waiting
<1> HIDE DEF F
<1>6. \A i \in 0..4 : F(i) \in SUBSET Blocks /\ mine \in F(i)
  BY <1>2, <1>3, <1>4, <1>5
<1>7. \A i \in 0..4 : \A c : MergedSoFar(x, base, seq, i, c) <=> Merged(b, c, pos, mine, F(i))
  BY <1>1 DEF MergedSoFar, F
<1>8. MergedSoFar(x, base, seq, 0, base)
  <2>1. F(0) = {mine}
    BY <1>4
  <2> QED BY <1>2, <1>7, <2>1
<1>9. ASSUME NEW i \in 1..Len(seq), NEW c, MergedSoFar(x, base, seq, i - 1, c)
      PROVE  MergedSoFar(x, base, seq, i, JoinOp(c, x, seq[i]))
  <2>1. i \in 1..4 /\ i \in 0..4 /\ i - 1 \in 0..4
    BY <1>3
  <2>2. \A j : j \in 1..i <=> j \in 1..(i - 1) \/ j = i
    BY <2>1
  <2>3. Merged(b, c, pos, mine, F(i - 1))
    BY <1>7, <1>9, <2>1
  <2>4. CASE seq[i] # OffBoard /\ b.stones[seq[i]] = BoardColor(color)
    <3>1. F(i) = F(i - 1) \cup {b.blockPointers[seq[i]]}
      BY <1>4, <2>2, <2>4
    <3>2. Merged(b, JoinOp(c, x, seq[i]), pos, mine, F(i - 1) \cup {b.blockPointers[seq[i]]})
      BY <1>1, <1>2, <1>3, <1>6, <2>1, <2>3, <2>4, MergeStep
    <3> QED BY <1>7, <2>1, <3>1, <3>2
  <2>5. CASE ~ (seq[i] # OffBoard /\ b.stones[seq[i]] = BoardColor(color))
    <3>1. F(i) = F(i - 1)
      BY <1>4, <2>2, <2>5
    <3>2. c.blockPointers[pos] = mine
      BY <2>3 DEF Merged
    <3>3. JoinOp(c, x, seq[i]) = c
      BY <1>1, <1>2, <2>5, <3>2, JoinSkip
    <3> QED BY <1>7, <2>1, <2>3, <3>1, <3>3
  <2> QED BY <2>4, <2>5
<1>10. MergedSoFar(x, base, seq, 4, Merge!Folded(x, base, seq))
  <2>1. MergedSoFar(x, base, seq, Len(seq), Merge!Folded(x, base, seq))
    <3> HIDE DEF JoinOp, MergedSoFar
    <3> QED BY <1>3, <1>8, <1>9, Merge!FoldInvariant
  <2> QED BY <1>3, <2>1
<1>11. JoinBlocks(b, pos, color) = Merge!Folded(x, base, seq)
  BY <1>1, MergeLoop DEF base, seq
<1>12. F(4) = K
  <2>1. K = {b.blockPointers[n] : n \in {m \in Adjacent(pos) : b.stones[m] = BoardColor(color)}}
    BY DEF Joining
  <2>2. ASSUME NEW k \in F(4) PROVE k \in K
    BY <1>2, <1>3, <1>4, <2>1
  <2>3. ASSUME NEW k \in K PROVE k \in F(4)
    <3>1. PICK n \in Adjacent(pos) : b.stones[n] = BoardColor(color) /\ k = b.blockPointers[n]
      BY <2>1
    <3>2. PICK i \in 1..4 : seq[i] = n
      BY <1>3
    <3>3. n # OffBoard
      BY <1>3
    <3> QED BY <1>4, <3>1, <3>2, <3>3
  <2> QED BY <2>2, <2>3
<1>13. K \subseteq Blocks
  BY <1>6, <1>12
<1> QED BY <1>2, <1>7, <1>10, <1>11, <1>12, <1>13 DEF mine

-----------------------------------------------------------------------------
\* The stone takes its place in a block.

\* The blocks around the stone have lost a liberty; nothing else has changed.
LEMMA ShortIs ==
  ASSUME NEW b, Grouped(b), NEW pos \in Positions, b.stones[pos] = NONE, NEW color \in StoneColors
  PROVE  LET l == Lost(b, pos, color)
         IN  /\ l.stones = Rules!Placed(b.stones, pos, color)
             /\ SameRest(b, l) /\ l.blockPointer = b.blockPointer
             /\ l.blockPointers = b.blockPointers
             /\ Counted(l) /\ Waiting(l, pos)
             /\ l.numNeighbours = Put(b, pos, color).numNeighbours
             /\ \A k \in Blocks : SameList(b, l, k) /\ Others(l, k, pos) = Standing(b, k)
<1> DEFINE c == Put(b, pos, color)
           ks == LoseLiberty(c, pos)
           l == AddLiberties(c, ks, -1)
           t == Rules!Placed(b.stones, pos, color)
<1>1. /\ Typed(b) /\ Counted(b)
      /\ b.stones \in [Positions -> BoardColors]
      /\ \A q \in Positions : b.stones[q] # NONE => b.blockPointers[q] \in Blocks
      /\ \A k \in Blocks : Keeps(b, k, Standing(b, k))
  BY DEF Grouped, Typed
<1>2. /\ c.stones = t /\ SameRest(b, c) /\ c.blockPointer = b.blockPointer
      /\ c.blockPointers = b.blockPointers /\ c.blocks = b.blocks /\ Counted(c)
  BY <1>1, PutIs
<1>3. /\ t \in [Positions -> BoardColors] /\ t[pos] # NONE
      /\ \A q \in Positions \ {pos} : t[q] = b.stones[q]
  BY <1>1, PlacedDiffers DEF Differ
<1>4. Lost(b, pos, color) = l
  BY DEF Lost
<1> HIDE DEF c, t, ks
<1>5. Typed(c)
  BY <1>1, <1>2, <1>3 DEF Typed
<1>6. /\ SamePosition(c, l) /\ l.blockPointer = c.blockPointer
      /\ l.blockPointers = c.blockPointers
      /\ DOMAIN l.blocks = Blocks
      /\ \A k \in Blocks :
           /\ l.blocks[k].anchor = c.blocks[k].anchor
           /\ l.blocks[k].stones = c.blocks[k].stones
  BY <1>5, AddLibertiesIs
<1> HIDE DEF l
<1>7. /\ l.stones = t /\ SameRest(b, l) /\ l.blockPointer = b.blockPointer
      /\ l.blockPointers = b.blockPointers
      /\ l.numNeighbours = c.numNeighbours /\ l.numNeighboursEmpty = c.numNeighboursEmpty
  BY <1>2, <1>6 DEF SamePosition, SameRest
<1>8. Counted(l)
  <2>1. Counted(c) /\ l.stones = c.stones
    BY <1>2, <1>7
  <2> QED BY <1>7, <2>1, CountsAre DEF Counted
<1>9. \A k \in Blocks : SameList(b, l, k)
  BY <1>2, <1>6 DEF SameList
<1>10. \A k : Others(l, k, pos) = Standing(b, k)
  BY <1>3, <1>7 DEF Others, Standing
<1>11. Waiting(l, pos)
  <2>1. Typed(l)
    BY <1>1, <1>3, <1>6, <1>7 DEF Typed
  <2>2. \A k \in Blocks : Keeps(l, k, Others(l, k, pos))
    BY <1>1, <1>9, <1>10 DEF Keeps, SameList
  <2> QED BY <1>1, <1>3, <1>7, <2>1, <2>2 DEF Waiting
<1> QED BY <1>4, <1>7, <1>8, <1>9, <1>10, <1>11 DEF c, t

\* The block mine has taken in the stone and the blocks ks, or is new.
GatheredBy(l, j, pos, mine, ks) ==
  /\ mine \in ks \/ (ks = {} /\ mine = l.blockPointer)
  /\ SamePosition(l, j)
  /\ j.blockPointer = (IF mine \in ks THEN l.blockPointer ELSE l.blockPointer + 1)
  /\ Typed(j)
  /\ \A q \in Positions : j.blockPointers[q] =
       IF q = pos \/ q \in AllOthers(l, ks, pos) THEN mine ELSE l.blockPointers[q]
  /\ \A k \in Blocks \ (ks \cup {mine}) : SameList(l, j, k)
  /\ \A k \in ks \ {mine} : j.blocks[k].stones = <<>>
  /\ Lists(j.blocks[mine].stones, AllOthers(l, ks, pos))
  /\ j.blocks[mine].anchor \in AllOthers(l, ks, pos) \cup {pos}

\* The stone gets a new block object, or joins the blocks around it.
LEMMA TakenInIs ==
  ASSUME NEW b, Grouped(b), NEW pos \in Positions, b.stones[pos] = NONE,
         NEW color \in StoneColors, b.blockPointer \in Blocks
  PROVE  LET l == Lost(b, pos, color)
             ks == Joining(l, pos, color)
         IN  /\ ks \subseteq Blocks
             /\ \E mine \in Blocks : GatheredBy(l, Taken(b, pos, color), pos, mine, ks)
<1> DEFINE l == Lost(b, pos, color)
           ks == Joining(l, pos, color)
<1>1. /\ l.blockPointer = b.blockPointer /\ Counted(l) /\ Waiting(l, pos)
      /\ l.numNeighbours = Put(b, pos, color).numNeighbours
  BY ShortIs
<1> HIDE DEF l
<1>2. Put(b, pos, color).numNeighbours[color][pos] = 0 <=>
        ~ \E n \in Adjacent(pos) : l.stones[n] = BoardColor(color)
  <2> DEFINE A == Around(l.stones, pos, BoardColor(color))
  <2>1. Cardinality(A) = l.numNeighbours[color][pos]
    BY <1>1, CountsAre DEF Counted
  <2>2. A \in SUBSET Positions
    BY AdjacentPoints DEF Around
  <2>3. Cardinality(A) = 0 <=> A = {}
    <3> HIDE DEF A
    <3> QED BY <2>2, PointsOfBoard, FS_EmptySet
  <2>4. A = {} <=> ~ \E n \in Adjacent(pos) : l.stones[n] = BoardColor(color)
    BY DEF Around
  <2> HIDE DEF A
  <2> QED BY <1>1, <2>1, <2>3, <2>4
<1>3. CASE \E n \in Adjacent(pos) : l.stones[n] = BoardColor(color)
  <2> DEFINE j == JoinBlocks(l, pos, color)
             mine == l.blockPointers[FirstFriend(l, pos, color)]
  <2>1. Taken(b, pos, color) = j
    BY <1>2, <1>3 DEF Taken, l
  <2>2. /\ mine \in Blocks /\ mine \in ks /\ ks \subseteq Blocks
        /\ Others(l, mine, pos) # {} /\ Merged(l, j, pos, mine, ks)
    BY <1>1, <1>3, MergedBlocksAre
  <2> HIDE DEF j, mine, ks
  <2>3. /\ SamePosition(l, j) /\ j.blockPointer = l.blockPointer
        /\ Typed(j)
        /\ \A q \in Positions : j.blockPointers[q] =
             IF q = pos \/ q \in AllOthers(l, ks, pos) THEN mine ELSE l.blockPointers[q]
        /\ \A k \in Blocks \ ks : SameList(l, j, k)
        /\ \A k \in ks \ {mine} : j.blocks[k].stones = <<>>
        /\ j.blocks[mine].anchor = l.blocks[mine].anchor
        /\ Lists(j.blocks[mine].stones, AllOthers(l, ks, pos))
    BY <2>2 DEF Merged
  <2>4. j.blocks[mine].anchor \in AllOthers(l, ks, pos) \cup {pos}
    <3>1. l.blocks[mine].anchor \in Others(l, mine, pos)
      BY <1>1, <2>2 DEF Waiting, Keeps
    <3> QED BY <2>2, <2>3, <3>1 DEF Others, Standing, AllOthers
  <2>5. j.blockPointer = (IF mine \in ks THEN l.blockPointer ELSE l.blockPointer + 1)
    BY <2>2, <2>3
  <2>6. \A k \in Blocks \ (ks \cup {mine}) : SameList(l, j, k)
    BY <2>3
  <2>7. GatheredBy(l, j, pos, mine, ks)
    BY <2>2, <2>3, <2>4, <2>5, <2>6 DEF GatheredBy
  <2> QED BY <2>1, <2>2, <2>7 DEF l, ks
<1>4. CASE ~ \E n \in Adjacent(pos) : l.stones[n] = BoardColor(color)
  <2> DEFINE j == NewBlock(l, pos)
             mine == l.blockPointer
  <2>1. Taken(b, pos, color) = j
    BY <1>2, <1>4 DEF Taken, l
  <2>2. ks = {}
    BY <1>4 DEF Joining
  <2>3. /\ SamePosition(l, j) /\ j.blockPointer = mine + 1
        /\ Typed(j)
        /\ \A q \in Positions : j.blockPointers[q] = IF q = pos THEN mine ELSE l.blockPointers[q]
        /\ \A k \in Blocks \ {mine} : SameBlock(l, j, k)
        /\ j.blocks[mine].anchor = pos
        /\ j.blocks[mine].stones = <<>>
    BY <1>1, NewBlockIs DEF Waiting
  <2>4. AllOthers(l, ks, pos) = {}
    BY <2>2 DEF AllOthers
  <2> HIDE DEF j, ks
  <2>5. \A k \in Blocks \ {mine} : SameList(l, j, k)
    BY <2>3 DEF SameBlock, SameList
  <2>6. GatheredBy(l, j, pos, mine, ks)
    BY <2>2, <2>3, <2>4, <2>5, EmptyList DEF GatheredBy
  <2> QED BY <1>1, <2>1, <2>2, <2>6 DEF l, ks
<1> QED BY <1>3, <1>4

\* Before the captures every block object lists its group.
LEMMA SettledInIs ==
  ASSUME NEW b, Grouped(b), NEW pos \in Positions, b.stones[pos] = NONE,
         NEW color \in StoneColors, b.blockPointer \in Blocks
  PROVE  LET c == Settled(b, pos, color)
         IN  /\ c.stones = Rules!Placed(b.stones, pos, color)
             /\ SameRest(b, c)
             /\ c.blockPointer \in {b.blockPointer, b.blockPointer + 1}
             /\ Grouped(c)
<1> DEFINE l == Lost(b, pos, color)
           t == Rules!Placed(b.stones, pos, color)
           ks == Joining(l, pos, color)
           j == Taken(b, pos, color)
           A == AllOthers(l, ks, pos)
<1>1. /\ l.stones = t /\ SameRest(b, l) /\ l.blockPointer = b.blockPointer
      /\ l.blockPointers = b.blockPointers
      /\ Counted(l)
      /\ \A k \in Blocks : SameList(b, l, k)
  BY ShortIs
<1>2. PICK mine \in Blocks : GatheredBy(l, j, pos, mine, ks)
  BY TakenInIs
<1>3. ks \subseteq Blocks
  BY TakenInIs
<1> DEFINE c == [j EXCEPT !.blocks[mine].stones = Append(@, pos)]
<1>4. /\ b.stones \in [Positions -> BoardColors]
      /\ \A q \in Positions :
           b.stones[q] # NONE => /\ b.blockPointers[q] \in Blocks
                                 /\ Standing(b, b.blockPointers[q]) = Rules!Block(b.stones, q)
      /\ \A k \in Blocks : Keeps(b, k, Standing(b, k))
      /\ \A k \in Blocks : k >= b.blockPointer => Standing(b, k) = {}
      /\ b.blockPointer \in Nat
      /\ b.bw_prisoners \in [StoneColors -> Nat]
  BY DEF Grouped, Typed
<1>5. /\ t[pos] = BoardColor(color) /\ t[pos] # NONE
      /\ \A q \in Positions \ {pos} : t[q] = b.stones[q]
  BY <1>4, PlacedDiffers, TwoColors DEF Differ
<1>6. /\ ks = {b.blockPointers[n] : n \in {m \in Adjacent(pos) : b.stones[m] = BoardColor(color)}}
      /\ \A q \in Positions : q \in A <=> b.stones[q] # NONE /\ b.blockPointers[q] \in ks
      /\ A \subseteq Positions /\ pos \notin A
  <2>1. \A m \in Adjacent(pos) : m \in Positions \ {pos}
    BY AdjacentPoints
  <2> QED BY <1>1, <1>5, <2>1 DEF Joining, AllOthers
<1> HIDE DEF l, t, ks, j, A
<1>7. /\ mine \in ks \/ (ks = {} /\ mine = b.blockPointer)
      /\ SamePosition(l, j)
      /\ j.blockPointer = (IF mine \in ks THEN b.blockPointer ELSE b.blockPointer + 1)
      /\ Typed(j)
      /\ \A q \in Positions : j.blockPointers[q] =
           IF q = pos \/ q \in A THEN mine ELSE b.blockPointers[q]
      /\ \A k \in Blocks \ (ks \cup {mine}) : SameList(b, j, k)
      /\ \A k \in ks \ {mine} : j.blocks[k].stones = <<>>
      /\ Lists(j.blocks[mine].stones, A)
      /\ j.blocks[mine].anchor \in A \cup {pos}
  BY <1>1, <1>2 DEF GatheredBy, A, SameList
<1>8. Settled(b, pos, color) = c
  BY <1>7 DEF Settled, j
<1>9. /\ SamePosition(j, c) /\ c.blockPointer = j.blockPointer
      /\ c.blockPointers = j.blockPointers /\ Typed(c)
      /\ \A k \in Blocks \ {mine} : SameBlock(j, c, k)
      /\ c.blocks[mine].anchor = j.blocks[mine].anchor
      /\ c.blocks[mine].stones = Append(j.blocks[mine].stones, pos)
  <2>1. SamePosition(j, c) /\ c.blockPointer = j.blockPointer /\ c.blockPointers = j.blockPointers
    BY DEF SamePosition
  <2>2. Typed(c)
    BY <1>7 DEF Typed
  <2>3. /\ \A k \in Blocks \ {mine} : SameBlock(j, c, k)
        /\ c.blocks[mine].anchor = j.blocks[mine].anchor
        /\ c.blocks[mine].stones = Append(j.blocks[mine].stones, pos)
    BY <1>7 DEF Typed, SameBlock
  <2> QED BY <2>1, <2>2, <2>3
<1> HIDE DEF c
<1>10. /\ c.stones = t /\ SameRest(b, c) /\ Counted(c)
       /\ c.blockPointer \in {b.blockPointer, b.blockPointer + 1}
       /\ c.blockPointer \in Nat
  <2>1. c.stones = t /\ SameRest(b, c)
    BY <1>1, <1>7, <1>9 DEF SamePosition, SameRest
  <2>2. c.numNeighbours = l.numNeighbours /\ c.numNeighboursEmpty = l.numNeighboursEmpty
    BY <1>7, <1>9 DEF SamePosition
  <2>3. Counted(c)
    <3>1. Counted(l) /\ c.stones = l.stones
      BY <1>1, <2>1
    <3> QED BY <2>2, <3>1, CountsAre DEF Counted
  <2> QED BY <1>4, <1>7, <1>9, <2>1, <2>3
<1>11. \A q \in Positions : b.stones[q] # NONE /\ b.blockPointers[q] = mine => q \in A
  <2>1. mine \notin ks => Standing(b, mine) = {}
    BY <1>4, <1>7 DEF Blocks
  <2> QED BY <1>6, <2>1 DEF Standing
<1>12. /\ Standing(c, mine) = A \cup {pos}
       /\ \A k \in ks \ {mine} : Standing(c, k) = {}
       /\ \A k \in Blocks \ (ks \cup {mine}) : Standing(c, k) = Standing(b, k)
  <2>1. \A q \in Positions :
          /\ c.stones[q] # NONE <=> q = pos \/ b.stones[q] # NONE
          /\ c.blockPointers[q] = IF q = pos \/ q \in A THEN mine ELSE b.blockPointers[q]
          /\ q \in A => b.stones[q] # NONE
    BY <1>5, <1>6, <1>7, <1>9, <1>10
  <2>2. Standing(c, mine) = A \cup {pos}
    BY <1>6, <1>11, <2>1 DEF Standing
  <2>3. ASSUME NEW k \in ks \ {mine} PROVE Standing(c, k) = {}
    BY <1>6, <2>1 DEF Standing
  <2>4. ASSUME NEW k \in Blocks \ (ks \cup {mine}) PROVE Standing(c, k) = Standing(b, k)
    <3>1. ASSUME NEW q \in Positions PROVE q \in Standing(c, k) <=> q \in Standing(b, k)
      <4>1. CASE q = pos
        BY <2>1, <4>1 DEF Standing
      <4>2. CASE q # pos
        BY <1>6, <2>1, <4>2 DEF Standing
      <4> QED BY <4>1, <4>2
    <3>2. Standing(c, k) \subseteq Positions /\ Standing(b, k) \subseteq Positions
      BY DEF Standing
    <3> QED BY <3>1, <3>2
  <2> QED BY <2>2, <2>3, <2>4
<1>13. A \cup {pos} = Rules!Block(t, pos)
  <2> DEFINE Touched == {n \in Adjacent(pos) : b.stones[n] = BoardColor(color)}
             B == {pos} \cup UNION {Rules!Block(b.stones, n) : n \in Touched}
  <2>1. Rules!Block(t, pos) = B
    BY <1>4, BlockOfPlaced DEF t
  <2>2. \A n \in Touched : /\ n \in Positions
                           /\ Standing(b, b.blockPointers[n]) = Rules!Block(b.stones, n)
    BY <1>4, AdjacentPoints, TwoColors
  <2>3. ks = {b.blockPointers[n] : n \in Touched}
    BY <1>6
  <2>4. ASSUME NEW q \in Positions
        PROVE  q \in A <=> \E n \in Touched : q \in Rules!Block(b.stones, n)
    <3>1. q \in A <=> \E n \in Touched : b.stones[q] # NONE /\ b.blockPointers[q] = b.blockPointers[n]
      BY <1>6, <2>3
    <3>2. \A n \in Touched :
            q \in Rules!Block(b.stones, n) <=> b.stones[q] # NONE /\ b.blockPointers[q] = b.blockPointers[n]
      <4>1. \A n \in Touched : q \in Standing(b, b.blockPointers[n]) <=> q \in Rules!Block(b.stones, n)
        BY <2>2
      <4> QED BY <4>1 DEF Standing
    <3> QED BY <3>1, <3>2
  <2>5. \A n \in Touched : Rules!Block(b.stones, n) \subseteq Positions
    BY <2>2, BlockBasics
  <2> HIDE DEF Touched
  <2> QED BY <1>6, <2>1, <2>4, <2>5
<1>14. ASSUME NEW q \in Positions, c.stones[q] # NONE
       PROVE  /\ c.blockPointers[q] \in Blocks
              /\ Standing(c, c.blockPointers[q]) = Rules!Block(c.stones, q)
  <2>1. CASE q \in A \cup {pos}
    <3>1. c.blockPointers[q] = mine
      BY <1>7, <1>9, <2>1
    <3>2. Rules!Block(t, q) = Rules!Block(t, pos)
      BY <1>13, <2>1, BlockOfMember
    <3> QED BY <1>10, <1>12, <1>13, <3>1, <3>2
  <2>2. CASE q \notin A \cup {pos}
    <3> DEFINE k == b.blockPointers[q]
    <3>1. q # pos /\ b.stones[q] # NONE /\ k \notin ks /\ k # mine /\ c.blockPointers[q] = k
      BY <1>5, <1>6, <1>7, <1>9, <1>10, <1>11, <1>14, <2>2
    <3>2. k \in Blocks \ (ks \cup {mine})
      BY <1>4, <3>1
    <3>3. Standing(c, k) = Rules!Block(b.stones, q)
      BY <1>4, <1>12, <3>1, <3>2
    <3>4. Rules!Block(t, q) = Rules!Block(b.stones, q)
      BY <1>4, <1>13, <2>2, <3>1, BlockNotPlaced DEF t
    <3> HIDE DEF k
    <3> QED BY <1>10, <3>1, <3>2, <3>3, <3>4
  <2> QED BY <2>1, <2>2
<1>15. ASSUME NEW k \in Blocks PROVE Keeps(c, k, Standing(c, k))
  <2>1. CASE k = mine
    <3>1. Lists(c.blocks[mine].stones, A \cup {pos})
      BY <1>6, <1>7, <1>9, ListAppend
    <3> QED BY <1>7, <1>9, <1>12, <2>1, <3>1 DEF Keeps
  <2>2. CASE k \in ks \ {mine}
    <3>1. c.blocks[k].stones = <<>> /\ Standing(c, k) = {}
      BY <1>7, <1>9, <1>12, <2>2 DEF SameBlock
    <3> QED BY <3>1, EmptyList DEF Keeps
  <2>3. CASE k \in Blocks \ (ks \cup {mine})
    <3>1. /\ c.blocks[k].anchor = b.blocks[k].anchor /\ c.blocks[k].stones = b.blocks[k].stones
          /\ Standing(c, k) = Standing(b, k)
      BY <1>7, <1>9, <1>12, <2>3 DEF SameBlock, SameList
    <3> QED BY <1>4, <3>1 DEF Keeps
  <2> QED BY <2>1, <2>2, <2>3
<1>16. ASSUME NEW k \in Blocks, k >= c.blockPointer PROVE Standing(c, k) = {}
  <2>1. k >= b.blockPointer /\ Standing(b, k) = {}
    BY <1>4, <1>10, <1>16 DEF Blocks
  <2>2. k \notin ks
    <3>1. ASSUME NEW n \in Adjacent(pos), b.stones[n] = BoardColor(color), b.blockPointers[n] = k
          PROVE  FALSE
      BY <2>1, <3>1, AdjacentPoints, TwoColors DEF Standing
    <3> QED BY <1>6, <3>1
  <2>3. k # mine
    <3>1. CASE mine \in ks
      BY <2>2, <3>1
    <3>2. CASE mine \notin ks
      BY <1>4, <1>7, <1>9, <1>16, <3>2
    <3> QED BY <3>1, <3>2
  <2> QED BY <1>12, <2>1, <2>2, <2>3
<1>17. Grouped(c)
  <2>1. c.bw_prisoners \in [StoneColors -> Nat]
    BY <1>4, <1>10 DEF SameRest
  <2> QED BY <1>9, <1>10, <1>14, <1>15, <1>16, <2>1 DEF Grouped
<1> QED BY <1>8, <1>10, <1>17 DEF t

-----------------------------------------------------------------------------
\* No stone is lost or made.

\* The stones on the board.
Stones(b) == {p \in Positions : b.stones[p] # NONE}

\* The stones played since the board was reset: those on it and the prisoners.
Tally(b) == Cardinality(Stones(b)) + b.bw_prisoners[S_BLACK] + b.bw_prisoners[S_WHITE]

\* A step within a play: the moves and the turn stay, and stones that leave the board
\* are prisoners.
Balanced(b, c) ==
  /\ c.toPlay = b.toPlay /\ c.moves = b.moves /\ c.blockPointer = b.blockPointer
  /\ Tally(c) = Tally(b)

\* A stone that goes from the board to the prisoners.
LEMMA OneTaken ==
  ASSUME NEW b, NEW c, b.bw_prisoners \in [StoneColors -> Nat], NEW pos \in Positions,
         b.stones[pos] # NONE,
         \A q \in Positions : c.stones[q] = IF q = pos THEN NONE ELSE b.stones[q],
         NEW o \in StoneColors, c.bw_prisoners = [b.bw_prisoners EXCEPT ![o] = @ + 1]
  PROVE  c.bw_prisoners \in [StoneColors -> Nat] /\ Tally(c) = Tally(b)
<1> DEFINE m == Cardinality(Stones(b))
           n == Cardinality(Stones(c))
<1>1. m = n + 1 /\ n \in Nat /\ m \in Nat
  <2>1. Stones(b) = Stones(c) \cup {pos} /\ pos \notin Stones(c)
    BY DEF Stones
  <2>2. Stones(b) \in SUBSET Positions /\ Stones(c) \in SUBSET Positions
    BY DEF Stones
  <2> QED BY <2>1, <2>2, OneMore, PointsOfBoard
<1> HIDE DEF m, n
<1>2. S_BLACK \in StoneColors /\ S_WHITE \in StoneColors /\ S_BLACK # S_WHITE
      /\ o \in {S_BLACK, S_WHITE}
  BY DEF StoneColors, S_BLACK, S_WHITE
<1>3. c.bw_prisoners \in [StoneColors -> Nat]
  OBVIOUS
<1>4. c.bw_prisoners[S_BLACK] + c.bw_prisoners[S_WHITE] =
        b.bw_prisoners[S_BLACK] + b.bw_prisoners[S_WHITE] + 1
  BY <1>2
<1>5. n + c.bw_prisoners[S_BLACK] + c.bw_prisoners[S_WHITE] =
        m + b.bw_prisoners[S_BLACK] + b.bw_prisoners[S_WHITE]
  <2> DEFINE cb == c.bw_prisoners[S_BLACK]
             cw == c.bw_prisoners[S_WHITE]
             bb == b.bw_prisoners[S_BLACK]
             bw == b.bw_prisoners[S_WHITE]
  <2>1. cb \in Nat /\ cw \in Nat /\ bb \in Nat /\ bw \in Nat
    BY <1>2, <1>3
  <2>2. cb + cw = bb + bw + 1
    BY <1>4
  <2> HIDE DEF cb, cw, bb, bw
  <2>3. n + cb + cw = m + bb + bw
    BY <1>1, <2>1, <2>2
  <2> QED BY <2>3 DEF cb, cw, bb, bw
<1> QED BY <1>3, <1>5 DEF Tally, m, n

-----------------------------------------------------------------------------
\* Taking stones off.

\* RemoveStone on a board of which only the counters are known to be right.
LEMMA LiftedIs ==
  ASSUME NEW b, Typed(b), Counted(b), b.bw_prisoners \in [StoneColors -> Nat],
         NEW pos \in Positions, b.stones[pos] # NONE
  PROVE  LET c == RemoveStone(b, pos)
         IN  /\ Typed(c) /\ Counted(c) /\ c.bw_prisoners \in [StoneColors -> Nat]
             /\ Balanced(b, c)
             /\ \A q \in Positions :
                  /\ c.stones[q] = IF q = pos THEN NONE ELSE b.stones[q]
                  /\ c.blockPointers[q] = IF q = pos THEN NoBlock ELSE b.blockPointers[q]
             /\ \A k \in Blocks : SameList(b, c, k)
<1> DEFINE c == RemoveStone(b, pos)
           l == AddLiberties(b, RegainLiberty(b, pos), 1)
<1>1. PICK color \in StoneColors : b.stones[pos] = BoardColor(color)
  BY DEF Typed, BoardColors, BoardColor, StoneColors, S_BLACK, S_WHITE
<1>2. StoneRemoved(b, c, pos, color)
  BY <1>1, RemoveStoneIs DEF Counted
<1>3. Counted(c)
  BY <1>1, <1>2, RemovalCounted
<1> HIDE DEF c
<1>4. /\ c.toPlay = b.toPlay /\ c.moves = b.moves /\ c.blockPointer = b.blockPointer
      /\ Typed(c)
      /\ \A q \in Positions :
           /\ c.stones[q] = IF q = pos THEN NONE ELSE b.stones[q]
           /\ c.blockPointers[q] = IF q = pos THEN NoBlock ELSE b.blockPointers[q]
      /\ c.bw_prisoners = [b.bw_prisoners EXCEPT ![Opponent(color)] = @ + 1]
      /\ c.blocks = l.blocks
  BY <1>2 DEF StoneRemoved
<1>5. \A k \in Blocks : SameList(b, c, k)
  <2>1. \A k \in Blocks : /\ l.blocks[k].anchor = b.blocks[k].anchor
                          /\ l.blocks[k].stones = b.blocks[k].stones
    BY AddLibertiesIs
  <2> HIDE DEF l
  <2> QED BY <1>4, <2>1 DEF SameList
<1>6. c.bw_prisoners \in [StoneColors -> Nat] /\ Tally(c) = Tally(b)
  BY <1>4, OneTaken, TwoColors
<1> QED BY <1>3, <1>4, <1>5, <1>6 DEF c, Balanced

\* After the first i stones of the block are gone.
Lifted(x, base, seq, i, c) ==
  LET F == FirstOf(seq, i)
  IN  /\ Typed(c) /\ Counted(c) /\ c.bw_prisoners \in [StoneColors -> Nat]
      /\ Balanced(base, c)
      /\ \A q \in Positions :
           /\ c.stones[q] = IF q \in F THEN NONE ELSE base.stones[q]
           /\ c.blockPointers[q] = IF q \in F THEN NoBlock ELSE base.blockPointers[q]
      /\ \A k \in Blocks : SameList(base, c, k)

Lift == INSTANCE FoldTheorems WITH Op <- ClearOp, Holds <- Lifted

\* RemoveStones is that fold.
LEMMA LiftLoop ==
  ASSUME NEW b, NEW k, NEW x
  PROVE  RemoveStones(b, k) = Lift!Folded(x, b, b.blocks[k].stones)
BY Zenon DEF RemoveStones, Lift!Folded, ClearOp, FoldLeft, MapThenFoldSet, Max,
             Lift!FoldLeft, Lift!MapThenFoldSet, Lift!Max

\* One more stone.
LEMMA LiftStep ==
  ASSUME NEW b, NEW seq, NEW G, Lists(seq, G), \A q \in G : b.stones[q] # NONE, NEW x,
         NEW i \in 1..Len(seq), NEW c, Lifted(x, b, seq, i - 1, c)
  PROVE  Lifted(x, b, seq, i, RemoveStone(c, seq[i]))
<1> DEFINE E == FirstOf(seq, i - 1)
           F == FirstOf(seq, i)
           pos == seq[i]
           d == RemoveStone(c, pos)
<1>1. F = E \cup {pos} /\ pos \notin E /\ pos \in G /\ pos \in Positions
  BY FirstOfIs
<1> HIDE DEF E, F, pos
<1>2. /\ Typed(c) /\ Counted(c) /\ c.bw_prisoners \in [StoneColors -> Nat]
      /\ Balanced(b, c)
      /\ \A q \in Positions :
           /\ c.stones[q] = IF q \in E THEN NONE ELSE b.stones[q]
           /\ c.blockPointers[q] = IF q \in E THEN NoBlock ELSE b.blockPointers[q]
      /\ \A k \in Blocks : SameList(b, c, k)
  BY DEF Lifted, E
<1>3. c.stones[pos] # NONE
  BY <1>1, <1>2
<1>4. /\ Typed(d) /\ Counted(d) /\ d.bw_prisoners \in [StoneColors -> Nat]
      /\ Balanced(c, d)
      /\ \A q \in Positions :
           /\ d.stones[q] = IF q = pos THEN NONE ELSE c.stones[q]
           /\ d.blockPointers[q] = IF q = pos THEN NoBlock ELSE c.blockPointers[q]
      /\ \A k \in Blocks : SameList(c, d, k)
  BY <1>1, <1>2, <1>3, LiftedIs
<1> HIDE DEF d
<1>5. Balanced(b, d) /\ \A k \in Blocks : SameList(b, d, k)
  BY <1>2, <1>4 DEF Balanced, SameList
<1>6. \A q \in Positions :
        /\ d.stones[q] = IF q \in F THEN NONE ELSE b.stones[q]
        /\ d.blockPointers[q] = IF q \in F THEN NoBlock ELSE b.blockPointers[q]
  BY <1>1, <1>2, <1>4
<1>7. Lifted(x, b, seq, i, d)
  BY <1>4, <1>5, <1>6 DEF Lifted, F
<1> QED BY <1>7 DEF d, pos

\* RemoveStones takes a whole group off the board.
LEMMA LiftsIs ==
  ASSUME NEW b, Typed(b), Counted(b), b.bw_prisoners \in [StoneColors -> Nat],
         NEW k \in Blocks, NEW G, Lists(b.blocks[k].stones, G), \A q \in G : b.stones[q] # NONE
  PROVE  LET c == RemoveStones(b, k)
         IN  /\ Typed(c) /\ Counted(c) /\ c.bw_prisoners \in [StoneColors -> Nat]
             /\ Balanced(b, c)
             /\ \A q \in Positions :
                  /\ c.stones[q] = IF q \in G THEN NONE ELSE b.stones[q]
                  /\ c.blockPointers[q] = IF q \in G THEN NoBlock ELSE b.blockPointers[q]
             /\ \A j \in Blocks : SameList(b, c, j)
<1> DEFINE seq == b.blocks[k].stones
<1>0. PICK x : x = k
  OBVIOUS
<1> DEFINE c == Lift!Folded(x, b, seq)
<1>1. RemoveStones(b, k) = c
  BY LiftLoop
<1> HIDE DEF seq
<1>2. Lists(seq, G) /\ seq \in Seq(Positions)
  BY DEF Lists, seq
<1>3. Lifted(x, b, seq, 0, b)
  <2>1. FirstOf(seq, 0) = {}
    BY <1>2, FirstOfIs
  <2> QED BY <2>1 DEF Lifted, Balanced, SameList
<1>4. ASSUME NEW i \in 1..Len(seq), NEW a, Lifted(x, b, seq, i - 1, a)
      PROVE  Lifted(x, b, seq, i, ClearOp(a, x, seq[i]))
  BY <1>2, <1>4, LiftStep DEF ClearOp
<1>5. Lifted(x, b, seq, Len(seq), c)
  <2> HIDE DEF ClearOp, Lifted
  <2> QED BY <1>2, <1>3, <1>4, Lift!FoldInvariant
<1> HIDE DEF c
<1>6. FirstOf(seq, Len(seq)) = G
  BY <1>2, FirstOfIs
<1> QED BY <1>1, <1>5, <1>6 DEF Lifted

-----------------------------------------------------------------------------
\* Capturing a block.

\* Grouped with another ko point.
LEMMA KoPointLoose ==
  ASSUME NEW b, Grouped(b), NEW v
  PROVE  LET c == [b EXCEPT !.koPoint = v]
         IN  /\ Grouped(c) /\ Balanced(b, c)
             /\ c.stones = b.stones /\ c.blockPointers = b.blockPointers /\ c.blocks = b.blocks
<1> DEFINE c == [b EXCEPT !.koPoint = v]
<1>1. /\ c.stones = b.stones /\ c.blockPointers = b.blockPointers /\ c.blocks = b.blocks
      /\ c.toPlay = b.toPlay /\ c.moves = b.moves /\ c.blockPointer = b.blockPointer
      /\ c.bw_prisoners = b.bw_prisoners /\ c.numNeighbours = b.numNeighbours
      /\ c.numNeighboursEmpty = b.numNeighboursEmpty
  OBVIOUS
<1> HIDE DEF c
<1>2. Typed(c)
  BY <1>1 DEF Grouped, Typed
<1>3. Counted(c)
  <2>1. Counted(b)
    BY DEF Grouped
  <2> QED BY <1>1, <2>1, CountsAre DEF Counted
<1>4. /\ \A k : Standing(c, k) = Standing(b, k)
      /\ Stones(c) = Stones(b)
  BY <1>1 DEF Standing, Stones
<1>5. \A k, S : Keeps(b, k, S) => Keeps(c, k, S)
  BY <1>1 DEF Keeps
<1>6. Grouped(c)
  BY <1>1, <1>2, <1>3, <1>4, <1>5 DEF Grouped
<1> QED BY <1>1, <1>4, <1>6 DEF c, Balanced, Tally

\* A captured block leaves the other groups and their objects as they are.
LEMMA ClearedInIs ==
  ASSUME NEW b, Grouped(b), NEW n \in Positions, b.stones[n] # NONE
  PROVE  LET k == b.blockPointers[n]
             c == [RemoveStones(b, k) EXCEPT !.blocks[k] = ResetBlock]
         IN  Grouped(c) /\ Balanced(b, c)
<1> DEFINE k == b.blockPointers[n]
           r == RemoveStones(b, k)
           c == [r EXCEPT !.blocks[k] = ResetBlock]
           D == Rules!Block(b.stones, n)
<1>1. /\ Typed(b) /\ Counted(b) /\ b.bw_prisoners \in [StoneColors -> Nat]
      /\ \A q \in Positions :
           b.stones[q] # NONE => /\ b.blockPointers[q] \in Blocks
                                 /\ Standing(b, b.blockPointers[q]) = Rules!Block(b.stones, q)
      /\ \A j \in Blocks : Keeps(b, j, Standing(b, j))
      /\ \A j \in Blocks : j >= b.blockPointer => Standing(b, j) = {}
      /\ b.blockPointer \in Nat
  BY DEF Grouped
<1>2. k \in Blocks /\ Standing(b, k) = D
  BY <1>1
<1>3. /\ D \in SUBSET Positions
      /\ \A q \in D : \A m \in Adjacent(q) : b.stones[m] = b.stones[q] => m \in D
  BY BlockBasics, BlockClosed
<1> HIDE DEF D, k
<1>4. \A q \in D : b.stones[q] # NONE /\ b.blockPointers[q] = k
  BY <1>2 DEF Standing
<1>5. Lists(b.blocks[k].stones, D)
  BY <1>1, <1>2 DEF Keeps
<1>6. /\ Typed(r) /\ Counted(r) /\ r.bw_prisoners \in [StoneColors -> Nat]
      /\ Balanced(b, r)
      /\ \A q \in Positions :
           /\ r.stones[q] = IF q \in D THEN NONE ELSE b.stones[q]
           /\ r.blockPointers[q] = IF q \in D THEN NoBlock ELSE b.blockPointers[q]
      /\ \A j \in Blocks : SameList(b, r, j)
  BY <1>1, <1>2, <1>4, <1>5, LiftsIs
<1> HIDE DEF r
<1>7. /\ c.toPlay = r.toPlay /\ c.moves = r.moves
      /\ c.blockPointer = r.blockPointer /\ c.bw_prisoners = r.bw_prisoners
      /\ c.stones = r.stones /\ c.blockPointers = r.blockPointers
      /\ c.numNeighbours = r.numNeighbours /\ c.numNeighboursEmpty = r.numNeighboursEmpty
  OBVIOUS
<1>8. /\ DOMAIN c.blocks = Blocks /\ c.blocks[k].stones = <<>>
      /\ \A j \in Blocks \ {k} : SameList(r, c, j)
  BY <1>2, <1>6 DEF Typed, ResetBlock, SameList
<1> HIDE DEF c
<1>9. Typed(c) /\ Counted(c)
  <2>1. Typed(c)
    BY <1>6, <1>7, <1>8 DEF Typed
  <2>2. Counted(c)
    BY <1>6, <1>7, CountsAre DEF Counted
  <2> QED BY <2>1, <2>2
<1>10. c.stones = Rules!Removed(b.stones, D)
  <2>1. b.stones \in [Positions -> BoardColors] /\ c.stones \in [Positions -> BoardColors]
    BY <1>1, <1>9 DEF Typed
  <2>2. /\ Rules!Removed(b.stones, D) \in [Positions -> BoardColors]
        /\ \A q \in Positions : Rules!Removed(b.stones, D)[q] = c.stones[q]
    BY <1>6, <1>7, <2>1, RemovedIs
  <2> QED BY <2>1, <2>2
<1>11. Standing(c, k) = {} /\ \A j \in Blocks \ {k} : Standing(c, j) = Standing(b, j)
  <2>1. \A q \in Positions :
          /\ c.stones[q] = IF q \in D THEN NONE ELSE b.stones[q]
          /\ c.blockPointers[q] = IF q \in D THEN NoBlock ELSE b.blockPointers[q]
    BY <1>6, <1>7
  <2>2. \A q \in Positions : q \in D <=> b.stones[q] # NONE /\ b.blockPointers[q] = k
    BY <1>2 DEF Standing
  <2>3. Standing(c, k) = {}
    BY <2>1, <2>2 DEF Standing
  <2>4. ASSUME NEW j \in Blocks \ {k} PROVE Standing(c, j) = Standing(b, j)
    BY <2>1, <2>2 DEF Standing
  <2> QED BY <2>3, <2>4
<1>12. ASSUME NEW j \in Blocks PROVE Keeps(c, j, Standing(c, j))
  <2>1. CASE j = k
    BY <1>8, <1>11, <2>1, EmptyList DEF Keeps
  <2>2. CASE j # k
    <3>1. SameList(b, r, j) /\ SameList(r, c, j) /\ Standing(c, j) = Standing(b, j)
      BY <1>6, <1>8, <1>11, <2>2
    <3>2. Keeps(b, j, Standing(b, j))
      BY <1>1
    <3> QED BY <3>1, <3>2 DEF Keeps, SameList
  <2> QED BY <2>1, <2>2
<1>13. ASSUME NEW q \in Positions, c.stones[q] # NONE
       PROVE  /\ c.blockPointers[q] \in Blocks
              /\ Standing(c, c.blockPointers[q]) = Rules!Block(c.stones, q)
  <2>1. q \notin D /\ b.stones[q] # NONE /\ c.blockPointers[q] = b.blockPointers[q]
    BY <1>6, <1>7, <1>13
  <2>2. b.blockPointers[q] \in Blocks \ {k}
    BY <1>1, <1>2, <2>1 DEF Standing
  <2>3. Standing(c, b.blockPointers[q]) = Rules!Block(b.stones, q)
    BY <1>1, <1>11, <2>1, <2>2
  <2>4. Rules!Block(Rules!Removed(b.stones, D), q) = Rules!Block(b.stones, q)
    <3>1. b.stones \in [Positions -> BoardColors]
      BY <1>1 DEF Typed
    <3> QED BY <1>3, <2>1, <3>1, BlockNotRemoved
  <2> QED BY <1>10, <2>1, <2>2, <2>3, <2>4
<1>14. c.blockPointer = b.blockPointer
  BY <1>6, <1>7 DEF Balanced
<1>15. ASSUME NEW j \in Blocks, j >= c.blockPointer PROVE Standing(c, j) = {}
  BY <1>1, <1>11, <1>14, <1>15
<1>16. Grouped(c)
  <2>1. c.bw_prisoners \in [StoneColors -> Nat] /\ c.blockPointer \in Nat
    BY <1>1, <1>6, <1>7, <1>14
  <2> QED BY <1>9, <1>12, <1>13, <1>15, <2>1 DEF Grouped
<1>17. Balanced(b, c)
  BY <1>6, <1>7 DEF Balanced, Tally, Stones
<1> QED BY <1>16, <1>17 DEF c, r, k

\* One block is captured, whatever its object makes of the ko point.
LEMMA KillBlockLoose ==
  ASSUME NEW b, Grouped(b), NEW n \in Positions, b.stones[n] # NONE, NEW sk
  PROVE  LET c == KillBlock(b, sk, n).board
         IN  Grouped(c) /\ Balanced(b, c)
<1> DEFINE k == b.blockPointers[n]
           mk == IF Len(b.blocks[k].stones) = 1
                 THEN [b EXCEPT !.koPoint = IF sk THEN NO_KO_POINT ELSE n] ELSE b
           c == [RemoveStones(mk, k) EXCEPT !.blocks[k] = ResetBlock]
<1>1. KillBlock(b, sk, n).board = c
  BY DEF KillBlock
<1>2. /\ Grouped(mk) /\ Balanced(b, mk)
      /\ mk.stones = b.stones /\ mk.blockPointers = b.blockPointers
  <2>1. CASE Len(b.blocks[k].stones) = 1
    <3>1. mk = [b EXCEPT !.koPoint = IF sk THEN NO_KO_POINT ELSE n]
      BY <2>1
    <3> HIDE DEF mk
    <3> QED BY <3>1, KoPointLoose
  <2>2. CASE Len(b.blocks[k].stones) # 1
    BY <2>2 DEF Balanced
  <2> QED BY <2>1, <2>2
<1> HIDE DEF mk
<1>3. Grouped(c) /\ Balanced(mk, c)
  BY <1>2, ClearedInIs
<1> HIDE DEF c
<1> QED BY <1>1, <1>2, <1>3 DEF Balanced

-----------------------------------------------------------------------------
\* All captures of a play.

\* After the first i directions.
Struck(x, base, seq, i, r) == Grouped(r.board) /\ Balanced(base.board, r.board)

Strike == INSTANCE FoldTheorems WITH Op <- KillOp, Holds <- Struck

\* KillSurroundingDeadBlocks is that fold.
LEMMA StrikeLoop ==
  ASSUME NEW x
  PROVE  KillSurroundingDeadBlocks(x.b, x.pos) =
           Strike!Folded(x, KillStart(x.b), Compass(x.pos)).board
BY Zenon DEF KillSurroundingDeadBlocks, KillStart, Strike!Folded, KillOp, KillDead,
             FoldLeft, MapThenFoldSet, Max, Strike!FoldLeft, Strike!MapThenFoldSet, Strike!Max

\* Whichever blocks the liberty counters take for dead, the board stays grouped.
LEMMA StrikesIs ==
  ASSUME NEW b, Grouped(b), NEW pos \in Positions
  PROVE  LET c == KillSurroundingDeadBlocks(b, pos)
         IN  Grouped(c) /\ Balanced(b, c)
<1> DEFINE seq == Compass(pos)
           base == KillStart(b)
<1>0. PICK x : x = [b |-> b, pos |-> pos]
  OBVIOUS
<1>1. x.b = b /\ x.pos = pos
  BY <1>0
<1> DEFINE r == Strike!Folded(x, base, seq)
<1>2. KillSurroundingDeadBlocks(b, pos) = r.board
  BY <1>1, StrikeLoop
<1>3. seq \in Seq(Positions \cup {OffBoard})
  BY CompassIs
<1>4. Grouped(base.board) /\ Balanced(b, base.board)
  BY KoPointLoose DEF KillStart
<1> HIDE DEF seq, base
<1>5. Struck(x, base, seq, 0, base)
  BY <1>4 DEF Struck, Balanced
<1>6. ASSUME NEW i \in 1..Len(seq), NEW a, Struck(x, base, seq, i - 1, a)
      PROVE  Struck(x, base, seq, i, KillOp(a, x, seq[i]))
  <2> DEFINE n == seq[i]
             d == KillBlock(a.board, a.single, n)
  <2>1. Grouped(a.board) /\ Balanced(base.board, a.board)
    BY <1>6 DEF Struck
  <2> HIDE DEF n
  <2>2. CASE KillDead(a.board, x.pos, n)
    <3>1. n \in Positions /\ a.board.stones[n] # NONE
      BY <2>2 DEF KillDead, IsRealPoint
    <3>2. Grouped(d.board) /\ Balanced(a.board, d.board)
      BY <2>1, <3>1, KillBlockLoose
    <3>3. KillOp(a, x, n) = d
      BY <2>2 DEF KillOp
    <3> HIDE DEF d
    <3> QED BY <2>1, <3>2, <3>3 DEF Struck, Balanced, n
  <2>3. CASE ~ KillDead(a.board, x.pos, n)
    <3>1. KillOp(a, x, n) = a
      BY <2>3 DEF KillOp
    <3> QED BY <2>1, <3>1 DEF Struck, n
  <2> QED BY <2>2, <2>3
<1>7. Struck(x, base, seq, Len(seq), r)
  <2> HIDE DEF KillOp, Struck
  <2> QED BY <1>3, <1>5, <1>6, Strike!FoldInvariant
<1> HIDE DEF r
<1>8. Grouped(r.board) /\ Balanced(b, r.board)
  BY <1>4, <1>7 DEF Struck, Balanced
<1> QED BY <1>2, <1>8

-----------------------------------------------------------------------------
\* A play.

\* One stone more, on the board or taken.
LEMMA AddedIn ==
  ASSUME NEW b, Grouped(b), NEW pos \in Positions, b.stones[pos] = NONE,
         NEW color \in StoneColors, b.blockPointer \in Blocks
  PROVE  LET c == AddStone(b, pos, color)
         IN  /\ Grouped(c)
             /\ c.toPlay = b.toPlay /\ c.moves = b.moves
             /\ c.blockPointer \in {b.blockPointer, b.blockPointer + 1}
             /\ Tally(c) = Tally(b) + 1
<1> DEFINE s == Settled(b, pos, color)
           c == AddStone(b, pos, color)
           m == Cardinality(Stones(b))
           n == Cardinality(Stones(s))
<1>1. /\ s.stones = Rules!Placed(b.stones, pos, color)
      /\ SameRest(b, s)
      /\ s.blockPointer \in {b.blockPointer, b.blockPointer + 1}
      /\ Grouped(s)
  BY SettledInIs
<1>2. c = KillSurroundingDeadBlocks(s, pos)
  BY AddStoneIs
<1> HIDE DEF s, c
<1>3. Grouped(c) /\ Balanced(s, c)
  BY <1>1, <1>2, StrikesIs
<1>4. n = m + 1 /\ m \in Nat /\ n \in Nat
  <2>1. b.stones \in [Positions -> BoardColors]
    BY DEF Grouped, Typed
  <2>2. /\ s.stones[pos] # NONE
        /\ \A q \in Positions \ {pos} : s.stones[q] = b.stones[q]
    BY <1>1, <2>1, PlacedDiffers, TwoColors DEF Differ
  <2>3. Stones(s) = Stones(b) \cup {pos} /\ pos \notin Stones(b)
    BY <2>2 DEF Stones
  <2>4. Stones(b) \in SUBSET Positions /\ Stones(s) \in SUBSET Positions
    BY DEF Stones
  <2> QED BY <2>3, <2>4, OneMore, PointsOfBoard
<1> HIDE DEF m, n
<1>5. Tally(s) = Tally(b) + 1
  <2> DEFINE x == b.bw_prisoners[S_BLACK]
             y == b.bw_prisoners[S_WHITE]
  <2>1. x \in Nat /\ y \in Nat
    BY DEF Grouped, StoneColors
  <2>2. s.bw_prisoners = b.bw_prisoners
    BY <1>1 DEF SameRest
  <2>3. Tally(b) = m + x + y /\ Tally(s) = n + x + y
    BY <2>2 DEF Tally, m, n
  <2> HIDE DEF x, y
  <2> QED BY <1>4, <2>1, <2>3
<1> QED BY <1>1, <1>3, <1>5 DEF Balanced, SameRest, c

\* A board that can be played on: its groups and counters are right, its moves are as
\* many as its stones and prisoners, and each handed out at most one block object.
Fit(b) ==
  /\ Grouped(b) /\ MovesOK(b)
  /\ Tally(b) = Len(b.moves)
  /\ b.toPlay \in StoneColors
  /\ b.blockPointer <= Len(b.moves)

\* A legal play leaves it so.
LEMMA FitPlay ==
  ASSUME NEW b, Fit(b), NEW p, NEW color \in StoneColors, IsLegal(b, p, color),
         Len(b.moves) < MaxBlocks
  PROVE  Fit(Play(b, p, color)) /\ Len(Play(b, p, color).moves) = Len(b.moves) + 1
<1> DEFINE a == AddStone(b, p, color)
           c == [a EXCEPT !.toPlay = Opponent(color),
                          !.moves = Append(@, [Color |-> color, Point |-> p])]
<1>1. p \in Positions /\ b.stones[p] = NONE
  BY DEF IsLegal, Occupied, IsRealPoint
<1>2. /\ Grouped(b) /\ MovesOK(b) /\ Tally(b) = Len(b.moves)
      /\ b.blockPointer <= Len(b.moves) /\ b.blockPointer \in Nat
      /\ Len(b.moves) \in Nat /\ MaxBlocks \in Nat
  BY BoardSizeAssumption DEF Fit, Grouped, MovesOK
<1>3. b.blockPointer \in Blocks
  BY <1>2 DEF Blocks
<1>4. /\ Grouped(a) /\ a.moves = b.moves
      /\ a.blockPointer \in {b.blockPointer, b.blockPointer + 1}
      /\ Tally(a) = Tally(b) + 1
  BY <1>1, <1>2, <1>3, AddedIn
<1>5. Play(b, p, color) = c
  BY DEF Play
<1> HIDE DEF a
<1>6. /\ c.stones = a.stones /\ c.blockPointers = a.blockPointers /\ c.blocks = a.blocks
      /\ c.blockPointer = a.blockPointer
      /\ c.bw_prisoners = a.bw_prisoners /\ c.numNeighbours = a.numNeighbours
      /\ c.numNeighboursEmpty = a.numNeighboursEmpty
      /\ c.toPlay = Opponent(color)
      /\ c.moves = Append(a.moves, [Color |-> color, Point |-> p])
  OBVIOUS
<1> HIDE DEF c
<1>7. Typed(c) /\ Counted(c)
  <2>1. Typed(c)
    BY <1>4, <1>6 DEF Grouped, Typed
  <2>2. Counted(a)
    BY <1>4 DEF Grouped
  <2> QED BY <1>6, <2>1, <2>2, CountsAre DEF Counted
<1>8. /\ \A k : Standing(c, k) = Standing(a, k)
      /\ Tally(c) = Tally(a)
  BY <1>6 DEF Standing, Stones, Tally
<1>9. \A k, S : Keeps(a, k, S) => Keeps(c, k, S)
  BY <1>6 DEF Keeps
<1>10. Grouped(c)
  BY <1>4, <1>6, <1>7, <1>8, <1>9 DEF Grouped
<1>11. MovesOK(c) /\ Len(c.moves) = Len(b.moves) + 1
  BY <1>1, <1>2, <1>4, <1>6 DEF MovesOK
<1>12. c.toPlay \in StoneColors
  BY <1>6, TwoColors
<1>13. c.blockPointer <= Len(c.moves) /\ Tally(c) = Len(c.moves)
  BY <1>2, <1>4, <1>6, <1>8, <1>11
<1> QED BY <1>5, <1>10, <1>11, <1>12, <1>13 DEF Fit

-----------------------------------------------------------------------------
\* A board without stones.

\* Its pointers may point anywhere, its objects list nothing.
LEMMA EmptyIsFit ==
  ASSUME NEW c,
         c.stones = [p \in Positions |-> NONE],
         c.numNeighbours = [d \in StoneColors |-> [p \in Positions |-> 0]],
         c.numNeighboursEmpty = [p \in Positions |-> InitialEmptyNeighbours(p)],
         c.bw_prisoners = [d \in StoneColors |-> 0],
         c.blockPointers \in [Positions -> Blocks \cup {NoBlock}],
         DOMAIN c.blocks = Blocks, \A k \in Blocks : c.blocks[k].stones = <<>>,
         c.blockPointer = 0, c.moves = <<>>, c.toPlay \in StoneColors
  PROVE  Fit(c) /\ Len(c.moves) = 0
<1>1. Typed(c)
  BY DEF Typed, BoardColors
<1>2. Counted(c)
  BY EmptyCounted
<1>3. Stones(c) = {} /\ \A k : Standing(c, k) = {}
  BY DEF Stones, Standing
<1>4. \A k \in Blocks : Keeps(c, k, Standing(c, k))
  BY <1>3, EmptyList DEF Keeps
<1>5. c.bw_prisoners \in [StoneColors -> Nat]
  OBVIOUS
<1>6. Grouped(c)
  BY <1>1, <1>2, <1>3, <1>4, <1>5 DEF Grouped
<1>7. Tally(c) = 0
  <2>1. Cardinality({}) = 0
    BY FS_EmptySet
  <2>2. c.bw_prisoners[S_BLACK] = 0 /\ c.bw_prisoners[S_WHITE] = 0
    BY DEF StoneColors
  <2> QED BY <1>3, <2>1, <2>2 DEF Tally
<1>8. MovesOK(c) /\ Len(c.moves) = 0
  BY DEF MovesOK
<1> QED BY <1>6, <1>7, <1>8 DEF Fit

\* The constructor's board is one.
LEMMA NewIsFit ==
  ASSUME NEW v \in StoneColors
  PROVE  Fit(NewBoard(v)) /\ Len(NewBoard(v).moves) = 0
<1> DEFINE c == NewBoard(v)
<1>1. /\ c.stones = [p \in Positions |-> NONE]
      /\ c.toPlay = v
      /\ c.bw_prisoners = [d \in StoneColors |-> 0]
      /\ c.moves = <<>> /\ c.blockPointer = 0
      /\ c.numNeighbours = [d \in StoneColors |-> [p \in Positions |-> 0]]
      /\ c.numNeighboursEmpty = [p \in Positions |-> InitialEmptyNeighbours(p)]
      /\ c.blockPointers = [p \in Positions |-> NoBlock]
      /\ c.blocks = [k \in Blocks |-> ResetBlock]
  BY DEF NewBoard
<1> HIDE DEF c
<1>2. /\ c.blockPointers \in [Positions -> Blocks \cup {NoBlock}]
      /\ DOMAIN c.blocks = Blocks /\ \A k \in Blocks : c.blocks[k].stones = <<>>
  BY <1>1 DEF ResetBlock
<1>3. Fit(c) /\ Len(c.moves) = 0
  BY <1>1, <1>2, EmptyIsFit
<1> QED BY <1>3 DEF c

\* So is one that was reset: the objects not reset are those that were never handed
\* out, and they list nothing.
LEMMA ResetIsFit ==
  ASSUME NEW b, Fit(b)
  PROVE  Fit(Reset(b)) /\ Len(Reset(b).moves) = 0
<1> DEFINE c == Reset(b)
<1>1. /\ Typed(b) /\ b.toPlay \in StoneColors /\ b.blockPointer \in Nat
      /\ \A k \in Blocks : Keeps(b, k, Standing(b, k))
      /\ \A k \in Blocks : k >= b.blockPointer => Standing(b, k) = {}
  BY DEF Fit, Grouped
<1>2. /\ c.stones = [p \in Positions |-> NONE]
      /\ c.toPlay = b.toPlay
      /\ c.bw_prisoners = [d \in StoneColors |-> 0]
      /\ c.moves = <<>> /\ c.blockPointer = 0
      /\ c.numNeighbours = [d \in StoneColors |-> [p \in Positions |-> 0]]
      /\ c.numNeighboursEmpty = [p \in Positions |-> InitialEmptyNeighbours(p)]
      /\ c.blockPointers = b.blockPointers
      /\ c.blocks = [k \in Blocks |-> IF k <= b.blockPointer THEN ResetBlock ELSE b.blocks[k]]
  BY DEF Reset
<1> HIDE DEF c
<1>3. ASSUME NEW k \in Blocks PROVE c.blocks[k].stones = <<>>
  <2>1. CASE k <= b.blockPointer
    BY <1>2, <2>1 DEF ResetBlock
  <2>2. CASE ~ (k <= b.blockPointer)
    <3>1. Lists(b.blocks[k].stones, {})
      <4>1. k \in Int /\ k >= b.blockPointer
        BY <1>1, <2>2, BoardSizeAssumption DEF Blocks
      <4>2. Standing(b, k) = {}
        BY <1>1, <4>1
      <4>3. Keeps(b, k, Standing(b, k))
        BY <1>1
      <4> QED BY <4>2, <4>3 DEF Keeps
    <3>2. b.blocks[k].stones = <<>>
      <4>1. b.blocks[k].stones \in Seq(Positions) /\ ~ (Len(b.blocks[k].stones) > 0)
        BY <3>1, ListLength DEF Lists
      <4> QED BY <4>1
    <3> QED BY <1>2, <2>2, <3>2
  <2> QED BY <2>1, <2>2
<1>4. c.blockPointers \in [Positions -> Blocks \cup {NoBlock}] /\ DOMAIN c.blocks = Blocks
  BY <1>1, <1>2 DEF Typed
<1>5. Fit(c) /\ Len(c.moves) = 0
  BY <1>1, <1>2, <1>3, <1>4, EmptyIsFit
<1> QED BY <1>5 DEF c

-----------------------------------------------------------------------------
\* Replaying moves.

\* The loop of copyBoard and resetAndReplayMoves.
ReplayOp(r, x, m) ==
  IF r.ok /\ IsLegal(r.board, m.Point, m.Color)
  THEN [r EXCEPT !.board = Play(@, m.Point, m.Color)]
  ELSE [r EXCEPT !.ok = FALSE]

\* After the first i moves, all played or not.
Resumed(x, base, ms, i, r) ==
  /\ DOMAIN r = {"board", "ok"}
  /\ Fit(r.board) /\ Len(r.board.moves) <= i

Resume == INSTANCE FoldTheorems WITH Op <- ReplayOp, Holds <- Resumed

\* Replay is that fold.
LEMMA ReplayLoop ==
  ASSUME NEW b, NEW ms, NEW x
  PROVE  Replay(b, ms) = Resume!Folded(x, [board |-> b, ok |-> TRUE], ms)
BY Zenon DEF Replay, Resume!Folded, ReplayOp, FoldLeft, MapThenFoldSet, Max,
             Resume!FoldLeft, Resume!MapThenFoldSet, Resume!Max

\* A board without moves stays fit, whether a move turns out illegal or not.
LEMMA ReplayIsFit ==
  ASSUME NEW b, Fit(b), Len(b.moves) = 0,
         NEW ms \in Seq([Color : StoneColors, Point : Positions]), Len(ms) <= MaxBlocks
  PROVE  LET c == Replay(b, ms).board
         IN  Fit(c) /\ Len(c.moves) <= Len(ms)
<1>0. PICK x : x = b
  OBVIOUS
<1> DEFINE base == [board |-> b, ok |-> TRUE]
           r == Resume!Folded(x, base, ms)
<1>1. Replay(b, ms) = r
  BY ReplayLoop
<1>2. Resumed(x, base, ms, 0, base)
  <2>1. base.board = b /\ DOMAIN base = {"board", "ok"} /\ Len(b.moves) <= 0
    OBVIOUS
  <2> HIDE DEF base
  <2> QED BY <2>1 DEF Resumed
<1> HIDE DEF base
<1>3. ASSUME NEW i \in 1..Len(ms), NEW a, Resumed(x, base, ms, i - 1, a)
      PROVE  Resumed(x, base, ms, i, ReplayOp(a, x, ms[i]))
  <2> DEFINE m == ms[i]
             s == a.board
  <2>1. DOMAIN a = {"board", "ok"} /\ Fit(s) /\ Len(s.moves) <= i - 1
    BY <1>3 DEF Resumed
  <2>2. m \in [Color : StoneColors, Point : Positions]
    BY ElementOfSeq, Zenon
  <2> HIDE DEF m
  <2>3. m.Color \in StoneColors
    BY <2>2
  <2>4. Len(s.moves) \in Nat /\ Len(s.moves) < MaxBlocks /\ Len(s.moves) <= i /\ i \in Nat
    <3>1. Len(s.moves) \in Nat
      BY <2>1 DEF Fit, MovesOK
    <3>2. i \in Nat /\ Len(ms) \in Nat /\ i <= Len(ms) /\ MaxBlocks \in Nat
      BY BoardSizeAssumption
    <3> HIDE DEF s
    <3> QED BY <2>1, <3>1, <3>2
  <2>5. CASE a.ok /\ IsLegal(s, m.Point, m.Color)
    <3> DEFINE d == Play(s, m.Point, m.Color)
               e == [a EXCEPT !.board = d]
    <3>1. Fit(d) /\ Len(d.moves) = Len(s.moves) + 1
      BY <2>1, <2>3, <2>4, <2>5, FitPlay
    <3>2. ReplayOp(a, x, m) = e
      BY <2>5 DEF ReplayOp
    <3> HIDE DEF d
    <3>3. e.board = d /\ DOMAIN e = {"board", "ok"}
      BY <2>1
    <3>4. Len(d.moves) <= i
      BY <2>1, <2>4, <3>1
    <3> QED BY <3>1, <3>2, <3>3, <3>4 DEF Resumed, m
  <2>6. CASE ~ (a.ok /\ IsLegal(s, m.Point, m.Color))
    <3> DEFINE e == [a EXCEPT !.ok = FALSE]
    <3>1. ReplayOp(a, x, m) = e
      BY <2>6 DEF ReplayOp
    <3>2. e.board = s /\ DOMAIN e = {"board", "ok"}
      BY <2>1
    <3> HIDE DEF e
    <3> QED BY <2>1, <2>4, <3>1, <3>2 DEF Resumed, m
  <2> QED BY <2>5, <2>6
<1>4. Resumed(x, base, ms, Len(ms), r)
  <2> HIDE DEF ReplayOp, Resumed
  <2> QED BY <1>2, <1>3, Resume!FoldInvariant
<1> HIDE DEF r
<1> QED BY <1>1, <1>4 DEF Resumed

-----------------------------------------------------------------------------
\* A search.

\* The inductive invariant: the game's board and the working board can be played on,
\* and there are block objects left for what a simulation may play.
SearchInv ==
  /\ Fit(board) /\ Fit(working)
  /\ Len(board.moves) <= MaxMoves
  /\ Len(working.moves) <= Len(board.moves) + MaxPlayout
  /\ phase = "replayed" => Len(working.moves) <= Len(board.moves)
  /\ mcColor \in StoneColors \cup {UCB}

\* The bounds, and the numbers of moves.
LEMMA MoveCounts ==
  ASSUME NEW b, Fit(b), NEW c, Fit(c)
  PROVE  /\ Len(b.moves) \in Nat /\ Len(c.moves) \in Nat
         /\ MaxMoves \in Nat /\ MaxPlayout \in Nat \ {0} /\ MaxBlocks \in Nat
         /\ MaxMoves <= MaxBlocks /\ MaxMoves + MaxPlayout <= MaxBlocks
         /\ b.moves \in Seq([Color : StoneColors, Point : Positions])
BY BoardSizeAssumption, MaxMovesAssumption, MaxPlayoutAssumption DEF Fit, MovesOK

\* A board that takes the game's moves.
LEMMA ReplayedIsFit ==
  ASSUME SearchInv, NEW b, Fit(b), Len(b.moves) = 0, NEW next,
         Replayed(Replay(b, board.moves), next), mcColor' \in StoneColors \cup {UCB}
  PROVE  SearchInv'
<1> DEFINE c == Replay(b, board.moves).board
<1>1. /\ Fit(board) /\ Len(board.moves) <= MaxMoves
      /\ board' = board /\ working' = c
  BY DEF SearchInv, Replayed
<1>2. /\ Len(board.moves) \in Nat /\ MaxPlayout \in Nat \ {0} /\ Len(board.moves) <= MaxBlocks
      /\ board.moves \in Seq([Color : StoneColors, Point : Positions])
  <2>1. /\ Len(board.moves) \in Nat
        /\ MaxMoves \in Nat /\ MaxPlayout \in Nat \ {0} /\ MaxBlocks \in Nat
        /\ MaxMoves <= MaxBlocks
        /\ board.moves \in Seq([Color : StoneColors, Point : Positions])
    BY <1>1, MoveCounts
  <2> QED BY <1>1, <2>1
<1>3. Fit(c) /\ Len(c.moves) <= Len(board.moves)
  BY <1>2, ReplayIsFit
<1> HIDE DEF c
<1>4. Len(c.moves) \in Nat
  BY <1>3 DEF Fit, MovesOK
<1>5. Len(working'.moves) <= Len(board'.moves) /\ Len(board'.moves) <= MaxMoves
  BY <1>1, <1>3
<1>6. Len(working'.moves) <= Len(board'.moves) + MaxPlayout
  BY <1>1, <1>2, <1>3, <1>4
<1>7. Fit(board') /\ Fit(working')
  BY <1>1, <1>3
<1> QED BY <1>5, <1>6, <1>7 DEF SearchInv

\* A move on the working board, with block objects left.
LEMMA WorkingPlayIsFit ==
  ASSUME SearchInv, Len(working.moves) < Len(board.moves) + MaxPlayout,
         NEW p, NEW color \in StoneColors, IsLegal(working, p, color),
         working' = Play(working, p, color), board' = board, mcColor' = mcColor,
         phase' # "replayed"
  PROVE  SearchInv'
<1> DEFINE c == Play(working, p, color)
<1>1. /\ Fit(board) /\ Fit(working) /\ Len(board.moves) <= MaxMoves
      /\ mcColor \in StoneColors \cup {UCB}
  BY DEF SearchInv
<1>2. /\ Len(board.moves) \in Nat /\ Len(working.moves) \in Nat
      /\ MaxMoves \in Nat /\ MaxPlayout \in Nat \ {0} /\ MaxBlocks \in Nat
      /\ MaxMoves + MaxPlayout <= MaxBlocks
  BY <1>1, MoveCounts
<1>3. Len(working.moves) < MaxBlocks /\ Len(working.moves) + 1 <= Len(board.moves) + MaxPlayout
  BY <1>1, <1>2
<1>4. Fit(c) /\ Len(c.moves) = Len(working.moves) + 1
  BY <1>1, <1>3, FitPlay
<1> HIDE DEF c
<1>5. Fit(board') /\ Fit(working') /\ Len(board'.moves) <= MaxMoves
  BY <1>1, <1>4 DEF c
<1>6. Len(working'.moves) <= Len(board'.moves) + MaxPlayout
  BY <1>3, <1>4 DEF c
<1> QED BY <1>1, <1>5, <1>6 DEF SearchInv

\* The game and the first working board begin empty.
LEMMA SearchInit == PlayoutInit => SearchInv
<1> SUFFICES ASSUME PlayoutInit PROVE SearchInv
  OBVIOUS
<1>1. PICK c \in StoneColors : board = NewBoard(c)
  BY DEF PlayoutInit, Init
<1>2. working = board /\ mcColor = UCB
  BY DEF PlayoutInit
<1>3. Fit(board) /\ Len(board.moves) = 0
  BY <1>1, NewIsFit
<1>4. MaxMoves \in Nat /\ MaxPlayout \in Nat \ {0}
  BY MaxMovesAssumption, MaxPlayoutAssumption
<1> QED BY <1>2, <1>3, <1>4 DEF SearchInv

\* Every action keeps the invariant.
LEMMA SearchNext == SearchInv /\ [PlayoutNext]_playoutVars => SearchInv'
<1> SUFFICES ASSUME SearchInv, [PlayoutNext]_playoutVars PROVE SearchInv'
  OBVIOUS
<1>1. /\ Fit(board) /\ Fit(working)
      /\ Len(board.moves) <= MaxMoves
      /\ Len(working.moves) <= Len(board.moves) + MaxPlayout
      /\ phase = "replayed" => Len(working.moves) <= Len(board.moves)
      /\ mcColor \in StoneColors \cup {UCB}
  BY DEF SearchInv
<1>2. /\ Len(board.moves) \in Nat /\ Len(working.moves) \in Nat
      /\ MaxMoves \in Nat /\ MaxPlayout \in Nat \ {0} /\ MaxBlocks \in Nat
      /\ MaxMoves <= MaxBlocks /\ MaxMoves + MaxPlayout <= MaxBlocks
  BY <1>1, MoveCounts
<1>3. Fit(Reset(working)) /\ Len(Reset(working).moves) = 0
  BY <1>1, ResetIsFit
<1>4. CASE GamePlay
  <2>1. PICK color \in StoneColors, p \in Positions : PlayStone(color, p)
    BY <1>4 DEF GamePlay
  <2>2. working' = board' /\ phase' = phase /\ mcColor' = mcColor /\ phase = "idle"
    BY <1>4 DEF GamePlay
  <2>3. /\ Len(board.moves) < MaxMoves /\ IsLegal(board, p, color)
        /\ board' = Play(board, p, color)
    BY <2>1 DEF PlayStone
  <2>4. Len(board.moves) < MaxBlocks
    BY <1>2, <2>3
  <2>5. Fit(board') /\ Len(board'.moves) = Len(board.moves) + 1
    BY <1>1, <2>3, <2>4, FitPlay
  <2>6. Len(board'.moves) <= MaxMoves /\ Len(working'.moves) <= Len(board'.moves) + MaxPlayout
    BY <1>2, <2>2, <2>3, <2>5
  <2> QED BY <1>1, <2>2, <2>5, <2>6 DEF SearchInv
<1>5. CASE StartUCB
  <2>1. mcColor' = UCB
    BY <1>5 DEF StartUCB
  <2>2. PICK c \in StoneColors : Replayed(resetAndReplayMoves(NewBoard(c), board), "search")
    BY <1>5 DEF StartUCB
  <2>3. Fit(Reset(NewBoard(c))) /\ Len(Reset(NewBoard(c)).moves) = 0
    BY NewIsFit, ResetIsFit
  <2> QED BY <2>1, <2>2, <2>3, ReplayedIsFit DEF resetAndReplayMoves
<1>6. CASE StartMC
  <2>1. PICK color \in StoneColors, c \in StoneColors :
          mcColor' = color /\ Replayed(copyBoard(board, c), "replayed")
    BY <1>6 DEF StartMC
  <2>2. Fit(NewBoard(c)) /\ Len(NewBoard(c).moves) = 0
    BY NewIsFit
  <2> QED BY <2>1, <2>2, ReplayedIsFit DEF copyBoard
<1>7. CASE StartSimulation
  <2>1. mcColor' = mcColor /\ Replayed(resetAndReplayMoves(working, board), "replayed")
    BY <1>7 DEF StartSimulation
  <2> QED BY <1>1, <1>3, <2>1, ReplayedIsFit DEF resetAndReplayMoves
<1>8. CASE PlayCandidate
  <2> DEFINE player == IF mcColor = UCB THEN working.toPlay ELSE mcColor
  <2>1. /\ phase = "replayed" /\ board' = board /\ mcColor' = mcColor
        /\ \E p : IF IsLegal(working, p, player)
                  THEN working' = Play(working, p, player) /\ phase' = "playout"
                  ELSE UNCHANGED working /\ phase' = "failed"
    BY <1>8 DEF PlayCandidate
  <2>2. player \in StoneColors
    BY <1>1 DEF Fit
  <2> HIDE DEF player
  <2>3. PICK p : IF IsLegal(working, p, player)
                 THEN working' = Play(working, p, player) /\ phase' = "playout"
                 ELSE UNCHANGED working /\ phase' = "failed"
    BY <2>1
  <2>4. CASE IsLegal(working, p, player)
    <3>1. Len(working.moves) < Len(board.moves) + MaxPlayout
      BY <1>1, <1>2, <2>1
    <3> QED BY <2>1, <2>2, <2>3, <2>4, <3>1, WorkingPlayIsFit
  <2>5. CASE ~ IsLegal(working, p, player)
    BY <1>1, <2>1, <2>3, <2>5 DEF SearchInv
  <2> QED BY <2>4, <2>5
<1>9. CASE PlayoutMove
  <2>1. /\ Len(working.moves) < Len(board.moves) + MaxPlayout
        /\ board' = board /\ phase' = phase /\ mcColor' = mcColor /\ phase = "playout"
    BY <1>9 DEF PlayoutMove
  <2>2. PICK p \in RandomMoves(working, working.toPlay) : working' = Play(working, p, working.toPlay)
    BY <1>9 DEF PlayoutMove
  <2>3. IsLegal(working, p, working.toPlay) /\ working.toPlay \in StoneColors
    BY <1>1, <2>2 DEF RandomMoves, Fit
  <2> QED BY <2>1, <2>2, <2>3, WorkingPlayIsFit
<1>10. CASE EndSimulation
  <2>1. CASE mcColor = UCB
    BY <1>1, <1>10, <2>1 DEF EndSimulation, SearchInv
  <2>2. CASE mcColor # UCB
    <3>1. mcColor' = mcColor /\ Replayed(resetAndReplayMoves(working, board), "replayed")
      BY <1>10, <2>2 DEF EndSimulation
    <3> QED BY <1>1, <1>3, <3>1, ReplayedIsFit DEF resetAndReplayMoves
  <2> QED BY <2>1, <2>2
<1>11. CASE EndSearch
  <2>1. /\ working' = board /\ board' = board /\ phase' = "idle" /\ mcColor' = UCB
    BY <1>11 DEF EndSearch
  <2>2. Len(board.moves) <= Len(board.moves) + MaxPlayout
    BY <1>2
  <2> QED BY <1>1, <2>1, <2>2 DEF SearchInv
<1>12. CASE UNCHANGED playoutVars
  BY <1>1, <1>12 DEF playoutVars, SearchInv
<1> QED BY <1>4, <1>5, <1>6, <1>7, <1>8, <1>9, <1>10, <1>11, <1>12 DEF PlayoutNext

\* What follows of the working board.
LEMMA WorkingFollows == SearchInv => WorkingBoardCoherent
<1> SUFFICES ASSUME SearchInv PROVE WorkingBoardCoherent
  OBVIOUS
<1>1. Grouped(working) /\ Tally(working) = Len(working.moves)
  BY DEF SearchInv, Fit
<1>2. NeighbourCountsExactOn(working)
  BY <1>1 DEF Grouped, Counted
<1>3. ASSUME NEW p \in Positions, working.stones[p] # NONE
      PROVE  LET k == working.blockPointers[p]
             IN  /\ k # NoBlock
                 /\ ToSet(working.blocks[k].stones) = Rules!Block(working.stones, p)
                 /\ IsInjective(working.blocks[k].stones)
                 /\ working.blocks[k].anchor \in ToSet(working.blocks[k].stones)
  <2> DEFINE k == working.blockPointers[p]
  <2>1. k \in Blocks /\ k # NoBlock /\ Standing(working, k) = Rules!Block(working.stones, p)
    BY <1>1, <1>3, PointsOfBoard DEF Grouped
  <2>2. p \in Rules!Block(working.stones, p)
    BY BlockBasics
  <2> HIDE DEF k
  <2>3. Keeps(working, k, Standing(working, k))
    BY <1>1, <2>1 DEF Grouped
  <2>4. /\ ToSet(working.blocks[k].stones) = Rules!Block(working.stones, p)
        /\ IsInjective(working.blocks[k].stones)
        /\ working.blocks[k].anchor \in ToSet(working.blocks[k].stones)
    BY <2>1, <2>2, <2>3 DEF Keeps, Lists
  <2> QED BY <2>1, <2>4 DEF k
<1>4. GroupsExactOn(working)
  BY <1>3 DEF GroupsExactOn
<1>5. Len(working.moves) =
        Cardinality({p \in Positions : working.stones[p] # NONE})
          + working.bw_prisoners[S_BLACK] + working.bw_prisoners[S_WHITE]
  BY <1>1 DEF Tally, Stones
<1> QED BY <1>2, <1>4, <1>5 DEF WorkingBoardCoherent

\* Through any resets, replays, candidates, playouts and illegal moves of a search,
\* the block objects of the working board are the groups on it, its neighbour
\* counters are right and no stone is lost or made (Reset, resetAndReplayMoves,
\* AddStone, RemoveStone).
THEOREM WorkingBoardKept == PlayoutSpec => []WorkingBoardCoherent
<1> QED BY SearchInit, SearchNext, WorkingFollows, PTL DEF PlayoutSpec

==============================================================================
