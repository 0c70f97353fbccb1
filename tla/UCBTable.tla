------------------------------ MODULE UCBTable ------------------------------
(***************************************************************************)
(* Tables of search results (UpperConfidence.cpp): a row per candidate,    *)
(* with its share of wins and the number of games that were played.        *)
(*                                                                         *)
(* Shares are exact fractions here; the code has floats, printed with six  *)
(* digits on their way to the master.                                      *)
(***************************************************************************)
EXTENDS Integers, SequencesExt

\* n / d in lowest terms; of no games, none, which as a NaN is no more to be picked.
Share(n, d) == IF d = 0 THEN [num |-> 0, den |-> 1]
               ELSE LET k == Min({m \in 1..d : (n * m) % d = 0})
                    IN  [num |-> (n * k) \div d, den |-> k]
Less(a, b)  == a.num * b.den < b.num * a.den

Row(pos, wins, games) ==
  [pos |-> pos, expected |-> Share(wins, games), timesPlayed |-> games]

\* Two rows of one table for the same position: sums and products in each other's
\* place, (e2 n2 + (e1 + n1)) / (n2 n1).
RecalculateRow(r, u) ==
  [pos         |-> r.pos,
   expected    |-> Share(u.expected.num * u.timesPlayed * r.expected.den
                           + (r.expected.num + r.timesPlayed * r.expected.den) * u.expected.den,
                         r.expected.den * u.expected.den * u.timesPlayed * r.timesPlayed),
   timesPlayed |-> r.timesPlayed + u.timesPlayed]

\* An answer as the master reads it, a row at a time.
AddRow(table, u) ==
  LET i == SelectInSeq(table, LAMBDA r : r.pos = u.pos)
  IN  IF i = 0 THEN Append(table, u) ELSE [table EXCEPT ![i] = RecalculateRow(@, u)]

ParseUCBTable(rows) == FoldLeft(AddRow, <<>>, rows)

\* Mutant of CombineRow: the mean of the shares, not weighted by the games.
CombineRowUnweighted(r, u) ==
  IF r.pos # u.pos THEN r ELSE
    [r EXCEPT !.expected    = Share(r.expected.num * u.expected.den + u.expected.num * r.expected.den,
                                    (IF r.timesPlayed = 0 THEN 1 ELSE 2)
                                      * r.expected.den * u.expected.den),
              !.timesPlayed = @ + u.timesPlayed]

\* Rows of two tables: the mean of their shares, weighted by the games.
CombineRow(r, u) ==
  IF r.pos # u.pos THEN r ELSE
    [pos         |-> r.pos,
     expected    |-> Share(r.expected.num * r.timesPlayed * u.expected.den
                             + u.expected.num * u.timesPlayed * r.expected.den,
                           r.expected.den * u.expected.den * (r.timesPlayed + u.timesPlayed)),
     timesPlayed |-> r.timesPlayed + u.timesPlayed]

CombineUCBTables(t1, t2) == [i \in DOMAIN t1 |-> FoldLeft(CombineRow, t1[i], t2)]

\* Mutant of BestPos: the last of the rows that won.
LastWinner(table, none) ==
  LET i == SelectLastInSeq(table, LAMBDA r : r.expected.num > 0)
  IN  IF i = 0 THEN none ELSE table[i].pos

\* The first of the best rows, if any of them won a game.
BestPos(table, none) ==
  LET i == SelectInSeq(table, LAMBDA r : /\ r.expected.num > 0
                                         /\ \A q \in ToSet(table) : ~ Less(r.expected, q.expected))
  IN  IF i = 0 THEN none ELSE table[i].pos
=============================================================================
