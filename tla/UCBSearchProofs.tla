-------------------------- MODULE UCBSearchProofs --------------------------
(***************************************************************************)
(* Theorems about a search over any number of slaves, with any candidates, *)
(* configurations and clocks.                                              *)
(***************************************************************************)
EXTENDS UCBSearch, SequenceTheorems, FiniteSetTheorems, TLAPS

-----------------------------------------------------------------------------
\* What the proofs need beside the types.

\* What holds of the search q of a slave with the options e: one that was asked has the
\* candidates of this command, one that was not, or has answered, has none; the first
\* plays have played the candidates before the next one, and all when the loop begins;
\* and no game that begins with a pass is won.
SlaveKept(q, e) ==
  /\ q.stage \in {"idle", "done"} => e.preselRandMoves = <<>>
  /\ q.stage \in {"asked", "first", "loop"} => e.preselRandMoves = moves
  /\ q.stage \in {"first", "loop"} => e.aiType = "UCB"
  /\ q.stage \in {"first", "loop", "done"} =>
       /\ q.moves = moves /\ Len(q.games) = Len(moves) /\ Len(q.wins) = Len(moves)
       /\ \A i \in 1..Len(moves) : moves[i] = PassMove => q.wins[i] = 0
  /\ q.stage = "first" =>
       q.next \in 1..Len(moves) /\ \A i \in 1..(q.next - 1) : q.games[i] > 0
  /\ q.stage = "loop" => q.next \in 0..Len(moves)
  /\ q.stage \in {"loop", "done"} => \A i \in 1..Len(moves) : q.games[i] > 0

\* No slave searches unless the master waits, nor one that is not there.
SearchesKept ==
  /\ stage = "waiting" => number > 0
  /\ stage # "waiting" => \A s \in Slaves : search[s].stage \in {"idle", "dead"}
  /\ \A s \in Slaves \ crew : search[s].stage = "idle"
  /\ \A s \in Slaves : SlaveKept(search[s], engine[s])

\* The master's rows are those of its candidates, in their order.
TableOfMoves ==
  stage = "waiting" =>
    /\ ucbTable = [i \in 1..Len(moves) |-> ucbTable[i]]
    /\ \A i \in 1..Len(moves) : ucbTable[i].pos = moves[i]

TypeInv == TypeOK /\ SearchesKept /\ TableOfMoves

\* Until candidates are listed, the answers are those of the last command.
AnswersInv == AnswersCoverCandidates /\ (stage = "listing" => answers = {})

\* The answers are finitely many, of numbers, and of slaves that have done with this
\* command.
AnswersKept ==
  /\ IsFiniteSet(answers)
  /\ \A a \in answers :
       /\ a.slave \in Slaves
       /\ stage = "waiting" => search[a.slave].stage \in {"idle", "dead"}
       /\ \A i \in 1..Len(moves) : a.rows[i].timesPlayed \in Nat /\ WinsOf(a.rows[i]) \in Nat

\* The master's rows tell of the games of the answers, also after its move.
RowPooled(i) ==
  /\ Wins(i) \in Nat /\ Games(i) \in Nat
  /\ IF answers = {} THEN Wins(i) = 0 /\ Games(i) = 0 ELSE Games(i) > 0
  /\ moves[i] = PassMove => Wins(i) = 0
  /\ ucbTable[i] = Row(moves[i], Wins(i), Games(i))

TablePooled ==
  stage # "listing" /\ ~ ListedTwice => \A i \in 1..Len(moves) : RowPooled(i)

PoolInv == AnswersKept /\ TablePooled

\* A budget is what is left by the clock, less the buffer, and that is no more than
\* what the controller's clock has left.
ClockInv ==
  /\ clock.isActive => GetTimeRemainingForMove(clock) <= remaining
  /\ stage = "waiting" /\ clock.isActive =>
       \A s \in Slaves :
         search[s].stage \in {"asked", "first", "loop"} /\ engine[s].aiType # "RAN" =>
           engine[s].timeAlloc = GetTimeRemainingForMove(clock) - GO_TIME_PROCESSING_BUFFER

\* What holds of the search q of a slave with the options e, the timers ts and the
\* spare searches js: its timer is there from its start, if at all; and the loop, unless
\* it is stopped, has as far to go as it had when it began.
TimersKept(q, e, ts, js) ==
  LET searching == q.stage \in {"first", "loop"}
  IN  /\ \A k \in ts : ~ (searching /\ k = number) => \E j \in js : j <= k
      /\ searching /\ ~ q.playUntilStopped =>
           \/ e.timeAlloc >= 0 /\ number \notin ts
           \/ \E j \in js : j < number
      /\ q.stage = "asked" => number \notin ts
      /\ searching /\ number \in ts => e.timeAlloc >= 0
      /\ searching /\ e.simulations <= Len(moves) => number \in js
      /\ q.stage = "loop" /\ q.playUntilStopped => q.over = e.simulations - Len(moves)

TimerInv == \A s \in Slaves : TimersKept(search[s], engine[s], timers[s], spare[s])

-----------------------------------------------------------------------------
\* Operators.

\* The step of the loop of combineUCBTables over the other table leaves the position
\* of a row as it is.
CombineNext(acc, x, e) == CombineRow(acc, e)
SamePosition(x, base, seq, i, acc) == acc.pos = base.pos

Combining == INSTANCE FoldTheorems WITH Op <- CombineNext, Holds <- SamePosition

\* So the position is left by the whole loop.
LEMMA CombineKeepsPosition ==
  ASSUME NEW S, NEW table \in Seq(S), NEW r
  PROVE  FoldLeft(CombineRow, r, table).pos = r.pos
<1>1. FoldLeft(CombineRow, r, table) = Combining!Folded(0, r, table)
  BY Zenon DEF Combining!Folded, CombineNext, FoldLeft, MapThenFoldSet, Max,
               Combining!FoldLeft, Combining!MapThenFoldSet, Combining!Max
<1>2. SamePosition(0, r, table, 0, r)
  BY DEF SamePosition
<1>3. ASSUME NEW i \in 1..Len(table), NEW acc, SamePosition(0, r, table, i - 1, acc)
      PROVE  SamePosition(0, r, table, i, CombineNext(acc, 0, table[i]))
  BY <1>3 DEF SamePosition, CombineNext, CombineRow
<1>4. SamePosition(0, r, table, Len(table), Combining!Folded(0, r, table))
  <2> HIDE DEF SamePosition, CombineNext
  <2> QED BY <1>2, <1>3, Combining!FoldInvariant
<1>5. QED
  BY <1>1, <1>4 DEF SamePosition

\* The step of the loop of parseUCBTableString keeps a table a sequence.
AddNext(acc, x, e) == AddRow(acc, e)
IsTable(x, base, seq, i, acc) == \E S : acc \in Seq(S)

Parsing == INSTANCE FoldTheorems WITH Op <- AddNext, Holds <- IsTable

\* A row is added to a table, or recalculated in its place.
LEMMA AddRowToTable ==
  ASSUME NEW S, NEW table \in Seq(S), NEW u
  PROVE  \E T : AddRow(table, u) \in Seq(T)
<1> DEFINE i == SelectInSeq(table, LAMBDA r : r.pos = u.pos)
           v == RecalculateRow(table[i], u)
<1>1. AddRow(table, u) = Append(table, u) \/ AddRow(table, u) = [table EXCEPT ![i] = v]
  BY Zenon DEF AddRow
<1>2. Append(table, u) \in Seq(S \cup {u})
  BY SeqMonotonic, AppendProperties
<1>3. [table EXCEPT ![i] = v] \in Seq(S \cup {v})
  <2> HIDE DEF i, v
  <2>1. table \in [1..Len(table) -> S] /\ Len(table) \in Nat
    BY LenProperties
  <2>2. [table EXCEPT ![i] = v] \in [1..Len(table) -> S \cup {v}]
    BY <2>1
  <2>3. QED
    BY <2>1, <2>2, SeqDef
<1>4. QED
  BY <1>1, <1>2, <1>3, Zenon

\* So what is parsed is a sequence.
LEMMA ParsedIsTable ==
  ASSUME NEW S, NEW rows \in Seq(S)
  PROVE  \E T : ParseUCBTable(rows) \in Seq(T)
<1>1. ParseUCBTable(rows) = Parsing!Folded(0, <<>>, rows)
  BY Zenon DEF Parsing!Folded, AddNext, ParseUCBTable, FoldLeft, MapThenFoldSet, Max,
               Parsing!FoldLeft, Parsing!MapThenFoldSet, Parsing!Max
<1>2. IsTable(0, <<>>, rows, 0, <<>>)
  <2>1. <<>> \in Seq({})
    OBVIOUS
  <2>2. QED
    BY <2>1 DEF IsTable
<1>3. ASSUME NEW i \in 1..Len(rows), NEW acc, IsTable(0, <<>>, rows, i - 1, acc)
      PROVE  IsTable(0, <<>>, rows, i, AddNext(acc, 0, rows[i]))
  BY <1>3, AddRowToTable DEF IsTable, AddNext
<1>4. IsTable(0, <<>>, rows, Len(rows), Parsing!Folded(0, <<>>, rows))
  <2> HIDE DEF IsTable, AddNext
  <2> QED BY <1>2, <1>3, Parsing!FoldInvariant
<1>5. QED
  BY <1>1, <1>4 DEF IsTable

\* Merging an answer leaves the rows where they are.
LEMMA CombineKeepsRows ==
  ASSUME NEW S, NEW rows \in Seq(S), NEW table
  PROVE  LET t == CombineUCBTables(table, ParseUCBTable(rows))
         IN  DOMAIN t = DOMAIN table /\ \A i \in DOMAIN table : t[i].pos = table[i].pos
<1>1. PICK T : ParseUCBTable(rows) \in Seq(T)
  BY ParsedIsTable
<1> DEFINE p == ParseUCBTable(rows)
           e(i) == FoldLeft(CombineRow, table[i], p)
<1>2. CombineUCBTables(table, p) = [i \in DOMAIN table |-> e(i)]
  BY Zenon DEF CombineUCBTables
<1>3. \A i \in DOMAIN table : e(i).pos = table[i].pos
  BY <1>1, CombineKeepsPosition
<1> HIDE DEF p, e
<1>4. QED
  BY <1>2, <1>3 DEF p

\* The row picked is one of the best, if any of them won.
Best(table) ==
  {i \in 1..Len(table) : /\ table[i].expected.num > 0
                         /\ \A q \in ToSet(table) : ~ Less(table[i].expected, q.expected)}

\* The move picked is the pass or that of the first of the best rows.
LEMMA BestPosOfTable ==
  ASSUME NEW table, NEW none, Len(table) \in Nat
  PROVE  IF Best(table) = {} THEN BestPos(table, none) = none
         ELSE \E i \in Best(table) : BestPos(table, none) = table[i].pos
<1> DEFINE I == Best(table)
<1>1. BestPos(table, none) = IF (IF I # {} THEN Min(I) ELSE 0) = 0 THEN none
                             ELSE table[IF I # {} THEN Min(I) ELSE 0].pos
  BY Zenon DEF BestPos, SelectInSeq, Best
<1>2. I # {} => Min(I) \in I
  <2>1. I \in SUBSET Nat
    BY DEF Best
  <2>2. I # {} => \E n \in I : \A m \in I : n <= m
    BY <2>1, Combining!Least
  <2> HIDE DEF I
  <2>3. QED
    BY <2>2 DEF Min
<1>3. I \subseteq 1..Len(table)
  BY DEF Best
<1>4. QED
  BY <1>1, <1>2, <1>3

-----------------------------------------------------------------------------
\* Shares, which are fractions in lowest terms.

\* Division with a rest.
LEMMA Division ==
  ASSUME NEW x \in Nat, NEW y \in Nat \ {0}
  PROVE  x \div y \in Nat /\ x % y \in 0..(y - 1) /\ x = y * (x \div y) + (x % y)
OBVIOUS

\* A multiple is divided without a rest.
LEMMA ExactDivision ==
  ASSUME NEW y \in Nat \ {0}, NEW t \in Nat, NEW x, x = y * t
  PROVE  x % y = 0 /\ x \div y = t
OBVIOUS

\* The numbers by which a share of d can be told.
Dens(n, d) == {m \in 1..d : (n * m) % d = 0}

\* There is a least such number.
LEMMA Terms ==
  ASSUME NEW n \in Nat, NEW d \in Nat \ {0}
  PROVE  LET k == Min(Dens(n, d)) IN k \in Dens(n, d) /\ \A m \in Dens(n, d) : k <= m
<1>1. (n * d) % d = 0
  <2>1. n * d \in Nat /\ n * d = d * n
    OBVIOUS
  <2> QED BY <2>1, ExactDivision
<1>2. d \in Dens(n, d)
  BY <1>1 DEF Dens
<1>3. Dens(n, d) \in SUBSET Nat /\ Dens(n, d) # {}
  <2>1. Dens(n, d) \subseteq 1..d
    BY Zenon DEF Dens
  <2>2. 1..d \subseteq Nat
    OBVIOUS
  <2>3. QED
    BY <1>2, <2>1, <2>2, Zenon
<1>4. \E k \in Dens(n, d) : \A m \in Dens(n, d) : k <= m
  BY <1>3, Combining!Least
<1>5. QED
  BY <1>3, <1>4 DEF Min

\* A share is that of the wins.
LEMMA ShareOf ==
  ASSUME NEW n \in Nat, NEW d \in Nat \ {0}
  PROVE  LET e == Share(n, d)
         IN  /\ e.num \in Nat /\ e.den \in 1..d /\ e.num * d = n * e.den
             /\ e.den = Min(Dens(n, d)) /\ (e.num > 0 <=> n > 0)
<1> DEFINE k == Min(Dens(n, d))
           q == (n * k) \div d
<1>1. k \in 1..d /\ (n * k) % d = 0
  BY Terms DEF Dens
<1>2. Share(n, d) = [num |-> q, den |-> k]
  BY Zenon DEF Share, Dens
<1>3. n * k \in Nat
  BY <1>1
<1>4. q \in Nat /\ n * k = d * q
  <2> DEFINE x == n * k
  <2>1. x \in Nat /\ x % d = 0
    BY <1>1, <1>3
  <2> HIDE DEF x
  <2>2. x \div d \in Nat /\ x = d * (x \div d)
    BY <2>1, Division
  <2>3. QED
    BY <2>2 DEF x
<1> HIDE DEF k, q
<1>5. q * d = d * q
  BY <1>4
<1>6. q > 0 <=> n > 0
  <2>1. q > 0 <=> q * d > 0
    BY <1>4
  <2>2. n > 0 <=> n * k > 0
    BY <1>1
  <2>3. QED
    BY <1>4, <1>5, <2>1, <2>2
<1>7. QED
  BY <1>1, <1>2, <1>4, <1>5, <1>6 DEF k, q

\* It is the same of a multiple.
LEMMA ShareOfMultiple ==
  ASSUME NEW n \in Nat, NEW d \in Nat \ {0}, NEW c \in Nat \ {0}
  PROVE  Share(n * c, d * c) = Share(n, d)
<1> DEFINE k == Min(Dens(n, d))
           l == Min(Dens(n * c, d * c))
<1>1. n * c \in Nat /\ d * c \in Nat \ {0} /\ d <= d * c
  OBVIOUS
<1>2. ASSUME NEW m \in Nat
      PROVE  /\ (n * m) % d = 0 <=> ((n * c) * m) % (d * c) = 0
             /\ (n * m) % d = 0 => ((n * c) * m) \div (d * c) = (n * m) \div d
  <2> DEFINE x == n * m
             q == x \div d
             y == (n * c) * m
             p == y \div (d * c)
  <2>1. x \in Nat /\ y \in Nat /\ y = c * x
    OBVIOUS
  <2>2. ASSUME x % d = 0 PROVE y % (d * c) = 0 /\ y \div (d * c) = q
    <3>1. q \in Nat /\ x = d * q
      BY <2>1, <2>2, Division
    <3>2. y = (d * c) * q
      BY <2>1, <3>1
    <3> HIDE DEF x, y, q
    <3>3. QED
      BY <1>1, <3>1, <3>2, ExactDivision
  <2>3. ASSUME y % (d * c) = 0 PROVE x % d = 0
    <3>1. p \in Nat /\ y = (d * c) * p
      <4> DEFINE z == d * c
      <4>1. z \in Nat \ {0} /\ y % z = 0 /\ p = y \div z
        BY <1>1, <2>3
      <4> HIDE DEF y, z, p
      <4>2. p \in Nat /\ y = z * p
        BY <2>1, <4>1, Division
      <4>3. QED
        BY <4>2 DEF z
    <3>2. c * x = c * (d * p)
      BY <2>1, <3>1
    <3>3. x = d * p
      BY <2>1, <3>1, <3>2
    <3> HIDE DEF x, y, p
    <3>4. QED
      BY <3>1, <3>3, ExactDivision
  <2>4. QED
    BY <2>2, <2>3
<1>3. k \in Dens(n, d) /\ \A m \in Dens(n, d) : k <= m
  BY Terms
<1>4. l \in Dens(n * c, d * c) /\ \A m \in Dens(n * c, d * c) : l <= m
  BY <1>1, Terms
<1> HIDE DEF k, l
<1>0. Dens(n, d) \subseteq 1..d /\ Dens(n * c, d * c) \subseteq 1..(d * c)
  BY Zenon DEF Dens
<1>5. k \in Dens(n * c, d * c)
  BY <1>1, <1>2, <1>3 DEF Dens
<1>6. l \in Dens(n, d)
  <2>1. l \in Nat /\ k \in Nat /\ k \in 1..d /\ l <= k
    <3>1. l \in 1..(d * c) /\ k \in 1..d /\ l <= k
      BY <1>0, <1>3, <1>4, <1>5, Zenon
    <3>2. QED
      BY <1>1, <3>1
  <2>2. QED
    BY <1>2, <1>4, <2>1 DEF Dens
<1>7. k = l
  <2>1. k \in 1..d /\ l \in 1..d /\ k <= l /\ l <= k
    BY <1>0, <1>3, <1>4, <1>5, <1>6, Zenon
  <2>2. QED
    BY <2>1
<1>8. (n * k) % d = 0 /\ k \in Nat
  BY <1>3 DEF Dens
<1>9. Share(n, d) = [num |-> (n * k) \div d, den |-> k]
  BY Zenon DEF Share, Dens, k
<1>10. Share(n * c, d * c) = [num |-> ((n * c) * l) \div (d * c), den |-> l]
  BY <1>1, Zenon DEF Share, Dens, l
<1>11. QED
  BY <1>2, <1>7, <1>8, <1>9, <1>10

\* The number of games won can be read from a row.
LEMMA WinsOfRow ==
  ASSUME NEW p, NEW w \in Nat, NEW g \in Nat \ {0}
  PROVE  /\ WinsOf(Row(p, w, g)) = w
         /\ Row(p, w, g).pos = p /\ Row(p, w, g).timesPlayed = g
         /\ Row(p, w, g).expected = Share(w, g)
<1>1. PICK a, k : /\ a = Share(w, g).num /\ k = Share(w, g).den
                  /\ a \in Nat /\ k \in 1..g /\ a * g = w * k /\ k = Min(Dens(w, g))
  BY ShareOf
<1>2. PICK q, r : q \in Nat /\ r \in 0..(k - 1) /\ g = k * q + r /\ q = g \div k
  <2>1. g \div k \in Nat /\ g % k \in 0..(k - 1) /\ g = k * (g \div k) + (g % k)
    <3>1. k \in Nat \ {0}
      BY <1>1
    <3>2. QED
      BY <3>1, Division
  <2>2. QED
    BY <2>1
<1>3. r = 0
  <2>1. w * r = g * (w - a * q)
    <3>1. w * g = (w * k) * q + w * r
      BY <1>1, <1>2
    <3>2. w * g = (a * g) * q + w * r
      BY <1>1, <3>1
    <3>3. w * r \in Nat /\ w * g = g * w /\ (a * g) * q = g * (a * q)
      BY <1>1, <1>2
    <3>4. g * (w - a * q) = g * w - g * (a * q)
      BY <1>1, <1>2
    <3>5. g * w \in Nat /\ g * (a * q) \in Nat
      BY <1>1, <1>2
    <3>6. QED
      BY <3>2, <3>3, <3>4, <3>5
  <2>2. w - a * q \in Nat
    <3>1. PICK t \in Int : t = w - a * q
      BY <1>1, <1>2
    <3>2. w * r >= 0 /\ g * t = w * r
      BY <1>2, <2>1, <3>1
    <3>3. t >= 0
      BY <3>2
    <3>4. QED
      BY <3>1, <3>3
  <2>3. (w * r) % g = 0
    BY <2>1, <2>2, ExactDivision
  <2>4. ASSUME r # 0 PROVE FALSE
    <3>1. r \in 1..g
      BY <1>1, <1>2, <2>4
    <3>2. r \in Dens(w, g)
      BY <2>3, <3>1, Zenon DEF Dens
    <3>3. k <= r
      BY <1>1, <3>2, Terms
    <3>4. QED
      BY <1>1, <1>2, <3>3
  <2>5. QED
    BY <2>4
<1>4. (a * q) * k = w * k
  BY <1>1, <1>2, <1>3
<1>5. a * q = w
  <2>1. a * q \in Nat
    BY <1>1, <1>2
  <2>2. QED
    BY <1>1, <1>4, <2>1
<1>6. /\ Row(p, w, g).pos = p /\ Row(p, w, g).timesPlayed = g
      /\ Row(p, w, g).expected = Share(w, g)
  BY DEF Row
<1>7. QED
  BY <1>1, <1>2, <1>5, <1>6 DEF WinsOf

\* Rows of two tables are combined to that of all the games.
LEMMA RowsCombine ==
  ASSUME NEW p, NEW w \in Nat, NEW g \in Nat, NEW v \in Nat, NEW h \in Nat \ {0}, g = 0 => w = 0
  PROVE  CombineRow(Row(p, w, g), Row(p, v, h)) = Row(p, w + v, g + h)
<1>1. PICK b, l : /\ b = Share(v, h).num /\ l = Share(v, h).den
                  /\ b \in Nat /\ l \in Nat \ {0} /\ b * h = v * l
  BY ShareOf
<1>2. PICK a, k : /\ a = Share(w, g).num /\ k = Share(w, g).den
                  /\ a \in Nat /\ k \in Nat \ {0} /\ a * g = w * k
  <2>1. CASE g = 0
    BY <2>1 DEF Share
  <2>2. CASE g # 0
    BY <2>2, ShareOf
  <2>3. QED
    BY <2>1, <2>2
<1>3. CombineRow(Row(p, w, g), Row(p, v, h)) =
        [pos |-> p, expected |-> Share(a * g * l + b * h * k, k * l * (g + h)), timesPlayed |-> g + h]
  BY <1>1, <1>2 DEF CombineRow, Row
<1>4. /\ a * g * l + b * h * k = (w + v) * (k * l)
      /\ k * l * (g + h) = (g + h) * (k * l)
  <2>1. a * g * l = w * (k * l) /\ b * h * k = v * (k * l)
    BY <1>1, <1>2
  <2>2. (w + v) * (k * l) = w * (k * l) + v * (k * l)
    BY <1>1, <1>2
  <2>3. QED
    BY <1>1, <1>2, <2>1, <2>2
<1>5. Share((w + v) * (k * l), (g + h) * (k * l)) = Share(w + v, g + h)
  <2>1. w + v \in Nat /\ g + h \in Nat \ {0} /\ k * l \in Nat \ {0}
    BY <1>1, <1>2
  <2>2. QED
    BY <2>1, ShareOfMultiple
<1>6. QED
  BY <1>3, <1>4, <1>5, Zenon DEF Row

\* Shares are compared as the fractions they are.
LEMMA SharesCompare ==
  ASSUME NEW a \in Nat, NEW b \in Nat \ {0}, NEW c \in Nat, NEW d \in Nat \ {0}
  PROVE  Less(Share(a, b), Share(c, d)) <=> a * d < c * b
<1>1. PICK m, k : /\ m = Share(a, b).num /\ k = Share(a, b).den
                  /\ m \in Nat /\ k \in Nat \ {0} /\ m * b = a * k
  BY ShareOf
<1>2. PICK n, l : /\ n = Share(c, d).num /\ l = Share(c, d).den
                  /\ n \in Nat /\ l \in Nat \ {0} /\ n * d = c * l
  BY ShareOf
<1>3. ASSUME NEW x \in Nat, NEW y \in Nat, NEW z \in Nat \ {0}
      PROVE  x < y <=> x * z < y * z
  OBVIOUS
<1>4. (m * l) * (b * d) = (a * d) * (k * l) /\ (n * k) * (b * d) = (c * b) * (k * l)
  <2>1. (m * l) * (b * d) = (m * b) * (l * d)
    BY <1>1, <1>2
  <2>2. (n * k) * (b * d) = (n * d) * (k * b)
    BY <1>1, <1>2
  <2>3. (a * k) * (l * d) = (a * d) * (k * l)
    BY <1>1, <1>2
  <2>4. (c * l) * (k * b) = (c * b) * (k * l)
    BY <1>1, <1>2
  <2>5. QED
    BY <1>1, <1>2, <2>1, <2>2, <2>3, <2>4
<1>5. /\ m * l \in Nat /\ n * k \in Nat /\ a * d \in Nat /\ c * b \in Nat
      /\ b * d \in Nat \ {0} /\ k * l \in Nat \ {0}
  BY <1>1, <1>2
<1>6. m * l < n * k <=> a * d < c * b
  BY <1>3, <1>4, <1>5
<1>7. QED
  BY <1>1, <1>2, <1>6 DEF Less

-----------------------------------------------------------------------------
\* Sums over a finite set.

\* f is a solution of the equation by which SumFunction sums h over D; and it adds the
\* elements of a set in any order.
Sums(f, h, D) ==
  f = [s \in SUBSET D |-> IF s = {} THEN 0
                          ELSE h[CHOOSE x \in s : TRUE] + f[s \ {CHOOSE x \in s : TRUE}]]
Additive(f, h, D) ==
  /\ f \in [SUBSET D -> Nat] /\ f[{}] = 0 /\ \A x \in D : h[x] \in Nat
  /\ \A s \in SUBSET D : \A x \in s : f[s] = h[x] + f[s \ {x}]

\* There is one of a set with one more element...
LEMMA AdditiveOfMore ==
  ASSUME NEW h, NEW D, NEW f, Additive(f, h, D), NEW y, y \notin D, h[y] \in Nat
  PROVE  \E g : Additive(g, h, D \cup {y})
<1> DEFINE E == D \cup {y}
           g == [s \in SUBSET E |-> IF y \in s THEN h[y] + f[s \ {y}] ELSE f[s]]
<1>1. ASSUME NEW s \in SUBSET E
      PROVE  /\ s \ {y} \in SUBSET D /\ f[s \ {y}] \in Nat
             /\ y \notin s => s = s \ {y}
             /\ g[s] = IF y \in s THEN h[y] + f[s \ {y}] ELSE f[s \ {y}]
  <2>1. s \ {y} \in SUBSET D /\ (y \notin s => s = s \ {y})
    OBVIOUS
  <2>2. g[s] = IF y \in s THEN h[y] + f[s \ {y}] ELSE f[s]
    BY Zenon
  <2>3. QED
    BY <2>1, <2>2 DEF Additive
<1>2. g \in [SUBSET E -> Nat]
  <2>1. ASSUME NEW s \in SUBSET E PROVE g[s] \in Nat
    <3>1. /\ f[s \ {y}] \in Nat
          /\ g[s] = IF y \in s THEN h[y] + f[s \ {y}] ELSE f[s \ {y}]
      BY <1>1
    <3> HIDE DEF g, E
    <3>2. QED
      BY <3>1
  <2>2. QED
    BY <2>1, Zenon
<1>3. g[{}] = 0
  BY DEF Additive
<1>4. ASSUME NEW s \in SUBSET E, NEW x \in s PROVE g[s] = h[x] + g[s \ {x}]
  <2>1. s \ {x} \in SUBSET E
    OBVIOUS
  <2> HIDE DEF g
  <2>2. CASE x = y
    BY <1>1, <2>1, <2>2
  <2>3. CASE x # y
    <3> DEFINE t == s \ {y}
    <3>1. (s \ {x}) \ {y} = t \ {x} /\ x \in t /\ (y \in s <=> y \in s \ {x})
      BY <2>3
    <3>2. t \in SUBSET D /\ t \ {x} \in SUBSET D /\ f[t] \in Nat /\ f[t \ {x}] \in Nat
      BY <1>1 DEF Additive
    <3>3. f[t] = h[x] + f[t \ {x}] /\ h[x] \in Nat
      <4>1. x \in D
        BY <3>1, <3>2
      <4>2. QED
        BY <3>1, <3>2 DEF Additive
    <3>4. QED
      BY <1>1, <2>1, <3>1, <3>2, <3>3
  <2>4. QED
    BY <2>2, <2>3
<1>5. \A x \in E : h[x] \in Nat
  BY DEF Additive
<1> HIDE DEF g
<1>6. QED
  BY <1>2, <1>3, <1>4, <1>5, Zenon DEF Additive

\* ... and so of every finite set.
LEMMA AdditiveExists ==
  ASSUME NEW h, NEW D, IsFiniteSet(D), \A x \in D : h[x] \in Nat
  PROVE  \E f : Additive(f, h, D)
<1> DEFINE T == {n \in Nat : \E s \in SUBSET D : Cardinality(s) = n /\ ~ \E f : Additive(f, h, s)}
<1>1. ASSUME T # {} PROVE FALSE
  <2>1. T \in SUBSET Nat
    OBVIOUS
  <2>2. PICK n \in T : \A m \in T : n <= m
    <3> HIDE DEF T
    <3> QED BY <1>1, <2>1, Combining!Least
  <2>3. PICK s \in SUBSET D : Cardinality(s) = n /\ ~ \E f : Additive(f, h, s)
    BY <2>2
  <2>4. IsFiniteSet(s)
    BY FS_Subset
  <2>5. CASE s = {}
    <3> DEFINE f == [t \in SUBSET {} |-> 0]
    <3>1. Additive(f, h, {})
      BY DEF Additive
    <3>2. QED
      BY <2>3, <2>5, <3>1, Zenon
  <2>6. CASE s # {}
    <3>1. PICK x : x \in s
      BY <2>6
    <3> DEFINE t == s \ {x}
    <3>2. /\ IsFiniteSet(t) /\ Cardinality(t) = n - 1 /\ n \in Nat /\ n - 1 \in Nat
      <4>1. Cardinality(s) \in Nat /\ Cardinality(t) \in Nat /\ IsFiniteSet(t)
        BY <2>4, FS_RemoveElement, FS_CardinalityType
      <4>2. Cardinality(t) = Cardinality(s) - 1
        BY <2>4, <3>1, FS_RemoveElement
      <4>3. QED
        BY <2>3, <4>1, <4>2
    <3>3. n - 1 \notin T
      BY <2>2, <3>2
    <3>4. t \in SUBSET D /\ x \notin t /\ t \cup {x} = s /\ h[x] \in Nat
      BY <3>1
    <3>5. PICK f : Additive(f, h, t)
      BY <3>2, <3>3, <3>4
    <3> HIDE DEF t
    <3>6. \E g : Additive(g, h, t \cup {x})
      BY <3>4, <3>5, AdditiveOfMore
    <3>7. QED
      BY <2>3, <3>4, <3>6
  <2>7. QED
    BY <2>5, <2>6
<1>2. Cardinality(D) \in Nat
  BY FS_CardinalityType
<1>3. QED
  BY <1>1, <1>2

\* SumFunction is that, of any part of the set.
LEMMA SumIsAdditive ==
  ASSUME NEW h, NEW D, IsFiniteSet(D), NEW f, Additive(f, h, D), NEW A \in SUBSET D,
         NEW k, k = [a \in A |-> h[a]]
  PROVE  SumFunction(k) = f[A]
<1> DEFINE c == CHOOSE g : Sums(g, k, A)
           d == [s \in SUBSET A |-> f[s]]
           first(s) == CHOOSE x \in s : TRUE
           T == {n \in Nat : \E s \in SUBSET A : Cardinality(s) = n /\ c[s] # f[s]}
<1>1. SumFunction(k) = c[A]
  <2>1. DOMAIN k = A
    OBVIOUS
  <2>2. SumFunction(k) = (CHOOSE g : Sums(g, k, DOMAIN k))[DOMAIN k]
    BY Zenon DEF SumFunction, SumFunctionOnSet, FoldFunctionOnSet, MapThenFoldSet, Sums
  <2>3. QED
    BY <2>1, <2>2, Zenon
<1>2. ASSUME NEW s \in SUBSET A, s # {}
      PROVE  first(s) \in s /\ s \ {first(s)} \in SUBSET A /\ f[s] = k[first(s)] + f[s \ {first(s)}]
  <2>1. first(s) \in s
    BY <1>2
  <2> HIDE DEF first
  <2>2. f[s] = h[first(s)] + f[s \ {first(s)}] /\ k[first(s)] = h[first(s)]
    BY <2>1 DEF Additive
  <2>3. QED
    BY <2>1, <2>2
<1>3. Sums(d, k, A)
  <2>1. ASSUME NEW s \in SUBSET A
        PROVE  d[s] = IF s = {} THEN 0 ELSE k[first(s)] + d[s \ {first(s)}]
    <3>1. CASE s = {}
      BY <3>1 DEF Additive
    <3>2. CASE s # {}
      <4> HIDE DEF first
      <4>1. d[s] = f[s] /\ d[s \ {first(s)}] = f[s \ {first(s)}]
        BY <1>2, <3>2
      <4>2. QED
        BY <1>2, <3>2, <4>1
    <3>3. QED
      BY <3>1, <3>2
  <2>2. d = [s \in SUBSET A |-> d[s]]
    OBVIOUS
  <2> HIDE DEF d
  <2>3. QED
    BY <2>1, <2>2, Zenon DEF Sums
<1>4. Sums(c, k, A)
  BY <1>3, Zenon
<1> HIDE DEF c
<1>5. ASSUME T # {} PROVE FALSE
  <2>1. T \in SUBSET Nat
    OBVIOUS
  <2>2. PICK n \in T : \A m \in T : n <= m
    <3> HIDE DEF T
    <3> QED BY <1>5, <2>1, Combining!Least
  <2>3. PICK s \in SUBSET A : Cardinality(s) = n /\ c[s] # f[s]
    BY <2>2
  <2>4. c[s] = IF s = {} THEN 0 ELSE k[first(s)] + c[s \ {first(s)}]
    BY <1>4, Zenon DEF Sums
  <2>5. s # {}
    BY <2>3, <2>4 DEF Additive
  <2> DEFINE x == first(s)
             t == s \ {x}
  <2>6. x \in s /\ t \in SUBSET A /\ f[s] = k[x] + f[t]
    BY <1>2, <2>5
  <2> HIDE DEF x
  <2>7. Cardinality(t) \in Nat /\ Cardinality(t) < n
    <3>1. IsFiniteSet(s)
      BY FS_Subset
    <3>2. Cardinality(s) \in Nat /\ Cardinality(t) \in Nat /\ IsFiniteSet(t)
      BY <3>1, FS_RemoveElement, FS_CardinalityType
    <3>3. Cardinality(t) = Cardinality(s) - 1
      BY <3>1, <2>6, FS_RemoveElement
    <3>4. QED
      BY <2>3, <3>2, <3>3
  <2>8. Cardinality(t) \notin T
    <3>1. n \in Nat
      BY <2>1, <2>2
    <3> HIDE DEF T
    <3>2. QED
      BY <2>2, <2>7, <3>1
  <2>9. c[t] = f[t]
    BY <2>6, <2>7, <2>8
  <2>10. QED
    BY <2>3, <2>4, <2>5, <2>6, <2>9 DEF x
<1>6. Cardinality(A) \in Nat
  BY FS_Subset, FS_CardinalityType
<1>7. QED
  BY <1>1, <1>5, <1>6

\* The sum over a set with one more element, and over none.
LEMMA SumOfMore ==
  ASSUME NEW A, IsFiniteSet(A), NEW x, x \notin A, NEW h, \A a \in A \cup {x} : h[a] \in Nat
  PROVE  /\ SumFunction([a \in A |-> h[a]]) \in Nat
         /\ SumFunction([a \in A \cup {x} |-> h[a]]) = SumFunction([a \in A |-> h[a]]) + h[x]
<1> DEFINE D == A \cup {x}
<1>1. IsFiniteSet(D)
  BY FS_AddElement
<1>2. PICK f : Additive(f, h, D)
  BY <1>1, AdditiveExists
<1>3. SumFunction([a \in A |-> h[a]]) = f[A] /\ SumFunction([a \in D |-> h[a]]) = f[D]
  <2>1. A \in SUBSET D /\ D \in SUBSET D
    OBVIOUS
  <2> HIDE DEF D
  <2>2. QED
    BY <1>1, <1>2, <2>1, SumIsAdditive
<1>4. f[A] \in Nat /\ f[D] = h[x] + f[A] /\ h[x] \in Nat
  <2>1. D \ {x} = A /\ A \in SUBSET D /\ D \in SUBSET D /\ x \in D
    OBVIOUS
  <2> HIDE DEF D
  <2>2. f[D] = h[x] + f[D \ {x}]
    BY <1>2, <2>1 DEF Additive
  <2>3. f[A] \in Nat
    BY <1>2, <2>1 DEF Additive
  <2>4. QED
    BY <2>1, <2>2, <2>3
<1>5. QED
  BY <1>3, <1>4

\* Nothing adds up to zero.
LEMMA SumOfNone ==
  ASSUME NEW h
  PROVE  SumFunction([a \in {} |-> h[a]]) = 0
<1>1. PICK A : A = {}
  OBVIOUS
<1>2. IsFiniteSet(A) /\ A \in SUBSET A /\ \A x \in A : h[x] \in Nat
  BY <1>1, FS_EmptySet
<1>3. PICK f : Additive(f, h, A)
  BY <1>2, AdditiveExists
<1>4. PICK k : k = [a \in A |-> h[a]]
  OBVIOUS
<1>5. SumFunction(k) = f[A]
  BY <1>2, <1>3, <1>4, SumIsAdditive
<1>6. QED
  BY <1>1, <1>3, <1>4, <1>5 DEF Additive

-----------------------------------------------------------------------------
\* Merging an answer of which no row is of the position of another.

\* Candidates of which none is listed twice differ.
LEMMA DistinctMoves ==
  ASSUME moves \in Seq(Moves), ~ ListedTwice,
         NEW i \in 1..Len(moves), NEW j \in 1..Len(moves), moves[i] = moves[j]
  PROVE  i = j
<1> DEFINE n == Len(moves)
           T == ToSet(moves)
<1>1. n \in Nat /\ DOMAIN moves = 1..n /\ moves \in [1..n -> Moves]
  BY LenProperties
<1>2. T = {moves[k] : k \in 1..n}
  BY <1>1, Zenon DEF ToSet
<1>3. moves \in Surjection(1..n, T)
  <2>1. moves \in [1..n -> T] /\ \A t \in T : \E k \in 1..n : moves[k] = t
    BY <1>1, <1>2
  <2> HIDE DEF T, n
  <2>2. QED
    BY <2>1, Zenon DEF Surjection
<1>4. IsFiniteSet(1..n) /\ Cardinality(1..n) = n
  <2>1. n \in Nat
    BY <1>1
  <2> HIDE DEF n
  <2>2. 1 \in Int /\ n \in Int
    BY <2>1
  <2>3. IsFiniteSet(1..n) /\ Cardinality(1..n) = IF 1 > n THEN 0 ELSE n - 1 + 1
    BY <2>2, FS_Interval, Zenon
  <2>4. QED
    BY <2>1, <2>3
<1>5. /\ IsFiniteSet(T) /\ Cardinality(T) <= n
      /\ Cardinality(T) = n <=> moves \in Injection(1..n, T)
  BY <1>3, <1>4, FS_Surjection
<1>6. ~ (Cardinality(T) < n)
  BY DEF ListedTwice
<1>7. Cardinality(T) \in Nat
  BY <1>5, FS_CardinalityType
<1> HIDE DEF n, T
<1>8. moves \in Injection(1..n, T)
  BY <1>1, <1>5, <1>6, <1>7
<1>9. QED
  BY <1>8, Zenon DEF Injection, IsInjective, n

\* The rows of an answer are parsed as they are, if their positions differ.
IsCopied(x, base, seq, i, acc) == acc = SubSeq(seq, 1, i)
ParsingDistinct == INSTANCE FoldTheorems WITH Op <- AddNext, Holds <- IsCopied

\* Rows of different moves are read as they were sent (parseUCBTableString).
LEMMA ParsedAsSent ==
  ASSUME NEW S, NEW rows \in Seq(S),
         \A i, j \in 1..Len(rows) : rows[i].pos = rows[j].pos => i = j
  PROVE  ParseUCBTable(rows) = rows
<1>1. ParseUCBTable(rows) = ParsingDistinct!Folded(0, <<>>, rows)
  BY Zenon DEF ParsingDistinct!Folded, AddNext, ParseUCBTable, FoldLeft, MapThenFoldSet, Max,
               ParsingDistinct!FoldLeft, ParsingDistinct!MapThenFoldSet, ParsingDistinct!Max
<1>2. IsCopied(0, <<>>, rows, 0, <<>>)
  BY DEF IsCopied
<1>3. ASSUME NEW i \in 1..Len(rows), NEW acc, IsCopied(0, <<>>, rows, i - 1, acc)
      PROVE  IsCopied(0, <<>>, rows, i, AddNext(acc, 0, rows[i]))
  <2> DEFINE u == rows[i]
             I == {k \in 1..Len(acc) : acc[k].pos = u.pos}
  <2>1. acc = SubSeq(rows, 1, i - 1)
    BY <1>3 DEF IsCopied
  <2>2. Len(acc) = i - 1 /\ \A k \in 1..(i - 1) : acc[k] = rows[k]
    BY <2>1
  <2>3. I = {}
    BY <2>2
  <2>4. AddRow(acc, u) = Append(acc, u)
    <3>1. SelectInSeq(acc, LAMBDA r : r.pos = u.pos) = IF I # {} THEN Min(I) ELSE 0
      BY Zenon DEF SelectInSeq
    <3> HIDE DEF I
    <3>2. QED
      BY <2>3, <3>1, Zenon DEF AddRow
  <2>5. Append(acc, u) = SubSeq(rows, 1, i)
    BY <2>1
  <2>6. QED
    BY <2>4, <2>5, Zenon DEF IsCopied, AddNext
<1>4. IsCopied(0, <<>>, rows, Len(rows), ParsingDistinct!Folded(0, <<>>, rows))
  <2> HIDE DEF IsCopied, AddNext
  <2> QED BY <1>2, <1>3, ParsingDistinct!FoldInvariant
<1>5. QED
  BY <1>1, <1>4 DEF IsCopied

\* A row meets only the row of its position in the other table.
HasMet(x, base, seq, i, acc) == acc = IF i < x THEN base ELSE CombineRow(base, seq[x])
CombiningDistinct == INSTANCE FoldTheorems WITH Op <- CombineNext, Holds <- HasMet

\* A row is combined with the one of its move only (combineUCBTables).
LEMMA CombinedWithItsOwn ==
  ASSUME NEW S, NEW rows \in Seq(S), NEW r, NEW k \in 1..Len(rows),
         \A i \in 1..Len(rows) : rows[i].pos = r.pos <=> i = k
  PROVE  FoldLeft(CombineRow, r, rows) = CombineRow(r, rows[k])
<1>1. FoldLeft(CombineRow, r, rows) = CombiningDistinct!Folded(k, r, rows)
  BY Zenon DEF CombiningDistinct!Folded, CombineNext, FoldLeft, MapThenFoldSet, Max,
               CombiningDistinct!FoldLeft, CombiningDistinct!MapThenFoldSet, CombiningDistinct!Max
<1>2. HasMet(k, r, rows, 0, r)
  BY DEF HasMet
<1>3. ASSUME NEW i \in 1..Len(rows), NEW acc, HasMet(k, r, rows, i - 1, acc)
      PROVE  HasMet(k, r, rows, i, CombineNext(acc, k, rows[i]))
  <2>1. acc = IF i - 1 < k THEN r ELSE CombineRow(r, rows[k])
    BY <1>3 DEF HasMet
  <2>2. acc.pos = r.pos
    BY <2>1 DEF CombineRow
  <2>3. i # k => CombineRow(acc, rows[i]) = acc
    BY <2>2 DEF CombineRow
  <2>4. CombineRow(acc, rows[i]) = IF i < k THEN r ELSE CombineRow(r, rows[k])
    BY <2>1, <2>3
  <2>5. QED
    BY <2>4 DEF HasMet, CombineNext
<1>4. HasMet(k, r, rows, Len(rows), CombiningDistinct!Folded(k, r, rows))
  <2> HIDE DEF HasMet, CombineNext
  <2> QED BY <1>2, <1>3, CombiningDistinct!FoldInvariant
<1>5. Len(rows) \in Nat /\ ~ (Len(rows) < k)
  OBVIOUS
<1>6. QED
  BY <1>1, <1>4, <1>5 DEF HasMet

-----------------------------------------------------------------------------
\* A slave's options and its search, updated.

\* e_randmoves adds candidates.
LEMMA RandMovesEngine ==
  ASSUME NEW e \in Engines, NEW ms \in Seq(Moves)
  PROVE  LET t == E_randmoves(e, ms)
         IN  /\ t \in Engines
             /\ t.preselRandMoves = e.preselRandMoves \o ms
             /\ t.aiType = e.aiType /\ t.timeAlloc = e.timeAlloc /\ t.simulations = e.simulations
<1>1. PICK m \in Seq(Moves) : m = e.preselRandMoves \o ms
  BY ConcatProperties DEF Engines
<1>2. [e EXCEPT !.preselRandMoves = m] \in Engines
  BY DEF Engines
<1>3. E_randmoves(e, ms) = [e EXCEPT !.preselRandMoves = m]
  BY <1>1, Zenon DEF E_randmoves
<1>4. QED
  BY <1>1, <1>2, <1>3 DEF Engines

\* e_useai sets the AI and the time or the number of simulations.
LEMMA UseaiEngine ==
  ASSUME NEW e \in Engines, NEW ai \in AiType, NEW opt, NEW value \in Int,
         opt = "s" => value \in Nat \ {0}
  PROVE  LET t == E_useai(e, ai, opt, value)
         IN  /\ t \in Engines
             /\ t.preselRandMoves = e.preselRandMoves
             /\ t.aiType = ai
             /\ ai # "RAN" /\ opt = "t" => t.timeAlloc = value
<1>1. PICK a \in Int : a = IF ai # "RAN" /\ opt = "t" THEN value ELSE e.timeAlloc
  BY DEF Engines
<1>2. PICK n \in Nat \ {0} : n = IF ai # "RAN" /\ opt = "s" THEN value ELSE e.simulations
  BY DEF Engines
<1> DEFINE x == [e EXCEPT !.aiType = ai]
           y == [x EXCEPT !.timeAlloc = a]
           z == [y EXCEPT !.simulations = n]
<1>3. x \in Engines
  BY DEF Engines
<1>4. y \in Engines
  <2> HIDE DEF x
  <2> QED BY <1>3 DEF Engines
<1>5. z \in Engines
  <2> HIDE DEF y
  <2> QED BY <1>4 DEF Engines
<1>6. E_useai(e, ai, opt, value) = [e EXCEPT !.aiType = ai, !.timeAlloc = a, !.simulations = n]
  BY <1>1, <1>2, Zenon DEF E_useai
<1>7. QED
  BY <1>1, <1>5, <1>6 DEF Engines

\* An answer takes the candidates away, but not from a random engine.
LEMMA AnsweredEngine ==
  ASSUME NEW e \in Engines
  PROVE  /\ Answered(e) \in Engines
         /\ e.aiType # "RAN" => Answered(e).preselRandMoves = <<>>
         /\ Answered(e).aiType = e.aiType /\ Answered(e).timeAlloc = e.timeAlloc
<1>0. <<>> \in Seq(Moves)
  OBVIOUS
<1>1. PICK m \in Seq(Moves) : m = <<>>
  BY <1>0, Zenon
<1>2. [e EXCEPT !.preselRandMoves = m] \in Engines
  BY DEF Engines
<1>3. Answered(e) = IF e.aiType = "RAN" THEN e ELSE [e EXCEPT !.preselRandMoves = m]
  BY <1>1, Zenon DEF Answered
<1>4. QED
  BY <1>1, <1>2, <1>3 DEF Engines

\* What the slaves are told is an AI, an option and a value for it.
LEMMA OptionsType ==
  ASSUME TypeOK
  PROVE  /\ Options.ai \in AiType /\ Options.value \in Int
         /\ Options.opt = "s" => Options.value \in Nat \ {0}
         /\ clock.isActive =>
              Options.opt = "t"
                /\ Options.value = GetTimeRemainingForMove(clock) - GO_TIME_PROCESSING_BUFFER
<1> DEFINE c == GetTimeRemainingForMove(clock)
<1>1. config \in [ai : AiType, opt : {"s", "t"}, value : Nat \ {0}, random : Nat]
  BY ConfigsAssumption DEF TypeOK
<1>2. CASE clock.isActive
  <2>1. Options = [ai |-> config.ai, opt |-> "t", value |-> c - GO_TIME_PROCESSING_BUFFER]
    BY <1>2, Zenon DEF Options
  <2>2. c \in Int
    BY <1>2 DEF TypeOK, Clocks, GetTimeRemainingForMove, GO_TIME_NOT_ACTIVE
  <2> HIDE DEF c
  <2>3. QED
    BY <1>1, <1>2, <2>1, <2>2 DEF GO_TIME_PROCESSING_BUFFER, c
<1>3. CASE ~ clock.isActive
  <2>1. Options = config
    BY <1>3, Zenon DEF Options
  <2>2. QED
    BY <1>1, <1>3, <2>1
<1>4. QED
  BY <1>2, <1>3

\* A field at a time.
LEMMA SearchFields ==
  ASSUME NEW r \in Searches
  PROVE  /\ \A v \in {"idle", "asked", "first", "loop", "done", "dead"} :
              [r EXCEPT !.stage = v] \in Searches
         /\ \A v \in Seq(Moves) : [r EXCEPT !.moves = v] \in Searches
         /\ \A v \in Seq(Nat) : [r EXCEPT !.games = v] \in Searches
         /\ \A v \in Seq(Nat) : [r EXCEPT !.wins = v] \in Searches
         /\ \A v \in Nat : [r EXCEPT !.next = v] \in Searches
         /\ \A v \in Int : [r EXCEPT !.over = v] \in Searches
         /\ \A v \in BOOLEAN : [r EXCEPT !.playUntilStopped = v] \in Searches
<1>1. \A v \in {"idle", "asked", "first", "loop", "done", "dead"} : [r EXCEPT !.stage = v] \in Searches
  BY DEF Searches
<1>2. \A v \in Seq(Moves) : [r EXCEPT !.moves = v] \in Searches
  BY DEF Searches
<1>3. \A v \in Seq(Nat) : [r EXCEPT !.games = v] \in Searches
  BY DEF Searches
<1>4. \A v \in Seq(Nat) : [r EXCEPT !.wins = v] \in Searches
  BY DEF Searches
<1>5. \A v \in Nat : [r EXCEPT !.next = v] \in Searches
  BY DEF Searches
<1>6. \A v \in Int : [r EXCEPT !.over = v] \in Searches
  BY DEF Searches
<1>7. \A v \in BOOLEAN : [r EXCEPT !.playUntilStopped = v] \in Searches
  BY DEF Searches
<1>8. QED
  BY <1>1, <1>2, <1>3, <1>4, <1>5, <1>6, <1>7, Zenon

\* The updates of the actions.
Asked           == [NoSearch EXCEPT !.stage = "asked"]
Dead            == [NoSearch EXCEPT !.stage = "dead"]
Loaded(m, g, w) == [NoSearch EXCEPT !.stage = "first", !.moves = m, !.games = g, !.wins = w, !.next = 1]
Played(m, g, w) == [NoSearch EXCEPT !.stage = "done", !.moves = m, !.games = g, !.wins = w]
Scored(r, g, w) == [r EXCEPT !.games = g, !.wins = w]
Reset(r, v)     == [r EXCEPT !.next = 0, !.over = v]
ToLoop(r, v)    == [r EXCEPT !.stage = "loop", !.next = 0, !.over = v]
Ended(r)        == [r EXCEPT !.stage = "done", !.over = 0, !.playUntilStopped = TRUE]

\* They give searches, whose fields are what they say.
LEMMA NewSearches ==
  /\ NoSearch \in Searches /\ NoSearch.stage = "idle"
  /\ Asked \in Searches /\ Asked.stage = "asked"
  /\ Dead \in Searches /\ Dead.stage = "dead"
<1>1. NoSearch \in Searches
  BY DEF NoSearch, Searches
<1>2. Asked \in Searches /\ Dead \in Searches
  BY <1>1, SearchFields, Zenon DEF Asked, Dead
<1>3. QED
  BY <1>1, <1>2 DEF Asked, Dead, NoSearch

\* A search that starts, and one that MonteCarlo has finished.
LEMMA FilledSearches ==
  ASSUME NEW m \in Seq(Moves), NEW g \in Seq(Nat), NEW w \in Seq(Nat)
  PROVE  /\ Loaded(m, g, w) \in Searches
         /\ Loaded(m, g, w).stage = "first" /\ Loaded(m, g, w).moves = m
         /\ Loaded(m, g, w).games = g /\ Loaded(m, g, w).wins = w
         /\ Loaded(m, g, w).next = 1 /\ Loaded(m, g, w).playUntilStopped
         /\ Played(m, g, w) \in Searches
         /\ Played(m, g, w).stage = "done" /\ Played(m, g, w).moves = m
         /\ Played(m, g, w).games = g /\ Played(m, g, w).wins = w
<1>1. 1 \in Nat
  OBVIOUS
<1>2. [[[[[NoSearch EXCEPT !.stage = "first"] EXCEPT !.moves = m] EXCEPT !.games = g]
         EXCEPT !.wins = w] EXCEPT !.next = 1] \in Searches
  BY <1>1, NewSearches, SearchFields, Zenon
<1>3. [[[[NoSearch EXCEPT !.stage = "done"] EXCEPT !.moves = m] EXCEPT !.games = g]
         EXCEPT !.wins = w] \in Searches
  BY NewSearches, SearchFields, Zenon
<1>4. Loaded(m, g, w) \in Searches
  BY <1>2 DEF Loaded
<1>5. Played(m, g, w) \in Searches
  BY <1>3 DEF Played
<1>6. QED
  BY <1>4, <1>5 DEF Loaded, Played, NoSearch

\* A search that goes on.
LEMMA ScoredSearch ==
  ASSUME NEW r \in Searches, NEW g \in Seq(Nat), NEW w \in Seq(Nat)
  PROVE  LET q == Scored(r, g, w)
         IN  /\ q \in Searches /\ q.games = g /\ q.wins = w
             /\ q.stage = r.stage /\ q.moves = r.moves /\ q.next = r.next
             /\ q.over = r.over /\ q.playUntilStopped = r.playUntilStopped
<1>1. [[r EXCEPT !.games = g] EXCEPT !.wins = w] \in Searches
  BY SearchFields, Zenon
<1>2. QED
  BY <1>1 DEF Scored, Searches

\* The loop goes on after a simulation.
LEMMA ResetSearch ==
  ASSUME NEW r \in Searches, NEW v \in Int
  PROVE  LET q == Reset(r, v)
         IN  /\ q \in Searches /\ q.next = 0 /\ q.over = v
             /\ q.stage = r.stage /\ q.moves = r.moves /\ q.games = r.games /\ q.wins = r.wins
             /\ q.playUntilStopped = r.playUntilStopped
<1>1. 0 \in Nat
  OBVIOUS
<1>2. [[r EXCEPT !.next = 0] EXCEPT !.over = v] \in Searches
  BY <1>1, SearchFields, Zenon
<1>3. QED
  BY <1>2 DEF Reset, Searches

\* The loop begins.
LEMMA LoopSearch ==
  ASSUME NEW r \in Searches, NEW v \in Int
  PROVE  LET q == ToLoop(r, v)
         IN  /\ q \in Searches /\ q.stage = "loop" /\ q.next = 0 /\ q.over = v
             /\ q.moves = r.moves /\ q.games = r.games /\ q.wins = r.wins
             /\ q.playUntilStopped = r.playUntilStopped
<1>1. 0 \in Nat
  OBVIOUS
<1>2. [[[r EXCEPT !.stage = "loop"] EXCEPT !.next = 0] EXCEPT !.over = v] \in Searches
  BY <1>1, SearchFields, Zenon
<1>3. QED
  BY <1>2 DEF ToLoop, Searches

\* The search is over.
LEMMA EndedSearch ==
  ASSUME NEW r \in Searches
  PROVE  /\ Ended(r) \in Searches /\ Ended(r).stage = "done"
         /\ Ended(r).moves = r.moves /\ Ended(r).games = r.games /\ Ended(r).wins = r.wins
<1>1. 0 \in Int /\ TRUE \in BOOLEAN
  OBVIOUS
<1>2. [[[r EXCEPT !.stage = "done"] EXCEPT !.over = 0] EXCEPT !.playUntilStopped = TRUE]
        \in Searches
  BY <1>1, SearchFields, Zenon
<1>3. QED
  BY <1>2 DEF Ended, Searches

\* A number of a sequence, raised.
LEMMA RaiseAt ==
  ASSUME NEW c \in Seq(Nat), NEW k \in 1..Len(c), NEW d \in Nat, NEW t, t = [c EXCEPT ![k] = @ + d]
  PROVE  /\ t \in Seq(Nat) /\ Len(t) = Len(c)
         /\ \A j \in 1..Len(c) : t[j] = IF j = k THEN c[j] + d ELSE c[j]
<1>1. c \in [1..Len(c) -> Nat] /\ Len(c) \in Nat
  BY LenProperties
<1>2. t \in [1..Len(c) -> Nat]
  BY <1>1
<1>3. t \in Seq(Nat)
  BY <1>1, <1>2, SeqDef
<1>4. Len(t) = Len(c)
  BY <1>1, <1>2, <1>3, LenProperties
<1>5. QED
  BY <1>1, <1>3, <1>4

\* What a simulation changes in a search.
LEMMA OutcomesType ==
  ASSUME NEW s, NEW r \in Searches, r = search[s], NEW o \in Outcomes(s),
         r.next \in 1..Len(r.games), r.next \in 1..Len(r.wins)
  PROVE  /\ o \in Searches
         /\ o.stage = r.stage /\ o.moves = r.moves /\ o.next = r.next /\ o.over = r.over
         /\ o.playUntilStopped = r.playUntilStopped
         /\ Len(o.games) = Len(r.games) /\ Len(o.wins) = Len(r.wins)
         /\ \A j \in 1..Len(r.games) :
              o.games[j] = IF j = r.next THEN r.games[j] + 1 ELSE r.games[j]
         /\ \A j \in 1..Len(r.wins) : r.moves[j] = PassMove => o.wins[j] = r.wins[j]
<1>0. r.moves[r.next] # PassMove
  BY DEF Outcomes
<1>1. PICK w \in {0, 1} : o = Scored(r, [r.games EXCEPT ![r.next] = @ + 1],
                                        [r.wins EXCEPT ![r.next] = @ + w])
  BY DEF Outcomes, Scored
<1>2. PICK g : g = [r.games EXCEPT ![r.next] = @ + 1]
  OBVIOUS
<1>3. PICK v : v = [r.wins EXCEPT ![r.next] = @ + w]
  OBVIOUS
<1>4. r.games \in Seq(Nat) /\ r.wins \in Seq(Nat)
  BY DEF Searches
<1>5. /\ g \in Seq(Nat) /\ Len(g) = Len(r.games)
      /\ \A j \in 1..Len(r.games) : g[j] = IF j = r.next THEN r.games[j] + 1 ELSE r.games[j]
  <2>1. r.games \in [1..Len(r.games) -> Nat]
    BY <1>4, LenProperties
  <2>2. \A j \in 1..Len(r.games) : g[j] = IF j = r.next THEN r.games[j] + 1 ELSE r.games[j]
    BY <1>2, <2>1
  <2>3. 1 \in Nat
    OBVIOUS
  <2>4. g \in Seq(Nat) /\ Len(g) = Len(r.games)
    BY <1>2, <1>4, <2>3, RaiseAt, SMTT(30)
  <2>5. QED
    BY <2>2, <2>4
<1>6. /\ v \in Seq(Nat) /\ Len(v) = Len(r.wins)
      /\ \A j \in 1..Len(r.wins) : j # r.next => v[j] = r.wins[j]
  <2>1. w \in Nat
    OBVIOUS
  <2>2. v \in Seq(Nat) /\ Len(v) = Len(r.wins)
    BY <1>3, <1>4, <2>1, RaiseAt, SMTT(30)
  <2>3. r.wins \in [1..Len(r.wins) -> Nat]
    BY <1>4, LenProperties
  <2>4. \A j \in 1..Len(r.wins) : j # r.next => v[j] = r.wins[j]
    BY <1>3, <2>3
  <2>5. QED
    BY <2>2, <2>4
<1>7. o = Scored(r, g, v)
  BY <1>1, <1>2, <1>3, Zenon
<1>8. /\ o \in Searches /\ o.games = g /\ o.wins = v
      /\ o.stage = r.stage /\ o.moves = r.moves /\ o.next = r.next
      /\ o.over = r.over /\ o.playUntilStopped = r.playUntilStopped
  <2>1. g \in Seq(Nat) /\ v \in Seq(Nat)
    BY <1>5, <1>6
  <2>2. QED
    BY <1>7, <2>1, ScoredSearch
<1>9. QED
  BY <1>0, <1>5, <1>6, <1>8

-----------------------------------------------------------------------------
\* What the steps of a slave do to its search.

\* What the invariant says of a slave.
LEMMA SlaveFacts ==
  ASSUME TypeInv, NEW s \in Slaves
  PROVE  /\ search[s] \in Searches /\ engine[s] \in Engines
         /\ moves \in Seq(Moves) /\ Len(moves) \in Nat /\ DOMAIN moves = 1..Len(moves)
         /\ search[s].stage \in {"asked", "first", "loop"} => engine[s].preselRandMoves = moves
         /\ search[s].stage \in {"first", "loop", "done"} =>
              /\ search[s].moves = moves
              /\ Len(search[s].games) = Len(moves) /\ Len(search[s].wins) = Len(moves)
              /\ \A i \in 1..Len(moves) : moves[i] = PassMove => search[s].wins[i] = 0
BY LenProperties DEF TypeInv, TypeOK, SearchesKept, SlaveKept

\* A search starts with the first candidate, or there is none and the slave dies.
LEMMA StartForm ==
  ASSUME TypeInv, NEW s \in Slaves, StartUCB(s)
  PROVE  \/ search' = [search EXCEPT ![s] = Dead] /\ timers' = [timers EXCEPT ![s] = {}]
              /\ spare' = spare
         \/ \E q \in Searches :
              /\ search' = [search EXCEPT ![s] = q]
              /\ q.stage = "first" /\ q.moves = moves /\ q.next = 1 /\ q.playUntilStopped
              /\ Len(moves) > 0 /\ Len(q.games) = Len(moves) /\ Len(q.wins) = Len(moves)
              /\ \A i \in 1..Len(moves) : q.wins[i] = 0
              /\ timers' = [timers EXCEPT ![s] = IF engine[s].timeAlloc >= 0
                                                THEN timers[s] \cup {number} ELSE timers[s]]
              /\ spare' = [spare EXCEPT ![s] = IF engine[s].simulations <= Len(moves)
                                              THEN spare[s] \cup {number} ELSE spare[s]]
<1> DEFINE n == Len(moves)
           z == [i \in 1..n |-> 0]
           q == Loaded(moves, z, z)
<1>1. engine[s].preselRandMoves = moves /\ moves \in Seq(Moves) /\ n \in Nat
  BY SlaveFacts DEF StartUCB
<1>2. z \in Seq(Nat) /\ Len(z) = n /\ \A i \in 1..n : z[i] = 0
  BY <1>1
<1>3. CASE n = 0
  BY <1>1, <1>3, Zenon DEF StartUCB, Dies, Dead
<1>4. CASE n # 0
  <2>1. /\ search' = [search EXCEPT ![s] = q]
        /\ timers' = [timers EXCEPT ![s] = IF engine[s].timeAlloc >= 0
                                          THEN timers[s] \cup {number} ELSE timers[s]]
        /\ spare' = [spare EXCEPT ![s] = IF engine[s].simulations <= n
                                        THEN spare[s] \cup {number} ELSE spare[s]]
    BY <1>1, <1>4, Zenon DEF StartUCB, Loaded
  <2> HIDE DEF z
  <2>2. /\ q \in Searches /\ q.stage = "first" /\ q.moves = moves /\ q.next = 1
        /\ q.playUntilStopped /\ q.games = z /\ q.wins = z
    BY <1>1, <1>2, FilledSearches
  <2> HIDE DEF q
  <2>3. /\ Len(moves) > 0 /\ Len(q.games) = Len(moves) /\ Len(q.wins) = Len(moves)
        /\ \A i \in 1..Len(moves) : q.wins[i] = 0
    BY <1>1, <1>2, <1>4, <2>2
  <2>4. QED
    BY <2>1, <2>2, <2>3, Zenon
<1>5. QED
  BY <1>3, <1>4

\* A candidate is played, of the first plays or of the loop.
LEMMA PlayedOutcome ==
  ASSUME TypeInv, NEW s \in Slaves, Searching(s), search[s].next # 0, NEW o \in Outcomes(s)
  PROVE  LET r == search[s]
         IN  /\ o \in Searches
             /\ o.stage = r.stage /\ o.moves = moves /\ o.next = r.next /\ o.over = r.over
             /\ o.playUntilStopped = r.playUntilStopped
             /\ Len(o.games) = Len(moves) /\ Len(o.wins) = Len(moves)
             /\ \A j \in 1..Len(moves) :
                  o.games[j] = IF j = r.next THEN r.games[j] + 1 ELSE r.games[j]
             /\ \A j \in 1..Len(moves) : moves[j] = PassMove => o.wins[j] = r.wins[j]
<1>1. /\ search[s] \in Searches /\ search[s].moves = moves
      /\ Len(search[s].games) = Len(moves) /\ Len(search[s].wins) = Len(moves)
  BY SlaveFacts DEF Searching
<1>2. search[s].next \in 1..Len(moves)
  BY <1>1, SlaveFacts DEF TypeInv, SearchesKept, SlaveKept, Searching
<1>3. QED
  BY <1>1, <1>2, OutcomesType

\* After a first play there is the next one, or the loop begins.
LEMMA FirstPlaysForm ==
  ASSUME TypeInv, NEW s \in Slaves, FirstPlays(s)
  PROVE  \E q \in Searches :
           /\ search' = [search EXCEPT ![s] = q]
           /\ q.moves = moves /\ Len(q.games) = Len(moves) /\ Len(q.wins) = Len(moves)
           /\ q.playUntilStopped = search[s].playUntilStopped
           /\ \A j \in 1..Len(moves) :
                q.games[j] = IF j = search[s].next THEN search[s].games[j] + 1 ELSE search[s].games[j]
           /\ \A j \in 1..Len(moves) : moves[j] = PassMove => q.wins[j] = search[s].wins[j]
           /\ \/ search[s].next < Len(moves) /\ q.stage = "first" /\ q.next = search[s].next + 1
              \/ /\ search[s].next >= Len(moves) /\ q.stage = "loop" /\ q.next = 0
                 /\ q.over = engine[s].simulations - Len(moves)
<1>1. search[s].stage = "first"
  BY DEF FirstPlays
<1>2. search[s].next \in 1..Len(moves) /\ Searching(s)
  BY <1>1 DEF TypeInv, SearchesKept, SlaveKept, Searching
<1>3. PICK o \in Outcomes(s) :
         search' = [search EXCEPT ![s] =
                      IF o.next < Len(o.moves) THEN [o EXCEPT !.next = @ + 1]
                      ELSE [o EXCEPT !.stage = "loop", !.next = 0,
                                     !.over = engine[s].simulations - Len(o.moves)]]
  BY Zenon DEF FirstPlays
<1>4. /\ o \in Searches
      /\ o.stage = "first" /\ o.moves = moves /\ o.next = search[s].next
      /\ o.playUntilStopped = search[s].playUntilStopped
      /\ Len(o.games) = Len(moves) /\ Len(o.wins) = Len(moves)
      /\ \A j \in 1..Len(moves) :
           o.games[j] = IF j = search[s].next THEN search[s].games[j] + 1 ELSE search[s].games[j]
      /\ \A j \in 1..Len(moves) : moves[j] = PassMove => o.wins[j] = search[s].wins[j]
  BY <1>1, <1>2, PlayedOutcome
<1>5. Len(moves) \in Nat /\ engine[s].simulations \in Nat
  BY SlaveFacts DEF Engines
<1>6. CASE o.next < Len(moves)
  <2>1. PICK n \in Nat : n = o.next + 1
    BY <1>2, <1>4
  <2>2. PICK q : q = [o EXCEPT !.next = n]
    OBVIOUS
  <2>3. search' = [search EXCEPT ![s] = q]
    BY <1>3, <1>4, <1>6, <2>1, <2>2, Zenon
  <2>4. /\ q \in Searches
        /\ q.stage = o.stage /\ q.moves = o.moves /\ q.games = o.games /\ q.wins = o.wins
        /\ q.next = n /\ q.playUntilStopped = o.playUntilStopped
    BY <1>4, <2>2 DEF Searches
  <2>5. search[s].next < Len(moves) /\ q.stage = "first" /\ q.next = search[s].next + 1
    BY <1>4, <1>6, <2>1, <2>4
  <2>6. /\ q.moves = moves /\ Len(q.games) = Len(moves) /\ Len(q.wins) = Len(moves)
        /\ q.playUntilStopped = search[s].playUntilStopped
        /\ \A j \in 1..Len(moves) :
             q.games[j] = IF j = search[s].next THEN search[s].games[j] + 1 ELSE search[s].games[j]
        /\ \A j \in 1..Len(moves) : moves[j] = PassMove => q.wins[j] = search[s].wins[j]
    BY <1>4, <2>4
  <2>7. QED
    BY <2>3, <2>4, <2>5, <2>6
<1>7. CASE ~ (o.next < Len(moves))
  <2>1. PICK v \in Int : v = engine[s].simulations - Len(moves)
    BY <1>5
  <2>2. PICK q : q = ToLoop(o, v)
    OBVIOUS
  <2>3. search' = [search EXCEPT ![s] = q]
    BY <1>3, <1>4, <1>7, <2>1, <2>2, Zenon DEF ToLoop
  <2>4. /\ q \in Searches
        /\ q.stage = "loop" /\ q.moves = o.moves /\ q.games = o.games /\ q.wins = o.wins
        /\ q.next = 0 /\ q.over = v /\ q.playUntilStopped = o.playUntilStopped
    BY <1>4, <2>2, LoopSearch, ZenonT(40)
  <2>5. search[s].next >= Len(moves)
    BY <1>2, <1>4, <1>5, <1>7
  <2>6. /\ q.moves = moves /\ Len(q.games) = Len(moves) /\ Len(q.wins) = Len(moves)
        /\ q.playUntilStopped = search[s].playUntilStopped
        /\ \A j \in 1..Len(moves) :
             q.games[j] = IF j = search[s].next THEN search[s].games[j] + 1 ELSE search[s].games[j]
        /\ \A j \in 1..Len(moves) : moves[j] = PassMove => q.wins[j] = search[s].wins[j]
    BY <1>4, <2>4
  <2>7. QED
    BY <2>1, <2>3, <2>4, <2>5, <2>6
<1>8. QED
  BY <1>6, <1>7

\* The loop has a candidate to simulate...
LEMMA SelectForm ==
  ASSUME TypeInv, NEW s \in Slaves, SelectCandidate(s)
  PROVE  \E q \in Searches :
           /\ search' = [search EXCEPT ![s] = q]
           /\ q.stage = "loop" /\ q.moves = moves /\ q.next \in 1..Len(moves)
           /\ q.games = search[s].games /\ q.wins = search[s].wins /\ q.over = search[s].over
           /\ q.playUntilStopped = search[s].playUntilStopped
<1>1. search[s].stage = "loop"
  BY DEF SelectCandidate
<1>2. search[s] \in Searches /\ search[s].moves = moves /\ DOMAIN moves = 1..Len(moves)
      /\ Len(moves) \in Nat
  BY <1>1, SlaveFacts
<1>3. PICK i \in Promising(search[s]) : search' = [search EXCEPT ![s].next = i]
  BY Zenon DEF SelectCandidate
<1>4. i \in 1..Len(moves)
  BY <1>2, Zenon DEF Promising
<1> DEFINE q == [search[s] EXCEPT !.next = i]
<1>5. search' = [search EXCEPT ![s] = q]
  BY <1>3
<1>6. PICK r \in Searches : r = search[s]
  BY <1>2
<1>7. PICK n \in Nat : n = i
  BY <1>4
<1>8. q = [r EXCEPT !.next = n]
  BY <1>6, <1>7, Zenon
<1>9. /\ q \in Searches /\ q.stage = "loop" /\ q.moves = moves /\ q.next = i
      /\ q.games = search[s].games /\ q.wins = search[s].wins /\ q.over = search[s].over
      /\ q.playUntilStopped = search[s].playUntilStopped
  <2> HIDE DEF q
  <2>1. /\ q \in Searches /\ q.stage = r.stage /\ q.moves = r.moves /\ q.next = n
        /\ q.games = r.games /\ q.wins = r.wins /\ q.over = r.over
        /\ q.playUntilStopped = r.playUntilStopped
    BY <1>8 DEF Searches
  <2>2. QED
    BY <1>1, <1>2, <1>6, <1>7, <2>1
<1> HIDE DEF q
<1>10. QED
  BY <1>4, <1>5, <1>9

\* ... and has simulated it.
LEMMA SimulateForm ==
  ASSUME TypeInv, NEW s \in Slaves, SimulateNext(s)
  PROVE  \E q \in Searches :
           /\ search' = [search EXCEPT ![s] = q]
           /\ q.stage = "loop" /\ q.moves = moves /\ q.next = 0
           /\ Len(q.games) = Len(moves) /\ Len(q.wins) = Len(moves)
           /\ \A j \in 1..Len(moves) : search[s].games[j] > 0 => q.games[j] > 0
           /\ \A j \in 1..Len(moves) : moves[j] = PassMove => q.wins[j] = search[s].wins[j]
           /\ q.over = IF search[s].playUntilStopped THEN search[s].over ELSE search[s].over - 1
           /\ q.playUntilStopped = search[s].playUntilStopped
<1> DEFINE r == search[s]
<1>1. r.stage = "loop" /\ r.next # 0 /\ Searching(s)
  BY DEF SimulateNext, Searching
<1>2. /\ r \in Searches /\ r.moves = moves /\ DOMAIN moves = 1..Len(moves)
      /\ Len(r.games) = Len(moves) /\ Len(r.wins) = Len(moves)
  BY <1>1, SlaveFacts
<1>3. PICK o \in Outcomes(s) :
        search' = [search EXCEPT ![s] =
                     [Counted(s, o) EXCEPT !.next = 0,
                                           !.over = IF o.playUntilStopped THEN @ ELSE @ - 1]]
  BY Zenon DEF SimulateNext
<1>4. /\ o \in Searches
      /\ o.stage = "loop" /\ o.moves = moves /\ o.over = r.over
      /\ o.playUntilStopped = r.playUntilStopped
      /\ Len(o.games) = Len(moves) /\ Len(o.wins) = Len(moves)
      /\ \A j \in 1..Len(moves) : o.games[j] = IF j = r.next THEN r.games[j] + 1 ELSE r.games[j]
      /\ \A j \in 1..Len(moves) : moves[j] = PassMove => o.wins[j] = r.wins[j]
  BY <1>1, PlayedOutcome
<1>5. r.games \in Seq(Nat) /\ r.wins \in Seq(Nat) /\ r.over \in Int
  BY <1>2 DEF Searches
<1>6. /\ \A j \in 1..Len(moves) : r.games[j] > 0 => o.games[j] > 0
  <2>1. \A j \in 1..Len(moves) : r.games[j] \in Nat
    BY <1>2, <1>5
  <2> HIDE DEF r
  <2>2. QED
    BY <1>4, <2>1
<1>7. PICK c : c = Counted(s, o)
  OBVIOUS
<1>8. /\ c \in Searches
      /\ c.stage = "loop" /\ c.moves = moves /\ c.over = r.over
      /\ c.playUntilStopped = r.playUntilStopped
      /\ Len(c.games) = Len(moves) /\ Len(c.wins) = Len(moves)
      /\ \A j \in 1..Len(moves) : r.games[j] > 0 => c.games[j] > 0
      /\ \A j \in 1..Len(moves) : moves[j] = PassMove => c.wins[j] = r.wins[j]
  <2>1. CASE c = o
    BY <1>4, <1>6, <2>1
  <2>2. CASE c = Scored(o, r.games, r.wins)
    <3>1. /\ c \in Searches /\ c.games = r.games /\ c.wins = r.wins
          /\ c.stage = o.stage /\ c.moves = o.moves /\ c.over = o.over
          /\ c.playUntilStopped = o.playUntilStopped
      BY <1>4, <1>5, <2>2, ScoredSearch
    <3>2. QED
      BY <1>2, <1>4, <3>1
  <2>3. c = o \/ c = Scored(o, r.games, r.wins)
    BY <1>7, Zenon DEF Counted, Scored
  <2>4. QED
    BY <2>1, <2>2, <2>3
<1>9. PICK v \in Int : v = IF o.playUntilStopped THEN r.over ELSE r.over - 1
  BY <1>5
<1>10. search' = [search EXCEPT ![s] = Reset(c, v)]
  <2>1. v = IF o.playUntilStopped THEN c.over ELSE c.over - 1
    BY <1>8, <1>9
  <2>2. QED
    BY <1>3, <1>7, <2>1, Zenon DEF Reset
<1>11. /\ Reset(c, v) \in Searches /\ Reset(c, v).next = 0 /\ Reset(c, v).over = v
       /\ Reset(c, v).stage = c.stage /\ Reset(c, v).moves = c.moves
       /\ Reset(c, v).games = c.games /\ Reset(c, v).wins = c.wins
       /\ Reset(c, v).playUntilStopped = c.playUntilStopped
  BY <1>8, ResetSearch
<1> DEFINE q == Reset(c, v)
<1>12. /\ q.stage = "loop" /\ q.moves = moves /\ q.next = 0
       /\ Len(q.games) = Len(moves) /\ Len(q.wins) = Len(moves)
       /\ \A j \in 1..Len(moves) : r.games[j] > 0 => q.games[j] > 0
       /\ \A j \in 1..Len(moves) : moves[j] = PassMove => q.wins[j] = r.wins[j]
  BY <1>8, <1>11, Zenon
<1>13. /\ q.over = IF r.playUntilStopped THEN r.over ELSE r.over - 1
       /\ q.playUntilStopped = r.playUntilStopped
  BY <1>4, <1>8, <1>9, <1>11, Zenon
<1> HIDE DEF r, q
<1>14. q \in Searches /\ search' = [search EXCEPT ![s] = q]
  BY <1>10, <1>11, Zenon DEF q
<1>15. QED
  BY <1>12, <1>13, <1>14, Zenon DEF r

\* The search ends, and the options are those after an answer.
LEMMA EndForm ==
  ASSUME TypeInv, NEW s \in Slaves, EndUCB(s)
  PROVE  \E q \in Searches, e \in Engines :
           /\ search' = [search EXCEPT ![s] = q] /\ engine' = [engine EXCEPT ![s] = e]
           /\ q.stage = "done" /\ q.moves = moves
           /\ Len(q.games) = Len(moves) /\ Len(q.wins) = Len(moves)
           /\ q.wins = search[s].wins /\ \A i \in 1..Len(moves) : q.games[i] > 0
           /\ e.preselRandMoves = <<>>
<1>1. search[s].stage = "loop"
  BY DEF EndUCB
<1>2. /\ search[s] \in Searches /\ search[s].moves = moves
      /\ Len(search[s].games) = Len(moves) /\ Len(search[s].wins) = Len(moves)
      /\ engine[s] \in Engines
  BY <1>1, SlaveFacts
<1>3. engine[s].aiType = "UCB" /\ \A i \in 1..Len(moves) : search[s].games[i] > 0
  BY <1>1 DEF TypeInv, SearchesKept, SlaveKept
<1>4. PICK q : q = Ended(search[s])
  OBVIOUS
<1>5. PICK e : e = Answered(engine[s])
  OBVIOUS
<1>6. search' = [search EXCEPT ![s] = q] /\ engine' = [engine EXCEPT ![s] = e]
  BY <1>4, <1>5, Zenon DEF EndUCB, Ended
<1>7. /\ q \in Searches /\ q.stage = "done" /\ q.moves = search[s].moves
      /\ q.games = search[s].games /\ q.wins = search[s].wins
  BY <1>2, <1>4, EndedSearch
<1>8. e \in Engines /\ e.preselRandMoves = <<>>
  BY <1>2, <1>3, <1>5, AnsweredEngine
<1>9. QED
  BY <1>2, <1>3, <1>6, <1>7, <1>8

\* MonteCarlo searches at once, or dies.
LEMMA MonteForm ==
  ASSUME TypeInv, NEW s \in Slaves, MonteCarlo(s)
  PROVE  \/ /\ search' = [search EXCEPT ![s] = Dead] /\ timers' = [timers EXCEPT ![s] = {}]
            /\ engine' = engine
         \/ \E q \in Searches, e \in Engines :
              /\ search' = [search EXCEPT ![s] = q] /\ engine' = [engine EXCEPT ![s] = e]
              /\ q.stage = "done" /\ q.moves = moves
              /\ Len(q.games) = Len(moves) /\ Len(q.wins) = Len(moves)
              /\ \A i \in 1..Len(moves) : q.games[i] > 0 /\ (moves[i] = PassMove => q.wins[i] = 0)
              /\ e.preselRandMoves = <<>>
              /\ timers' = timers
<1> DEFINE n == Len(moves)
           k == engine[s].simulations
           each == IF n = 0 THEN 0 ELSE k \div n
<1>1. engine[s].preselRandMoves = moves /\ engine[s].aiType = "MC"
  BY SlaveFacts DEF MonteCarlo
<1>2. /\ moves \in Seq(Moves) /\ n \in Nat /\ engine[s] \in Engines /\ k \in Nat \ {0}
  BY SlaveFacts DEF Engines
<1>3. each \in Int
  <2> HIDE DEF n, k
  <2> QED BY <1>2
<1> HIDE DEF each
<1>4. CASE Dies(s) /\ UNCHANGED engine
  BY <1>4, Zenon DEF Dies, Dead
<1>5. CASE \E wins \in [1..n -> 0..each] :
             /\ search' = [search EXCEPT ![s] =
                             [NoSearch EXCEPT !.stage = "done", !.moves = moves,
                                              !.games = [i \in 1..n |-> k], !.wins = wins]]
             /\ each = 0 \/ PassMove \notin ToSet(moves)
             /\ engine' = [engine EXCEPT ![s] = Answered(engine[s])]
             /\ UNCHANGED timers
  <2>1. PICK w \in [1..n -> 0..each] :
               /\ search' = [search EXCEPT ![s] = Played(moves, [i \in 1..n |-> k], w)]
               /\ each = 0 \/ PassMove \notin ToSet(moves)
               /\ engine' = [engine EXCEPT ![s] = Answered(engine[s])]
               /\ UNCHANGED timers
    BY <1>5, Zenon DEF Played
  <2>2. PICK g : g = [i \in 1..n |-> k]
    OBVIOUS
  <2>3. /\ g \in Seq(Nat) /\ Len(g) = n /\ \A i \in 1..n : g[i] > 0
    <3> HIDE DEF n, k
    <3> QED BY <1>2, <2>2
  <2>4. w \in Seq(Nat) /\ Len(w) = n
    <3> HIDE DEF n, k
    <3>1. w \in [1..n -> Nat]
      BY <1>2, <1>3
    <3>2. w \in Seq(Nat)
      BY <1>2, <3>1, SeqDef
    <3> QED BY <1>2, <3>1, <3>2, LenProperties
  <2>5. PICK q : q = Played(moves, g, w)
    OBVIOUS
  <2>6. PICK e : e = Answered(engine[s])
    OBVIOUS
  <2>7. search' = [search EXCEPT ![s] = q] /\ engine' = [engine EXCEPT ![s] = e]
    BY <2>1, <2>2, <2>5, <2>6, Zenon
  <2>8. q \in Searches /\ q.stage = "done" /\ q.moves = moves /\ q.games = g /\ q.wins = w
    BY <1>2, <2>3, <2>4, <2>5, FilledSearches
  <2>9. e \in Engines /\ e.preselRandMoves = <<>>
    BY <1>1, <1>2, <2>6, AnsweredEngine
  <2>10. \A i \in 1..n : moves[i] = PassMove => w[i] = 0
    <3>1. DOMAIN moves = 1..n
      BY SlaveFacts
    <3> HIDE DEF n, k
    <3>2. \A i \in 1..n : moves[i] \in ToSet(moves)
      BY <3>1, Zenon DEF ToSet
    <3>3. each = 0 => \A i \in 1..n : w[i] = 0
      BY <2>1
    <3>4. QED
      BY <2>1, <3>2, <3>3
  <2>11. QED
    BY <2>1, <2>3, <2>4, <2>7, <2>8, <2>9, <2>10
<1>6. QED
  BY <1>1, <1>4, <1>5, Zenon DEF MonteCarlo, each

\* A timer stops the search there is, or none.
LEMMA TimerForm ==
  ASSUME TypeInv, NEW s \in Slaves, NEW k, TimerFires(s, k)
  PROVE  /\ k \in timers[s] /\ timers' = [timers EXCEPT ![s] = timers[s] \ {k}]
         /\ \/ search' = search /\ (Searching(s) => k # number)
            \/ /\ Searching(s)
               /\ \E q \in Searches :
                    /\ search' = [search EXCEPT ![s] = q]
                    /\ q.stage = search[s].stage /\ q.moves = search[s].moves
                    /\ q.games = search[s].games /\ q.wins = search[s].wins
                    /\ q.next = search[s].next /\ q.over = search[s].over
                    /\ ~ q.playUntilStopped
<1>1. search[s] \in Searches
  BY SlaveFacts
<1>2. k \in timers[s] /\ timers' = [timers EXCEPT ![s] = timers[s] \ {k}]
  BY Zenon DEF TimerFires
<1>3. CASE Searching(s) /\ search' = [search EXCEPT ![s].playUntilStopped = FALSE]
  <2>1. PICK r \in Searches : r = search[s]
    BY <1>1
  <2>2. PICK q : q = [r EXCEPT !.playUntilStopped = FALSE]
    OBVIOUS
  <2>3. search' = [search EXCEPT ![s] = q]
    BY <1>3, <2>1, <2>2
  <2>4. /\ q \in Searches /\ q.stage = r.stage /\ q.moves = r.moves
        /\ q.games = r.games /\ q.wins = r.wins /\ q.next = r.next /\ q.over = r.over
        /\ ~ q.playUntilStopped
    BY <2>2 DEF Searches
  <2>5. QED
    BY <1>2, <1>3, <2>1, <2>3, <2>4
<1>4. CASE search' = search /\ (Searching(s) => k # number)
  BY <1>2, <1>4
<1>5. QED
  BY <1>3, <1>4 DEF TimerFires, Searching

-----------------------------------------------------------------------------
\* Type correctness, with what it needs.

\* A step of slave s that leaves it the search q and the options e.
LEMMA SlaveStepKeeps ==
  ASSUME TypeInv, NEW s \in Slaves, NEW q \in Searches, NEW e \in Engines,
         search' = [search EXCEPT ![s] = q], engine' = [engine EXCEPT ![s] = e],
         UNCHANGED <<config, clock, stage, open, moves, wanted, number, picked, crew, remaining>>,
         timers' \in [Slaves -> SUBSET (1..number)], spare' \in [Slaves -> SUBSET (1..number)],
         SlaveKept(q, e), TableOfMoves',
         s \in crew, stage # "waiting" => q.stage \in {"idle", "dead"}
  PROVE  TypeInv'
<1>1. TypeOK'
  <2>1. search' \in [Slaves -> Searches] /\ engine' \in [Slaves -> Engines]
    BY DEF TypeInv, TypeOK
  <2>2. QED
    BY <2>1 DEF TypeInv, TypeOK
<1>2. \A t \in Slaves : /\ search'[t] = IF t = s THEN q ELSE search[t]
                        /\ engine'[t] = IF t = s THEN e ELSE engine[t]
  BY DEF TypeInv, TypeOK
<1>3. \A t \in Slaves : SlaveKept(search'[t], engine'[t])
  BY <1>2 DEF TypeInv, SearchesKept
<1>4. \A t \in Slaves : SlaveKept(search[t], engine[t])'
  BY <1>3 DEF SlaveKept
<1>5. QED
  BY <1>1, <1>2, <1>4 DEF TypeInv, SearchesKept

\* The initial states.
LEMMA TypeInit == Init => TypeInv
<1> SUFFICES ASSUME Init PROVE TypeInv
  OBVIOUS
<1>1. NewEngine \in Engines /\ NewEngine.preselRandMoves = <<>>
  BY DefaultSimulationsAssumption DEF NewEngine, Engines, AiType, GO_TIME_NOT_ACTIVE
<1>2. NoTimeHandler \in Clocks
  BY DEF NoTimeHandler, Clocks
<1>3. TypeOK
  BY <1>1, <1>2, NewSearches, CrewsAssumption DEF Init, TypeOK, Moves, GO_TIME_NOT_ACTIVE
<1>4. \A s \in Slaves : SlaveKept(search[s], engine[s]) /\ search[s].stage = "idle"
  BY <1>1, NewSearches DEF Init, SlaveKept
<1>5. QED
  BY <1>3, <1>4 DEF Init, TypeInv, SearchesKept, TableOfMoves

\* A report is of a clock.
LEMMA UpdatedClock ==
  ASSUME NEW h \in Clocks, NEW time \in Int, NEW stones \in {0, 1}
  PROVE  /\ UpdateTime(h, time, stones) \in Clocks
         /\ UpdateTime(h, time, stones).isActive
         /\ GetTimeRemainingForMove(UpdateTime(h, time, stones)) = time
<1> DEFINE u == UpdateTime(h, time, stones)
<1>1. PICK n \in Nat : n = stones
  OBVIOUS
<1>2. CASE stones = 0
  <2> DEFINE x == [h EXCEPT !.isActive = TRUE]
             y == [x EXCEPT !.mainTime = time]
             z == [y EXCEPT !.byoyomiStones = 0]
  <2>1. x \in Clocks
    BY DEF Clocks
  <2>2. y \in Clocks
    <3> HIDE DEF x
    <3> QED BY <2>1 DEF Clocks
  <2>3. z \in Clocks
    <3> HIDE DEF y
    <3> QED BY <2>2 DEF Clocks
  <2>4. u = z
    BY <1>2, Zenon DEF UpdateTime
  <2>5. z.isActive /\ z.mainTime = time /\ z.byoyomiStones = 0
    BY DEF Clocks
  <2> HIDE DEF z
  <2>6. QED
    BY <2>3, <2>4, <2>5 DEF GetTimeRemainingForMove
<1>3. CASE stones # 0
  <2> DEFINE x == [h EXCEPT !.isActive = TRUE]
             y == [x EXCEPT !.byoyomiTime = time]
             z == [y EXCEPT !.byoyomiStones = n]
  <2>1. x \in Clocks
    BY DEF Clocks
  <2>2. y \in Clocks
    <3> HIDE DEF x
    <3> QED BY <2>1 DEF Clocks
  <2>3. z \in Clocks
    <3> HIDE DEF y
    <3> QED BY <2>2 DEF Clocks
  <2>4. u = z
    BY <1>1, <1>3 DEF UpdateTime
  <2>5. z.isActive /\ z.byoyomiTime = time /\ z.byoyomiStones # 0
    BY <1>1, <1>3 DEF Clocks
  <2> HIDE DEF z, u
  <2>6. QED
    BY <2>3, <2>4, <2>5 DEF GetTimeRemainingForMove, u
<1>4. QED
  BY <1>2, <1>3

\* The clock is set, reported or reset while nothing is searched.
LEMMA ClockStepKeeps ==
  ASSUME TypeInv, SetClock \/ ReportClock \/ NewGame
  PROVE  TypeInv'
<1>1. clock' \in Clocks /\ remaining' \in Int
  <2>1. CASE SetClock
    BY <2>1, ClockAssumption DEF SetClock, TimeHandler, Clocks
  <2>2. CASE ReportClock
    <3>1. PICK time \in ClockTimes, stones \in {0, 1} :
            clock' = UpdateTime(clock, time, stones) /\ remaining' = time
      BY <2>2, Zenon DEF ReportClock
    <3>2. time \in Int /\ clock \in Clocks
      BY ClockAssumption DEF TypeInv, TypeOK
    <3>3. clock' \in Clocks
      BY <3>1, <3>2, UpdatedClock
    <3>4. QED
      BY <3>1, <3>2, <3>3
  <2>3. CASE NewGame
    BY <2>3 DEF NewGame, NoTimeHandler, Clocks, GO_TIME_NOT_ACTIVE
  <2>4. QED
    BY <2>1, <2>2, <2>3
<1>2. /\ UNCHANGED <<config, stage, open, moves, wanted, number, ucbTable, picked>>
      /\ UNCHANGED <<crew, engine, search, timers, spare>>
  BY DEF SetClock, ReportClock, NewGame, slavevars
<1>3. TypeOK'
  BY <1>1, <1>2 DEF TypeInv, TypeOK
<1>4. SearchesKept' /\ TableOfMoves'
  BY <1>2 DEF TypeInv, SearchesKept, SlaveKept, TableOfMoves
<1>5. QED
  BY <1>3, <1>4 DEF TypeInv

\* Candidates are listed while nothing is searched.
LEMMA ListingKeeps ==
  ASSUME TypeInv, ListLocalMoves \/ AddRandomMove
  PROVE  TypeInv'
<1>1. stage \in {"idle", "listing"} /\ stage' = "listing"
  BY DEF ListLocalMoves, AddRandomMove
<1>2. moves' \in Seq(Moves) /\ open' \subseteq Points /\ wanted' \in Nat
  <2>1. CASE ListLocalMoves
    <3>1. moves' \in Seq(Points) /\ Points \subseteq Moves
      BY <2>1, LocalsAssumption DEF ListLocalMoves, Moves
    <3>2. moves' \in Seq(Moves)
      BY <3>1, SeqMonotonic
    <3>3. config.random \in Nat
      BY ConfigsAssumption DEF TypeInv, TypeOK
    <3>4. QED
      BY <2>1, <3>2, <3>3 DEF ListLocalMoves
  <2>2. CASE AddRandomMove
    <3>1. PICK p \in open \cup {PassMove} : moves' = Append(moves, p)
      BY <2>2 DEF AddRandomMove
    <3>2. p \in Moves /\ moves \in Seq(Moves)
      BY DEF TypeInv, TypeOK, Moves
    <3>3. moves' \in Seq(Moves)
      BY <3>1, <3>2, AppendProperties
    <3>4. QED
      BY <2>2, <3>3 DEF AddRandomMove, TypeInv, TypeOK
  <2>3. QED
    BY <2>1, <2>2
<1>3. picked' \in Moves
  BY DEF ListLocalMoves, AddRandomMove, TypeInv, TypeOK, Moves
<1>4. /\ UNCHANGED <<config, clock, number, crew, engine, search, timers, remaining, spare>>
  BY DEF ListLocalMoves, AddRandomMove, slavevars, history
<1>5. TypeOK'
  BY <1>1, <1>2, <1>3, <1>4 DEF TypeInv, TypeOK
<1>6. SearchesKept'
  <2>1. \A s \in Slaves : search[s].stage \in {"idle", "dead"}
    BY <1>1 DEF TypeInv, SearchesKept
  <2>2. \A s \in Slaves : SlaveKept(search[s], engine[s])'
    BY <1>4, <2>1 DEF TypeInv, SearchesKept, SlaveKept
  <2>3. QED
    BY <1>1, <1>4, <2>1, <2>2 DEF TypeInv, SearchesKept
<1>7. QED
  BY <1>1, <1>5, <1>6 DEF TypeInv, TableOfMoves

\* The slaves are asked: those that are not dead get the candidates.
LEMMA SendForm ==
  ASSUME TypeInv, SendCommand, NEW s \in Slaves
  PROVE  \/ /\ search[s].stage = "idle" /\ s \in crew /\ search'[s] = Asked
            /\ engine'[s] \in Engines /\ engine'[s].preselRandMoves = moves
            /\ engine'[s].aiType = Options.ai
            /\ Options.ai # "RAN" /\ Options.opt = "t" => engine'[s].timeAlloc = Options.value
         \/ /\ search[s].stage = "dead" \/ s \notin crew
            /\ search'[s] = search[s] /\ engine'[s] = engine[s]
<1>1. search[s].stage \in {"idle", "dead"} /\ (s \notin crew => search[s].stage = "idle")
  BY DEF SendCommand, TypeInv, SearchesKept
<1>2. CASE s \in Alive
  <2>1. /\ search'[s] = Asked
        /\ engine'[s] = E_useai(E_randmoves(engine[s], moves), Options.ai, Options.opt, Options.value)
    BY <1>2, Zenon DEF SendCommand, Asked
  <2>2. PICK e : e = E_randmoves(engine[s], moves)
    OBVIOUS
  <2>3. engine[s] \in Engines /\ moves \in Seq(Moves)
    BY SlaveFacts
  <2>4. engine[s].preselRandMoves = <<>>
    BY <1>1, <1>2 DEF Alive, TypeInv, SearchesKept, SlaveKept
  <2>5. e \in Engines /\ e.preselRandMoves = moves
    BY <2>2, <2>3, <2>4, RandMovesEngine, ConcatEmptySeq
  <2>6. Options.ai \in AiType /\ Options.value \in Int /\ (Options.opt = "s" => Options.value \in Nat \ {0})
    BY OptionsType DEF TypeInv
  <2>7. engine'[s] = E_useai(e, Options.ai, Options.opt, Options.value)
    BY <2>1, <2>2, Zenon
  <2>8. /\ engine'[s] \in Engines /\ engine'[s].preselRandMoves = e.preselRandMoves
        /\ engine'[s].aiType = Options.ai
        /\ Options.ai # "RAN" /\ Options.opt = "t" => engine'[s].timeAlloc = Options.value
    BY <2>5, <2>6, <2>7, UseaiEngine
  <2>9. QED
    BY <1>1, <1>2, <2>1, <2>5, <2>8 DEF Alive
<1>3. CASE s \notin Alive
  BY <1>1, <1>3, Zenon DEF SendCommand, Alive
<1>4. QED
  BY <1>2, <1>3

\* All the slaves are asked at once.
LEMMA SendKeeps ==
  ASSUME TypeInv, SendCommand
  PROVE  TypeInv'
<1>1. \A s \in Slaves :
        /\ search'[s] \in Searches /\ engine'[s] \in Engines
        /\ search'[s].stage \in {"idle", "asked", "dead"}
        /\ s \notin crew => search'[s].stage = "idle"
        /\ search'[s].stage = "asked" => engine'[s].preselRandMoves = moves
        /\ search'[s].stage = "idle" => engine'[s].preselRandMoves = <<>>
  <2>1. TAKE s \in Slaves
  <2>2. search[s] \in Searches /\ engine[s] \in Engines
    BY SlaveFacts
  <2>3. search[s].stage \in {"idle", "dead"} /\ (s \notin crew => search[s].stage = "idle")
    BY DEF SendCommand, TypeInv, SearchesKept
  <2>4. search[s].stage = "idle" => engine[s].preselRandMoves = <<>>
    BY DEF TypeInv, SearchesKept, SlaveKept
  <2>5. QED
    BY <2>2, <2>3, <2>4, SendForm, NewSearches
<1>2. \E f, g : search' = [s \in Slaves |-> f[s]] /\ engine' = [s \in Slaves |-> g[s]]
  <2>1. search' = [s \in Slaves |-> search'[s]] /\ engine' = [s \in Slaves |-> engine'[s]]
    BY DEF SendCommand
  <2>2. QED
    BY <2>1
<1>3. search' \in [Slaves -> Searches] /\ engine' \in [Slaves -> Engines]
  BY <1>1, <1>2
<1>4. UNCHANGED <<config, clock, moves, wanted, picked, crew, timers, remaining, spare>>
  BY DEF SendCommand, history
<1>5. TypeOK'
  <2>1. number' \in Nat /\ open' = {} /\ stage' = "waiting" /\ number' = number + 1
    BY DEF SendCommand, TypeInv, TypeOK
  <2>2. \A k \in SUBSET (1..number) : k \in SUBSET (1..number')
    BY <2>1 DEF TypeInv, TypeOK
  <2>3. timers' \in [Slaves -> SUBSET (1..number')] /\ spare' \in [Slaves -> SUBSET (1..number')]
    BY <1>4, <2>2 DEF TypeInv, TypeOK
  <2>4. QED
    BY <1>3, <1>4, <2>1, <2>3 DEF TypeInv, TypeOK
<1>6. SearchesKept'
  <2>1. \A s \in Slaves : SlaveKept(search[s], engine[s])'
    BY <1>1, <1>4 DEF SlaveKept
  <2>2. stage' = "waiting" /\ number' > 0
    BY DEF SendCommand, TypeInv, TypeOK
  <2>3. QED
    BY <1>1, <1>4, <2>1, <2>2 DEF SearchesKept
<1>7. TableOfMoves'
  <2>1. DOMAIN moves = 1..Len(moves)
    BY LenProperties DEF TypeInv, TypeOK
  <2>2. ucbTable' = [i \in 1..Len(moves) |-> Row(moves[i], 0, 0)]
    BY <2>1, Zenon DEF SendCommand
  <2>3. QED
    BY <1>4, <2>2 DEF TableOfMoves, Row
<1>8. QED
  BY <1>5, <1>6, <1>7 DEF TypeInv

\* An answer is merged: the rows stay where they are.
LEMMA MergeKeeps ==
  ASSUME TypeInv, NEW s \in Slaves, MergeAnswer(s)
  PROVE  TypeInv'
<1>1. search[s].stage = "done" /\ search' = [search EXCEPT ![s] = NoSearch]
  BY Zenon DEF MergeAnswer
<1>2. UNCHANGED <<config, clock, stage, open, moves, wanted, number, picked, crew, engine, timers,
                  remaining, spare>>
  BY DEF MergeAnswer
<1>3. engine[s] \in Engines /\ engine' = [engine EXCEPT ![s] = engine[s]]
  BY <1>2, SlaveFacts DEF TypeInv, TypeOK
<1>4. SlaveKept(NoSearch, engine[s])
  BY <1>1, NewSearches DEF TypeInv, SearchesKept, SlaveKept
<1>5. s \in crew
  BY <1>1 DEF TypeInv, SearchesKept
<1>6. TableOfMoves'
  <2>1. ucbTable' = CombineUCBTables(ucbTable, ParseUCBTable(Rows(search[s])))
    BY Zenon DEF MergeAnswer
  <2>2. stage = "waiting"
    BY <1>1 DEF TypeInv, SearchesKept
  <2>3. search[s].moves = moves /\ DOMAIN moves = 1..Len(moves) /\ Len(moves) \in Nat
    BY <1>1, SlaveFacts
  <2>4. PICK S : Rows(search[s]) \in Seq(S)
    <3> DEFINE row(i) == Row(search[s].moves[i], search[s].wins[i], search[s].games[i])
               S == {row(i) : i \in 1..Len(moves)}
    <3>1. Rows(search[s]) = [i \in 1..Len(moves) |-> row(i)]
      BY <2>3, Zenon DEF Rows
    <3> HIDE DEF row
    <3>2. Rows(search[s]) \in [1..Len(moves) -> S]
      BY <3>1
    <3>3. QED
      BY <2>3, <3>2, SeqDef, ZenonT(40)
  <2>5. /\ DOMAIN ucbTable' = DOMAIN ucbTable
        /\ \A i \in DOMAIN ucbTable : ucbTable'[i].pos = ucbTable[i].pos
    BY <2>1, <2>4, CombineKeepsRows
  <2>6. ucbTable' = [i \in DOMAIN ucbTable |-> ucbTable'[i]]
    BY <2>1 DEF CombineUCBTables
  <2>7. DOMAIN ucbTable = 1..Len(moves) /\ \A i \in 1..Len(moves) : ucbTable[i].pos = moves[i]
    BY <2>2 DEF TypeInv, TableOfMoves
  <2>8. QED
    BY <1>2, <2>5, <2>6, <2>7 DEF TableOfMoves
<1>7. stage # "waiting" => NoSearch.stage \in {"idle", "dead"}
  BY NewSearches
<1>8. QED
  BY <1>1, <1>2, <1>3, <1>4, <1>5, <1>6, <1>7, NewSearches, SlaveStepKeeps DEF TypeInv, TypeOK

\* The move picked is a candidate or a pass.
LEMMA PickKeeps ==
  ASSUME TypeInv, PickMove
  PROVE  TypeInv'
<1>1. stage = "waiting" /\ stage' = "idle" /\ picked' = BestPos(ucbTable, PassMove)
  BY Zenon DEF PickMove
<1>2. UNCHANGED <<config, clock, open, moves, wanted, number, crew, engine, search, timers,
                  remaining, spare>>
  BY DEF PickMove, slavevars, history
<1>3. picked' \in Moves
  <2>1. Len(moves) \in Nat /\ moves \in Seq(Moves) /\ \A i \in 1..Len(moves) : moves[i] \in Moves
    BY LenProperties DEF TypeInv, TypeOK
  <2>2. ucbTable = [i \in 1..Len(moves) |-> ucbTable[i]] /\ \A i \in 1..Len(moves) : ucbTable[i].pos = moves[i]
    BY <1>1 DEF TypeInv, TableOfMoves
  <2>3. Len(ucbTable) = Len(moves)
    <3> DEFINE S == {ucbTable[i] : i \in 1..Len(moves)}
    <3>1. ucbTable \in [1..Len(moves) -> S]
      BY <2>2
    <3>2. ucbTable \in Seq(S)
      BY <2>1, <3>1, SeqDef
    <3>3. QED
      BY <2>1, <3>1, <3>2, LenProperties
  <2>4. BestPos(ucbTable, PassMove) = PassMove
          \/ \E i \in 1..Len(ucbTable) : BestPos(ucbTable, PassMove) = ucbTable[i].pos
    BY <2>1, <2>3, BestPosOfTable DEF Best
  <2>5. QED
    BY <1>1, <2>1, <2>2, <2>3, <2>4 DEF Moves
<1>4. TypeOK'
  BY <1>1, <1>2, <1>3 DEF TypeInv, TypeOK
<1>5. SearchesKept'
  <2>1. \A s \in Slaves : search[s].stage \in {"idle", "dead"}
    BY DEF PickMove, Alive, TypeInv, SearchesKept
  <2>2. QED
    BY <1>1, <1>2, <2>1 DEF TypeInv, SearchesKept, SlaveKept
<1>6. QED
  BY <1>1, <1>4, <1>5 DEF TypeInv, TableOfMoves

\* A step of a slave.
LEMMA SlaveKeeps ==
  ASSUME TypeInv, NEW s \in Slaves,
         SlaveStep(s) \/ \E k \in 1..MaxSearches : TimerFires(s, k)
  PROVE  TypeInv'
<1>1. /\ search[s] \in Searches /\ engine[s] \in Engines /\ Len(moves) \in Nat
      /\ SlaveKept(search[s], engine[s])
  BY SlaveFacts DEF TypeInv, SearchesKept
<1>2. /\ search[s].stage \in {"asked", "first", "loop"} \/ UNCHANGED search
      /\ UNCHANGED <<mastervars, crew, remaining, answers>>
  BY Zenon DEF SlaveStep, StartUCB, FirstPlays, SelectCandidate, SimulateNext, EndUCB, SimulationThrows,
         MonteCarlo, TimerFires, history
<1>3. /\ UNCHANGED <<config, clock, stage, open, moves, wanted, number, picked, crew, remaining>>
      /\ TableOfMoves'
  BY <1>2 DEF mastervars, TypeInv, TableOfMoves
<1>4. /\ timers \in [Slaves -> SUBSET (1..number)] /\ spare \in [Slaves -> SUBSET (1..number)]
      /\ number \in Nat /\ search \in [Slaves -> Searches] /\ engine \in [Slaves -> Engines]
  BY DEF TypeInv, TypeOK
<1>5. search[s].stage \in {"asked", "first", "loop"} => s \in crew /\ stage = "waiting" /\ number \in 1..number
  BY <1>4 DEF TypeInv, SearchesKept
<1>6. engine' = engine => engine' = [engine EXCEPT ![s] = engine[s]]
  BY <1>4
<1>7. ASSUME search' = [search EXCEPT ![s] = Dead], timers' = [timers EXCEPT ![s] = {}],
             spare' = spare, engine' = engine, search[s].stage \in {"asked", "first", "loop"}
      PROVE  TypeInv'
  <2>1. timers' \in [Slaves -> SUBSET (1..number)]
    BY <1>4, <1>7
  <2>2. SlaveKept(Dead, engine[s])
    BY NewSearches DEF SlaveKept
  <2>3. QED
    BY <1>1, <1>3, <1>4, <1>5, <1>6, <1>7, <2>1, <2>2, NewSearches, SlaveStepKeeps
<1>8. CASE StartUCB(s)
  <2>1. search[s].stage = "asked" /\ engine[s].aiType = "UCB" /\ engine' = engine
    BY <1>8 DEF StartUCB
  <2>2. ASSUME NEW q \in Searches,
               search' = [search EXCEPT ![s] = q],
               q.stage = "first", q.moves = moves, q.next = 1,
               Len(moves) > 0, Len(q.games) = Len(moves), Len(q.wins) = Len(moves),
               \A i \in 1..Len(moves) : q.wins[i] = 0,
               timers' = [timers EXCEPT ![s] = IF engine[s].timeAlloc >= 0
                                             THEN timers[s] \cup {number} ELSE timers[s]],
               spare' = [spare EXCEPT ![s] = IF engine[s].simulations <= Len(moves)
                                           THEN spare[s] \cup {number} ELSE spare[s]]
        PROVE  TypeInv'
    <3>1. timers' \in [Slaves -> SUBSET (1..number)] /\ spare' \in [Slaves -> SUBSET (1..number)]
      BY <1>4, <1>5, <2>1, <2>2
    <3>2. SlaveKept(q, engine[s])
      BY <1>1, <2>1, <2>2 DEF SlaveKept
    <3>3. QED
      BY <1>1, <1>3, <1>5, <1>6, <2>1, <2>2, <3>1, <3>2, SlaveStepKeeps
  <2>3. QED
    BY <1>7, <1>8, <2>1, <2>2, StartForm
<1>9. CASE FirstPlays(s)
  <2>1. search[s].stage = "first" /\ UNCHANGED <<engine, timers, spare>>
    BY <1>9 DEF FirstPlays, history
  <2>2. PICK q \in Searches :
           /\ search' = [search EXCEPT ![s] = q]
           /\ q.moves = moves /\ Len(q.games) = Len(moves) /\ Len(q.wins) = Len(moves)
           /\ q.playUntilStopped = search[s].playUntilStopped
           /\ \A j \in 1..Len(moves) :
                q.games[j] = IF j = search[s].next THEN search[s].games[j] + 1 ELSE search[s].games[j]
           /\ \A j \in 1..Len(moves) : moves[j] = PassMove => q.wins[j] = search[s].wins[j]
           /\ \/ search[s].next < Len(moves) /\ q.stage = "first" /\ q.next = search[s].next + 1
              \/ /\ search[s].next >= Len(moves) /\ q.stage = "loop" /\ q.next = 0
                 /\ q.over = engine[s].simulations - Len(moves)
    BY <1>9, FirstPlaysForm
  <2>3. \A j \in 1..Len(moves) : search[s].games[j] \in Nat
    <3>1. search[s].games \in Seq(Nat) /\ Len(search[s].games) = Len(moves)
      BY <1>1, <2>1 DEF Searches, SlaveKept
    <3>2. QED
      BY <3>1
  <2>4. /\ search[s].next \in 1..Len(moves)
        /\ \A j \in 1..(search[s].next - 1) : search[s].games[j] > 0
    BY <1>1, <2>1 DEF SlaveKept
  <2>5. \A j \in 1..search[s].next : q.games[j] > 0
    <3> TAKE j \in 1..search[s].next
    <3>1. j \in 1..Len(moves) /\ (j = search[s].next \/ j \in 1..(search[s].next - 1))
      BY <1>1, <2>4
    <3>2. CASE j = search[s].next
      BY <2>2, <2>3, <3>1, <3>2
    <3>3. CASE j # search[s].next
      BY <2>2, <2>4, <3>1, <3>3
    <3>4. QED
      BY <3>2, <3>3
  <2>6. q.stage = "first" => q.next - 1 = search[s].next /\ q.next \in 1..Len(moves)
    BY <1>1, <2>2, <2>4
  <2>7. q.stage = "loop" => search[s].next = Len(moves) /\ q.next \in 0..Len(moves)
    BY <1>1, <2>2, <2>4
  <2>8. SlaveKept(q, engine[s])
    BY <1>1, <2>1, <2>2, <2>5, <2>6, <2>7 DEF SlaveKept
  <2>9. QED
    BY <1>1, <1>3, <1>4, <1>5, <1>6, <2>1, <2>2, <2>8, SlaveStepKeeps
<1>10. CASE SelectCandidate(s)
  <2>1. search[s].stage = "loop" /\ UNCHANGED <<engine, timers, spare>>
    BY <1>10 DEF SelectCandidate, history
  <2>2. PICK q \in Searches :
           /\ search' = [search EXCEPT ![s] = q]
           /\ q.stage = "loop" /\ q.moves = moves /\ q.next \in 1..Len(moves)
           /\ q.games = search[s].games /\ q.wins = search[s].wins
    BY <1>10, SelectForm
  <2>3. SlaveKept(q, engine[s])
    BY <1>1, <2>1, <2>2 DEF SlaveKept
  <2>4. QED
    BY <1>1, <1>3, <1>4, <1>5, <1>6, <2>1, <2>2, <2>3, SlaveStepKeeps
<1>11. CASE SimulateNext(s)
  <2>1. search[s].stage = "loop" /\ UNCHANGED <<engine, timers, spare>>
    BY <1>11 DEF SimulateNext, history
  <2>2. PICK q \in Searches :
           /\ search' = [search EXCEPT ![s] = q]
           /\ q.stage = "loop" /\ q.moves = moves /\ q.next = 0
           /\ Len(q.games) = Len(moves) /\ Len(q.wins) = Len(moves)
           /\ \A j \in 1..Len(moves) : search[s].games[j] > 0 => q.games[j] > 0
           /\ \A j \in 1..Len(moves) : moves[j] = PassMove => q.wins[j] = search[s].wins[j]
    BY <1>11, SimulateForm
  <2>3. SlaveKept(q, engine[s])
    BY <1>1, <2>1, <2>2 DEF SlaveKept
  <2>4. QED
    BY <1>1, <1>3, <1>4, <1>5, <1>6, <2>1, <2>2, <2>3, SlaveStepKeeps
<1>12. ASSUME NEW q \in Searches, NEW e \in Engines,
              search' = [search EXCEPT ![s] = q], engine' = [engine EXCEPT ![s] = e],
              q.stage = "done", q.moves = moves, Len(q.games) = Len(moves), Len(q.wins) = Len(moves),
              \A i \in 1..Len(moves) : q.games[i] > 0 /\ (moves[i] = PassMove => q.wins[i] = 0),
              e.preselRandMoves = <<>>,
              UNCHANGED <<timers, spare>>, search[s].stage \in {"asked", "loop"}
       PROVE  TypeInv'
  <2>1. SlaveKept(q, e)
    BY <1>12 DEF SlaveKept
  <2>2. QED
    BY <1>3, <1>4, <1>5, <1>12, <2>1, SlaveStepKeeps
<1>13. CASE EndUCB(s)
  <2>1. search[s].stage = "loop" /\ UNCHANGED <<timers, spare>>
    BY <1>13 DEF EndUCB, history
  <2>2. \A i \in 1..Len(moves) : moves[i] = PassMove => search[s].wins[i] = 0
    BY <2>1, SlaveFacts
  <2>3. QED
    BY <1>12, <1>13, <2>1, <2>2, EndForm
<1>14. CASE MonteCarlo(s)
  <2>1. search[s].stage = "asked" /\ spare' = spare
    BY <1>14 DEF MonteCarlo, history
  <2>2. QED
    BY <1>7, <1>12, <1>14, <2>1, MonteForm
<1>15. CASE SimulationThrows(s)
  <2>1. search[s].stage \in {"first", "loop"} /\ UNCHANGED <<engine, spare>>
    BY <1>15 DEF SimulationThrows, history
  <2>2. search' = [search EXCEPT ![s] = Dead] /\ timers' = [timers EXCEPT ![s] = {}]
    BY <1>15, Zenon DEF SimulationThrows, Dies, Dead
  <2>3. QED
    BY <1>7, <2>1, <2>2
<1>16. ASSUME NEW k \in 1..MaxSearches, TimerFires(s, k) PROVE TypeInv'
  <2>1. UNCHANGED <<engine, spare>>
    BY <1>16 DEF TimerFires, history
  <2>2. timers' \in [Slaves -> SUBSET (1..number)]
    BY <1>4, <1>16, TimerForm
  <2>3. CASE search' = search
    BY <1>3, <1>4, <2>1, <2>2, <2>3 DEF TypeInv, TypeOK, SearchesKept, SlaveKept
  <2>4. CASE Searching(s) /\ \E q \in Searches :
                    /\ search' = [search EXCEPT ![s] = q]
                    /\ q.stage = search[s].stage /\ q.moves = search[s].moves
                    /\ q.games = search[s].games /\ q.wins = search[s].wins
                    /\ q.next = search[s].next
    <3>1. PICK q \in Searches :
                    /\ search' = [search EXCEPT ![s] = q]
                    /\ q.stage = search[s].stage /\ q.moves = search[s].moves
                    /\ q.games = search[s].games /\ q.wins = search[s].wins
                    /\ q.next = search[s].next
      BY <2>4
    <3>2. SlaveKept(q, engine[s])
      BY <1>1, <3>1 DEF SlaveKept
    <3>3. search[s].stage \in {"first", "loop"}
      BY <2>4 DEF Searching
    <3>4. QED
      BY <1>1, <1>3, <1>4, <1>5, <1>6, <2>1, <2>2, <3>1, <3>2, <3>3, SlaveStepKeeps
  <2>5. QED
    BY <1>16, <2>3, <2>4, TimerForm
<1>17. QED
  BY <1>8, <1>9, <1>10, <1>11, <1>13, <1>14, <1>15, <1>16 DEF SlaveStep

\* Every step keeps the types.
LEMMA TypeStep == TypeInv /\ [Next]_vars => TypeInv'
<1> SUFFICES ASSUME TypeInv, [Next]_vars PROVE TypeInv'
  OBVIOUS
<1>1. CASE UNCHANGED vars
  BY <1>1 DEF vars, mastervars, slavevars, history, TypeInv, TypeOK, SearchesKept, SlaveKept,
              TableOfMoves
<1>2. CASE Next
  BY <1>2, ClockStepKeeps, ListingKeeps, SendKeeps, PickKeeps, MergeKeeps, SlaveKeeps
     DEF Next, SlaveStep
<1>3. QED
  BY <1>1, <1>2

\* Every state the search can be in is one of its types, and every slave has the
\* candidates, games and wins it should have.
THEOREM TypeInvariant == Spec => []TypeInv
<1>1. Init => TypeInv
  BY TypeInit
<1>2. TypeInv /\ [Next]_vars => TypeInv'
  BY TypeStep
<1>3. QED
  BY <1>1, <1>2, PTL DEF Spec

\* The variables keep their types.
THEOREM TypeCorrect == Spec => []TypeOK
<1>1. TypeInv => TypeOK
  BY DEF TypeInv
<1>2. QED
  BY <1>1, TypeInvariant, PTL

-----------------------------------------------------------------------------
\* Answers.

\* The rows of a finished search are those of the candidates, each with a game.
LEMMA DoneRows ==
  ASSUME TypeInv, NEW s \in Slaves, search[s].stage = "done"
  PROVE  LET rows == Rows(search[s])
         IN  /\ [i \in DOMAIN rows |-> rows[i].pos] = moves
             /\ \A i \in DOMAIN rows : rows[i].timesPlayed > 0
<1> DEFINE r == search[s]
           row(i) == Row(r.moves[i], r.wins[i], r.games[i])
<1>1. r.moves = moves /\ DOMAIN moves = 1..Len(moves) /\ moves = [i \in 1..Len(moves) |-> moves[i]]
  BY SlaveFacts
<1>2. \A i \in 1..Len(moves) : r.games[i] > 0
  BY DEF TypeInv, SearchesKept, SlaveKept
<1>3. \A i : row(i).pos = r.moves[i] /\ row(i).timesPlayed = r.games[i]
  BY DEF Row
<1>4. Rows(r) = [i \in 1..Len(moves) |-> row(i)]
  BY <1>1, Zenon DEF Rows
<1> HIDE DEF r, row
<1>5. QED
  BY <1>1, <1>2, <1>3, <1>4 DEF r

\* An answer is added with its rows; before the next ones are listed, all are dropped.
LEMMA AnswersStep == TypeInv /\ AnswersInv /\ [Next]_vars => AnswersInv'
<1> SUFFICES ASSUME TypeInv, AnswersInv, [Next]_vars PROVE AnswersInv'
  OBVIOUS
<1>1. CASE /\ UNCHANGED <<answers, moves>>
           /\ stage' = "listing" => stage = "listing"
  BY <1>1 DEF AnswersInv, AnswersCoverCandidates
<1>2. CASE ListLocalMoves
  BY <1>2 DEF ListLocalMoves, AnswersInv, AnswersCoverCandidates
<1>3. CASE AddRandomMove
  BY <1>3 DEF AddRandomMove, history, AnswersInv, AnswersCoverCandidates
<1>4. ASSUME NEW s \in Slaves, MergeAnswer(s) PROVE AnswersInv'
  <2>1. /\ search[s].stage = "done" /\ UNCHANGED <<stage, moves>>
        /\ answers' = answers \cup {[slave |-> s, rows |-> Rows(search[s])]}
    BY <1>4, Zenon DEF MergeAnswer
  <2>2. stage # "listing"
    BY <2>1 DEF TypeInv, SearchesKept
  <2>3. PICK rows : rows = Rows(search[s])
    OBVIOUS
  <2>4. /\ [i \in DOMAIN rows |-> rows[i].pos] = moves
        /\ \A i \in DOMAIN rows : rows[i].timesPlayed > 0
    BY <2>1, <2>3, DoneRows
  <2>5. \A a \in answers' : a \in answers \/ a.rows = rows
    BY <2>1, <2>3
  <2>6. QED
    BY <2>1, <2>2, <2>4, <2>5 DEF AnswersInv, AnswersCoverCandidates
<1>5. CASE SetClock \/ ReportClock \/ NewGame \/ SendCommand \/ PickMove \/ UNCHANGED vars
  BY <1>1, <1>5 DEF SetClock, ReportClock, NewGame, SendCommand, PickMove, vars, mastervars, history
<1>6. ASSUME NEW s \in Slaves, SlaveStep(s) \/ \E k \in 1..MaxSearches : TimerFires(s, k)
      PROVE  AnswersInv'
  <2>1. UNCHANGED <<mastervars, answers>>
    BY <1>6, Zenon DEF SlaveStep, StartUCB, FirstPlays, SelectCandidate, SimulateNext, EndUCB,
                       SimulationThrows, MonteCarlo, TimerFires, history
  <2>2. QED
    BY <1>1, <2>1 DEF mastervars
<1>7. QED
  BY <1>2, <1>3, <1>4, <1>5, <1>6 DEF Next, SlaveStep

\* A timer may fire at any time and still every answer has a game of every candidate
\* of its command, and of no others (generateUCBTable).
THEOREM AnswersCover == Spec => []AnswersCoverCandidates
<1>1. Init => AnswersInv
  BY DEF Init, AnswersInv, AnswersCoverCandidates
<1>2. AnswersInv => AnswersCoverCandidates
  BY DEF AnswersInv
<1>3. QED
  BY <1>1, <1>2, AnswersStep, TypeInvariant, PTL DEF Spec

-----------------------------------------------------------------------------
\* Answers, pooled.

\* One more answer adds its games and wins.
LEMMA SumsOfMore ==
  ASSUME AnswersKept, NEW b, b \notin answers, answers' = answers \cup {b},
         NEW i \in 1..Len(moves), b.rows[i].timesPlayed \in Nat, WinsOf(b.rows[i]) \in Nat
  PROVE  /\ Games(i)' = Games(i) + b.rows[i].timesPlayed
         /\ Wins(i)' = Wins(i) + WinsOf(b.rows[i])
<1> DEFINE A == answers
           g == [a \in A \cup {b} |-> a.rows[i].timesPlayed]
           w == [a \in A \cup {b} |-> WinsOf(a.rows[i])]
<1>1. IsFiniteSet(A) /\ \A a \in A \cup {b} : g[a] \in Nat /\ w[a] \in Nat
  <2>1. \A a \in A \cup {b} : a.rows[i].timesPlayed \in Nat /\ WinsOf(a.rows[i]) \in Nat
    BY Zenon DEF AnswersKept
  <2>2. QED
    BY <2>1 DEF AnswersKept
<1>2. /\ [a \in A |-> g[a]] = [a \in A |-> a.rows[i].timesPlayed] /\ [a \in A \cup {b} |-> g[a]] = g
      /\ [a \in A |-> w[a]] = [a \in A |-> WinsOf(a.rows[i])] /\ [a \in A \cup {b} |-> w[a]] = w
  OBVIOUS
<1>3. g[b] = b.rows[i].timesPlayed /\ w[b] = WinsOf(b.rows[i])
  OBVIOUS
<1>4. /\ Games(i) = SumFunction([a \in A |-> g[a]]) /\ Games(i)' = SumFunction([a \in A \cup {b} |-> g[a]])
      /\ Wins(i) = SumFunction([a \in A |-> w[a]]) /\ Wins(i)' = SumFunction([a \in A \cup {b} |-> w[a]])
  BY <1>2, Zenon DEF Games, Wins
<1> HIDE DEF g, w, A
<1>5. SumFunction([a \in A \cup {b} |-> g[a]]) = SumFunction([a \in A |-> g[a]]) + g[b]
  BY <1>1, SumOfMore DEF A
<1>6. SumFunction([a \in A \cup {b} |-> w[a]]) = SumFunction([a \in A |-> w[a]]) + w[b]
  BY <1>1, SumOfMore DEF A
<1>7. QED
  BY <1>3, <1>4, <1>5, <1>6

\* No answers, no games.
LEMMA SumsOfNone ==
  ASSUME NEW A, A = {}, NEW i
  PROVE  /\ SumFunction([a \in A |-> a.rows[i].timesPlayed]) = 0
         /\ SumFunction([a \in A |-> WinsOf(a.rows[i])]) = 0
<1> DEFINE g == [a \in {} |-> a.rows[i].timesPlayed]
           w == [a \in {} |-> WinsOf(a.rows[i])]
<1>1. [a \in {} |-> g[a]] = g /\ [a \in {} |-> w[a]] = w
  OBVIOUS
<1>2. SumFunction(g) = 0 /\ SumFunction(w) = 0
  <2> HIDE DEF g, w
  <2>1. QED
    BY <1>1, SumOfNone
<1>3. QED
  BY <1>2, Zenon

\* The rows of a finished search, as the master reads them.
LEMMA RowsOfDone ==
  ASSUME TypeInv, NEW s \in Slaves, search[s].stage = "done"
  PROVE  LET r == search[s]
             rows == Rows(r)
         IN  /\ Len(rows) = Len(moves) /\ \E S : rows \in Seq(S)
             /\ \A i \in 1..Len(moves) :
                  /\ r.wins[i] \in Nat /\ r.games[i] \in Nat \ {0}
                  /\ rows[i] = Row(moves[i], r.wins[i], r.games[i])
                  /\ rows[i].pos = moves[i]
                  /\ rows[i].timesPlayed = r.games[i] /\ WinsOf(rows[i]) = r.wins[i]
<1> DEFINE r == search[s]
           row(i) == Row(r.moves[i], r.wins[i], r.games[i])
           S == {row(i) : i \in 1..Len(moves)}
<1>1. /\ r \in Searches /\ r.moves = moves /\ DOMAIN moves = 1..Len(moves) /\ Len(moves) \in Nat
      /\ Len(r.games) = Len(moves) /\ Len(r.wins) = Len(moves)
  BY SlaveFacts, Zenon
<1>2. \A i \in 1..Len(moves) : r.games[i] > 0
  BY DEF TypeInv, SearchesKept, SlaveKept
<1>3. Rows(r) = [i \in 1..Len(moves) |-> row(i)]
  BY <1>1, Zenon DEF Rows
<1>4. r.games \in Seq(Nat) /\ r.wins \in Seq(Nat)
  BY <1>1 DEF Searches
<1> HIDE DEF r, row
<1>5. Rows(r) \in [1..Len(moves) -> S] /\ \A i \in 1..Len(moves) : Rows(r)[i] = row(i)
  BY <1>3
<1>0. Len(moves) \in Nat
  BY <1>1
<1> HIDE DEF S
<1>6. Rows(r) \in Seq(S)
  BY <1>0, <1>5, SeqDef, Zenon
<1>7. Len(Rows(r)) = Len(moves)
  BY <1>0, <1>5, <1>6, LenProperties
<1>8. ASSUME NEW i \in 1..Len(moves)
      PROVE  /\ r.wins[i] \in Nat /\ r.games[i] \in Nat \ {0}
             /\ Rows(r)[i] = Row(moves[i], r.wins[i], r.games[i])
             /\ Rows(r)[i].pos = moves[i]
             /\ Rows(r)[i].timesPlayed = r.games[i] /\ WinsOf(Rows(r)[i]) = r.wins[i]
  <2>1. r.wins[i] \in Nat /\ r.games[i] \in Nat \ {0}
    BY <1>1, <1>2, <1>4
  <2>2. Rows(r)[i] = Row(moves[i], r.wins[i], r.games[i])
    BY <1>1, <1>5 DEF row
  <2>3. QED
    BY <2>1, <2>2, WinsOfRow
<1>9. QED
  BY <1>6, <1>7, <1>8, Zenon DEF r

\* The rows of an answer are merged each with its own.
LEMMA MergedRow ==
  ASSUME TypeInv, NEW s \in Slaves, MergeAnswer(s), ~ ListedTwice, NEW i \in 1..Len(moves)
  PROVE  ucbTable'[i] = CombineRow(ucbTable[i], Rows(search[s])[i])
<1> DEFINE rows == Rows(search[s])
<1>1. search[s].stage = "done" /\ ucbTable' = CombineUCBTables(ucbTable, ParseUCBTable(rows))
  BY Zenon DEF MergeAnswer
<1>2. stage = "waiting"
  BY <1>1 DEF TypeInv, SearchesKept
<1>3. DOMAIN ucbTable = 1..Len(moves) /\ ucbTable[i].pos = moves[i]
  BY <1>2 DEF TypeInv, TableOfMoves
<1>4. moves \in Seq(Moves) /\ \A j, k \in 1..Len(moves) : moves[j] = moves[k] => j = k
  <2>1. moves \in Seq(Moves)
    BY DEF TypeInv, TypeOK
  <2>2. QED
    BY <2>1, DistinctMoves
<1>5. PICK S : rows \in Seq(S)
  BY <1>1, RowsOfDone
<1>6. Len(rows) = Len(moves) /\ \A j \in 1..Len(moves) : rows[j].pos = moves[j]
  BY <1>1, RowsOfDone
<1> HIDE DEF rows
<1>7. ParseUCBTable(rows) = rows
  BY <1>4, <1>5, <1>6, ParsedAsSent
<1>8. ucbTable'[i] = FoldLeft(CombineRow, ucbTable[i], rows)
  BY <1>1, <1>3, <1>7, Zenon DEF CombineUCBTables
<1>9. \A j \in 1..Len(rows) : rows[j].pos = ucbTable[i].pos <=> j = i
  BY <1>3, <1>4, <1>6
<1>10. FoldLeft(CombineRow, ucbTable[i], rows) = CombineRow(ucbTable[i], rows[i])
  BY <1>5, <1>6, <1>9, CombinedWithItsOwn
<1>11. QED
  BY <1>8, <1>10 DEF rows

\* An answer is pooled with those before it.
LEMMA MergePools ==
  ASSUME TypeInv, PoolInv, NEW s \in Slaves, MergeAnswer(s)
  PROVE  PoolInv'
<1> DEFINE r == search[s]
           rows == Rows(r)
           b == [slave |-> s, rows |-> rows]
<1>1. /\ r.stage = "done" /\ search' = [search EXCEPT ![s] = NoSearch]
      /\ answers' = answers \cup {b} /\ UNCHANGED <<stage, moves>>
  BY Zenon DEF MergeAnswer
<1>2. stage = "waiting" /\ search \in [Slaves -> Searches]
  BY <1>1 DEF TypeInv, SearchesKept, TypeOK
<1>3. AnswersKept /\ b \notin answers
  BY <1>1, <1>2 DEF PoolInv, AnswersKept
<1>4. \A i \in 1..Len(moves) :
        /\ r.wins[i] \in Nat /\ r.games[i] \in Nat \ {0}
        /\ rows[i] = Row(moves[i], r.wins[i], r.games[i])
        /\ rows[i].timesPlayed = r.games[i] /\ WinsOf(rows[i]) = r.wins[i]
  BY <1>1, RowsOfDone
<1>5. \A i \in 1..Len(moves) : moves[i] = PassMove => r.wins[i] = 0
  BY <1>1, SlaveFacts
<1> HIDE DEF rows, r
<1>6. b.slave = s /\ b.rows = rows
  OBVIOUS
<1> HIDE DEF b
<1>7. AnswersKept'
  <2>1. IsFiniteSet(answers')
    BY <1>1, <1>3, FS_AddElement DEF AnswersKept
  <2>2. ASSUME NEW a \in answers', NEW i \in 1..Len(moves)
        PROVE  a.rows[i].timesPlayed \in Nat /\ WinsOf(a.rows[i]) \in Nat
    <3>1. CASE a = b
      BY <1>4, <1>6, <3>1
    <3>2. CASE a \in answers
      BY <1>3, <3>2, Zenon DEF AnswersKept
    <3>3. QED
      BY <1>1, <3>1, <3>2
  <2>3. ASSUME NEW a \in answers'
        PROVE  a.slave \in Slaves /\ search'[a.slave].stage \in {"idle", "dead"}
    <3>1. CASE a = b
      BY <1>1, <1>2, <1>6, <3>1, NewSearches
    <3>2. CASE a \in answers
      <4>1. a.slave \in Slaves /\ search[a.slave].stage \in {"idle", "dead"}
        BY <1>2, <1>3, <3>2, Zenon DEF AnswersKept
      <4>2. QED
        BY <1>1, <1>2, <4>1, NewSearches
    <3>3. QED
      BY <1>1, <3>1, <3>2
  <2>4. QED
    BY <1>1, <2>1, <2>2, <2>3, Zenon DEF AnswersKept
<1>8. ASSUME ~ ListedTwice, NEW i \in 1..Len(moves) PROVE RowPooled(i)'
  <2> DEFINE W == Wins(i)
             G == Games(i)
  <2>1. /\ W \in Nat /\ G \in Nat /\ (G = 0 => W = 0)
        /\ moves[i] = PassMove => W = 0
        /\ ucbTable[i] = Row(moves[i], W, G)
    BY <1>2, <1>8 DEF PoolInv, TablePooled, RowPooled
  <2>2. Games(i)' = G + r.games[i] /\ Wins(i)' = W + r.wins[i]
    BY <1>1, <1>3, <1>4, <1>6, SumsOfMore
  <2>3. ucbTable'[i] = CombineRow(ucbTable[i], rows[i])
    BY <1>8, MergedRow DEF rows, r
  <2> HIDE DEF W, G
  <2>4. PICK w \in Nat, g \in Nat \ {0} : w = r.wins[i] /\ g = r.games[i]
    BY <1>4
  <2>5. rows[i] = Row(moves[i], w, g)
    BY <1>4, <2>4
  <2>6. ucbTable'[i] = Row(moves[i], W + w, G + g)
    <3>1. CombineRow(Row(moves[i], W, G), Row(moves[i], w, g)) = Row(moves[i], W + w, G + g)
      BY <2>1, RowsCombine
    <3>2. QED
      BY <2>1, <2>3, <2>5, <3>1, Zenon
  <2>7. W + w \in Nat /\ G + g \in Nat /\ G + g > 0
    BY <2>1
  <2>8. moves[i] = PassMove => W + w = 0
    <3>1. moves[i] = PassMove => w = 0
      BY <1>5, <2>4, Zenon
    <3>2. QED
      BY <2>1, <3>1
  <2>9. answers' # {}
    BY <1>1
  <2>10. QED
    BY <1>1, <2>2, <2>4, <2>6, <2>7, <2>8, <2>9, Zenon DEF RowPooled
<1>9. TablePooled'
  <2>1. ListedTwice' <=> ListedTwice
    BY <1>1 DEF ListedTwice
  <2>2. QED
    BY <1>1, <1>8, <2>1, Zenon DEF TablePooled
<1>10. QED
  BY <1>7, <1>9 DEF PoolInv

\* A step that leaves the answers, the candidates and the rows as they are.
LEMMA PoolKept ==
  ASSUME PoolInv, UNCHANGED <<answers, moves, ucbTable>>,
         stage' # "listing" => stage # "listing",
         stage' = "waiting" => stage = "waiting",
         stage' = "waiting" => \A s \in Slaves :
           search[s].stage \in {"idle", "dead"} => search'[s].stage \in {"idle", "dead"}
  PROVE  PoolInv'
<1>1. AnswersKept'
  BY Zenon DEF PoolInv, AnswersKept
<1>2. ListedTwice' <=> ListedTwice
  BY DEF ListedTwice
<1>3. \A i : Wins(i)' = Wins(i) /\ Games(i)' = Games(i)
  BY Zenon DEF Wins, Games
<1>4. \A i : RowPooled(i)' <=> RowPooled(i)
  BY <1>3, Zenon DEF RowPooled
<1>5. QED
  BY <1>1, <1>2, <1>4 DEF PoolInv, TablePooled

\* Every step keeps the answers pooled.
LEMMA PoolStep == TypeInv /\ AnswersInv /\ PoolInv /\ [Next]_vars => PoolInv'
<1> SUFFICES ASSUME TypeInv, AnswersInv, PoolInv, [Next]_vars PROVE PoolInv'
  OBVIOUS
<1>1. ASSUME answers' = {}, \/ stage' = "listing"
                            \/ /\ moves' = moves
                               /\ \A i \in 1..Len(moves) : ucbTable'[i] = Row(moves[i], 0, 0)
      PROVE  PoolInv'
  <2>1. AnswersKept'
    BY <1>1, FS_EmptySet DEF AnswersKept
  <2>2. \A i : Games(i)' = 0 /\ Wins(i)' = 0
    <3> TAKE i
    <3>1. ASSUME NEW A, A = {}
          PROVE  /\ SumFunction([a \in A |-> a.rows[i].timesPlayed]) = 0
                 /\ SumFunction([a \in A |-> WinsOf(a.rows[i])]) = 0
      BY <3>1, SumsOfNone, Zenon
    <3>2. QED
      BY <1>1, <3>1 DEF Games, Wins
  <2>3. TablePooled'
    BY <1>1, <2>2 DEF TablePooled, RowPooled
  <2>4. QED
    BY <2>1, <2>3 DEF PoolInv
<1>2. CASE ListLocalMoves
  BY <1>1, <1>2 DEF ListLocalMoves
<1>3. CASE AddRandomMove
  BY <1>1, <1>3 DEF AddRandomMove, history, AnswersInv
<1>4. CASE SendCommand
  <2>1. answers' = {} /\ moves' = moves
    BY <1>4 DEF SendCommand, history, AnswersInv
  <2>2. DOMAIN moves = 1..Len(moves)
    BY LenProperties DEF TypeInv, TypeOK
  <2>3. ucbTable' = [i \in 1..Len(moves) |-> Row(moves[i], 0, 0)]
    BY <1>4, <2>2, Zenon DEF SendCommand
  <2>4. QED
    BY <1>1, <2>1, <2>3
<1>5. CASE SetClock \/ ReportClock \/ NewGame \/ PickMove \/ UNCHANGED vars
  BY <1>5, PoolKept DEF SetClock, ReportClock, NewGame, PickMove,
                        vars, mastervars, slavevars, history
<1>6. ASSUME NEW s \in Slaves, SlaveStep(s) \/ \E k \in 1..MaxSearches : TimerFires(s, k)
      PROVE  PoolInv'
  <2>1. /\ search[s].stage \in {"asked", "first", "loop"} \/ UNCHANGED search
        /\ UNCHANGED <<mastervars, answers>>
    BY <1>6, Zenon DEF SlaveStep, StartUCB, FirstPlays, SelectCandidate, SimulateNext, EndUCB,
                       SimulationThrows, MonteCarlo, TimerFires, history
  <2>2. \A t \in Slaves \ {s} : search'[t] = search[t]
    <3>1. search \in [Slaves -> Searches]
      BY DEF TypeInv, TypeOK
    <3>2. search' = search \/ \E q : search' = [search EXCEPT ![s] = q]
      <4>0. CASE SimulationThrows(s)
        BY <4>0, Zenon DEF SimulationThrows, Dies
      <4>1. CASE SlaveStep(s)
        BY <4>0, <4>1, StartForm, FirstPlaysForm, SelectForm, SimulateForm, EndForm, MonteForm
           DEF SlaveStep
      <4>2. CASE \E k \in 1..MaxSearches : TimerFires(s, k)
        BY <4>2, TimerForm
      <4>3. QED
        BY <1>6, <4>1, <4>2
    <3>3. QED
      BY <3>1, <3>2
  <2>3. UNCHANGED <<answers, moves, ucbTable, stage>>
    BY <2>1 DEF mastervars
  <2>4. \A t \in Slaves : search[t].stage \in {"idle", "dead"} => search'[t].stage \in {"idle", "dead"}
    BY <2>1, <2>2
  <2>5. QED
    BY <2>3, <2>4, PoolKept
<1>7. QED
  BY <1>2, <1>3, <1>4, <1>5, <1>6, MergePools DEF Next, SlaveStep

\* The master's rows stay those of the games of all the answers, and of no others, until
\* the next candidates are listed (combineUCBTables).
THEOREM PoolInvariant == Spec => []PoolInv
<1>1. Init => PoolInv
  <2> SUFFICES ASSUME Init PROVE PoolInv
    OBVIOUS
  <2>1. AnswersKept
    BY FS_EmptySet DEF Init, AnswersKept
  <2>2. Len(moves) = 0
    BY DEF Init
  <2>3. TablePooled
    BY <2>2 DEF TablePooled
  <2>4. QED
    BY <2>1, <2>3 DEF PoolInv
<1>2. Init => AnswersInv
  BY DEF Init, AnswersInv, AnswersCoverCandidates
<1>3. QED
  BY <1>1, <1>2, PoolStep, AnswersStep, TypeInvariant, PTL DEF Spec

\* However the answers come in, the master's rows are the games of all the slaves that
\* have answered and the share of them that were won, unless a candidate was listed
\* twice (parseUCBTableString, combineUCBTables).
THEOREM Pools == Spec => []AnswersArePooled
<1>1. TypeInv /\ PoolInv => AnswersArePooled
  <2> SUFFICES ASSUME TypeInv, PoolInv, stage = "waiting", ~ ListedTwice, NEW i \in DOMAIN moves
               PROVE  /\ ucbTable[i].timesPlayed = Games(i)
                      /\ answers # {} => ucbTable[i].expected = Share(Wins(i), Games(i))
    BY DEF AnswersArePooled
  <2>1. i \in 1..Len(moves)
    BY SlaveFacts, LenProperties DEF TypeInv, TypeOK
  <2>2. ucbTable[i] = Row(moves[i], Wins(i), Games(i))
    BY <2>1 DEF PoolInv, TablePooled, RowPooled
  <2>3. QED
    BY <2>2 DEF Row
<1>2. QED
  BY <1>1, PoolInvariant, TypeInvariant, PTL

-----------------------------------------------------------------------------
\* The move picked.

\* The order of fractions is transitive.
LEMMA FractionsOrdered ==
  ASSUME NEW a \in Nat, NEW b \in Nat, NEW c \in Nat, NEW d \in Nat \ {0}, NEW e \in Nat, NEW f \in Nat,
         a * d <= c * b, c * f <= e * d
  PROVE  a * f <= e * b
<1>1. ASSUME NEW x \in Nat, NEW y \in Nat, NEW z \in Nat, x <= y PROVE x * z <= y * z
  BY <1>1
<1>2. ASSUME NEW x \in Nat, NEW y \in Nat, x * d <= y * d PROVE x <= y
  BY <1>2
<1>3. (a * d) * f <= (c * b) * f /\ (c * f) * b <= (e * d) * b
  <2>1. a * d \in Nat /\ c * b \in Nat /\ c * f \in Nat /\ e * d \in Nat
    OBVIOUS
  <2>2. QED
    BY <1>1, <2>1
<1>4. (a * d) * f = (a * f) * d /\ (c * b) * f = (c * f) * b /\ (e * d) * b = (e * b) * d
  OBVIOUS
<1>5. a * f \in Nat /\ e * b \in Nat /\ (c * f) * b \in Nat /\ (a * f) * d \in Nat /\ (e * b) * d \in Nat
  OBVIOUS
<1>6. (a * f) * d <= (e * b) * d
  BY <1>3, <1>4, <1>5
<1>7. QED
  BY <1>2, <1>5, <1>6

\* Of some fractions one is the greatest: the shortest list without one would have one.
LEMMA GreatestFraction ==
  ASSUME NEW n \in Nat \ {0}, NEW w \in [1..n -> Nat], NEW g \in [1..n -> Nat \ {0}]
  PROVE  \E i \in 1..n : \A j \in 1..n : w[j] * g[i] <= w[i] * g[j]
<1> DEFINE P(m) == \E i \in 1..m : \A j \in 1..m : w[j] * g[i] <= w[i] * g[j]
           T == {m \in Nat : m \in 1..n /\ ~ P(m)}
<1>1. ASSUME T # {} PROVE FALSE
  <2>1. T \in SUBSET Nat
    OBVIOUS
  <2>2. PICK m \in T : \A k \in T : m <= k
    <3> HIDE DEF T
    <3> QED BY <1>1, <2>1, Combining!Least
  <2>3. m \in 1..n /\ ~ P(m)
    BY <2>2
  <2>4. m # 1
    <3>1. w[1] * g[1] <= w[1] * g[1] /\ 1..1 = {1}
      OBVIOUS
    <3>2. P(1)
      BY <3>1
    <3>3. QED
      BY <2>3, <3>2
  <2>5. m - 1 \in 1..n /\ m - 1 \notin T
    <3>1. m - 1 \in 1..n /\ m \in Nat /\ m - 1 \in Nat /\ ~ (m <= m - 1)
      BY <2>3, <2>4
    <3> HIDE DEF T
    <3>2. QED
      BY <2>2, <3>1
  <2>6. P(m - 1)
    <3>1. m - 1 \in Nat
      BY <2>5
    <3> HIDE DEF P
    <3>2. QED
      BY <2>5, <3>1
  <2>7. PICK i \in 1..(m - 1) : \A j \in 1..(m - 1) : w[j] * g[i] <= w[i] * g[j]
    BY <2>6
  <2>8. /\ i \in 1..m /\ m \in 1..m /\ \A j \in 1..m : j = m \/ j \in 1..(m - 1)
        /\ \A j \in 1..m : j \in 1..n /\ w[j] \in Nat /\ g[j] \in Nat \ {0}
        /\ \A j \in 1..m, k \in 1..m : w[j] * g[k] \in Nat
    <3>1. i \in 1..m /\ m \in 1..m /\ \A j \in 1..m : j \in 1..n /\ (j = m \/ j \in 1..(m - 1))
      BY <2>3, <2>7
    <3>2. \A j \in 1..m : w[j] \in Nat /\ g[j] \in Nat \ {0}
      BY <3>1
    <3>3. QED
      BY <3>1, <3>2
  <2>9. CASE w[m] * g[i] <= w[i] * g[m]
    <3>1. \A j \in 1..m : w[j] * g[i] <= w[i] * g[j]
      BY <2>7, <2>8, <2>9
    <3>2. QED
      BY <2>3, <2>8, <3>1
  <2>10. CASE ~ (w[m] * g[i] <= w[i] * g[m])
    <3>1. w[i] * g[m] <= w[m] * g[i]
      <4>1. w[i] * g[m] \in Nat /\ w[m] * g[i] \in Nat
        BY <2>8, Zenon
      <4>2. QED
        BY <2>10, <4>1
    <3>2. ASSUME NEW j \in 1..m PROVE w[j] * g[m] <= w[m] * g[j]
      <4>1. CASE j = m
        BY <2>8, <4>1
      <4>2. CASE j # m
        <5>1. w[j] * g[i] <= w[i] * g[j]
          BY <2>7, <2>8, <4>2
        <5>2. /\ w[j] \in Nat /\ w[i] \in Nat /\ w[m] \in Nat
              /\ g[j] \in Nat /\ g[i] \in Nat \ {0} /\ g[m] \in Nat
          BY <2>8
        <5>3. QED
          BY <3>1, <5>1, <5>2, FractionsOrdered
      <4>3. QED
        BY <4>1, <4>2
    <3>3. QED
      BY <2>3, <2>8, <3>2
  <2>11. QED
    BY <2>9, <2>10
<1>2. n \in Nat /\ n \in 1..n
  OBVIOUS
<1> HIDE DEF P
<1>3. P(n)
  BY <1>1, <1>2
<1>4. QED
  BY <1>3 DEF P

\* What is picked from pooled rows won most, or nothing was won.
LEMMA PickedIsBest ==
  ASSUME TypeInv, PoolInv, PickMove, answers # {}, ~ ListedTwice
  PROVE  IF picked' = PassMove THEN \A i \in 1..Len(moves) : Wins(i) = 0
         ELSE \E i \in 1..Len(moves) :
                /\ moves[i] = picked' /\ Wins(i) > 0
                /\ \A j \in 1..Len(moves) : Wins(j) * Games(i) <= Wins(i) * Games(j)
<1> DEFINE n == Len(moves)
           w == [i \in 1..n |-> Wins(i)]
           g == [i \in 1..n |-> Games(i)]
<1>1. stage = "waiting" /\ picked' = BestPos(ucbTable, PassMove)
  BY Zenon DEF PickMove
<1>2. n \in Nat
  BY LenProperties DEF TypeInv, TypeOK
<1>3. \A i \in 1..n :
        /\ Wins(i) \in Nat /\ Games(i) \in Nat \ {0} /\ (moves[i] = PassMove => Wins(i) = 0)
        /\ ucbTable[i] = Row(moves[i], Wins(i), Games(i))
  BY <1>1 DEF PoolInv, TablePooled, RowPooled
<1>4. w \in [1..n -> Nat] /\ g \in [1..n -> Nat \ {0}]
  BY <1>3
<1>5. \A i \in 1..n : w[i] = Wins(i) /\ g[i] = Games(i)
  OBVIOUS
<1>6. ucbTable = [i \in 1..n |-> ucbTable[i]]
  BY <1>1 DEF TypeInv, TableOfMoves
<1>7. Len(ucbTable) = n /\ ToSet(ucbTable) = {ucbTable[i] : i \in 1..n}
  <2> DEFINE S == {ucbTable[i] : i \in 1..n}
  <2> HIDE DEF n
  <2>1. ucbTable \in [1..n -> S]
    BY <1>6
  <2>2. ucbTable \in Seq(S)
    BY <1>2, <2>1, SeqDef
  <2>3. Len(ucbTable) = n /\ DOMAIN ucbTable = 1..n
    BY <1>2, <2>1, <2>2, LenProperties
  <2>4. QED
    BY <2>3, Zenon DEF ToSet
<1>8. ASSUME NEW i \in 1..n
      PROVE  /\ ucbTable[i].pos = moves[i] /\ ucbTable[i].expected = Share(w[i], g[i])
             /\ ucbTable[i].expected.num > 0 <=> w[i] > 0
             /\ w[i] \in Nat /\ g[i] \in Nat \ {0}
  <2>1. w[i] \in Nat /\ g[i] \in Nat \ {0} /\ ucbTable[i] = Row(moves[i], w[i], g[i])
    BY <1>3, <1>4, <1>5
  <2> HIDE DEF w, g
  <2>2. ucbTable[i].pos = moves[i] /\ ucbTable[i].expected = Share(w[i], g[i])
    BY <2>1, WinsOfRow
  <2>3. Share(w[i], g[i]).num > 0 <=> w[i] > 0
    BY <2>1, ShareOf
  <2>4. QED
    BY <2>1, <2>2, <2>3
<1> HIDE DEF w, g
<1>9. ASSUME NEW i \in 1..n, NEW j \in 1..n
      PROVE  ~ Less(ucbTable[i].expected, ucbTable[j].expected) <=> w[j] * g[i] <= w[i] * g[j]
  <2>1. Less(ucbTable[i].expected, ucbTable[j].expected) <=> w[i] * g[j] < w[j] * g[i]
    <3>1. PICK a \in Nat, b \in Nat \ {0} : a = w[i] /\ b = g[i]
      BY <1>8
    <3>2. PICK c \in Nat, d \in Nat \ {0} : c = w[j] /\ d = g[j]
      BY <1>8
    <3>3. ucbTable[i].expected = Share(a, b) /\ ucbTable[j].expected = Share(c, d)
      BY <1>8, <3>1, <3>2, Zenon
    <3>4. QED
      BY <3>1, <3>2, <3>3, SharesCompare
  <2>2. w[i] * g[j] \in Nat /\ w[j] * g[i] \in Nat
    BY <1>8
  <2>3. QED
    BY <2>1, <2>2
<1>10. \A i \in 1..n : i \in Best(ucbTable) <=>
                         w[i] > 0 /\ \A j \in 1..n : w[j] * g[i] <= w[i] * g[j]
  <2> TAKE i \in 1..n
  <2>1. i \in Best(ucbTable) <=>
          w[i] > 0 /\ \A j \in 1..n : ~ Less(ucbTable[i].expected, ucbTable[j].expected)
    BY <1>7, <1>8, Zenon DEF Best
  <2>2. QED
    BY <1>9, <2>1, Zenon
<1>11. Best(ucbTable) \subseteq 1..n
  BY <1>7, Zenon DEF Best
<1>12. CASE Best(ucbTable) = {}
  <2>1. picked' = PassMove
    BY <1>1, <1>2, <1>7, <1>12, BestPosOfTable
  <2>2. \A i \in 1..n : w[i] = 0
    <3>1. ASSUME n # 0, NEW j \in 1..n PROVE w[j] = 0
      <4>1. PICK i \in 1..n : \A k \in 1..n : w[k] * g[i] <= w[i] * g[k]
        <5>1. n \in Nat \ {0}
          BY <1>2, <3>1
        <5> HIDE DEF n
        <5>2. QED
          BY <1>4, <5>1, GreatestFraction
      <4>2. ~ (w[i] > 0)
        BY <1>10, <1>12, <4>1
      <4>3. w[i] = 0 /\ w[j] * g[i] <= w[i] * g[j] /\ w[j] \in Nat /\ g[i] \in Nat \ {0} /\ g[j] \in Nat
        BY <1>8, <4>1, <4>2
      <4>4. w[j] * g[i] <= 0
        BY <4>3
      <4>5. QED
        BY <4>3, <4>4
    <3>2. n = 0 => 1..n = {}
      OBVIOUS
    <3>3. QED
      BY <3>1, <3>2
  <2>3. QED
    BY <1>5, <2>1, <2>2
<1>13. CASE Best(ucbTable) # {}
  <2>1. PICK i \in Best(ucbTable) : picked' = ucbTable[i].pos
    BY <1>1, <1>2, <1>7, <1>13, BestPosOfTable
  <2>2. i \in 1..n /\ picked' = moves[i] /\ w[i] > 0 /\ \A j \in 1..n : w[j] * g[i] <= w[i] * g[j]
    BY <1>8, <1>10, <1>11, <2>1
  <2>3. picked' # PassMove
    BY <1>3, <1>5, <2>2
  <2>4. QED
    BY <1>5, <2>2, <2>3
<1>14. QED
  BY <1>12, <1>13

\* A step that leaves the move picked, what was found and the stage as they are.
LEMMA BestKept ==
  ASSUME BestMovePicked, UNCHANGED <<answers, moves, stage, picked>>
  PROVE  BestMovePicked'
<1>1. ListedTwice' <=> ListedTwice
  BY DEF ListedTwice
<1>2. \A i : Wins(i)' = Wins(i) /\ Games(i)' = Games(i)
  BY Zenon DEF Wins, Games
<1>3. QED
  BY <1>1, <1>2, Zenon DEF BestMovePicked

\* Only PickMove picks, and what it picks is the best.
LEMMA BestStep == TypeInv /\ AnswersInv /\ PoolInv /\ BestMovePicked /\ [Next]_vars => BestMovePicked'
<1> SUFFICES ASSUME TypeInv, AnswersInv, PoolInv, BestMovePicked, [Next]_vars PROVE BestMovePicked'
  OBVIOUS
<1>1. CASE ListLocalMoves \/ AddRandomMove \/ SendCommand
  BY <1>1 DEF ListLocalMoves, AddRandomMove, SendCommand, BestMovePicked
<1>2. CASE PickMove
  <2>1. UNCHANGED <<answers, moves>>
    BY <1>2 DEF PickMove, history
  <2>2. ListedTwice' <=> ListedTwice
    BY <2>1 DEF ListedTwice
  <2>3. \A i : Wins(i)' = Wins(i) /\ Games(i)' = Games(i)
    BY <2>1, Zenon DEF Wins, Games
  <2>4. DOMAIN moves = 1..Len(moves)
    BY LenProperties DEF TypeInv, TypeOK
  <2>5. ASSUME answers # {}, ~ ListedTwice
        PROVE  IF picked' = PassMove THEN \A i \in DOMAIN moves : Wins(i) = 0
               ELSE \E i \in DOMAIN moves :
                      /\ moves[i] = picked' /\ Wins(i) > 0
                      /\ \A j \in DOMAIN moves : Wins(j) * Games(i) <= Wins(i) * Games(j)
    BY <1>2, <2>4, <2>5, PickedIsBest, Zenon
  <2>6. QED
    BY <2>1, <2>2, <2>3, <2>5, Zenon DEF BestMovePicked
<1>3. CASE SetClock \/ ReportClock \/ NewGame \/ UNCHANGED vars
  BY <1>3, BestKept DEF SetClock, ReportClock, NewGame, vars, mastervars, slavevars, history
<1>4. ASSUME NEW s \in Slaves, SlaveStep(s) \/ \E k \in 1..MaxSearches : TimerFires(s, k)
      PROVE  BestMovePicked'
  <2>1. UNCHANGED <<mastervars, answers>>
    BY <1>4, Zenon DEF SlaveStep, StartUCB, FirstPlays, SelectCandidate, SimulateNext, EndUCB,
                       SimulationThrows, MonteCarlo, TimerFires, history
  <2>2. QED
    BY <2>1, BestKept DEF mastervars
<1>5. ASSUME NEW s \in Slaves, MergeAnswer(s) PROVE BestMovePicked'
  <2>1. search[s].stage = "done" /\ stage' = stage
    BY <1>5 DEF MergeAnswer
  <2>2. stage' = "waiting"
    BY <2>1 DEF TypeInv, SearchesKept
  <2>3. QED
    BY <2>2, Zenon DEF BestMovePicked
<1>6. QED
  BY <1>1, <1>2, <1>3, <1>4, <1>5 DEF Next, SlaveStep

\* No other candidate won a greater share of its games than the move picked, and a pass
\* is picked when none won any (the loop over ucbTable in generateMove).
THEOREM BestPicked == Spec => []BestMovePicked
<1>1. Init => BestMovePicked /\ AnswersInv
  BY DEF Init, BestMovePicked, AnswersInv, AnswersCoverCandidates
<1>2. QED
  BY <1>1, BestStep, AnswersStep, PoolInvariant, TypeInvariant, PTL DEF Spec

-----------------------------------------------------------------------------
\* The clock.

\* A slave that works after a step has worked before it, with the same options.
LEMMA OptionsKept ==
  ASSUME TypeInv, NEW s \in Slaves,
         SlaveStep(s) \/ (\E k \in 1..MaxSearches : TimerFires(s, k)) \/ MergeAnswer(s),
         NEW t \in Slaves, search'[t].stage \in {"asked", "first", "loop"}
  PROVE  engine'[t] = engine[t] /\ search[t].stage \in {"asked", "first", "loop"}
<1> DEFINE Busy(q) == q.stage \in {"asked", "first", "loop"}
<1>1. search \in [Slaves -> Searches] /\ engine \in [Slaves -> Engines]
  BY DEF TypeInv, TypeOK
<1>2. CASE StartUCB(s)
  <2>1. Busy(search[s]) /\ engine' = engine
    BY <1>2 DEF StartUCB
  <2>2. QED
    BY <1>1, <1>2, <2>1, StartForm
<1>3. CASE FirstPlays(s)
  <2>1. Busy(search[s]) /\ engine' = engine
    BY <1>3 DEF FirstPlays
  <2>2. QED
    BY <1>1, <1>3, <2>1, FirstPlaysForm
<1>4. CASE SelectCandidate(s)
  <2>1. Busy(search[s]) /\ engine' = engine
    BY <1>4 DEF SelectCandidate
  <2>2. QED
    BY <1>1, <1>4, <2>1, SelectForm
<1>5. CASE SimulateNext(s)
  <2>1. Busy(search[s]) /\ engine' = engine
    BY <1>5 DEF SimulateNext
  <2>2. QED
    BY <1>1, <1>5, <2>1, SimulateForm
<1>6. CASE EndUCB(s)
  <2>1. PICK q, e : /\ search' = [search EXCEPT ![s] = q] /\ engine' = [engine EXCEPT ![s] = e]
                    /\ q.stage = "done"
    BY <1>6, EndForm
  <2>2. QED
    BY <1>1, <2>1
<1>7. CASE MonteCarlo(s)
  <2>1. \E q, e : /\ search' = [search EXCEPT ![s] = q] /\ engine' = [engine EXCEPT ![s] = e]
                  /\ q.stage \in {"done", "dead"}
    BY <1>1, <1>7, MonteForm, NewSearches
  <2>2. PICK q, e : /\ search' = [search EXCEPT ![s] = q] /\ engine' = [engine EXCEPT ![s] = e]
                    /\ q.stage \in {"done", "dead"}
    BY <2>1
  <2>3. QED
    BY <1>1, <2>2
<1>8. CASE SimulationThrows(s)
  <2>1. search' = [search EXCEPT ![s] = Dead] /\ engine' = engine
    BY <1>8, Zenon DEF SimulationThrows, Dies, Dead
  <2>2. QED
    BY <1>1, <2>1, NewSearches
<1>9. ASSUME NEW k \in 1..MaxSearches, TimerFires(s, k)
      PROVE  engine'[t] = engine[t] /\ Busy(search[t])
  <2>1. engine' = engine
    BY <1>9 DEF TimerFires
  <2>2. search'[t].stage = search[t].stage
    BY <1>1, <1>9, TimerForm
  <2>3. QED
    BY <2>1, <2>2
<1>10. CASE MergeAnswer(s)
  <2>1. search' = [search EXCEPT ![s] = NoSearch] /\ engine' = engine
    BY <1>10, Zenon DEF MergeAnswer
  <2>2. QED
    BY <1>1, <2>1, NewSearches
<1>11. QED
  BY <1>2, <1>3, <1>4, <1>5, <1>6, <1>7, <1>8, <1>9, <1>10 DEF SlaveStep

\* Budgets are told with the clock they are from.
LEMMA ClockStep == TypeInv /\ ClockInv /\ [Next]_vars => ClockInv'
<1> SUFFICES ASSUME TypeInv, ClockInv, [Next]_vars PROVE ClockInv'
  OBVIOUS
<1>1. ASSUME UNCHANGED <<clock, remaining>>, stage' # "waiting" PROVE ClockInv'
  BY <1>1 DEF ClockInv
<1>2. CASE SetClock
  <2>1. PICK main, byo \in ClockTimes, stones \in {0, 1} :
          /\ byo <= main /\ (stones = 0 => byo = main)
          /\ clock' = TimeHandler(main, byo, stones)
          /\ remaining' = IF stones = 0 THEN main ELSE main + byo
    BY <1>2 DEF SetClock
  <2>2. main \in Nat /\ byo \in Nat
    BY ClockAssumption
  <2>3. GetTimeRemainingForMove(TimeHandler(main, byo, stones)) = IF stones = 0 THEN main ELSE byo
    BY DEF GetTimeRemainingForMove, TimeHandler
  <2>4. stage' # "waiting"
    BY <1>2 DEF SetClock
  <2>5. GetTimeRemainingForMove(clock)' = IF stones = 0 THEN main ELSE byo
    BY <2>1, <2>3, Zenon
  <2>6. QED
    BY <2>1, <2>2, <2>4, <2>5 DEF ClockInv
<1>3. CASE ReportClock
  <2>1. PICK time \in ClockTimes, stones \in {0, 1} :
          clock' = UpdateTime(clock, time, stones) /\ remaining' = time
    BY <1>3, Zenon DEF ReportClock
  <2>2. time \in Int /\ clock \in Clocks
    BY ClockAssumption DEF TypeInv, TypeOK
  <2>3. GetTimeRemainingForMove(UpdateTime(clock, time, stones)) = time
    BY <2>2, UpdatedClock
  <2>4. GetTimeRemainingForMove(clock)' = time
    BY <2>1, <2>3, Zenon
  <2>5. stage' # "waiting"
    BY <1>3 DEF ReportClock
  <2>6. QED
    BY <2>1, <2>2, <2>4, <2>5 DEF ClockInv
<1>4. CASE NewGame
  BY <1>4 DEF NewGame, NoTimeHandler, ClockInv
<1>5. CASE ListLocalMoves \/ AddRandomMove \/ PickMove
  BY <1>1, <1>5 DEF ListLocalMoves, AddRandomMove, PickMove, history
<1>6. CASE SendCommand
  <2>1. UNCHANGED <<clock, remaining>>
    BY <1>6 DEF SendCommand, history
  <2>2. ASSUME clock.isActive, NEW s \in Slaves, search'[s].stage \in {"asked", "first", "loop"},
               engine'[s].aiType # "RAN"
        PROVE  engine'[s].timeAlloc = GetTimeRemainingForMove(clock) - GO_TIME_PROCESSING_BUFFER
    <3>1. search[s].stage \in {"idle", "dead"} /\ (s \notin crew => search[s].stage = "idle")
      BY <1>6 DEF SendCommand, TypeInv, SearchesKept
    <3>2. /\ engine'[s].aiType = Options.ai
          /\ Options.ai # "RAN" /\ Options.opt = "t" => engine'[s].timeAlloc = Options.value
      BY <1>6, <2>2, <3>1, SendForm
    <3>3. Options.opt = "t"
            /\ Options.value = GetTimeRemainingForMove(clock) - GO_TIME_PROCESSING_BUFFER
      BY <2>2, OptionsType DEF TypeInv
    <3>4. QED
      BY <2>2, <3>2, <3>3
  <2>3. QED
    BY <2>1, <2>2 DEF ClockInv
<1>7. ASSUME NEW s \in Slaves,
             SlaveStep(s) \/ (\E k \in 1..MaxSearches : TimerFires(s, k)) \/ MergeAnswer(s)
      PROVE  ClockInv'
  <2>1. UNCHANGED <<clock, stage, remaining>>
    BY <1>7, Zenon DEF SlaveStep, StartUCB, FirstPlays, SelectCandidate, SimulateNext, EndUCB, MergeAnswer,
                       SimulationThrows, MonteCarlo, TimerFires, history, mastervars
  <2>2. QED
    BY <1>7, <2>1, OptionsKept DEF ClockInv
<1>8. CASE UNCHANGED vars
  BY <1>8 DEF vars, mastervars, slavevars, history, ClockInv
<1>9. QED
  BY <1>2, <1>3, <1>4, <1>5, <1>6, <1>7, <1>8 DEF Next, SlaveStep

\* The time a slave searches is less than the game has left, whatever was set and
\* reported before (GetTimeRemainingForMove, e_useai).
THEOREM Budgets == Spec => []BudgetsWithinClock
<1>1. Init => ClockInv
  BY DEF Init, ClockInv, NoTimeHandler
<1>2. TypeInv /\ ClockInv => BudgetsWithinClock
  <2> SUFFICES ASSUME TypeInv, ClockInv, NEW s \in Slaves, Searching(s), clock.isActive,
                      engine[s].timeAlloc >= 0
               PROVE  engine[s].timeAlloc < remaining
    BY DEF BudgetsWithinClock
  <2>1. stage = "waiting" /\ engine[s].aiType = "UCB"
    BY DEF TypeInv, SearchesKept, SlaveKept, Searching, TypeOK
  <2>2. engine[s].timeAlloc = GetTimeRemainingForMove(clock) - 5
    BY <2>1 DEF ClockInv, Searching, GO_TIME_PROCESSING_BUFFER
  <2>3. GetTimeRemainingForMove(clock) <= remaining
    BY DEF ClockInv
  <2>4. GetTimeRemainingForMove(clock) \in Int /\ remaining \in Int
    <3>1. clock \in Clocks
      BY DEF TypeInv, TypeOK
    <3>2. QED
      BY <3>1 DEF TypeInv, TypeOK, Clocks, GetTimeRemainingForMove
  <2>5. QED
    BY <2>2, <2>3, <2>4
<1>3. QED
  BY <1>1, <1>2, ClockStep, TypeInvariant, PTL DEF Spec

-----------------------------------------------------------------------------
\* Timers.

\* A step of slave s, which is all that it changes.
LEMMA TimersStepKeeps ==
  ASSUME TimerInv, NEW s \in Slaves, UNCHANGED <<moves, number>>,
         \A t \in Slaves : t # s => /\ search'[t] = search[t] /\ engine'[t] = engine[t]
                                    /\ timers'[t] = timers[t] /\ spare'[t] = spare[t],
         TimersKept(search'[s], engine'[s], timers'[s], spare'[s])
  PROVE  TimerInv'
<1>1. ASSUME NEW t \in Slaves
      PROVE  TimersKept(search'[t], engine'[t], timers'[t], spare'[t])
  <2>1. CASE t = s
    BY <2>1
  <2>2. CASE t # s
    BY <2>2 DEF TimerInv
  <2>3. QED
    BY <2>1, <2>2
<1>2. QED
  BY <1>1 DEF TimerInv, TimersKept

\* Every step keeps a timer to its search.
LEMMA TimerStep == TypeInv /\ TimerInv /\ [Next]_vars => TimerInv'
<1> SUFFICES ASSUME TypeInv, TimerInv, [Next]_vars PROVE TimerInv'
  OBVIOUS
<1>1. /\ search \in [Slaves -> Searches] /\ engine \in [Slaves -> Engines]
      /\ timers \in [Slaves -> SUBSET (1..number)] /\ spare \in [Slaves -> SUBSET (1..number)]
      /\ number \in Nat
  BY DEF TypeInv, TypeOK
<1>2. CASE /\ UNCHANGED <<engine, search, timers, spare, number>>
           /\ moves' = moves \/ stage # "waiting"
  <2>1. CASE moves' = moves
    BY <1>2, <2>1 DEF TimerInv, TimersKept
  <2>2. CASE stage # "waiting"
    <3>1. \A s \in Slaves : search[s].stage \in {"idle", "dead"}
      BY <2>2 DEF TypeInv, SearchesKept
    <3>2. QED
      BY <1>2, <3>1 DEF TimerInv, TimersKept
  <2>3. QED
    BY <1>2, <2>1, <2>2
<1>3. CASE \/ SetClock \/ ReportClock \/ NewGame \/ ListLocalMoves \/ AddRandomMove \/ PickMove
           \/ UNCHANGED vars
  BY <1>2, <1>3 DEF SetClock, ReportClock, NewGame, ListLocalMoves, AddRandomMove, PickMove,
                    vars, mastervars, slavevars, history
<1>4. CASE SendCommand
  <2>1. number' = number + 1 /\ UNCHANGED <<moves, timers, spare>>
    BY <1>4 DEF SendCommand, history
  <2>2. ASSUME NEW s \in Slaves
        PROVE  TimersKept(search[s], engine[s], timers[s], spare[s])'
    <3>1. search[s].stage \in {"idle", "dead"} /\ search'[s].stage \in {"idle", "asked", "dead"}
      <4>1. search[s].stage \in {"idle", "dead"}
        BY <1>4 DEF SendCommand, TypeInv, SearchesKept
      <4>2. search'[s] = Asked \/ search'[s] = search[s]
        BY <1>4, SendForm
      <4>3. QED
        BY <4>1, <4>2, NewSearches
    <3>2. \A k \in timers[s] : \E j \in spare[s] : j <= k
      BY <3>1 DEF TimerInv, TimersKept
    <3>3. number + 1 \notin timers[s]
      BY <1>1
    <3>4. QED
      BY <2>1, <3>1, <3>2, <3>3 DEF TimersKept
  <2>3. QED
    BY <2>2 DEF TimerInv
<1>5. ASSUME NEW s \in Slaves, MergeAnswer(s) PROVE TimerInv'
  <2>1. /\ search' = [search EXCEPT ![s] = NoSearch] /\ search[s].stage = "done"
        /\ UNCHANGED <<engine, timers, spare, moves, number>>
    BY <1>5, Zenon DEF MergeAnswer
  <2>2. TimersKept(NoSearch, engine[s], timers[s], spare[s])
    BY <2>1, NewSearches DEF TimerInv, TimersKept
  <2>3. QED
    BY <1>1, <2>1, <2>2, TimersStepKeeps
<1>6. ASSUME NEW s \in Slaves, SlaveStep(s) \/ \E k \in 1..MaxSearches : TimerFires(s, k)
      PROVE  TimerInv'
  <2>1. UNCHANGED <<moves, number>>
    BY <1>6, Zenon DEF SlaveStep, StartUCB, FirstPlays, SelectCandidate, SimulateNext, EndUCB,
                       SimulationThrows, MonteCarlo, TimerFires, mastervars
  <2>2. TimersKept(search[s], engine[s], timers[s], spare[s])
    BY DEF TimerInv
  <2>4. /\ timers[s] \in SUBSET (1..number) /\ search[s] \in Searches /\ engine[s] \in Engines
        /\ Len(moves) \in Nat
    BY <1>1, SlaveFacts
  <2>5. ASSUME search' = [search EXCEPT ![s] = Dead], timers' = [timers EXCEPT ![s] = {}],
               UNCHANGED <<engine, spare>>
        PROVE  TimerInv'
    <3>1. TimersKept(Dead, engine[s], {}, spare[s])
      BY NewSearches DEF TimersKept
    <3>2. QED
      BY <1>1, <2>1, <2>5, <3>1, TimersStepKeeps
  <2>6. CASE StartUCB(s)
    <3>1. search[s].stage = "asked" /\ engine' = engine
      BY <2>6 DEF StartUCB
    <3>2. \/ search' = [search EXCEPT ![s] = Dead] /\ timers' = [timers EXCEPT ![s] = {}]
               /\ spare' = spare
          \/ \E q : /\ search' = [search EXCEPT ![s] = q]
                    /\ q.stage = "first" /\ q.playUntilStopped
                    /\ timers' = [timers EXCEPT ![s] = IF engine[s].timeAlloc >= 0
                                                      THEN timers[s] \cup {number} ELSE timers[s]]
                    /\ spare' = [spare EXCEPT ![s] = IF engine[s].simulations <= Len(moves)
                                                    THEN spare[s] \cup {number} ELSE spare[s]]
      BY <2>6, StartForm
    <3>3. ASSUME NEW q, search' = [search EXCEPT ![s] = q],
                 q.stage = "first", q.playUntilStopped,
                 timers' = [timers EXCEPT ![s] = IF engine[s].timeAlloc >= 0
                                               THEN timers[s] \cup {number} ELSE timers[s]],
                 spare' = [spare EXCEPT ![s] = IF engine[s].simulations <= Len(moves)
                                             THEN spare[s] \cup {number} ELSE spare[s]]
          PROVE  TimerInv'
      <4>1. /\ timers'[s] = IF engine[s].timeAlloc >= 0 THEN timers[s] \cup {number} ELSE timers[s]
            /\ spare'[s] = IF engine[s].simulations <= Len(moves)
                           THEN spare[s] \cup {number} ELSE spare[s]
        BY <1>1, <3>3
      <4>2. TimersKept(q, engine[s], timers'[s], spare'[s])
        BY <2>2, <3>1, <3>3, <4>1 DEF TimersKept
      <4>3. QED
        BY <1>1, <2>1, <3>1, <3>3, <4>2, TimersStepKeeps
    <3>4. QED
      BY <2>5, <3>1, <3>2, <3>3
  <2>7. CASE FirstPlays(s)
    <3>1. search[s].stage = "first" /\ UNCHANGED <<engine, timers, spare>>
      BY <2>7 DEF FirstPlays, history
    <3>2. PICK q : /\ search' = [search EXCEPT ![s] = q]
                   /\ q.playUntilStopped = search[s].playUntilStopped
                   /\ \/ q.stage = "first"
                      \/ q.stage = "loop" /\ q.over = engine[s].simulations - Len(moves)
      BY <2>7, FirstPlaysForm
    <3>3. TimersKept(q, engine[s], timers[s], spare[s])
      BY <2>2, <3>1, <3>2 DEF TimersKept
    <3>4. QED
      BY <1>1, <2>1, <3>1, <3>2, <3>3, TimersStepKeeps
  <2>8. CASE SelectCandidate(s) \/ SimulateNext(s)
    <3>1. search[s].stage = "loop" /\ UNCHANGED <<engine, timers, spare>>
      BY <2>8 DEF SelectCandidate, SimulateNext, history
    <3>2. PICK q : /\ search' = [search EXCEPT ![s] = q]
                   /\ q.playUntilStopped = search[s].playUntilStopped
                   /\ q.stage = "loop"
                   /\ search[s].playUntilStopped => q.over = search[s].over
      BY <2>8, SelectForm, SimulateForm
    <3>3. TimersKept(q, engine[s], timers[s], spare[s])
      BY <2>2, <3>1, <3>2 DEF TimersKept
    <3>4. QED
      BY <1>1, <2>1, <3>1, <3>2, <3>3, TimersStepKeeps
  <2>9. CASE EndUCB(s)
    <3>1. search[s].stage = "loop" /\ ~ Continues(search[s]) /\ UNCHANGED <<timers, spare>>
      BY <2>9 DEF EndUCB, history
    <3>2. PICK q \in Searches, e \in Engines :
            /\ search' = [search EXCEPT ![s] = q] /\ engine' = [engine EXCEPT ![s] = e]
            /\ q.stage = "done"
      BY <2>9, EndForm, Zenon
    <3>3. number \in timers[s] => \E j \in spare[s] : j <= number
      <4>1. CASE search[s].playUntilStopped
        <5>1. search[s].over \in Int /\ engine[s].simulations \in Nat
          BY <2>4 DEF Searches, Engines
        <5>2. engine[s].simulations <= Len(moves)
          BY <2>2, <2>4, <3>1, <4>1, <5>1 DEF TimersKept, Continues
        <5>3. number \in spare[s]
          BY <2>2, <3>1, <5>2 DEF TimersKept
        <5>4. QED
          BY <1>1, <5>3
      <4>2. CASE ~ search[s].playUntilStopped
        <5>1. number \notin timers[s] \/ \E j \in spare[s] : j < number
          BY <2>2, <3>1, <4>2 DEF TimersKept
        <5>2. spare[s] \in SUBSET Nat
          BY <1>1
        <5>3. QED
          BY <1>1, <5>1, <5>2
      <4>3. QED
        BY <4>1, <4>2
    <3>4. TimersKept(q, e, timers[s], spare[s])
      BY <2>2, <3>1, <3>2, <3>3 DEF TimersKept
    <3>5. QED
      BY <1>1, <2>1, <3>1, <3>2, <3>4, TimersStepKeeps
  <2>10. CASE MonteCarlo(s)
    <3>1. search[s].stage = "asked" /\ UNCHANGED spare
      BY <2>10 DEF MonteCarlo, history
    <3>2. ASSUME NEW q, NEW e, search' = [search EXCEPT ![s] = q],
                 engine' = [engine EXCEPT ![s] = e], q.stage = "done", UNCHANGED timers
          PROVE  TimerInv'
      <4>1. TimersKept(q, e, timers[s], spare[s])
        BY <2>2, <3>1, <3>2 DEF TimersKept
      <4>2. QED
        BY <1>1, <2>1, <3>1, <3>2, <4>1, TimersStepKeeps
    <3>3. \/ /\ search' = [search EXCEPT ![s] = Dead] /\ timers' = [timers EXCEPT ![s] = {}]
             /\ engine' = engine
          \/ \E q, e : /\ search' = [search EXCEPT ![s] = q] /\ engine' = [engine EXCEPT ![s] = e]
                       /\ q.stage = "done" /\ UNCHANGED timers
      BY <2>10, MonteForm, Zenon
    <3>4. QED
      BY <2>5, <3>1, <3>2, <3>3
  <2>11. CASE SimulationThrows(s)
    <3>1. UNCHANGED <<engine, spare>>
      BY <2>11 DEF SimulationThrows, history
    <3>2. search' = [search EXCEPT ![s] = Dead] /\ timers' = [timers EXCEPT ![s] = {}]
      BY <2>11, Zenon DEF SimulationThrows, Dies, Dead
    <3>3. QED
      BY <2>5, <3>1, <3>2
  <2>12. ASSUME NEW k \in 1..MaxSearches, TimerFires(s, k) PROVE TimerInv'
    <3>1. UNCHANGED <<engine, spare>>
      BY <2>12 DEF TimerFires, history
    <3>2. k \in timers[s] /\ timers' = [timers EXCEPT ![s] = timers[s] \ {k}]
      BY <2>12, TimerForm
    <3>3. CASE search' = search /\ (Searching(s) => k # number)
      <4>1. TimersKept(search[s], engine[s], timers[s] \ {k}, spare[s])
        BY <2>2, <3>3 DEF TimersKept, Searching
      <4>2. search' = [search EXCEPT ![s] = search[s]]
        BY <1>1, <3>3
      <4>3. QED
        BY <1>1, <2>1, <3>1, <3>2, <4>1, <4>2, TimersStepKeeps
    <3>4. ASSUME Searching(s), NEW q, search' = [search EXCEPT ![s] = q],
                 q.stage = search[s].stage, q.over = search[s].over, ~ q.playUntilStopped
          PROVE  TimerInv'
      <4>1. k = number => engine[s].timeAlloc >= 0
        BY <2>2, <3>2, <3>4 DEF TimersKept, Searching
      <4>2. k # number => \E j \in spare[s] : j < number
        <5>1. ASSUME k # number PROVE \E j \in spare[s] : j < number
          <6>1. PICK j \in spare[s] : j <= k
            BY <2>2, <3>2, <5>1 DEF TimersKept
          <6>2. j \in Nat /\ k \in 1..number
            BY <1>1, <3>2
          <6>3. QED
            BY <1>1, <5>1, <6>1, <6>2
        <5>2. QED
          BY <5>1
      <4>3. TimersKept(q, engine[s], timers[s] \ {k}, spare[s])
        BY <2>2, <3>4, <4>1, <4>2 DEF TimersKept, Searching
      <4>4. QED
        BY <1>1, <2>1, <3>1, <3>2, <3>4, <4>3, TimersStepKeeps
    <3>5. QED
      BY <2>12, <3>3, <3>4, TimerForm
  <2>13. QED
    BY <1>6, <2>6, <2>7, <2>8, <2>9, <2>10, <2>11, <2>12 DEF SlaveStep
<1>7. QED
  BY <1>3, <1>4, <1>5, <1>6 DEF Next, SlaveStep

\* A search is stopped by its own timer; by that of an earlier one only if that search
\* had no more simulations than candidates, and so ended without it (genmoveTimer).
THEOREM OwnTimers == Spec => []StoppedByOwnTimer
<1>1. Init => TimerInv
  BY NewSearches DEF Init, TimerInv, TimersKept
<1>2. TimerInv => StoppedByOwnTimer
  BY DEF TimerInv, TimersKept, StoppedByOwnTimer, Searching
<1>3. QED
  BY <1>1, <1>2, TimerStep, TypeInvariant, PTL DEF Spec
=============================================================================
