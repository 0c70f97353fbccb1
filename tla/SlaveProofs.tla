---------------------------- MODULE SlaveProofs ----------------------------
(***************************************************************************)
(* Theorems about a slave, for a buffer of any size and any number of      *)
(* commands, plays, lost connections and split batches.                    *)
(***************************************************************************)
EXTENDS Slave, FiniteSetTheorems, SequenceTheorems, TLAPS

\* The bounds are natural numbers.
LEMMA Bounds ==
  /\ BufferLines \in Nat /\ MaxPlays \in Nat /\ MaxFaults \in Nat /\ MaxLists \in Nat
  /\ MaxCommands \in Nat /\ MaxCommands # 0
BY BoundsAssumption

-----------------------------------------------------------------------------
\* Lines.

\* What a master writes, and the halves it is cut into: all but the handshake bear
\* the number of a command, and plays count from 1.
Sent == {l \in Lines : /\ l.kind # "e_request" => l.cmd # 0
                       /\ l.kind = "play" => l.arg # 0}

\* The fields of a line.
LEMMA SentIs ==
  ASSUME NEW l \in Sent
  PROVE  /\ l.kind \in {"e_request", "clear_board", "boardsize", "play", "e_randmoves",
                        "e_useai", "genmove"}
         /\ l.cmd \in 0..MaxCommands /\ l.arg \in 0..MaxPlays
         /\ l.part \in {"whole", "front", "back"}
         /\ l.kind # "e_request" => l.cmd \in 1..MaxCommands
         /\ l.kind = "play" => l.arg \in 1..MaxPlays
BY DEF Sent, Lines

\* A part of a line is a line.
LEMMA PartSent ==
  ASSUME NEW l \in Sent, NEW p \in {"whole", "front", "back"}
  PROVE  /\ [l EXCEPT !.part = p] \in Sent
         /\ [l EXCEPT !.part = p].part = p
BY DEF Sent, Lines

\* The handshake is a line.
LEMMA HandshakeSent ==
  /\ Handshake \in Sent /\ <<Handshake>> \in Seq(Sent)
  /\ Handshake.kind = "e_request" /\ Handshake.part = "whole" /\ Handshake.cmd = 0
<1>1. /\ Handshake.kind = "e_request" /\ Handshake.part = "whole" /\ Handshake.cmd = 0
      /\ Handshake \in Sent
  BY Bounds DEF Handshake, Line, Sent, Lines
<1>2. QED
  BY <1>1

\* What is added to a line of a command.
LEMMA CommandLineSent ==
  ASSUME NEW n \in 1..MaxCommands, NEW a \in 0..MaxPlays,
         NEW kind \in {"clear_board", "boardsize", "play", "e_randmoves", "e_useai", "genmove"},
         kind = "play" => a # 0
  PROVE  /\ Line(kind, n, a) \in Sent
         /\ Line(kind, n, a).kind = kind /\ Line(kind, n, a).cmd = n
         /\ Line(kind, n, a).arg = a /\ Line(kind, n, a).part = "whole"
BY Bounds DEF Line, Sent, Lines

\* The lines of a batch, in their order.
LEMMA BatchIs ==
  ASSUME NEW n \in 1..MaxCommands, NEW k \in 0..MaxPlays
  PROVE  /\ Batch(n, k) \in Seq(Sent) /\ Len(Batch(n, k)) = k + 5
         /\ Batch(n, k)[1] = Line("clear_board", n, 0)
         /\ Batch(n, k)[2] = Line("boardsize", n, 0)
         /\ \A i \in 1..k : Batch(n, k)[i + 2] = Line("play", n, i)
         /\ Batch(n, k)[k + 3] = Line("e_randmoves", n, 0)
         /\ Batch(n, k)[k + 4] = Line("e_useai", n, 0)
         /\ Batch(n, k)[k + 5] = Line("genmove", n, 0)
<1> DEFINE a == <<Line("clear_board", n, 0), Line("boardsize", n, 0)>>
           b == [i \in 1..k |-> Line("play", n, i)]
           c == <<Line("e_randmoves", n, 0), Line("e_useai", n, 0), Line("genmove", n, 0)>>
<1>1. a \in Seq(Sent) /\ Len(a) = 2
  <2>1. Line("clear_board", n, 0) \in Sent /\ Line("boardsize", n, 0) \in Sent
    BY CommandLineSent, Bounds
  <2>2. QED
    BY <2>1
<1>2. b \in Seq(Sent) /\ Len(b) = k
  <2>1. \A i \in 1..k : Line("play", n, i) \in Sent
    BY CommandLineSent, Bounds
  <2>2. QED
    BY <2>1, IsASeq
<1>3. c \in Seq(Sent) /\ Len(c) = 3
  <2>1. /\ Line("e_randmoves", n, 0) \in Sent /\ Line("e_useai", n, 0) \in Sent
        /\ Line("genmove", n, 0) \in Sent
    BY CommandLineSent, Bounds
  <2>2. QED
    BY <2>1
<1>4. a[1] = Line("clear_board", n, 0) /\ a[2] = Line("boardsize", n, 0)
  OBVIOUS
<1>5. \A i \in 1..k : b[i] = Line("play", n, i)
  OBVIOUS
<1>6. c[1] = Line("e_randmoves", n, 0) /\ c[2] = Line("e_useai", n, 0) /\ c[3] = Line("genmove", n, 0)
  OBVIOUS
<1>7. Batch(n, k) = (a \o b) \o c
  BY Zenon DEF Batch
<1> HIDE DEF a, b, c
<1> DEFINE two == 2
           three == 3
           d == a \o b
           m == two + k
<1>8. two = 2 /\ three = 3 /\ m = two + k
  OBVIOUS
<1>9. two \in Nat /\ three \in Nat /\ k \in Nat /\ m \in Nat
  BY Bounds
<1> HIDE DEF two, three
<1>10. Len(a) = two /\ Len(b) = k /\ Len(c) = three
  BY <1>1, <1>2, <1>3, <1>8
<1> HIDE DEF m, d
<1>11. /\ d \in Seq(Sent) /\ Len(d) = m
       /\ \A i \in 1..two : d[i] = a[i]
       /\ \A i \in 1..k : d[two + i] = b[i]
  <2>1. a \in Seq(Sent) /\ b \in Seq(Sent)
    BY <1>1, <1>2
  <2>2. QED
    BY <2>1, <1>9, <1>10 DEF m, d
<1>12. /\ d \o c \in Seq(Sent) /\ Len(d \o c) = m + three
       /\ \A i \in 1..m : (d \o c)[i] = d[i]
       /\ \A i \in 1..three : (d \o c)[m + i] = c[i]
  <2>1. d \in Seq(Sent) /\ c \in Seq(Sent) /\ Len(d) = m
    BY <1>3, <1>11
  <2>2. QED
    BY <2>1, <1>9, <1>10
<1>13. /\ Len(d \o c) = k + 5
       /\ \A i \in 1..k : (d \o c)[i + 2] = b[i]
  BY <1>8, <1>9, <1>11, <1>12
<1>14. /\ (d \o c)[1] = a[1] /\ (d \o c)[2] = a[2]
       /\ (d \o c)[k + 3] = c[1] /\ (d \o c)[k + 4] = c[2] /\ (d \o c)[k + 5] = c[3]
  BY <1>8, <1>9, <1>11, <1>12
<1>15. Batch(n, k) = d \o c
  BY <1>7, Zenon DEF d
<1>16. QED
  BY <1>4, <1>5, <1>6, <1>12, <1>13, <1>14, <1>15
-----------------------------------------------------------------------------
\* What is parsed.

\* The step of the loop that leaves out the numbered lines, and what it keeps: lines,
\* and all of them when none is numbered.
ParsedOp(lines, x, l) == IF Numbered(l) THEN lines ELSE Append(lines, l)
ParsedSoFar(x, base, seq, i, lines) ==
  /\ lines \in Seq(x)
  /\ (\A j \in 1..Len(seq) : ~ Numbered(seq[j])) => lines = base \o SubSeq(seq, 1, i)

Skip == INSTANCE FoldTheorems WITH Op <- ParsedOp, Holds <- ParsedSoFar

\* Adding the next line to a part of the lines.
LEMMA OneMore ==
  ASSUME NEW S, NEW base \in Seq(S), NEW q \in Seq(S), NEW i \in 1..Len(q)
  PROVE  Append(base \o SubSeq(q, 1, i - 1), q[i]) = base \o SubSeq(q, 1, i)
<1> DEFINE a == SubSeq(q, 1, i - 1)
           b == SubSeq(q, 1, i)
<1>1. /\ a \in Seq(S) /\ Len(a) = i - 1 /\ \A j \in 1..(i - 1) : a[j] = q[j]
      /\ b \in Seq(S) /\ Len(b) = i /\ \A j \in 1..i : b[j] = q[j]
      /\ q[i] \in S
  OBVIOUS
<1> HIDE DEF a, b
<1>2. PICK e \in S : e = q[i]
  BY <1>1
<1> DEFINE c == base \o a
<1>3. Append(c, e) = base \o b
  <2>1. /\ c \in Seq(S) /\ Len(c) = Len(base) + (i - 1) /\ Len(base) \in Nat
        /\ \A j \in 1..Len(base) : c[j] = base[j]
        /\ \A j \in 1..(i - 1) : c[Len(base) + j] = a[j]
    BY <1>1
  <2> HIDE DEF c
  <2>2. /\ Append(c, e) \in Seq(S) /\ Len(Append(c, e)) = Len(base) + i
        /\ \A j \in 1..Len(c) : Append(c, e)[j] = c[j]
        /\ Append(c, e)[Len(base) + i] = e
    <3>1. Len(c) + 1 = Len(base) + i
      BY <1>1, <2>1
    <3>2. QED
      BY <2>1, <3>1, AppendProperties
  <2>3. /\ base \o b \in Seq(S) /\ Len(base \o b) = Len(base) + i
        /\ \A j \in 1..Len(base) : (base \o b)[j] = base[j]
        /\ \A j \in 1..i : (base \o b)[Len(base) + j] = b[j]
    <3>1. b \in Seq(S) /\ Len(b) = i
      BY <1>1, Zenon
    <3>2. /\ base \o b \in Seq(S) /\ Len(base \o b) = Len(base) + Len(b)
          /\ \A j \in 1..(Len(base) + Len(b)) :
               (base \o b)[j] = IF j <= Len(base) THEN base[j] ELSE b[j - Len(base)]
      BY <3>1, ConcatProperties, Zenon
    <3>3. i \in Nat /\ Len(base) \in Nat
      BY <2>1
    <3> DEFINE d == base \o b
               m == Len(base)
    <3> HIDE DEF d, m
    <3>4. /\ d \in Seq(S) /\ Len(d) = m + i
          /\ \A j \in 1..(m + i) : d[j] = IF j <= m THEN base[j] ELSE b[j - m]
      BY <3>1, <3>2, Zenon DEF d, m
    <3>5. \A j \in 1..m : d[j] = base[j]
      BY <3>3, <3>4 DEF m
    <3>6. \A j \in 1..i : m + j \in 1..(m + i) /\ ~ (m + j <= m) /\ (m + j) - m = j
      BY <3>3 DEF m
    <3>7. \A j \in 1..i : d[m + j] = b[j]
      BY <3>4, <3>6, Zenon
    <3>8. QED
      BY <3>4, <3>5, <3>7, Zenon DEF d, m
  <2>4. ASSUME NEW j \in 1..(Len(base) + i) PROVE Append(c, e)[j] = (base \o b)[j]
    <3>1. CASE j \in 1..Len(base)
      BY <1>1, <2>1, <2>2, <2>3, <3>1
    <3>2. ASSUME NEW m \in 1..(i - 1), j = Len(base) + m PROVE Append(c, e)[j] = (base \o b)[j]
      <4>1. m \in 1..i /\ j \in 1..Len(c)
        BY <2>1, <3>2
      <4>2. Append(c, e)[j] = a[m]
        BY <2>1, <2>2, <3>2, <4>1, Zenon
      <4>3. (base \o b)[j] = b[m]
        BY <2>3, <3>2, <4>1, Zenon
      <4>4. a[m] = q[m] /\ b[m] = q[m]
        BY <1>1, <4>1, Zenon
      <4>5. QED
        BY <4>2, <4>3, <4>4, Zenon
    <3>3. CASE j = Len(base) + i
      BY <1>1, <1>2, <2>2, <2>3, <3>3
    <3>4. QED
      <4>1. j \in 1..Len(base) \/ j = Len(base) + i \/ j - Len(base) \in 1..(i - 1)
        BY <2>1
      <4>2. j = Len(base) + (j - Len(base))
        BY <2>1
      <4>3. QED
        BY <3>1, <3>2, <3>3, <4>1, <4>2
  <2>5. QED
    BY <2>2, <2>3, <2>4, SeqEqual
<1>4. QED
  BY <1>2, <1>3, Zenon DEF a, b, c

\* What is parsed are lines of the input, and all of them, in their order, when only
\* the first is numbered.
LEMMA ParsedIs ==
  ASSUME NEW S, NEW input \in Seq(S), input # <<>>
  PROVE  /\ Parsed(input) \in Seq(S)
         /\ (\A j \in 2..Len(input) : ~ Numbered(input[j])) => Parsed(input) = input
<1> DEFINE base == <<Head(input)>>
           q == Tail(input)
<1>1. /\ base \in Seq(S) /\ q \in Seq(S) /\ Len(q) = Len(input) - 1
      /\ \A j \in 1..Len(q) : q[j] = input[j + 1] /\ j + 1 \in 2..Len(input)
  OBVIOUS
<1>2. base \o SubSeq(q, 1, Len(q)) = input
  <2>1. SubSeq(q, 1, Len(q)) = q
    BY <1>1, SubSeqFull
  <2>2. base \o q = input
    OBVIOUS
  <2>3. QED
    BY <2>1, <2>2
<1>3. Parsed(input) = Skip!Folded(S, base, q)
  BY Zenon DEF Parsed, Skip!Folded, ParsedOp, FoldLeft, MapThenFoldSet, Max,
               Skip!FoldLeft, Skip!MapThenFoldSet, Skip!Max
<1> HIDE DEF base, q
<1>4. ParsedSoFar(S, base, q, 0, base)
  BY <1>1 DEF ParsedSoFar
<1>5. ASSUME NEW i \in 1..Len(q), NEW acc, ParsedSoFar(S, base, q, i - 1, acc)
      PROVE  ParsedSoFar(S, base, q, i, ParsedOp(acc, S, q[i]))
  <2>1. q[i] \in S /\ acc \in Seq(S)
    BY <1>1, <1>5, ElementOfSeq DEF ParsedSoFar
  <2>2. CASE Numbered(q[i])
    BY <1>5, <2>2 DEF ParsedSoFar, ParsedOp
  <2>3. CASE ~ Numbered(q[i])
    <3>1. ParsedOp(acc, S, q[i]) = Append(acc, q[i])
      BY <2>3 DEF ParsedOp
    <3>2. Append(acc, q[i]) \in Seq(S)
      BY <2>1
    <3>3. Append(base \o SubSeq(q, 1, i - 1), q[i]) = base \o SubSeq(q, 1, i)
      BY <1>1, OneMore
    <3>4. QED
      BY <1>5, <3>1, <3>2, <3>3, Zenon DEF ParsedSoFar
  <2>4. QED
    BY <2>2, <2>3
<1>6. ParsedSoFar(S, base, q, Len(q), Skip!Folded(S, base, q))
  <2> HIDE DEF ParsedSoFar, ParsedOp
  <2> QED BY <1>1, <1>4, <1>5, Skip!FoldInvariant
<1>7. QED
  BY <1>1, <1>2, <1>3, <1>6 DEF ParsedSoFar

-----------------------------------------------------------------------------
\* What a buffer holds.

\* Whole counts the lines of two sequences together.
LEMMA WholeTogether ==
  ASSUME NEW S, NEW s \in Seq(S), NEW t \in Seq(S)
  PROVE  /\ Whole(s) \in Nat /\ Whole(t) \in Nat
         /\ Whole(s \o t) = Whole(s) + Whole(t)
<1> DEFINE W(q) == {i \in 1..Len(q) : q[i].part # "back"}
           m == Len(s)
           A == W(s)
           B == {i \in W(s \o t) : i > m}
           f == [i \in W(t) |-> m + i]
<1>1. /\ m \in Nat /\ Len(t) \in Nat /\ Len(s \o t) = m + Len(t)
      /\ \A i \in 1..m : (s \o t)[i] = s[i]
      /\ \A i \in 1..Len(t) : (s \o t)[m + i] = t[i]
  OBVIOUS
<1>2. DOMAIN s = 1..Len(s) /\ DOMAIN t = 1..Len(t) /\ DOMAIN (s \o t) = 1..Len(s \o t)
  BY ConcatProperties, LenProperties
<1>3. ASSUME NEW q, NEW n \in Nat, Len(q) = n
      PROVE  IsFiniteSet(W(q))
  <2>1. W(q) \in SUBSET (1..n)
    BY <1>3
  <2>2. IsFiniteSet(1..n)
    BY FS_Interval
  <2> HIDE DEF W
  <2>3. QED
    BY <2>1, <2>2, FS_Subset
<1>4. /\ IsFiniteSet(A) /\ IsFiniteSet(W(t)) /\ IsFiniteSet(W(s \o t))
  <2> HIDE DEF W
  <2>1. Len(s \o t) \in Nat
    BY <1>1
  <2>2. QED
    BY <1>1, <1>3, <2>1
<1>5. W(s \o t) = A \cup B /\ A \cap B = {}
  BY <1>1
<1>6. f \in Bijection(W(t), B)
  <2>1. \A i \in W(t) : m + i \in B
    BY <1>1
  <2>2. \A i, j \in W(t) : m + i = m + j => i = j
    BY <1>1
  <2>3. \A j \in B : j - m \in W(t) /\ m + (j - m) = j
    BY <1>1
  <2> HIDE DEF B, W
  <2>4. \A j \in B : \E i \in W(t) : f[i] = j
    BY <2>3
  <2>5. f \in [W(t) -> B]
    BY <2>1
  <2>6. \A i, j \in W(t) : f[i] = f[j] => i = j
    BY <2>2
  <2>7. DOMAIN f = W(t)
    OBVIOUS
  <2> HIDE DEF f
  <2>8. QED
    BY <2>4, <2>5, <2>6, <2>7 DEF Bijection, Injection, Surjection, IsInjective
<1>7. Whole(s) = Cardinality(A) /\ Whole(t) = Cardinality(W(t))
      /\ Whole(s \o t) = Cardinality(W(s \o t))
  BY <1>2, Zenon DEF Whole
<1> HIDE DEF A, B, W, f, m
<1>8. IsFiniteSet(B) /\ Cardinality(B) = Cardinality(W(t))
  BY <1>4, <1>6, FS_Bijection DEF ExistsBijection
<1>9. Cardinality(A \cup B) = Cardinality(A) + Cardinality(B) - Cardinality({})
  BY <1>4, <1>5, <1>8, FS_Union
<1>10. /\ Cardinality({}) = 0 /\ Cardinality(A) \in Nat /\ Cardinality(W(t)) \in Nat
  BY <1>4, FS_EmptySet, FS_CardinalityType
<1>11. QED
  BY <1>5, <1>7, <1>8, <1>9, <1>10
-----------------------------------------------------------------------------
\* Types.

\* Lines are of a command that has a number, and so are the candidates.
Engines ==
  [aiType : AiType, timeAlloc : {GO_TIME_NOT_ACTIVE}, simulations : Nat,
   preselRandMoves : Seq(1..MaxCommands)]

TypeInv ==
  /\ engine \in Engines /\ game \subseteq 1..MaxPlays
  /\ buf \in Seq(Sent) /\ todo \in Seq(Sent) /\ wire \in Seq(Sent)
  /\ Whole(buf) <= BufferLines
  /\ number \in 0..MaxCommands
  /\ ended \in {"no", "line", "search", "unread"}
  /\ link \in {"greeting", "up", "lost", "down"}
  /\ ai \in AiTypes /\ given \in 1..MaxCommands /\ plays \in [1..MaxCommands -> 0..MaxPlays]
  /\ faults \in 0..MaxFaults

\* These types are stronger than those of the specification.
LEMMA TypeInvImplies == ASSUME TypeInv PROVE TypeOK
<1>1. Sent \subseteq Lines
  BY DEF Sent
<1>2. buf \in Seq(Lines) /\ todo \in Seq(Lines) /\ wire \in Seq(Lines)
  BY <1>1, SeqMonotonic DEF TypeInv
<1>3. engine.preselRandMoves \in Seq(1..MaxCommands) /\ engine.aiType \in AiType
  BY DEF TypeInv, Engines
<1>4. QED
  BY <1>2, <1>3 DEF TypeInv, TypeOK

\* An empty buffer holds nothing.
LEMMA WholeOfNothing == Whole(<<>>) = 0
<1>1. {i \in DOMAIN <<>> : <<>>[i].part # "back"} = {}
  OBVIOUS
<1>2. QED
  BY <1>1, FS_EmptySet, Zenon DEF Whole

\* What the lines that are no genmove do.
LEMMA EffectIs ==
  ASSUME NEW l \in Sent, Effect(l)
  PROVE  \/ l.kind \in {"clear_board", "boardsize"} /\ game' = {} /\ engine' = engine
         \/ /\ l.kind = "play" /\ l.arg \notin game
            /\ game' = game \cup {l.arg} /\ engine' = engine
         \/ l.kind = "e_randmoves" /\ engine' = E_randmoves(engine, <<l.cmd>>) /\ game' = game
         \/ l.kind = "e_useai" /\ engine' = E_useai(engine, ai, "s", l.cmd) /\ game' = game
         \/ l.kind = "e_request" /\ engine' = engine /\ game' = game
BY SentIs DEF Effect

\* They keep the types of the options and of the game.
LEMMA EffectTypes ==
  ASSUME TypeInv, NEW l \in Sent, Effect(l)
  PROVE  engine' \in Engines /\ game' \subseteq 1..MaxPlays
<1>1. ai \in AiType
  BY AiTypesAssumption DEF TypeInv, AiType
<1>2. ASSUME l.kind = "e_randmoves" PROVE E_randmoves(engine, <<l.cmd>>) \in Engines
  <2>1. l.cmd \in 1..MaxCommands
    BY <1>2, SentIs
  <2>2. engine.preselRandMoves \o <<l.cmd>> \in Seq(1..MaxCommands)
    BY <2>1 DEF TypeInv, Engines
  <2>3. QED
    BY <2>2 DEF E_randmoves, TypeInv, Engines
<1>3. E_useai(engine, ai, "s", l.cmd) \in Engines
  <2>1. l.cmd \in Nat
    BY SentIs, Bounds
  <2>2. QED
    BY <1>1, <2>1 DEF E_useai, TypeInv, Engines
<1>4. l.kind = "play" => l.arg \in 1..MaxPlays
  BY SentIs
<1>5. engine \in Engines /\ game \subseteq 1..MaxPlays
  BY DEF TypeInv
<1>6. QED
  BY <1>2, <1>3, <1>4, <1>5, EffectIs

\* So does a search.
LEMMA SearchedTypes ==
  ASSUME TypeInv, Searched
  PROVE  engine' \in Engines /\ game' \subseteq 1..MaxPlays
<1>1. <<>> \in Seq(1..MaxCommands)
  OBVIOUS
<1>2. QED
  BY <1>1 DEF Searched, Answered, TypeInv, Engines

\* An answer that is written, or fails to be.
LEMMA WriteTypes ==
  ASSUME TypeInv, todo # <<>>, NEW A, Written(A) \/ WriteFails,
         engine' \in Engines, game' \subseteq 1..MaxPlays,
         UNCHANGED <<number, mastervars, faults>>
  PROVE  TypeInv'
<1>1. CASE Written(A)
  <2>1. todo' \in Seq(Sent)
    BY <1>1, HeadTailProperties DEF Written, TypeInv
  <2>2. link' \in {"greeting", "up", "lost", "down"}
    BY <1>1 DEF Written, TypeInv
  <2>3. buf' = buf /\ wire' = wire /\ ended' = ended
    BY <1>1 DEF Written
  <2>4. QED
    BY <2>1, <2>2, <2>3 DEF TypeInv, mastervars
<1>2. CASE WriteFails
  <2>1. /\ buf' = <<>> /\ todo' = <<>> /\ wire' = <<>> /\ link' = "down" /\ ended' = ended
    BY <1>2 DEF WriteFails, Restart
  <2>2. Whole(buf') <= BufferLines
    BY <2>1, WholeOfNothing, Bounds
  <2>3. QED
    BY <2>1, <2>2 DEF TypeInv, mastervars
<1>3. QED
  BY <1>1, <1>2
-----------------------------------------------------------------------------
\* Reading.

\* There are no more lines in a buffer than the lines and parts of lines in it, and as
\* many when there are no parts.
LEMMA WholeAtMost ==
  ASSUME NEW S, NEW q \in Seq(S)
  PROVE  /\ Whole(q) <= Len(q)
         /\ (\A i \in 1..Len(q) : q[i].part = "whole") => Whole(q) = Len(q)
<1> DEFINE n == Len(q)
           W == {i \in DOMAIN q : q[i].part # "back"}
<1>1. n \in Nat /\ DOMAIN q = 1..n
  BY LenProperties
<1> HIDE DEF n
<1>2. IsFiniteSet(1..n) /\ Cardinality(1..n) = n
  BY <1>1, FS_Interval
<1>3. W \in SUBSET (1..n) /\ ((\A i \in 1..n : q[i].part = "whole") => W = 1..n)
  <2>1. W = {i \in 1..n : q[i].part # "back"}
    BY <1>1, Zenon
  <2> HIDE DEF W
  <2>2. ASSUME \A i \in 1..n : q[i].part = "whole" PROVE W = 1..n
    <3>1. \A i \in 1..n : q[i].part # "back"
      BY <2>2
    <3>2. QED
      BY <2>1, <3>1, Zenon
  <2>3. QED
    BY <2>1, <2>2, Zenon
<1> HIDE DEF W
<1>4. Cardinality(W) <= n
  <2>1. Cardinality(W) <= Cardinality(1..n)
    BY <1>2, <1>3, FS_Subset, Zenon
  <2>2. QED
    BY <1>2, <2>1, Zenon
<1>5. Whole(q) = Cardinality(W)
  BY Zenon DEF Whole, W
<1>6. QED
  BY <1>2, <1>3, <1>4, <1>5 DEF n

\* The lesser and the greater of two.
LEMMA MinMax ==
  ASSUME NEW a \in Int, NEW b \in Int
  PROVE  /\ Min({a, b}) \in Int /\ Min({a, b}) <= a /\ Min({a, b}) <= b
         /\ Max({a, b}) = IF a >= b THEN a ELSE b
<1>1. \E x \in {a, b} : \A y \in {a, b} : x <= y
  BY DEF Min
<1>2. Min({a, b}) \in {a, b} /\ \A y \in {a, b} : Min({a, b}) <= y
  BY <1>1 DEF Min
<1> DEFINE m == IF a >= b THEN a ELSE b
<1>3. m \in {a, b} /\ \A y \in {a, b} : m >= y
  OBVIOUS
<1>4. \A x \in {a, b} : (\A y \in {a, b} : x >= y) => x = m
  OBVIOUS
<1> HIDE DEF m
<1>5. Max({a, b}) = m
  BY <1>3, <1>4 DEF Max
<1>6. QED
  BY <1>2, <1>5 DEF m

\* What is left in a buffer that was overwritten up to one of its lines: a part of that
\* line and the lines after it.
LEMMA OverwrittenIs ==
  ASSUME TypeInv, NEW lines \in Seq(Sent), NEW from \in 1..(Len(buf) + 1)
  PROVE  /\ Overwritten(lines, from) \in Seq(Sent)
         /\ lines # <<>> => Overwritten(lines, from) # <<>>
         /\ from = Len(buf) + 1 => Overwritten(lines, from) = lines
         /\ from <= Len(buf) =>
              Whole(Overwritten(lines, from)) = Whole(lines) + Whole(buf) - Whole(SubSeq(buf, 1, from))
<1> DEFINE n == Len(buf)
<1>1. buf \in Seq(Sent) /\ n \in Nat
  BY DEF TypeInv
<1>2. ASSUME from = n + 1 PROVE Overwritten(lines, from) = lines
  <2>1. Overwritten(lines, from) = lines \o <<>>
    BY <1>1, <1>2 DEF Overwritten
  <2>2. QED
    BY <2>1
<1>3. ASSUME from <= n
      PROVE  /\ Overwritten(lines, from) \in Seq(Sent) /\ Overwritten(lines, from) # <<>>
             /\ Whole(Overwritten(lines, from)) = Whole(lines) + Whole(buf) - Whole(SubSeq(buf, 1, from))
  <2> DEFINE x == [buf[from] EXCEPT !.part = "back"]
             h == SubSeq(buf, 1, from)
             t == SubSeq(buf, from + 1, n)
  <2>1. buf[from] \in Sent
    BY <1>1, <1>3
  <2>2. x \in Sent /\ x.part = "back"
    BY <2>1, PartSent
  <2>3. h \in Seq(Sent) /\ t \in Seq(Sent)
    BY <1>1, <1>3
  <2>4. h \o t = buf
    <3>1. 1 \in 1..(Len(buf) + 1) /\ from \in (1 - 1)..Len(buf) /\ Len(buf) \in from..Len(buf)
      BY <1>1, <1>3
    <3>2. SubSeq(buf, 1, Len(buf)) = buf
      BY <1>1, SubSeqFull
    <3>3. QED
      BY <1>1, <3>1, <3>2, ConcatAdjacentSubSeq
  <2>5. Overwritten(lines, from) = lines \o (<<x>> \o t)
    BY <1>3, Zenon DEF Overwritten
  <2> HIDE DEF x, h, t
  <2>6. <<x>> \in Seq(Sent) /\ <<x>> \o t \in Seq(Sent) /\ lines \o (<<x>> \o t) \in Seq(Sent)
    BY <2>2, <2>3
  <2>7. Whole(<<x>>) = 0
    <3>1. {i \in DOMAIN <<x>> : <<x>>[i].part # "back"} = {}
      BY <2>2
    <3>2. QED
      BY <3>1, FS_EmptySet, Zenon DEF Whole
  <2>8. Whole(buf) = Whole(h) + Whole(t) /\ Whole(h) \in Nat /\ Whole(t) \in Nat
    BY <2>3, <2>4, WholeTogether
  <2>9. Whole(<<x>> \o t) = Whole(t)
    <3>1. Whole(<<x>> \o t) = Whole(<<x>>) + Whole(t)
      BY <2>3, <2>6, WholeTogether, Zenon
    <3>2. QED
      BY <2>7, <2>8, <3>1
  <2>10. Whole(lines \o (<<x>> \o t)) = Whole(lines) + Whole(<<x>> \o t) /\ Whole(lines) \in Nat
    BY <2>6, WholeTogether
  <2>11. lines \o (<<x>> \o t) # <<>>
    <3>1. Len(<<x>> \o t) = 1 + Len(t) /\ Len(t) \in Nat /\ Len(lines) \in Nat
      BY <2>3
    <3>2. Len(lines \o (<<x>> \o t)) = Len(lines) + Len(<<x>> \o t)
      BY <2>6, ConcatProperties
    <3>3. QED
      BY <3>1, <3>2
  <2>12. QED
    BY <2>5, <2>6, <2>8, <2>9, <2>10, <2>11 DEF h
<1>4. from = n + 1 \/ from <= n
  BY <1>1
<1>5. QED
  BY <1>2, <1>3, <1>4

\* What a read takes and what it leaves: all that a proof needs of Read.
LEMMA ReadIs ==
  ASSUME TypeInv, Read
  PROVE  /\ faults' \in 0..MaxFaults
         /\ number' \in 0..MaxCommands /\ InputNumber(buf', number')
         /\ todo' = Parsed(buf')
         /\ \E k \in 1..Len(wire), shorter \in BOOLEAN, lines \in Seq(Sent) :
              /\ k <= BufferLines /\ Len(lines) = k /\ wire' \in Seq(Sent)
              /\ k # longest => (shorter <=> k < longest)
              /\ \E from \in Ends(lines, shorter) : buf' = Overwritten(lines, from)
              /\ longest' = Max({longest, k})
              /\ clean' => /\ clean /\ ~ shorter
                           /\ lines = SubSeq(wire, 1, k)
                           /\ wire' = SubSeq(wire, k + 1, Len(wire))
                           /\ lines \in {<<Handshake>>} \cup {Batch(n, plays[n]) : n \in 2..given}
<1>1. PICK k \in 1..Min({Len(wire), Room}), cut \in BOOLEAN, shorter \in BOOLEAN :
       LET taken == SubSeq(wire, 1, k)
           rest  == SubSeq(wire, k + 1, Len(wire))
           lines == IF cut THEN [taken EXCEPT ![k].part = "front"] ELSE taken
           whole == ~ cut /\ lines \in {<<Handshake>>} \cup {Batch(n, plays[n]) : n \in 2..given}
           split == cut \/ (rest # <<>> /\ Head(rest).kind # "clear_board")
       IN  /\ cut => taken[k].part = "whole"
           /\ split => k = Room \/ faults < MaxFaults
           /\ faults' = IF split /\ k < Room THEN faults + 1 ELSE faults
           /\ IF k = longest THEN TRUE ELSE shorter = (k < longest)
           /\ wire' = IF cut THEN <<[taken[k] EXCEPT !.part = "back"]>> \o rest ELSE rest
           /\ \E from \in Ends(lines, shorter) : buf' = Overwritten(lines, from)
           /\ longest' = Max({longest, k})
           /\ clean' = (clean /\ whole /\ ~ shorter)
  BY Zenon DEF Read
<1> DEFINE taken == SubSeq(wire, 1, k)
           rest  == SubSeq(wire, k + 1, Len(wire))
           lines == IF cut THEN [taken EXCEPT ![k].part = "front"] ELSE taken
           split == cut \/ (rest # <<>> /\ Head(rest).kind # "clear_board")
           batches == {<<Handshake>>} \cup {Batch(n, plays[n]) : n \in 2..given}
<1>2. wire \in Seq(Sent) /\ Len(wire) \in Nat /\ k \in 1..Len(wire) /\ k <= BufferLines
  <2>1. wire \in Seq(Sent) /\ Len(wire) \in Int /\ Len(wire) \in Nat
    BY DEF TypeInv
  <2>2. Room = BufferLines /\ BufferLines \in Int
    BY Bounds DEF Room
  <2>3. Min({Len(wire), Room}) \in Int /\ Min({Len(wire), Room}) <= Len(wire)
        /\ Min({Len(wire), Room}) <= Room
    BY <2>1, <2>2, MinMax, Zenon
  <2>4. k \in Int /\ 1 <= k /\ k <= Min({Len(wire), Room})
    BY <2>3
  <2>5. QED
    BY <2>1, <2>2, <2>3, <2>4
<1>3. taken \in Seq(Sent) /\ Len(taken) = k /\ rest \in Seq(Sent) /\ taken[k] \in Sent
  BY <1>2
<1>4. lines \in Seq(Sent) /\ Len(lines) = k
  <2>1. CASE ~ cut
    BY <1>3, <2>1
  <2>2. CASE cut
    <3> HIDE DEF taken
    <3>1. [taken[k] EXCEPT !.part = "front"] \in Sent
      BY <1>3, PartSent
    <3>2. [taken EXCEPT ![k] = [taken[k] EXCEPT !.part = "front"]] \in Seq(Sent)
      BY <1>2, <1>3, <3>1, ExceptSeq
    <3>3. Len([taken EXCEPT ![k] = [taken[k] EXCEPT !.part = "front"]]) = k
      BY <1>2, <1>3, <3>1, ExceptSeq
    <3>4. lines = [taken EXCEPT ![k] = [taken[k] EXCEPT !.part = "front"]]
      BY <2>2
    <3>5. QED
      BY <3>2, <3>3, <3>4
  <2>3. QED
    BY <2>1, <2>2
<1>5. wire' \in Seq(Sent)
  <2>1. CASE ~ cut
    <3>1. wire' = rest
      BY <1>1, <2>1
    <3>2. QED
      BY <1>3, <3>1
  <2>2. CASE cut
    <3>1. wire' = <<[taken[k] EXCEPT !.part = "back"]>> \o rest
      BY <1>1, <2>2
    <3>2. [taken[k] EXCEPT !.part = "back"] \in Sent
      BY <1>3, PartSent
    <3>3. <<[taken[k] EXCEPT !.part = "back"]>> \in Seq(Sent)
      BY <3>2
    <3>4. QED
      BY <1>3, <3>1, <3>3, ConcatProperties
  <2>3. QED
    BY <2>1, <2>2
<1>6. /\ cut => taken[k].part = "whole"
      /\ split => k = Room \/ faults < MaxFaults
      /\ faults' = IF split /\ k < Room THEN faults + 1 ELSE faults
      /\ k # longest => (shorter <=> k < longest)
      /\ \E from \in Ends(lines, shorter) : buf' = Overwritten(lines, from)
      /\ longest' = Max({longest, k})
      /\ clean' = (clean /\ ~ cut /\ lines \in batches /\ ~ shorter)
      /\ ~ cut => wire' = rest
  BY <1>1, Zenon
<1>7. faults' \in 0..MaxFaults
  <2> HIDE DEF split
  <2>1. faults \in 0..MaxFaults /\ MaxFaults \in Nat
    BY Bounds DEF TypeInv
  <2>2. CASE split /\ k < Room
    <3>1. faults' = faults + 1 /\ (k = Room \/ faults < MaxFaults)
      BY <1>6, <2>2, Zenon
    <3>2. QED
      BY <1>2, <2>1, <2>2, <3>1
  <2>3. CASE ~ (split /\ k < Room)
    BY <1>6, <2>1, <2>3
  <2>4. QED
    BY <2>2, <2>3
<1>8. number' \in 0..MaxCommands /\ InputNumber(buf', number') /\ todo' = Parsed(buf')
  BY DEF Read
<1>9. clean' => /\ clean /\ ~ shorter
                /\ lines = SubSeq(wire, 1, k)
                /\ wire' = SubSeq(wire, k + 1, Len(wire))
                /\ lines \in batches
  BY <1>6, Zenon
<1>10. QED
  <2> HIDE DEF lines
  <2>1. QED
    BY <1>2, <1>4, <1>5, <1>6, <1>7, <1>8, <1>9, Zenon
\* A read leaves no more lines than the buffer has room for.
LEMMA ReadFits ==
  ASSUME TypeInv, NEW k \in Nat, k <= BufferLines, NEW lines \in Seq(Sent), Len(lines) = k,
         NEW shorter \in BOOLEAN, NEW from \in Ends(lines, shorter)
  PROVE  /\ from \in 1..(Len(buf) + 1)
         /\ Overwritten(lines, from) \in Seq(Sent)
         /\ lines # <<>> => Overwritten(lines, from) # <<>>
         /\ Whole(Overwritten(lines, from)) <= BufferLines
<1> DEFINE b == Overwritten(lines, from)
           h == SubSeq(buf, 1, from)
<1>1. buf \in Seq(Sent) /\ Len(buf) \in Nat /\ Whole(buf) \in Nat /\ Whole(lines) \in Nat
      /\ Whole(buf) <= BufferLines /\ BufferLines \in Nat
  BY WholeTogether, Bounds DEF TypeInv
<1>2. Whole(lines) <= k
  BY WholeAtMost
<1>3. \/ from = Len(buf) + 1
      \/ from \in 1..Len(buf) /\ Whole(h) \in {Whole(lines), Whole(lines) + 1}
  BY Zenon DEF Ends
<1>4. from \in 1..(Len(buf) + 1)
  BY <1>1, <1>3
<1>5. b \in Seq(Sent) /\ (lines # <<>> => b # <<>>)
  BY <1>4, OverwrittenIs
<1>6. Whole(b) <= BufferLines
  <2>1. CASE from = Len(buf) + 1
    <3>1. b = lines
      BY <1>4, <2>1, OverwrittenIs
    <3>2. QED
      BY <1>1, <1>2, <3>1
  <2>2. CASE from \in 1..Len(buf) /\ Whole(h) \in {Whole(lines), Whole(lines) + 1}
    <3>1. from <= Len(buf)
      BY <1>1, <2>2
    <3>2. Whole(b) = Whole(lines) + Whole(buf) - Whole(h)
      BY <1>4, <3>1, OverwrittenIs, Zenon
    <3> HIDE DEF b, h
    <3>3. QED
      BY <1>1, <2>2, <3>2
  <2>3. QED
    BY <1>3, <2>1, <2>2
<1>7. QED
  BY <1>4, <1>5, <1>6

\* Every action keeps the types.
LEMMA TypeStep == ASSUME TypeInv, [Next]_vars PROVE TypeInv'
<1>1. CASE Command
  <2>1. given' \in 1..MaxCommands
    BY <1>1, Bounds DEF Command, TypeInv
  <2>2. PICK k \in 0..MaxPlays : /\ plays' = [plays EXCEPT ![given'] = k]
                                /\ wire' = wire \o Batch(given', k)
    BY <1>1 DEF Command
  <2>3. plays' \in [1..MaxCommands -> 0..MaxPlays]
    BY <2>2 DEF TypeInv
  <2>4. wire' \in Seq(Sent)
    <3>1. Batch(given', k) \in Seq(Sent) /\ wire \in Seq(Sent)
      BY <2>1, BatchIs DEF TypeInv
    <3>2. QED
      BY <2>2, <3>1, ConcatProperties
  <2>5. QED
    BY <1>1, <2>1, <2>3, <2>4 DEF Command, TypeInv, slavevars, history
<1>2. CASE Lose
  <2>1. wire' \in Seq(Sent)
    <3>1. wire' = wire \/ wire' = <<>>
      BY <1>2 DEF Lose
    <3>2. <<>> \in Seq(Sent) /\ wire \in Seq(Sent)
      BY DEF TypeInv
    <3>3. QED
      BY <3>1, <3>2, Zenon
  <2>2. faults' \in 0..MaxFaults
    BY <1>2, Bounds DEF Lose, TypeInv
  <2>3. QED
    BY <1>2, <2>1, <2>2 DEF Lose, TypeInv, slavevars, mastervars
<1>3. CASE Read
  <2>1. PICK k \in 1..Len(wire), shorter \in BOOLEAN, lines \in Seq(Sent) :
          /\ k <= BufferLines /\ Len(lines) = k /\ wire' \in Seq(Sent)
          /\ \E from \in Ends(lines, shorter) : buf' = Overwritten(lines, from)
    BY <1>3, ReadIs, Zenon
  <2>2. PICK from \in Ends(lines, shorter) : buf' = Overwritten(lines, from)
    BY <2>1
  <2>3. k \in Nat
    BY DEF TypeInv
  <2>4. buf' \in Seq(Sent) /\ Whole(buf') <= BufferLines
    BY <2>1, <2>2, <2>3, ReadFits
  <2>5. buf' # <<>>
    <3>1. lines # <<>>
      BY <2>1, <2>3
    <3>2. QED
      BY <2>1, <2>2, <2>3, <3>1, ReadFits
  <2>6. todo' \in Seq(Sent)
    BY <1>3, <2>4, <2>5, ParsedIs, ReadIs
  <2>7. faults' \in 0..MaxFaults /\ number' \in 0..MaxCommands
    BY <1>3, ReadIs
  <2>8. UNCHANGED <<engine, game, ended, link, mastervars>>
    BY <1>3 DEF Read
  <2>9. QED
    BY <2>1, <2>4, <2>6, <2>7, <2>8 DEF TypeInv, mastervars
<1>4. CASE ReadNothing
  <2>1. CASE buf = <<>>
    BY <1>4, <2>1 DEF ReadNothing, TypeInv, linkvars, mastervars, history
  <2>2. CASE buf # <<>>
    <3>1. Parsed(buf) \in Seq(Sent)
      BY <2>2, ParsedIs DEF TypeInv
    <3>2. /\ todo' = Parsed(buf) /\ number' \in 0..MaxCommands
          /\ UNCHANGED <<ended, engine, game, buf, linkvars, mastervars, history>>
      BY <1>4, <2>2 DEF ReadNothing
    <3>3. QED
      BY <3>1, <3>2 DEF TypeInv, linkvars, mastervars, history
  <2>3. QED
    BY <2>1, <2>2
<1>5. CASE ParseLine
  <2>1. /\ todo # <<>> /\ Effect(Head(todo)) /\ (Written({}) \/ WriteFails)
        /\ UNCHANGED <<number, mastervars, faults>>
    BY <1>5 DEF ParseLine
  <2>2. Head(todo) \in Sent
    BY <2>1, HeadTailProperties DEF TypeInv
  <2>3. engine' \in Engines /\ game' \subseteq 1..MaxPlays
    BY <2>1, <2>2, EffectTypes
  <2>4. QED
    BY <2>1, <2>3, WriteTypes
<1>6. CASE Genmove
  <2>1. /\ todo # <<>> /\ Searched /\ (Written({Answer(Head(todo))}) \/ WriteFails)
        /\ UNCHANGED <<number, mastervars, faults>>
    BY <1>6 DEF Genmove
  <2>2. engine' \in Engines /\ game' \subseteq 1..MaxPlays
    BY <2>1, SearchedTypes
  <2>3. QED
    BY <2>1, <2>2, WriteTypes
<1>7. ASSUME NEW why \in {"line", "search"}, End(why), UNCHANGED <<number, mastervars, faults>>
      PROVE  TypeInv'
  BY <1>7 DEF End, TypeInv, linkvars, mastervars
<1>8. CASE HalfLine
  <2>1. CASE UNCHANGED <<engine, game>> /\ Restart
    <3>1. /\ buf' = <<>> /\ todo' = <<>> /\ wire' = <<>> /\ link' = "down" /\ ended' = ended
      BY <2>1 DEF Restart
    <3>2. Whole(buf') <= BufferLines
      BY <3>1, WholeOfNothing, Bounds
    <3>3. QED
      BY <1>8, <2>1, <3>1, <3>2 DEF HalfLine, TypeInv, mastervars
  <2>2. CASE /\ todo' = Tail(todo)
             /\ UNCHANGED <<engine, game, buf, ended, linkvars, answers, longest, clean, stale>>
    <3>1. todo' \in Seq(Sent)
      BY <1>8, <2>2, HeadTailProperties DEF HalfLine, TypeInv
    <3>2. QED
      BY <1>8, <2>2, <3>1 DEF HalfLine, TypeInv, linkvars, mastervars
  <2>3. QED
    BY <1>8, <2>1, <2>2 DEF HalfLine
<1>9. CASE Connect
  BY <1>9, HandshakeSent DEF Connect, TypeInv, slavevars, mastervars, history
<1>10. CASE UNCHANGED vars
  BY <1>10 DEF TypeInv, vars, slavevars, linkvars, mastervars, history
<1>11. CASE ParseThrows
  BY <1>7, <1>11 DEF ParseThrows
<1>12. CASE SearchThrows
  BY <1>7, <1>12 DEF SearchThrows
<1>13. QED
  BY <1>1, <1>2, <1>3, <1>4, <1>5, <1>6, <1>8, <1>9, <1>10, <1>11, <1>12 DEF Next

\* They hold when a slave starts.
LEMMA TypeInit == ASSUME Init PROVE TypeInv
<1>1. NewEngine \in Engines
  <2>1. "UCB" \in AiType /\ DefaultSimulations \in Nat /\ <<>> \in Seq(1..MaxCommands)
    BY DefaultSimulationsAssumption DEF AiType
  <2>2. QED
    BY <2>1 DEF NewEngine, Engines
<1>2. plays \in [1..MaxCommands -> 0..MaxPlays]
  BY Bounds DEF Init
<1>3. Whole(buf) <= BufferLines
  BY WholeOfNothing, Bounds DEF Init
<1>4. given \in 1..MaxCommands /\ number \in 0..MaxCommands /\ faults \in 0..MaxFaults
  BY Bounds DEF Init
<1>5. buf \in Seq(Sent) /\ todo \in Seq(Sent) /\ wire \in Seq(Sent)
  BY HandshakeSent DEF Init
<1>6. QED
  BY <1>1, <1>2, <1>3, <1>4, <1>5 DEF Init, TypeInv

\* The slave's variables have their types: the buffer never holds more lines than it
\* has room for, whatever is read over what was in it (asyncReadCallback).
THEOREM TypeCorrect == Spec => []TypeOK
<1>1. Spec => []TypeInv
  BY TypeInit, TypeStep, PTL DEF Spec
<1>2. TypeInv => TypeOK
  BY TypeInvImplies
<1>3. QED
  BY <1>1, <1>2, PTL
-----------------------------------------------------------------------------
\* Clean connections.

\* What is left of a batch of which p lines are parsed.
Rest(n, k, p) == SubSeq(Batch(n, k), p + 1, k + 5)

\* No candidates, or those of an earlier connection: a random engine keeps all.
Fresh == ai = "RAN" \/ engine.preselRandMoves = <<>> \/ stale

\* What the lines of a batch have done once p of them are parsed.
Progress(n, k, p) ==
  /\ 1 <= p /\ p <= k + 2 => game = 1..(p - 2)
  /\ k + 2 <= p => game = 1..k
  /\ p < k + 3 => Fresh
  /\ k + 3 <= p => /\ engine.preselRandMoves # <<>>
                   /\ ai = "RAN" \/ engine.preselRandMoves = <<n>> \/ stale
  /\ p = k + 4 => engine.aiType = ai /\ (ai # "RAN" => engine.simulations = n)

\* The batches under way are of commands that were given, one after the other.
WireClean ==
  /\ \A i \in 1..Len(wire) : wire[i].cmd <= given
  /\ \A i, j \in 1..Len(wire) :
       i < j /\ wire[i].kind = "clear_board" /\ wire[j].kind = "clear_board"
         => wire[i].cmd < wire[j].cmd

\* The buffer holds one batch, or the handshake, that is older than those under way, and
\* so are the answers.
BufferClean ==
  /\ longest = Len(buf)
  /\ \/ buf = <<>> \/ buf = <<Handshake>>
     \/ \E n \in 2..given : buf = Batch(n, plays[n])
  /\ \A i \in 1..Len(wire) : wire[i].kind = "clear_board" =>
       /\ buf # <<>> => buf[1].cmd < wire[i].cmd
       /\ \A a \in answers : a.number < wire[i].cmd

\* What is parsed is the rest of the batch in the buffer, which was not answered yet.
TodoClean ==
  \/ todo \in {<<>>, <<Handshake>>} /\ Fresh
  \/ /\ number \in 2..given /\ buf = Batch(number, plays[number])
     /\ link # "lost" => \A a \in answers : a.number < number
     /\ \E p \in 0..(plays[number] + 4) :
          todo = Rest(number, plays[number], p) /\ Progress(number, plays[number], p)

\* The inductive invariant.
SlaveInv ==
  /\ AnswersAreOfTheirCommand /\ CleanBatchesSurvived
  /\ \A a \in answers : a.number \in 2..given
  /\ clean => WireClean /\ BufferClean
  /\ clean /\ Running => TodoClean

\* The lines of a batch by the number of those before them.
LEMMA LineOfBatch ==
  ASSUME NEW n \in 1..MaxCommands, NEW k \in 0..MaxPlays, NEW p \in 0..(k + 4),
         NEW l, l = Batch(n, k)[p + 1]
  PROVE  /\ l \in Sent /\ l.cmd = n /\ l.part = "whole"
         /\ p = 0 <=> l.kind = "clear_board"
         /\ p = 1 => l.kind = "boardsize"
         /\ 2 <= p /\ p <= k + 1 => l.kind = "play" /\ l.arg = p - 1
         /\ p = k + 2 => l.kind = "e_randmoves"
         /\ p = k + 3 => l.kind = "e_useai"
         /\ p = k + 4 <=> l.kind = "genmove"
<1>1. k \in Nat /\ p \in Nat /\ 0 \in 0..MaxPlays
  BY Bounds
<1>2. CASE p = 0
  <2>1. l = Line("clear_board", n, 0) /\ p # k + 4
    BY <1>1, <1>2, BatchIs
  <2>2. QED
    BY <1>1, <1>2, <2>1, CommandLineSent
<1>3. CASE p = 1
  <2>1. l = Line("boardsize", n, 0) /\ p # k + 4
    BY <1>1, <1>3, BatchIs
  <2>2. QED
    BY <1>1, <1>3, <2>1, CommandLineSent
<1>4. CASE 2 <= p /\ p <= k + 1
  <2>1. p - 1 \in 1..k /\ (p - 1) + 2 = p + 1 /\ p - 1 \in 0..MaxPlays
    BY <1>1, <1>4, Bounds
  <2>2. l = Line("play", n, p - 1) /\ p # k + 4 /\ p # 0
    BY <1>4, <2>1, BatchIs
  <2>3. QED
    BY <1>1, <1>4, <2>1, <2>2, CommandLineSent
<1>5. CASE p = k + 2
  <2>1. l = Line("e_randmoves", n, 0) /\ p # k + 4
    BY <1>1, <1>5, BatchIs
  <2>2. QED
    BY <1>1, <1>5, <2>1, CommandLineSent
<1>6. CASE p = k + 3
  <2>1. l = Line("e_useai", n, 0) /\ p # k + 4
    BY <1>1, <1>6, BatchIs
  <2>2. QED
    BY <1>1, <1>6, <2>1, CommandLineSent
<1>7. CASE p = k + 4
  <2>1. l = Line("genmove", n, 0) /\ p # 0
    BY <1>1, <1>7, BatchIs
  <2>2. QED
    BY <1>1, <1>7, <2>1, CommandLineSent
<1>8. QED
  BY <1>1, <1>2, <1>3, <1>4, <1>5, <1>6, <1>7

\* Parsing the next line of a batch.
LEMMA RestIs ==
  ASSUME NEW n \in 1..MaxCommands, NEW k \in 0..MaxPlays, NEW p \in 0..(k + 4)
  PROVE  /\ Rest(n, k, p) # <<>>
         /\ Head(Rest(n, k, p)) = Batch(n, k)[p + 1]
         /\ Tail(Rest(n, k, p)) = IF p = k + 4 THEN <<>> ELSE Rest(n, k, p + 1)
         /\ Rest(n, k, 0) = Batch(n, k)
<1> DEFINE B == Batch(n, k)
<1>1. k \in Nat /\ p \in Nat /\ B \in Seq(Sent) /\ Len(B) = k + 5
  BY BatchIs, Bounds
<1> HIDE DEF B
<1>2. p + 1 \in 1..Len(B) /\ k + 5 \in (p + 1)..Len(B)
  BY <1>1
<1>3. /\ Head(SubSeq(B, p + 1, k + 5)) = B[p + 1]
      /\ Tail(SubSeq(B, p + 1, k + 5)) = SubSeq(B, (p + 1) + 1, k + 5)
  BY <1>1, <1>2, HeadTailOfSubSeq
<1>4. SubSeq(B, p + 1, k + 5) # <<>>
  <2>1. Len(SubSeq(B, p + 1, k + 5)) = k + 5 - p
    BY <1>1, <1>2
  <2>2. QED
    BY <1>1, <2>1
<1>5. p = k + 4 => SubSeq(B, (p + 1) + 1, k + 5) = <<>>
  BY <1>1, SubSeqEmpty
<1>6. SubSeq(B, 0 + 1, k + 5) = B
  BY <1>1, SubSeqFull
<1>7. QED
  BY <1>3, <1>4, <1>5, <1>6, Zenon DEF Rest, B

\* A batch is parsed as it is, and has the number of its command.
LEMMA BatchParsed ==
  ASSUME NEW n \in 1..MaxCommands, NEW k \in 0..MaxPlays
  PROVE  /\ Batch(n, k) # <<>> /\ Batch(n, k)[1].cmd = n /\ Batch(n, k)[1].kind = "clear_board"
         /\ Parsed(Batch(n, k)) = Batch(n, k)
         /\ NumbersOf(Batch(n, k)) = {n}
<1> DEFINE B == Batch(n, k)
<1>1. k \in Nat /\ B \in Seq(Sent) /\ Len(B) = k + 5
  BY BatchIs, Bounds
<1>2. ASSUME NEW j \in 1..Len(B)
      PROVE  B[j].cmd = n /\ B[j].part = "whole" /\ (j = 1 <=> B[j].kind = "clear_board")
  <2>1. j - 1 \in 0..(k + 4) /\ (j - 1) + 1 = j
    BY <1>1
  <2> DEFINE p == j - 1
             l == B[j]
  <2>2. p \in 0..(k + 4) /\ l = Batch(n, k)[p + 1]
    BY <2>1
  <2> HIDE DEF p, l
  <2>3. l.cmd = n /\ l.part = "whole" /\ (p = 0 <=> l.kind = "clear_board")
    BY <2>2, LineOfBatch
  <2>4. QED
    BY <1>1, <2>3 DEF p, l
<1> HIDE DEF B
<1>3. B # <<>> /\ 1 \in 1..Len(B) /\ Head(B) = B[1]
  BY <1>1
<1>4. \A j \in 2..Len(B) : ~ Numbered(B[j])
  BY <1>1, <1>2 DEF Numbered
<1>5. Parsed(B) = B
  BY <1>1, <1>3, <1>4, ParsedIs
<1>6. NumbersOf(B) = {n}
  BY <1>2, <1>3 DEF NumbersOf
<1>7. QED
  BY <1>2, <1>3, <1>5, <1>6 DEF B

\* So is the handshake.
LEMMA HandshakeParsed ==
  Parsed(<<Handshake>>) = <<Handshake>> /\ <<Handshake>> # <<>> /\ <<Handshake>>[1].cmd = 0
<1>1. <<Handshake>> \in Seq(Sent) /\ Len(<<Handshake>>) = 1 /\ <<Handshake>> # <<>>
  BY HandshakeSent
<1>2. Parsed(<<Handshake>>) = <<Handshake>>
  <2> DEFINE q == <<Handshake>>
  <2>1. \A j \in 2..Len(q) : ~ Numbered(q[j])
    BY <1>1
  <2> HIDE DEF q
  <2>2. q \in Seq(Sent) /\ q # <<>>
    BY <1>1 DEF q
  <2>3. Parsed(q) = q
    BY <2>1, <2>2, ParsedIs
  <2>4. QED
    BY <2>3 DEF q
<1>3. QED
  BY <1>1, <1>2, HandshakeSent
\* After a restart there is nothing to read and nothing to parse.
LEMMA RestartKeeps ==
  ASSUME TypeInv, SlaveInv, Running, Restart, UNCHANGED <<number, mastervars, faults>>
  PROVE  SlaveInv'
<1>1. /\ buf' = <<>> /\ todo' = <<>> /\ wire' = <<>> /\ longest' = 0 /\ answers' = answers
      /\ stale' = (stale \/ engine'.preselRandMoves # <<>>)
      /\ ended' = ended /\ UNCHANGED <<given, plays, ai>>
  BY DEF Restart, mastervars
<1>2. AnswersAreOfTheirCommand' /\ \A a \in answers' : a.number \in 2..given'
  BY <1>1 DEF SlaveInv, AnswersAreOfTheirCommand
<1>3. WireClean' /\ BufferClean'
  BY <1>1 DEF WireClean, BufferClean
<1>4. TodoClean'
  BY <1>1, Zenon DEF TodoClean, Fresh
<1>5. CleanBatchesSurvived'
  BY <1>1 DEF CleanBatchesSurvived, Running
<1>6. QED
  BY <1>2, <1>3, <1>4, <1>5 DEF SlaveInv

\* A command gets a number that is greater than all before.
LEMMA CommandKeeps == ASSUME TypeInv, SlaveInv, Command PROVE SlaveInv'
<1> DEFINE g == given + 1
<1>1. PICK k \in 0..MaxPlays : plays' = [plays EXCEPT ![g] = k] /\ wire' = wire \o Batch(g, k)
  BY Zenon DEF Command
<1>2. /\ given' = g /\ given \in Nat /\ g \in 1..MaxCommands /\ k \in Nat
      /\ UNCHANGED <<slavevars, link, ai, history>>
  BY Bounds DEF Command, TypeInv
<1> HIDE DEF g
<1>3. g > given /\ \A n \in 1..given : plays'[n] = plays[n]
  <2>1. g = given + 1
    BY DEF g
  <2>2. QED
    BY <1>1, <1>2, <2>1 DEF TypeInv
<1> DEFINE B == Batch(g, k)
           m == Len(wire)
<1>4. B \in Seq(Sent) /\ Len(B) = k + 5 /\ wire \in Seq(Sent) /\ m \in Nat
  BY <1>2, BatchIs DEF TypeInv
<1>5. ASSUME NEW j \in 1..(k + 5)
      PROVE  B[j].cmd = g /\ (B[j].kind = "clear_board" => j = 1)
  <2> DEFINE p == j - 1
             l == B[j]
  <2>1. p \in 0..(k + 4) /\ l = Batch(g, k)[p + 1]
    BY <1>2
  <2> HIDE DEF p, l
  <2>2. l.cmd = g /\ (l.kind = "clear_board" => p = 0)
    BY <1>2, <2>1, LineOfBatch
  <2>3. QED
    BY <2>2 DEF p, l
<1> HIDE DEF B, m
<1>6. ASSUME NEW i \in 1..Len(wire')
      PROVE  \/ i \in 1..m /\ wire'[i] = wire[i]
             \/ /\ i > m /\ wire'[i].cmd = g
                /\ wire'[i].kind = "clear_board" => i = m + 1
  <2>1. Len(wire') = m + (k + 5) /\ wire' = wire \o B
    <3>1. wire' = wire \o B
      BY <1>1, Zenon DEF B
    <3>2. Len(wire \o B) = Len(wire) + Len(B)
      BY <1>4, ConcatProperties
    <3>3. QED
      BY <1>4, <3>1, <3>2 DEF m
  <2>2. CASE i <= m
    BY <1>4, <2>1, <2>2 DEF m
  <2>3. CASE i > m
    <3>1. i - m \in 1..(k + 5) /\ wire'[i] = B[i - m]
      BY <1>2, <1>4, <2>1, <2>3 DEF m
    <3>2. B[i - m].cmd = g /\ (B[i - m].kind = "clear_board" => i - m = 1)
      BY <1>5, <3>1
    <3>3. QED
      BY <1>4, <2>3, <3>1, <3>2
  <2>4. QED
    BY <1>4, <2>1, <2>2, <2>3
<1>7. ASSUME clean PROVE WireClean'
  <2>1. \A i \in 1..m : wire[i].cmd <= given /\ wire[i].cmd \in Nat
    BY <1>4, <1>7, SentIs DEF SlaveInv, WireClean, m
  <2>2. \A i \in 1..Len(wire') : wire'[i].cmd <= given'
    BY <1>2, <1>3, <1>6, <2>1
  <2>3. ASSUME NEW i \in 1..Len(wire'), NEW j \in 1..Len(wire'), i < j,
               wire'[i].kind = "clear_board", wire'[j].kind = "clear_board"
        PROVE  wire'[i].cmd < wire'[j].cmd
    <3>1. i \in 1..m /\ wire'[i] = wire[i]
      BY <1>4, <1>6, <2>3
    <3>2. CASE j \in 1..m /\ wire'[j] = wire[j]
      BY <1>7, <2>3, <3>1, <3>2 DEF SlaveInv, WireClean, m
    <3>3. CASE wire'[j].cmd = g
      BY <1>2, <1>3, <2>1, <3>1, <3>3
    <3>4. QED
      BY <1>6, <3>2, <3>3
  <2>4. QED
    BY <2>2, <2>3 DEF WireClean
<1>8. ASSUME clean PROVE BufferClean'
  <2>1. buf' = buf /\ longest' = longest /\ answers' = answers
    BY <1>2 DEF slavevars, history
  <2>2. \A n \in 2..given : n \in 2..given' /\ plays'[n] = plays[n]
    BY <1>2, <1>3
  <2>3. /\ longest' = Len(buf')
        /\ \/ buf' = <<>> \/ buf' = <<Handshake>>
           \/ \E n \in 2..given' : buf' = Batch(n, plays'[n])
    BY <1>8, <2>1, <2>2 DEF SlaveInv, BufferClean
  <2>4. buf # <<>> => buf[1].cmd < g
    <3>1. CASE buf = <<Handshake>>
      BY <1>2, <3>1, HandshakeParsed
    <3>2. ASSUME NEW n \in 2..given, buf = Batch(n, plays[n]) PROVE buf[1].cmd < g
      <4>1. n \in 1..MaxCommands /\ plays[n] \in 0..MaxPlays
        BY Bounds DEF TypeInv
      <4>2. buf[1].cmd = n
        BY <3>2, <4>1, BatchParsed
      <4>3. QED
        BY <1>2, <1>3, <4>2
    <3>3. QED
      BY <1>8, <3>1, <3>2 DEF SlaveInv, BufferClean
  <2>5. \A a \in answers : a.number < g
    BY <1>2, <1>3 DEF SlaveInv
  <2>6. ASSUME NEW i \in 1..Len(wire'), wire'[i].kind = "clear_board"
        PROVE  /\ buf # <<>> => buf[1].cmd < wire'[i].cmd
               /\ \A a \in answers : a.number < wire'[i].cmd
    <3>1. CASE i \in 1..m /\ wire'[i] = wire[i]
      BY <1>8, <2>6, <3>1 DEF SlaveInv, BufferClean, m
    <3>2. CASE wire'[i].cmd = g
      BY <2>4, <2>5, <3>2
    <3>3. QED
      BY <1>6, <3>1, <3>2
  <2>7. \A i \in 1..Len(wire') : wire'[i].kind = "clear_board" =>
          /\ buf' # <<>> => buf'[1].cmd < wire'[i].cmd
          /\ \A a \in answers' : a.number < wire'[i].cmd
    BY <2>1, <2>6
  <2>8. QED
    BY <2>3, <2>7, Zenon DEF BufferClean
<1>9. ASSUME clean, Running PROVE TodoClean'
  <2>1. UNCHANGED <<slavevars, link, ai, history>>
    BY <1>2
  <2>2. CASE todo \in {<<>>, <<Handshake>>} /\ Fresh
    BY <2>1, <2>2 DEF TodoClean, Fresh, slavevars, history
  <2>3. CASE /\ number \in 2..given /\ buf = Batch(number, plays[number])
             /\ link # "lost" => \A a \in answers : a.number < number
             /\ \E p \in 0..(plays[number] + 4) :
                  todo = Rest(number, plays[number], p) /\ Progress(number, plays[number], p)
    <3>1. number' = number /\ number' \in 2..given' /\ plays'[number'] = plays[number]
      BY <1>2, <1>3, <2>1, <2>3 DEF slavevars
    <3>2. \A p : Progress(number, plays[number], p)' <=> Progress(number, plays[number], p)
      BY <2>1, <3>1 DEF Progress, Fresh, slavevars, history
    <3>3. QED
      BY <2>1, <2>3, <3>1, <3>2 DEF TodoClean, slavevars, history
  <2>4. QED
    BY <1>9, <2>2, <2>3 DEF SlaveInv, TodoClean
<1>10. AnswersAreOfTheirCommand' /\ \A a \in answers' : a.number \in 2..given'
  BY <1>2, <1>3 DEF SlaveInv, AnswersAreOfTheirCommand, slavevars, history
<1>11. QED
  BY <1>2, <1>7, <1>8, <1>9, <1>10 DEF SlaveInv, CleanBatchesSurvived, Running, slavevars, history

\* What a lost connection had under way is read, or is not.
LEMMA LoseKeeps == ASSUME TypeInv, SlaveInv, Lose PROVE SlaveInv'
<1>1. /\ wire' = wire \/ wire' = <<>>
      /\ link' = "lost" /\ UNCHANGED <<slavevars, mastervars, answers, longest, clean, stale>>
  BY DEF Lose
<1>2. clean => WireClean' /\ BufferClean'
  <2>1. CASE wire' = wire
    BY <1>1, <2>1 DEF SlaveInv, WireClean, BufferClean, slavevars, mastervars
  <2>2. CASE wire' = <<>>
    <3>1. clean => WireClean'
      BY <2>2 DEF WireClean
    <3>2. clean => BufferClean'
      BY <1>1, <2>2 DEF SlaveInv, BufferClean, slavevars, mastervars
    <3>3. QED
      BY <3>1, <3>2
  <2>3. QED
    BY <1>1, <2>1, <2>2
<1>3. \A n, k, p : Progress(n, k, p)' <=> Progress(n, k, p)
  BY <1>1 DEF Progress, Fresh, slavevars, mastervars
<1>4. clean /\ Running => TodoClean'
  BY <1>1, <1>3 DEF SlaveInv, TodoClean, Fresh, slavevars, mastervars
<1>5. QED
  BY <1>1, <1>2, <1>4 DEF SlaveInv, AnswersAreOfTheirCommand, CleanBatchesSurvived, Running,
                          slavevars, mastervars

\* A connection stays clean only when a batch that is newer than all before is read, and
\* nothing is left of an older one.
LEMMA ReadClean ==
  ASSUME TypeInv, SlaveInv, Read, clean'
  PROVE  WireClean' /\ BufferClean' /\ TodoClean'
<1>1. PICK k \in 1..Len(wire), shorter \in BOOLEAN, lines \in Seq(Sent) :
        /\ k <= BufferLines /\ Len(lines) = k /\ wire' \in Seq(Sent)
        /\ k # longest => (shorter <=> k < longest)
        /\ \E from \in Ends(lines, shorter) : buf' = Overwritten(lines, from)
        /\ longest' = Max({longest, k})
        /\ clean /\ ~ shorter
        /\ lines = SubSeq(wire, 1, k)
        /\ wire' = SubSeq(wire, k + 1, Len(wire))
        /\ lines \in {<<Handshake>>} \cup {Batch(n, plays[n]) : n \in 2..given}
  <2>1. PICK k \in 1..Len(wire), shorter \in BOOLEAN, lines \in Seq(Sent) :
          /\ k <= BufferLines /\ Len(lines) = k /\ wire' \in Seq(Sent)
          /\ k # longest => (shorter <=> k < longest)
          /\ \E from \in Ends(lines, shorter) : buf' = Overwritten(lines, from)
          /\ longest' = Max({longest, k})
          /\ clean' => /\ clean /\ ~ shorter
                       /\ lines = SubSeq(wire, 1, k)
                       /\ wire' = SubSeq(wire, k + 1, Len(wire))
                       /\ lines \in {<<Handshake>>} \cup {Batch(n, plays[n]) : n \in 2..given}
    BY ReadIs, Zenon
  <2>2. QED
    BY <2>1, Zenon
<1>2. /\ UNCHANGED <<engine, game, ended, link, mastervars, answers, stale>>
      /\ todo = <<>> /\ Running
  BY DEF Read
<1>3. /\ InputNumber(buf', number') /\ todo' = Parsed(buf')
  BY ReadIs
<1>4. WireClean /\ BufferClean /\ TodoClean
  BY <1>1, <1>2 DEF SlaveInv
<1>5. /\ wire \in Seq(Sent) /\ buf \in Seq(Sent) /\ Len(wire) \in Nat /\ k \in Nat
      /\ Len(buf) \in Nat /\ longest = Len(buf)
  BY <1>4 DEF TypeInv, BufferClean
<1>6. \/ lines = <<Handshake>>
      \/ \E n \in 2..given : lines = Batch(n, plays[n])
  BY <1>1
<1>7. ASSUME NEW n \in 2..given
      PROVE  n \in 1..MaxCommands /\ plays[n] \in 0..MaxPlays
  BY Bounds DEF TypeInv
<1>8. \A i \in 1..Len(lines) : lines[i].part = "whole"
  <2>1. CASE lines = <<Handshake>>
    BY <2>1, HandshakeSent
  <2>2. ASSUME NEW n \in 2..given, lines = Batch(n, plays[n]), NEW i \in 1..Len(lines)
        PROVE  lines[i].part = "whole"
    <3> DEFINE p == i - 1
               l == lines[i]
    <3>1. Len(lines) = plays[n] + 5
      BY <1>7, <2>2, BatchIs
    <3>2. p \in 0..(plays[n] + 4) /\ l = Batch(n, plays[n])[p + 1]
      BY <1>7, <2>2, <3>1, Bounds
    <3> HIDE DEF p, l
    <3>3. l.part = "whole"
      BY <1>7, <3>2, LineOfBatch
    <3>4. QED
      BY <3>3 DEF l
  <2>3. QED
    BY <1>6, <2>1, <2>2
<1>9. buf' = lines /\ longest' = k
  <2>1. longest <= k
    BY <1>1, <1>5
  <2>2. Whole(lines) = k
    BY <1>1, <1>8, WholeAtMost
  <2>3. Whole(buf) <= Len(buf) /\ Whole(buf) \in Nat
    BY <1>5, WholeAtMost, WholeTogether
  <2>4. Ends(lines, shorter) = {Len(buf) + 1}
    <3>1. k > Whole(buf) \/ (k = Whole(buf) /\ ~ shorter)
      BY <1>1, <1>5, <2>1, <2>3
    <3>2. QED
      BY <2>2, <3>1, Zenon DEF Ends
  <2>5. buf' = Overwritten(lines, Len(buf) + 1)
    BY <1>1, <2>4
  <2>6. Len(buf) + 1 \in 1..(Len(buf) + 1)
    BY <1>5
  <2>7. Max({longest, k}) = k
    <3>1. longest \in Int /\ k \in Int
      BY <1>5
    <3>2. Max({longest, k}) = IF longest >= k THEN longest ELSE k
      BY <3>1, MinMax, Zenon
    <3>3. QED
      BY <2>1, <3>1, <3>2
  <2>8. QED
    BY <1>1, <2>5, <2>6, <2>7, OverwrittenIs
<1>10. /\ Len(wire') = Len(wire) - k
       /\ \A i \in 1..Len(wire') : wire'[i] = wire[k + i] /\ k + i \in 1..Len(wire)
  BY <1>1, <1>5
<1>11. WireClean'
  <2>1. \A i \in 1..Len(wire') : wire'[i].cmd <= given
    BY <1>4, <1>10 DEF WireClean
  <2>2. ASSUME NEW i \in 1..Len(wire'), NEW j \in 1..Len(wire'), i < j,
               wire'[i].kind = "clear_board", wire'[j].kind = "clear_board"
        PROVE  wire'[i].cmd < wire'[j].cmd
    <3>1. k + i < k + j
      BY <1>5, <2>2
    <3>2. QED
      BY <1>4, <1>10, <2>2, <3>1 DEF WireClean
  <2>3. QED
    BY <1>2, <2>1, <2>2 DEF WireClean, mastervars
<1>12. Fresh'
  <2>1. Fresh
    <3>1. \A n \in 2..given : \A p \in 0..(plays[n] + 4) : Rest(n, plays[n], p) # <<>>
      BY <1>7, RestIs
    <3>2. QED
      BY <1>2, <1>4, <3>1 DEF TodoClean
  <2>2. QED
    BY <1>2, <2>1 DEF Fresh, mastervars
<1>13. CASE lines = <<Handshake>>
  <2>1. todo' = <<Handshake>>
    BY <1>3, <1>9, <1>13, HandshakeParsed
  <2>2. ASSUME NEW i \in 1..Len(wire'), wire'[i].kind = "clear_board"
        PROVE  buf'[1].cmd < wire'[i].cmd /\ \A a \in answers' : a.number < wire'[i].cmd
    <3>1. buf'[1].cmd = 0
      BY <1>9, <1>13, HandshakeParsed
    <3>2. wire'[i] \in Sent
      BY <1>1, <2>2, ElementOfSeq, Zenon
    <3>3. wire'[i].cmd \in 1..MaxCommands
      BY <2>2, <3>2, SentIs
    <3>4. \A a \in answers : a.number < wire'[i].cmd
      BY <1>4, <1>10, <2>2 DEF BufferClean
    <3>5. QED
      BY <1>2, <3>1, <3>3, <3>4
  <2>3. BufferClean'
    BY <1>1, <1>9, <1>13, <2>2 DEF BufferClean
  <2>4. QED
    BY <1>11, <1>12, <2>1, <2>3 DEF TodoClean
<1>14. ASSUME NEW n \in 2..given, lines = Batch(n, plays[n])
       PROVE  BufferClean' /\ TodoClean'
  <2>1. /\ lines # <<>> /\ lines[1].cmd = n /\ lines[1].kind = "clear_board"
        /\ Parsed(lines) = lines /\ NumbersOf(lines) = {n}
        /\ Rest(n, plays[n], 0) = lines
    <3>1. 0 \in 0..(plays[n] + 4) /\ n \in 1..MaxCommands /\ plays[n] \in 0..MaxPlays
      BY <1>7, Bounds
    <3> DEFINE k0 == plays[n]
    <3>2. Rest(n, k0, 0) = Batch(n, k0)
      <4> HIDE DEF k0
      <4>1. 0 \in 0..(k0 + 4) /\ k0 \in 0..MaxPlays
        BY <3>1 DEF k0
      <4>2. QED
        BY <3>1, <4>1, RestIs
    <3>3. QED
      BY <1>14, <3>1, <3>2, BatchParsed
  <2>2. number' = n /\ todo' = lines
    BY <1>3, <1>9, <2>1 DEF InputNumber
  <2>3. wire[1] = lines[1] /\ 1 \in 1..Len(wire)
    BY <1>1, <1>5
  <2>4. ASSUME NEW i \in 1..Len(wire'), wire'[i].kind = "clear_board"
        PROVE  buf'[1].cmd < wire'[i].cmd /\ \A a \in answers' : a.number < wire'[i].cmd
    <3>1. 1 < k + i
      BY <1>5
    <3>2. n < wire'[i].cmd
      BY <1>4, <1>10, <2>1, <2>3, <2>4, <3>1 DEF WireClean
    <3>3. \A a \in answers : a.number < wire'[i].cmd
      BY <1>4, <1>10, <2>4 DEF BufferClean
    <3>4. QED
      BY <1>2, <1>9, <2>1, <3>2, <3>3
  <2>5. UNCHANGED <<given, plays, answers>>
    BY <1>2 DEF mastervars
  <2>6. BufferClean'
    BY <1>1, <1>9, <1>14, <2>4, <2>5 DEF BufferClean
  <2>7. \A a \in answers' : a.number < number'
    BY <1>4, <2>1, <2>2, <2>3, <2>5 DEF BufferClean
  <2>8. plays'[number'] = plays[n] /\ plays[n] \in Nat
    BY <1>7, <2>2, <2>5, Bounds
  <2>9. Progress(number, plays[number], 0)'
    BY <1>12, <2>8 DEF Progress
  <2>10. TodoClean'
    <3>1. 0 \in 0..(plays'[number'] + 4)
      BY <1>7, <2>2, <2>5, Bounds
    <3>2. number' \in 2..given' /\ buf' = Batch(number', plays'[number'])
      BY <1>9, <1>14, <2>2, <2>5
    <3>3. todo' = Rest(number', plays'[number'], 0)
      BY <2>1, <2>2, <2>5
    <3>4. QED
      BY <2>7, <2>9, <3>1, <3>2, <3>3 DEF TodoClean
  <2>11. QED
    BY <2>6, <2>10
<1>15. QED
  BY <1>6, <1>11, <1>13, <1>14

\* A read is clean, or nothing is claimed of what it leaves in the buffer.
LEMMA ReadKeeps == ASSUME TypeInv, SlaveInv, Read PROVE SlaveInv'
<1>1. UNCHANGED <<ended, mastervars, answers>> /\ Running
  BY DEF Read
<1>2. clean' => WireClean' /\ BufferClean' /\ TodoClean'
  BY ReadClean
<1>3. AnswersAreOfTheirCommand' /\ \A a \in answers' : a.number \in 2..given'
  BY <1>1 DEF SlaveInv, AnswersAreOfTheirCommand, mastervars
<1>4. CleanBatchesSurvived'
  BY <1>1 DEF CleanBatchesSurvived, Running
<1>5. QED
  BY <1>2, <1>3, <1>4 DEF SlaveInv

\* A batch that is parsed again, its connection lost, is parsed from its beginning.
LEMMA ReadNothingKeeps == ASSUME TypeInv, SlaveInv, ReadNothing PROVE SlaveInv'
<1>1. /\ UNCHANGED <<engine, game, buf, linkvars, mastervars, history>>
      /\ Running /\ todo = <<>> /\ link = "lost"
  BY DEF ReadNothing
<1>2. clean => WireClean' /\ BufferClean'
  BY <1>1 DEF SlaveInv, WireClean, BufferClean, linkvars, mastervars, history
<1>3. AnswersAreOfTheirCommand' /\ \A a \in answers' : a.number \in 2..given'
  BY <1>1 DEF SlaveInv, AnswersAreOfTheirCommand, mastervars, history
<1>4. CASE buf = <<>>
  <2>1. ended' = "unread"
    BY <1>4 DEF ReadNothing
  <2>2. QED
    BY <1>1, <1>2, <1>3, <2>1 DEF SlaveInv, CleanBatchesSurvived, Running, history
<1>5. CASE buf # <<>>
  <2>1. InputNumber(buf, number') /\ todo' = Parsed(buf) /\ ended' = ended
    BY <1>5 DEF ReadNothing
  <2>2. ASSUME clean PROVE TodoClean'
    <3>1. BufferClean /\ TodoClean
      BY <1>1, <2>2 DEF SlaveInv
    <3>2. ASSUME NEW n \in 2..given
          PROVE  n \in 1..MaxCommands /\ plays[n] \in 0..MaxPlays /\ 0 \in 0..(plays[n] + 4)
      BY Bounds DEF TypeInv
    <3>3. Fresh'
      <4>1. \A n \in 2..given : \A p \in 0..(plays[n] + 4) : Rest(n, plays[n], p) # <<>>
        BY <3>2, RestIs
      <4>2. Fresh
        BY <1>1, <3>1, <4>1 DEF TodoClean
      <4>3. QED
        BY <1>1, <4>2 DEF Fresh, mastervars, history
    <3>4. CASE buf = <<Handshake>>
      BY <2>1, <3>3, <3>4, HandshakeParsed DEF TodoClean
    <3>5. ASSUME NEW n \in 2..given, buf = Batch(n, plays[n]) PROVE TodoClean'
      <4>1. Parsed(buf) = buf /\ NumbersOf(buf) = {n} /\ Rest(n, plays[n], 0) = buf
        BY <3>2, <3>5, BatchParsed, RestIs
      <4>2. number' = n /\ todo' = buf
        BY <2>1, <4>1 DEF InputNumber
      <4>3. UNCHANGED <<given, plays, buf>> /\ link' = "lost"
        BY <1>1 DEF mastervars, linkvars
      <4>4. plays'[number'] = plays[n] /\ plays[n] \in Nat
        BY <3>2, <4>2, <4>3, Bounds
      <4>5. Progress(number, plays[number], 0)'
        BY <3>3, <4>4 DEF Progress
      <4>6. /\ 0 \in 0..(plays'[number'] + 4) /\ number' \in 2..given'
            /\ buf' = Batch(number', plays'[number'])
            /\ todo' = Rest(number', plays'[number'], 0)
        BY <3>2, <3>5, <4>1, <4>2, <4>3
      <4>7. QED
        BY <4>3, <4>5, <4>6 DEF TodoClean
    <3>6. QED
      BY <1>5, <3>1, <3>4, <3>5 DEF BufferClean
  <2>3. CleanBatchesSurvived'
    BY <1>1, <2>1 DEF CleanBatchesSurvived, Running
  <2>4. QED
    BY <1>1, <1>2, <1>3, <2>2, <2>3 DEF SlaveInv, history
<1>6. QED
  BY <1>4, <1>5

\* The next line of a batch does what Progress says of it.
LEMMA LineProgress ==
  ASSUME TypeInv, NEW n \in 2..given, NEW k \in 0..MaxPlays, NEW p \in 0..(k + 4),
         NEW l, l = Batch(n, k)[p + 1],
         Progress(n, k, p), Effect(l), UNCHANGED ai,
         stale' = (stale /\ engine'.preselRandMoves # <<>>)
  PROVE  p < k + 4 /\ Progress(n, k, p + 1)'
<1>1. n \in 1..MaxCommands /\ k \in Nat /\ p \in Nat /\ n \in Nat
  BY Bounds DEF TypeInv
<1>2. /\ l \in Sent /\ l.cmd = n /\ l.part = "whole"
      /\ p = 0 <=> l.kind = "clear_board"
      /\ p = 1 => l.kind = "boardsize"
      /\ 2 <= p /\ p <= k + 1 => l.kind = "play" /\ l.arg = p - 1
      /\ p = k + 2 => l.kind = "e_randmoves"
      /\ p = k + 3 => l.kind = "e_useai"
      /\ p = k + 4 <=> l.kind = "genmove"
  BY <1>1, LineOfBatch
<1>3. p < k + 4
  <2>1. l.kind # "genmove"
    BY <1>2, EffectIs
  <2>2. p # k + 4
    BY <1>2, <2>1
  <2>3. QED
    BY <1>1, <2>2
<1>4. engine \in Engines
  BY DEF TypeInv
<1>5. ASSUME engine' = engine, Fresh PROVE Fresh'
  BY <1>5 DEF Fresh
<1>6. CASE p = 0 \/ p = 1
  <2>1. game' = {} /\ engine' = engine
    BY <1>2, <1>6, EffectIs
  <2>2. Fresh
    BY <1>1, <1>6 DEF Progress
  <2>3. Fresh'
    BY <1>5, <2>1, <2>2
  <2>4. 1..(p + 1 - 2) = {}
    BY <1>6
  <2>5. k + 2 <= p + 1 => 1..k = {}
    BY <1>1, <1>6
  <2>6. p + 1 < k + 3
    BY <1>1, <1>6
  <2>7. QED
    BY <1>1, <1>3, <2>1, <2>3, <2>4, <2>5, <2>6 DEF Progress
<1>7. CASE 2 <= p /\ p <= k + 1
  <2>1. game' = game \cup {p - 1} /\ engine' = engine
    BY <1>1, <1>2, <1>7, EffectIs
  <2>2. Fresh /\ game = 1..(p - 2)
    BY <1>1, <1>7 DEF Progress
  <2>3. Fresh'
    BY <1>5, <2>1, <2>2
  <2>4. game' = 1..(p - 1)
    BY <1>1, <1>7, <2>1, <2>2
  <2>5. p + 1 - 2 = p - 1 /\ p + 1 < k + 3 /\ (k + 2 <= p + 1 => p - 1 = k)
    BY <1>1, <1>7
  <2>6. QED
    BY <1>1, <1>3, <2>3, <2>4, <2>5 DEF Progress
<1>8. CASE p = k + 2
  <2>1. game' = game /\ engine' = E_randmoves(engine, <<n>>)
    BY <1>1, <1>2, <1>8, EffectIs
  <2>2. Fresh /\ game = 1..k
    BY <1>1, <1>8 DEF Progress
  <2>3. engine'.preselRandMoves = engine.preselRandMoves \o <<n>>
    BY <1>4, <2>1 DEF E_randmoves, Engines
  <2>4. /\ engine.preselRandMoves \o <<n>> # <<>>
        /\ engine.preselRandMoves = <<>> => engine.preselRandMoves \o <<n>> = <<n>>
    <3> DEFINE q == engine.preselRandMoves
    <3>1. q \in Seq(1..MaxCommands) /\ <<n>> \in Seq(1..MaxCommands)
      BY <1>1, <1>4 DEF Engines
    <3> HIDE DEF q
    <3>2. Len(q \o <<n>>) = Len(q) + 1 /\ Len(q) \in Nat
      BY <3>1
    <3>3. q \o <<n>> # <<>>
      BY <3>2
    <3>4. <<>> \o <<n>> = <<n>>
      BY <3>1
    <3>5. QED
      BY <3>3, <3>4 DEF q
  <2>5. ai' = "RAN" \/ engine'.preselRandMoves = <<n>> \/ stale'
    BY <2>2, <2>3, <2>4 DEF Fresh
  <2>6. k + 2 <= p + 1 /\ ~ (p + 1 <= k + 2) /\ ~ (p + 1 < k + 3) /\ p + 1 # k + 4
    BY <1>1, <1>8
  <2>7. QED
    BY <1>3, <2>1, <2>2, <2>3, <2>4, <2>5, <2>6 DEF Progress
<1>9. CASE p = k + 3
  <2>1. game' = game /\ engine' = E_useai(engine, ai, "s", n)
    BY <1>1, <1>2, <1>9, EffectIs
  <2>2. /\ engine'.aiType = ai /\ (ai # "RAN" => engine'.simulations = n)
        /\ engine'.preselRandMoves = engine.preselRandMoves
    BY <1>4, <2>1 DEF E_useai, Engines
  <2>3. /\ game = 1..k /\ engine.preselRandMoves # <<>>
        /\ ai = "RAN" \/ engine.preselRandMoves = <<n>> \/ stale
    BY <1>1, <1>9 DEF Progress
  <2>4. k + 2 <= p + 1 /\ ~ (p + 1 <= k + 2) /\ ~ (p + 1 < k + 3)
    BY <1>1, <1>9
  <2>5. QED
    BY <1>3, <2>1, <2>2, <2>3, <2>4 DEF Progress
<1>10. QED
  BY <1>1, <1>3, <1>6, <1>7, <1>8, <1>9

\* The next line of a clean connection is the handshake or the next line of a batch.
LEMMA NextLine ==
  ASSUME TypeInv, SlaveInv, clean, Running, todo # <<>>
  PROVE  \/ Fresh /\ Head(todo) = Handshake /\ Tail(todo) = <<>>
         \/ /\ number \in 2..given /\ buf = Batch(number, plays[number])
            /\ number \in 1..MaxCommands /\ plays[number] \in 0..MaxPlays
            /\ link # "lost" => \A a \in answers : a.number < number
            /\ \E p \in 0..(plays[number] + 4) :
                 /\ Head(todo) = Batch(number, plays[number])[p + 1]
                 /\ Tail(todo) = IF p = plays[number] + 4 THEN <<>>
                                 ELSE Rest(number, plays[number], p + 1)
                 /\ Progress(number, plays[number], p)
<1>1. TodoClean
  BY DEF SlaveInv
<1>2. CASE todo = <<Handshake>> /\ Fresh
  <2>1. Head(todo) = Handshake /\ Tail(todo) = <<>>
    BY <1>2
  <2>2. QED
    BY <1>2, <2>1
<1>3. CASE /\ number \in 2..given /\ buf = Batch(number, plays[number])
           /\ link # "lost" => \A a \in answers : a.number < number
           /\ \E p \in 0..(plays[number] + 4) :
                todo = Rest(number, plays[number], p) /\ Progress(number, plays[number], p)
  <2>1. number \in 1..MaxCommands /\ plays[number] \in 0..MaxPlays
    BY <1>3, Bounds DEF TypeInv
  <2>2. PICK p \in 0..(plays[number] + 4) :
          todo = Rest(number, plays[number], p) /\ Progress(number, plays[number], p)
    BY <1>3
  <2>3. /\ Head(todo) = Batch(number, plays[number])[p + 1]
        /\ Tail(todo) = IF p = plays[number] + 4 THEN <<>> ELSE Rest(number, plays[number], p + 1)
    BY <2>1, <2>2, RestIs
  <2>4. QED
    BY <1>3, <2>1, <2>2, <2>3
<1>4. QED
  BY <1>1, <1>2, <1>3 DEF TodoClean

\* What an answer does not change.
LEMMA WrittenKeeps ==
  ASSUME SlaveInv, NEW A, Written(A), UNCHANGED mastervars
  PROVE  /\ clean' = clean /\ ended' = ended /\ buf' = buf /\ wire' = wire
         /\ longest' = longest /\ given' = given /\ plays' = plays /\ ai' = ai
         /\ stale' = (stale /\ engine'.preselRandMoves # <<>>)
         /\ link' = "lost" => link = "lost"
         /\ link = "lost" => link' = "lost"
         /\ todo' = Tail(todo)
         /\ clean => WireClean'
BY DEF Written, SlaveInv, WireClean, mastervars

\* A line of a clean connection is the next of its batch.
LEMMA ParseLineKeeps == ASSUME TypeInv, SlaveInv, ParseLine PROVE SlaveInv'
<1>1. /\ todo # <<>> /\ Effect(Head(todo)) /\ (Written({}) \/ WriteFails) /\ Running
      /\ UNCHANGED <<number, mastervars, faults>>
  BY DEF ParseLine
<1>2. CASE WriteFails
  BY <1>1, <1>2, RestartKeeps DEF WriteFails
<1>3. CASE Written({})
  <2>1. answers' = answers
    BY <1>3 DEF Written
  <2>2. /\ clean' = clean /\ ended' = ended /\ buf' = buf /\ wire' = wire
        /\ longest' = longest /\ given' = given /\ plays' = plays /\ ai' = ai
        /\ stale' = (stale /\ engine'.preselRandMoves # <<>>)
        /\ link' # "lost" => link # "lost"
        /\ todo' = Tail(todo) /\ number' = number
        /\ clean => WireClean'
    BY <1>1, <1>3, WrittenKeeps
  <2>3. clean => BufferClean'
    BY <2>1, <2>2 DEF SlaveInv, BufferClean
  <2>4. ASSUME clean PROVE TodoClean'
    <3>1. CASE Fresh /\ Head(todo) = Handshake /\ Tail(todo) = <<>>
      <4>1. engine' = engine
        BY <1>1, <3>1, HandshakeSent, EffectIs
      <4>2. Fresh'
        BY <2>2, <3>1, <4>1 DEF Fresh
      <4>3. QED
        BY <2>2, <3>1, <4>2 DEF TodoClean
    <3>2. CASE /\ number \in 2..given /\ buf = Batch(number, plays[number])
               /\ number \in 1..MaxCommands /\ plays[number] \in 0..MaxPlays
               /\ link # "lost" => \A a \in answers : a.number < number
               /\ \E p \in 0..(plays[number] + 4) :
                    /\ Head(todo) = Batch(number, plays[number])[p + 1]
                    /\ Tail(todo) = IF p = plays[number] + 4 THEN <<>>
                                    ELSE Rest(number, plays[number], p + 1)
                    /\ Progress(number, plays[number], p)
      <4>1. PICK k \in 0..MaxPlays : k = plays[number]
        BY <3>2
      <4>2. PICK p \in 0..(k + 4) :
              /\ Head(todo) = Batch(number, k)[p + 1]
              /\ Tail(todo) = IF p = k + 4 THEN <<>> ELSE Rest(number, k, p + 1)
              /\ Progress(number, k, p)
        BY <3>2, <4>1
      <4>3. p < k + 4 /\ Progress(number, k, p + 1)'
        <5>1. PICK n \in 2..given : n = number
          BY <3>2
        <5>2. PICK l : l = Head(todo)
          OBVIOUS
        <5>3. p < k + 4 /\ Progress(n, k, p + 1)'
          BY <1>1, <2>2, <4>2, <5>1, <5>2, LineProgress
        <5>4. QED
          BY <2>2, <5>1, <5>3 DEF Progress
      <4>4. p + 1 \in 0..(k + 4) /\ todo' = Rest(number, k, p + 1)
        BY <2>2, <4>1, <4>2, <4>3, Bounds
      <4>5. /\ number' \in 2..given' /\ buf' = Batch(number', plays'[number'])
            /\ link' # "lost" => \A a \in answers' : a.number < number'
            /\ plays'[number'] = k
        BY <2>1, <2>2, <3>2, <4>1
      <4>6. \E q \in 0..(plays'[number'] + 4) :
              todo' = Rest(number', plays'[number'], q) /\ Progress(number, plays[number], q)'
        <5>1. Progress(number, plays[number], p + 1)' <=> Progress(number, k, p + 1)'
          BY <4>5 DEF Progress
        <5>2. QED
          BY <2>2, <4>3, <4>4, <4>5, <5>1
      <4>7. QED
        BY <4>5, <4>6, Zenon DEF TodoClean
    <3>3. QED
      BY <1>1, <2>4, <3>1, <3>2, NextLine
  <2>5. AnswersAreOfTheirCommand' /\ CleanBatchesSurvived'
        /\ \A a \in answers' : a.number \in 2..given'
    BY <1>1, <2>1, <2>2 DEF SlaveInv, AnswersAreOfTheirCommand, CleanBatchesSurvived, Running
  <2>6. QED
    BY <2>2, <2>3, <2>4, <2>5 DEF SlaveInv
<1>4. QED
  BY <1>1, <1>2, <1>3

\* A genmove of a clean connection: the last line of the batch, which did what it says.
LEMMA GenmoveProgress ==
  ASSUME TypeInv, SlaveInv, clean, Running, todo # <<>>, Head(todo).kind = "genmove"
  PROVE  /\ number \in 2..given /\ buf # <<>> /\ buf[1].cmd = number
         /\ Head(todo).cmd = number /\ Head(todo).part = "whole" /\ Tail(todo) = <<>>
         /\ link # "lost" => \A a \in answers : a.number < number
         /\ game = 1..plays[number] /\ engine.preselRandMoves # <<>>
         /\ ai = "RAN" \/ engine.preselRandMoves = <<number>> \/ stale
         /\ engine.aiType = ai /\ (ai # "RAN" => engine.simulations = number)
<1>1. /\ number \in 2..given /\ buf = Batch(number, plays[number])
      /\ number \in 1..MaxCommands /\ plays[number] \in 0..MaxPlays
      /\ link # "lost" => \A a \in answers : a.number < number
      /\ \E p \in 0..(plays[number] + 4) :
           /\ Head(todo) = Batch(number, plays[number])[p + 1]
           /\ Tail(todo) = IF p = plays[number] + 4 THEN <<>>
                           ELSE Rest(number, plays[number], p + 1)
           /\ Progress(number, plays[number], p)
  <2>1. Head(todo) # Handshake
    BY HandshakeSent
  <2>2. QED
    BY <2>1, NextLine
<1>2. PICK k \in 0..MaxPlays : k = plays[number]
  BY <1>1
<1>3. PICK n \in 1..MaxCommands : n = number
  BY <1>1
<1>4. PICK p \in 0..(k + 4) :
        /\ Head(todo) = Batch(n, k)[p + 1]
        /\ Tail(todo) = IF p = k + 4 THEN <<>> ELSE Rest(n, k, p + 1)
        /\ Progress(n, k, p)
  BY <1>1, <1>2, <1>3
<1>5. PICK l : l = Head(todo)
  OBVIOUS
<1>6. l.cmd = n /\ l.part = "whole" /\ p = k + 4
  BY <1>4, <1>5, LineOfBatch
<1>7. /\ game = 1..k /\ engine.preselRandMoves # <<>>
      /\ ai = "RAN" \/ engine.preselRandMoves = <<n>> \/ stale
      /\ engine.aiType = ai /\ (ai # "RAN" => engine.simulations = n)
  BY <1>4, <1>6, Bounds DEF Progress
<1>8. buf # <<>> /\ buf[1].cmd = n
  BY <1>1, <1>2, <1>3, BatchParsed
<1>9. QED
  BY <1>1, <1>2, <1>3, <1>4, <1>5, <1>6, <1>7, <1>8

\* An answer of a clean connection has the number of the batch in the buffer, and ends it.
LEMMA GenmoveKeeps == ASSUME TypeInv, SlaveInv, Genmove PROVE SlaveInv'
<1> DEFINE b == Answer(Head(todo))
<1>1. /\ todo # <<>> /\ Head(todo).kind = "genmove" /\ Searched
      /\ (Written({b}) \/ WriteFails) /\ Running
      /\ UNCHANGED <<number, mastervars, faults>>
  BY DEF Genmove
<1>2. /\ b.number = number /\ b.cmd = Head(todo).cmd /\ b.ai = engine.aiType
      /\ b.moves = engine.preselRandMoves /\ b.simulations = engine.simulations
      /\ b.game = game /\ b.stale = stale
      /\ b.again = \E a \in answers : a.number = number
  BY DEF Answer
<1> HIDE DEF b
<1>3. CASE WriteFails
  BY <1>1, <1>3, RestartKeeps DEF WriteFails
<1>4. CASE Written({b})
  <2>1. /\ clean' = clean /\ ended' = ended /\ buf' = buf /\ wire' = wire
        /\ longest' = longest /\ given' = given /\ plays' = plays /\ ai' = ai
        /\ stale' = (stale /\ engine'.preselRandMoves # <<>>)
        /\ todo' = Tail(todo) /\ number' = number
        /\ clean => WireClean'
    BY <1>1, <1>4, WrittenKeeps
  <2>2. \/ answers' = answers
        \/ clean /\ link # "lost" /\ answers' = answers \cup {b}
    BY <1>4 DEF Written
  <2>3. ASSUME clean
        PROVE  /\ number \in 2..given /\ buf # <<>> /\ buf[1].cmd = number
               /\ Head(todo).cmd = number /\ Tail(todo) = <<>>
               /\ link # "lost" => \A a \in answers : a.number < number
               /\ game = 1..plays[number]
               /\ ai = "RAN" \/ engine.preselRandMoves = <<number>> \/ stale
               /\ engine.aiType = ai /\ (ai # "RAN" => engine.simulations = number)
    BY <1>1, <2>3, GenmoveProgress
  <2>4. ASSUME clean, link # "lost"
        PROVE  /\ b.number = b.cmd /\ ~ b.again /\ b.game = 1..plays[b.cmd]
               /\ b.ai = "UCB" => /\ b.simulations = b.cmd
                                  /\ b.moves = <<b.cmd>> \/ b.stale
    <3>1. number \in Nat /\ \A a \in answers : a.number \in 2..given
      BY Bounds DEF SlaveInv, TypeInv
    <3>2. \A a \in answers : a.number # number
      BY <2>3, <2>4, <3>1
    <3>3. QED
      BY <1>2, <2>3, <2>4, <3>2
  <2>5. AnswersAreOfTheirCommand'
    BY <2>1, <2>2, <2>4 DEF SlaveInv, AnswersAreOfTheirCommand
  <2>6. \A a \in answers' : a.number \in 2..given'
    BY <1>2, <2>1, <2>2, <2>3 DEF SlaveInv
  <2>7. ASSUME clean PROVE BufferClean'
    <3>1. \A i \in 1..Len(wire) : wire[i].kind = "clear_board" =>
            /\ buf[1].cmd < wire[i].cmd
            /\ \A a \in answers : a.number < wire[i].cmd
      BY <2>3, <2>7 DEF SlaveInv, BufferClean
    <3>2. \A i \in 1..Len(wire) : wire[i].kind = "clear_board" =>
            \A a \in answers' : a.number < wire[i].cmd
      BY <1>2, <2>2, <2>3, <2>7, <3>1
    <3>3. QED
      BY <2>1, <2>7, <3>1, <3>2 DEF SlaveInv, BufferClean
  <2>8. ASSUME clean PROVE TodoClean'
    <3>1. ai # "RAN" => engine'.preselRandMoves = <<>>
      BY <1>1, <2>3, <2>8 DEF Searched, Answered, TypeInv, Engines
    <3>2. Fresh'
      BY <2>1, <3>1 DEF Fresh
    <3>3. todo' = <<>>
      BY <2>1, <2>3, <2>8
    <3>4. QED
      BY <3>2, <3>3 DEF TodoClean
  <2>9. CleanBatchesSurvived'
    BY <1>1, <2>1 DEF CleanBatchesSurvived, Running
  <2>10. QED
    BY <2>1, <2>5, <2>6, <2>7, <2>8, <2>9 DEF SlaveInv
<1>5. QED
  BY <1>1, <1>3, <1>4

\* The lines of a clean connection are whole, and a batch plays a move only once.
LEMMA CleanLine ==
  ASSUME TypeInv, SlaveInv, clean, Running, todo # <<>>
  PROVE  Head(todo).part = "whole" /\ (Head(todo).kind = "play" => Head(todo).arg \notin game)
<1>1. CASE Head(todo) = Handshake
  BY <1>1, HandshakeSent
<1>2. CASE /\ number \in 2..given /\ buf = Batch(number, plays[number])
           /\ number \in 1..MaxCommands /\ plays[number] \in 0..MaxPlays
           /\ link # "lost" => \A a \in answers : a.number < number
           /\ \E p \in 0..(plays[number] + 4) :
                /\ Head(todo) = Batch(number, plays[number])[p + 1]
                /\ Tail(todo) = IF p = plays[number] + 4 THEN <<>>
                                ELSE Rest(number, plays[number], p + 1)
                /\ Progress(number, plays[number], p)
  <2>1. PICK k \in 0..MaxPlays : k = plays[number]
    BY <1>2
  <2>2. PICK n \in 1..MaxCommands : n = number
    BY <1>2
  <2>3. PICK p \in 0..(k + 4) : Head(todo) = Batch(n, k)[p + 1] /\ Progress(n, k, p)
    BY <1>2, <2>1, <2>2
  <2>4. PICK l : l = Head(todo)
    OBVIOUS
  <2>5. /\ l.part = "whole"
        /\ p = 0 <=> l.kind = "clear_board"
        /\ p = 1 => l.kind = "boardsize"
        /\ 2 <= p /\ p <= k + 1 => l.kind = "play" /\ l.arg = p - 1
        /\ p = k + 2 => l.kind = "e_randmoves"
        /\ p = k + 3 => l.kind = "e_useai"
        /\ p = k + 4 <=> l.kind = "genmove"
    BY <2>3, <2>4, LineOfBatch
  <2>6. k \in Nat /\ p \in Nat
    BY Bounds
  <2>7. l.kind = "play" => 2 <= p /\ p <= k + 1
    BY <2>5, <2>6
  <2>8. l.kind = "play" => game = 1..(p - 2) /\ l.arg = p - 1
    BY <2>3, <2>5, <2>6, <2>7 DEF Progress
  <2>9. QED
    BY <2>4, <2>5, <2>6, <2>8
<1>3. QED
  BY <1>1, <1>2, NextLine

\* What ends the process is not a line of a clean connection.
LEMMA EndKeeps ==
  ASSUME SlaveInv, NEW why, End(why), clean => why # "line", why # "no",
         UNCHANGED <<number, mastervars, faults>>
  PROVE  SlaveInv'
<1>1. /\ ended' = why /\ UNCHANGED <<engine, game, buf, linkvars, answers, longest, clean, stale>>
  BY DEF End
<1>2. ~ Running'
  BY <1>1 DEF Running
<1>3. clean => WireClean' /\ BufferClean'
  BY <1>1 DEF SlaveInv, WireClean, BufferClean, linkvars, mastervars
<1>4. AnswersAreOfTheirCommand' /\ \A a \in answers' : a.number \in 2..given'
  BY <1>1 DEF SlaveInv, AnswersAreOfTheirCommand, mastervars
<1>5. CleanBatchesSurvived' /\ clean' = clean
  BY <1>1 DEF CleanBatchesSurvived
<1>6. QED
  BY <1>2, <1>3, <1>4, <1>5 DEF SlaveInv

\* No line of a clean connection is illegal, unknown or a search of nothing.
LEMMA ParseThrowsKeeps == ASSUME TypeInv, SlaveInv, ParseThrows PROVE SlaveInv'
<1>1. /\ todo # <<>> /\ End("line") /\ Running /\ UNCHANGED <<number, mastervars, faults>>
      /\ \/ Head(todo).part # "whole"
         \/ Head(todo).kind = "play" /\ Head(todo).arg \in game
         \/ Head(todo).kind = "genmove" /\ MayCrash
  BY DEF ParseThrows
<1>2. ASSUME clean PROVE FALSE
  <2>1. Head(todo).part = "whole" /\ (Head(todo).kind = "play" => Head(todo).arg \notin game)
    BY <1>1, <1>2, CleanLine
  <2>2. Head(todo).kind = "genmove" => engine.preselRandMoves # <<>>
    BY <1>1, <1>2, GenmoveProgress
  <2>3. QED
    BY <1>1, <2>1, <2>2 DEF MayCrash
<1>3. QED
  BY <1>1, <1>2, EndKeeps

\* A search that throws ends the process, and has answered nothing.
LEMMA SearchThrowsKeeps == ASSUME SlaveInv, SearchThrows PROVE SlaveInv'
<1>1. End("search") /\ UNCHANGED <<number, mastervars, faults>>
  BY DEF SearchThrows
<1>2. QED
  BY <1>1, EndKeeps

\* There is no half a line in a clean connection.
LEMMA HalfLineKeeps == ASSUME TypeInv, SlaveInv, HalfLine PROVE SlaveInv'
<1>1. /\ todo # <<>> /\ Running /\ UNCHANGED <<number, mastervars, faults>>
      /\ \/ Head(todo).part = "front" /\ Restart
         \/ /\ Head(todo).part = "back"
            /\ UNCHANGED <<engine, game, buf, ended, linkvars, answers, longest, clean, stale>>
  BY DEF HalfLine
<1>2. ~ clean
  BY <1>1, CleanLine
<1>3. CASE Restart
  BY <1>1, <1>3, RestartKeeps
<1>4. CASE UNCHANGED <<ended, answers, clean>>
  BY <1>1, <1>2, <1>4 DEF SlaveInv, AnswersAreOfTheirCommand, CleanBatchesSurvived, mastervars
<1>5. QED
  BY <1>1, <1>3, <1>4

\* The handshake is no command.
LEMMA ConnectKeeps == ASSUME TypeInv, SlaveInv, Connect PROVE SlaveInv'
<1>1. /\ Running /\ link = "down" /\ link' = "greeting" /\ wire' = <<Handshake>>
      /\ UNCHANGED <<slavevars, mastervars, history>>
  BY DEF Connect
<1>2. Len(wire') = 1 /\ wire'[1].cmd = 0 /\ wire'[1].kind # "clear_board" /\ given \in Nat
  BY <1>1, HandshakeSent, Bounds DEF TypeInv
<1>3. WireClean'
  <2>1. given' = given
    BY <1>1 DEF mastervars
  <2>2. QED
    BY <1>2, <2>1 DEF WireClean
<1>4. ASSUME NEW i \in 1..Len(wire') PROVE wire'[i].kind # "clear_board"
  BY <1>2
<1>5. clean => BufferClean'
  BY <1>1, <1>4 DEF SlaveInv, BufferClean, slavevars, mastervars, history
<1>6. \A n, k, p : Progress(n, k, p)' <=> Progress(n, k, p)
  BY <1>1 DEF Progress, Fresh, slavevars, mastervars, history
<1>7. clean /\ Running => TodoClean'
  BY <1>1, <1>6 DEF SlaveInv, TodoClean, Fresh, slavevars, mastervars, history
<1>8. QED
  BY <1>1, <1>3, <1>5, <1>7 DEF SlaveInv, AnswersAreOfTheirCommand, CleanBatchesSurvived, Running,
                               slavevars, mastervars, history

\* A slave begins with the handshake under way and an empty buffer.
LEMMA SlaveInit == ASSUME Init PROVE SlaveInv
<1>1. /\ engine = NewEngine /\ buf = <<>> /\ todo = <<>> /\ ended = "no" /\ given = 1
      /\ wire = <<Handshake>> /\ answers = {} /\ longest = 0 /\ clean
  BY DEF Init
<1>2. Len(wire) = 1 /\ wire[1].cmd = 0 /\ wire[1].kind # "clear_board"
  BY <1>1, HandshakeSent
<1>3. WireClean /\ BufferClean
  BY <1>1, <1>2 DEF WireClean, BufferClean
<1>4. TodoClean
  BY <1>1 DEF TodoClean, Fresh, NewEngine
<1>5. QED
  BY <1>1, <1>3, <1>4 DEF SlaveInv, AnswersAreOfTheirCommand, CleanBatchesSurvived

\* Every step keeps the invariant.
LEMMA SlaveStep == ASSUME TypeInv, SlaveInv, [Next]_vars PROVE SlaveInv'
<1>1. CASE UNCHANGED vars
  <2>1. UNCHANGED <<slavevars, linkvars, mastervars, history>>
    BY <1>1 DEF vars
  <2>2. \A n, k, p : Progress(n, k, p)' <=> Progress(n, k, p)
    BY <2>1 DEF Progress, Fresh, slavevars, mastervars, history
  <2>3. TodoClean => TodoClean'
    BY <2>1, <2>2 DEF TodoClean, Fresh, slavevars, linkvars, mastervars, history
  <2>4. (WireClean => WireClean') /\ (BufferClean => BufferClean')
    BY <2>1 DEF WireClean, BufferClean, slavevars, linkvars, mastervars, history
  <2>5. QED
    BY <2>1, <2>3, <2>4 DEF SlaveInv, AnswersAreOfTheirCommand, CleanBatchesSurvived, Running,
                           slavevars, mastervars, history
<1>2. QED
  BY <1>1, CommandKeeps, LoseKeeps, ReadKeeps, ReadNothingKeeps, ParseLineKeeps, GenmoveKeeps,
     ParseThrowsKeeps, SearchThrowsKeeps, HalfLineKeeps, ConnectKeeps DEF Next

\* The types and the invariant hold in every state.
LEMMA SlaveInvariant == Spec => [](TypeInv /\ SlaveInv)
<1>1. Init => TypeInv /\ SlaveInv
  BY TypeInit, SlaveInit
<1>2. TypeInv /\ SlaveInv /\ [Next]_vars => (TypeInv /\ SlaveInv)'
  BY TypeStep, SlaveStep
<1>3. QED
  BY <1>1, <1>2, PTL DEF Spec

\* As long as the reads of a connection are whole batches, none shorter than another, a
\* slave answers a command once, with its number, in its position, and has searched what
\* it was told to, whatever lost connections left behind in the engine
\* (SlaveClient::asyncReadCallback, EGTPEngine::parse).
THEOREM AnswersCorrect == Spec => []AnswersAreOfTheirCommand
<1>1. SlaveInv => AnswersAreOfTheirCommand
  BY DEF SlaveInv
<1>2. QED
  BY <1>1, SlaveInvariant, PTL

\* Nothing in such a batch, begun, lost or read once more, ends the slave
\* (SlaveClient::run, asyncReadCallback).
THEOREM CleanBatchesHarmless == Spec => []CleanBatchesSurvived
<1>1. SlaveInv => CleanBatchesSurvived
  BY DEF SlaveInv
<1>2. QED
  BY <1>1, SlaveInvariant, PTL
=============================================================================
