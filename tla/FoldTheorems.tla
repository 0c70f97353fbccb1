---------------------------- MODULE FoldTheorems ----------------------------
(***************************************************************************)
(* The rule for loops over a sequence, written as FoldLeft: what holds     *)
(* before the first element and is kept by each holds after the last.      *)
(*                                                                         *)
(* The step of the loop and what it keeps are constants of this module,    *)
(* which is instantiated once for every loop.  The induction is on the     *)
(* least number of elements after which it would not hold.                 *)
(***************************************************************************)
EXTENDS SequencesExt, Integers, SequenceTheorems, WellFoundedInduction, TLAPS

CONSTANTS Op(_, _, _),           \* (acc, x, e): the step for e, with x fixed over the loop
          Holds(_, _, _, _, _)   \* (x, base, seq, i, acc): what holds after i elements

Folded(x, base, seq) == FoldLeft(LAMBDA a, e : Op(a, x, e), base, seq)

\* Every set of natural numbers has a least one.
LEMMA Least ==
  ASSUME NEW T \in SUBSET Nat, T # {}
  PROVE  \E n \in T : \A m \in T : n <= m
<1> DEFINE R == {ss \in Nat \X Nat : ss[1] < ss[2]}
<1>1. IsWellFoundedOn(R, Nat)
  BY NatLessThanWellFounded DEF OpToRel
<1>2. \A m, n \in Nat : <<m, n>> \in R <=> m < n
  OBVIOUS
<1>3. \E n \in T : \A m \in T : ~ (<<m, n>> \in R)
  <2> HIDE DEF R
  <2> QED BY <1>1, WFMin
<1>4. PICK n \in T : \A m \in T : ~ (<<m, n>> \in R)
  BY <1>3
<1>5. ASSUME NEW m \in T PROVE n <= m
  <2>1. m \in Nat /\ n \in Nat
    OBVIOUS
  <2>2. ~ (<<m, n>> \in R)
    BY <1>4
  <2>3. ~ (m < n)
    <3> HIDE DEF R
    <3> QED BY <1>2, <2>1, <2>2
  <2> QED BY <2>1, <2>3
<1> QED BY <1>5

\* g is a solution of the equation by which MapThenFoldSet defines its function.
Iterates(x, base, seq, g, D) ==
  g = [s \in SUBSET D |->
         IF s = {} THEN base ELSE Op(g[s \ {Max(s)}], x, seq[Max(s)])]

\* FoldLeft takes the chosen solution of it.
LEMMA FoldedIsIterate ==
  ASSUME NEW x, NEW base, NEW seq
  PROVE  Folded(x, base, seq) = (CHOOSE g : Iterates(x, base, seq, g, DOMAIN seq))[DOMAIN seq]
BY Zenon DEF Folded, FoldLeft, MapThenFoldSet, Iterates

\* Taking the greatest element away goes back by one.
LEMMA MaxOfSegment ==
  ASSUME NEW n \in Nat, NEW s \in SUBSET (1..(n + 1)), n + 1 \in s
  PROVE  Max(s) = n + 1
<1> DEFINE G(m) == m \in s /\ \A y \in s : m >= y
<1>1. G(n + 1)
  OBVIOUS
<1>2. \A m : G(m) => m = n + 1
  OBVIOUS
<1>3. Max(s) = CHOOSE m : G(m)
  BY Zenon DEF Max
<1> HIDE DEF G
<1> QED BY <1>1, <1>2, <1>3

\* There is a solution for every length, and so the chosen one is a solution.
LEMMA IteratesStep ==
  ASSUME NEW x, NEW base, NEW seq, NEW n \in Nat, NEW g, Iterates(x, base, seq, g, 1..n)
  PROVE  \E h : Iterates(x, base, seq, h, 1..(n + 1))
<1> DEFINE D == 1..(n + 1)
           h == [s \in SUBSET D |-> IF n + 1 \in s THEN Op(g[s \ {n + 1}], x, seq[n + 1])
                                                    ELSE g[s]]
           e(f, s) == IF s = {} THEN base ELSE Op(f[s \ {Max(s)}], x, seq[Max(s)])
<1>1. ASSUME NEW s \in SUBSET D PROVE h[s] = e(h, s)
  <2>1. CASE n + 1 \in s
    <3>1. Max(s) = n + 1
      BY <2>1, MaxOfSegment
    <3>2. s \ {n + 1} \in SUBSET D /\ n + 1 \notin s \ {n + 1}
      OBVIOUS
    <3>3. h[s \ {n + 1}] = g[s \ {n + 1}]
      BY <3>2
    <3>4. h[s] = Op(g[s \ {n + 1}], x, seq[n + 1])
      BY <2>1
    <3> QED BY <2>1, <3>1, <3>3, <3>4, Zenon
  <2>2. CASE n + 1 \notin s
    <3>1. s \in SUBSET (1..n)
      BY <2>2
    <3>2. h[s] = g[s]
      BY <2>2
    <3>3. g[s] = e(g, s)
      BY <3>1 DEF Iterates
    <3>4. s \ {Max(s)} \in SUBSET D /\ n + 1 \notin s \ {Max(s)}
      BY <2>2
    <3>5. h[s \ {Max(s)}] = g[s \ {Max(s)}]
      BY <3>4
    <3> QED BY <3>2, <3>3, <3>5, Zenon
  <2> QED BY <2>1, <2>2
<1>2. h = [s \in SUBSET D |-> h[s]]
  OBVIOUS
<1>3. h = [s \in SUBSET D |-> e(h, s)]
  <2> HIDE DEF h, e
  <2> QED BY <1>1, <1>2
<1>4. Iterates(x, base, seq, h, D)
  <2> HIDE DEF h
  <2> QED BY <1>3 DEF Iterates
<1> QED BY <1>4

\* So there is one for every sequence.
LEMMA IteratesExist ==
  ASSUME NEW x, NEW base, NEW seq
  PROVE  \A n \in Nat : \E g : Iterates(x, base, seq, g, 1..n)
<1> DEFINE T == {n \in Nat : ~ \E g : Iterates(x, base, seq, g, 1..n)}
<1>1. ASSUME T # {} PROVE FALSE
  <2>1. PICK n \in T : \A m \in T : n <= m
    BY <1>1, Least
  <2>2. n # 0
    <3> DEFINE g == [s \in SUBSET (1..0) |-> base]
    <3>1. \A s \in SUBSET (1..0) : s = {}
      OBVIOUS
    <3>2. Iterates(x, base, seq, g, 1..0)
      BY <3>1 DEF Iterates
    <3> QED BY <3>2
  <2>3. n - 1 \in Nat /\ n - 1 \notin T
    BY <2>1, <2>2
  <2>4. PICK g : Iterates(x, base, seq, g, 1..(n - 1))
    BY <2>3
  <2>5. \E h : Iterates(x, base, seq, h, 1..((n - 1) + 1))
    BY <2>3, <2>4, IteratesStep
  <2>6. (n - 1) + 1 = n
    OBVIOUS
  <2> QED BY <2>5, <2>6
<1> QED BY <1>1

\* What holds of the base and is kept by the step holds of the fold.
LEMMA FoldInvariant ==
  ASSUME NEW x, NEW base, NEW S, NEW seq \in Seq(S),
         Holds(x, base, seq, 0, base),
         ASSUME NEW i \in 1..Len(seq), NEW acc, Holds(x, base, seq, i - 1, acc)
         PROVE  Holds(x, base, seq, i, Op(acc, x, seq[i]))
  PROVE  Holds(x, base, seq, Len(seq), Folded(x, base, seq))
<1> DEFINE n == Len(seq)
           g == CHOOSE f : Iterates(x, base, seq, f, 1..n)
           T == {i \in Nat : i <= n /\ ~ Holds(x, base, seq, i, g[1..i])}
<1>1. n \in Nat /\ DOMAIN seq = 1..n
  BY LenProperties
<1>2. Iterates(x, base, seq, g, 1..n)
  BY <1>1, IteratesExist, Zenon
<1>3. Folded(x, base, seq) = g[1..n]
  BY <1>1, FoldedIsIterate
<1> HIDE DEF g
<1>4. ASSUME NEW s \in SUBSET (1..n)
      PROVE  g[s] = IF s = {} THEN base ELSE Op(g[s \ {Max(s)}], x, seq[Max(s)])
  BY <1>2, Zenon DEF Iterates
<1>5. ASSUME T # {} PROVE FALSE
  <2>1. PICK i \in T : \A j \in T : i <= j
    BY <1>5, Least
  <2>2. i # 0
    <3>1. 1..0 = {}
      OBVIOUS
    <3>2. g[1..0] = base
      BY <1>4, <3>1
    <3> QED BY <3>2
  <2>3. i - 1 \in Nat /\ i - 1 \notin T /\ i \in 1..n
    BY <1>1, <2>1, <2>2
  <2>4. Holds(x, base, seq, i - 1, g[1..(i - 1)])
    BY <2>3
  <2>5. Max(1..i) = i
    <3>1. (i - 1) + 1 = i /\ i \in 1..i
      BY <2>3
    <3> QED BY <2>3, <3>1, MaxOfSegment
  <2>6. (1..i) \ {i} = 1..(i - 1) /\ 1..i # {} /\ 1..i \in SUBSET (1..n)
    <3>1. i \in 1..i /\ i <= n
      BY <1>1, <2>3
    <3>2. (1..i) \ {i} = 1..(i - 1)
      BY <2>3
    <3>3. 1..i \in SUBSET (1..n)
      BY <1>1, <3>1
    <3> QED BY <3>1, <3>2, <3>3
  <2>7. g[1..i] = Op(g[1..(i - 1)], x, seq[i])
    BY <1>4, <2>5, <2>6
  <2>8. Holds(x, base, seq, i, g[1..i])
    BY <2>3, <2>4, <2>7
  <2> QED BY <2>1, <2>8
<1> QED BY <1>1, <1>3, <1>5
=============================================================================
