------------------------- MODULE MasterServerProofs -------------------------
(***************************************************************************)
(* Theorems about the master, for any finite set of connections, any time  *)
(* budgets and any number of commands.                                     *)
(***************************************************************************)
EXTENDS MasterServer, FiniteSetTheorems, SequenceTheorems, TLAPS

USE ConnsAssumption, AiTypesAssumption, BudgetsAssumption, GarblesAssumption,
    MaxCommandsAssumption

-----------------------------------------------------------------------------
\* Types.

\* A command that has no number yet finds one.
NumberLeft == pc \in {"table", "number"} => commandNumber < MaxCommands

\* The types of what the main thread writes by itself.
LEMMA MainTypeStep ==
  ASSUME TypeOK, NumberLeft,
         \/ StartGenmove \/ NewTable \/ WriteAll \/ StartReads \/ StartWait \/ Poll \/ PickMove
  PROVE  (TypeOK /\ NumberLeft)'
<1>1. CASE StartGenmove
  <2>1. \A b \in Budgets : PollsAllowed(b) \in Int
    BY DEF PollsAllowed, GO_TIME_NOT_ACTIVE, GO_TIME_PROCESSING_BUFFER
  <2>2. spoilt' \in BOOLEAN
    BY <1>1 DEF StartGenmove
  <2>3. QED
    BY <1>1, <2>1, <2>2 DEF StartGenmove, TypeOK, NumberLeft, iovars, slavevars, NoMove
<1>2. CASE NewTable
  BY <1>2 DEF NewTable, TypeOK, NumberLeft, iovars, slavevars, history
<1>3. CASE WriteAll
  <2>1. commandNumber' \in 1..MaxCommands
    BY <1>3 DEF WriteAll, TypeOK, NumberLeft
  <2>2. QED
    BY <1>3, <2>1 DEF WriteAll, TypeOK, NumberLeft, iovars, slavevars
<1>4. CASE StartReads
  BY <1>4 DEF StartReads, TypeOK, NumberLeft, sharedvars, iovars, slavevars, history
<1>5. CASE StartWait
  BY <1>5 DEF StartWait, TypeOK, NumberLeft, sharedvars, iovars, slavevars, history
<1>6. CASE Poll
  BY <1>6 DEF Poll, TypeOK, NumberLeft, sharedvars, iovars, slavevars, history
<1>7. CASE PickMove
  BY <1>7 DEF PickMove, TypeOK, NumberLeft, sharedvars, iovars, slavevars, history
<1>8. QED
  BY <1>1, <1>2, <1>3, <1>4, <1>5, <1>6, <1>7

\* The types of what it writes in its loops over the sockets.
LEMMA LoopTypeStep ==
  ASSUME TypeOK, NumberLeft, NEW c \in Conns, WriteNext(c) \/ ReadNext(c)
  PROVE  (TypeOK /\ NumberLeft)'
<1>1. CASE WriteNext(c) /\ Write(c)
  <2>1. Append(toSlave[c], commandNumber) \in Seq(0..MaxCommands)
    <3>1. toSlave[c] \in Seq(0..MaxCommands) /\ commandNumber \in 0..MaxCommands
      BY DEF TypeOK
    <3>2. QED
      BY <3>1, AppendProperties
  <2>2. toSlave' \in [Conns -> Seq(0..MaxCommands)]
    BY <1>1, <2>1 DEF Write, TypeOK
  <2>3. /\ asked' \subseteq Conns /\ armed' \in [Conns -> BOOLEAN]
        /\ left' \subseteq Conns
    BY <1>1 DEF WriteNext, Write, TypeOK
  <2>4. QED
    BY <1>1, <2>2, <2>3 DEF WriteNext, Write, TypeOK, NumberLeft
<1>2. CASE WriteNext(c) /\ CleanUp(c)
  BY <1>2 DEF WriteNext, CleanUp, TypeOK, NumberLeft
<1>3. CASE ReadNext(c)
  <2>1. reads' \in [Conns -> Nat] /\ left' \subseteq Conns
    BY <1>3 DEF ReadNext, TypeOK
  <2>2. QED
    BY <1>3, <2>1 DEF ReadNext, TypeOK, NumberLeft, sharedvars, slavevars, history
<1>4. QED
  BY <1>1, <1>2, <1>3 DEF WriteNext

\* A queue without its first elements.
LEMMA Suffix ==
  ASSUME NEW S, NEW s \in Seq(S), NEW k \in 0..Len(s)
  PROVE  /\ SubSeq(s, k + 1, Len(s)) \in Seq(S)
         /\ Len(SubSeq(s, k + 1, Len(s))) = Len(s) - k
         /\ \A i \in 1..(Len(s) - k) : SubSeq(s, k + 1, Len(s))[i] = s[k + i]
<1>1. Len(s) \in Nat /\ k + 1 \in Int /\ Len(s) \in Int
  OBVIOUS
<1>2. \A i \in (k + 1)..Len(s) : s[i] \in S
  BY <1>1
<1>3. /\ SubSeq(s, k + 1, Len(s)) \in Seq(S)
      /\ Len(SubSeq(s, k + 1, Len(s))) = IF k + 1 <= Len(s) THEN Len(s) - (k + 1) + 1 ELSE 0
      /\ \A i \in 1..(Len(s) - (k + 1) + 1) : SubSeq(s, k + 1, Len(s))[i] = s[(k + 1) + i - 1]
  BY <1>1, <1>2, SubSeqProperties
<1>4. QED
  BY <1>1, <1>3

\* And its first elements.
LEMMA Prefix ==
  ASSUME NEW S, NEW s \in Seq(S), NEW k \in 0..Len(s)
  PROVE  /\ SubSeq(s, 1, k) \in Seq(S)
         /\ Len(SubSeq(s, 1, k)) = k
         /\ \A i \in 1..k : SubSeq(s, 1, k)[i] = s[i]
<1>1. Len(s) \in Nat /\ k \in Nat /\ k \in Int /\ 1 \in Int
  OBVIOUS
<1>2. \A i \in 1..k : s[i] \in S
  BY <1>1
<1>3. /\ SubSeq(s, 1, k) \in Seq(S)
      /\ Len(SubSeq(s, 1, k)) = IF 1 <= k THEN k - 1 + 1 ELSE 0
      /\ \A i \in 1..(k - 1 + 1) : SubSeq(s, 1, k)[i] = s[1 + i - 1]
  BY <1>1, <1>2, SubSeqProperties
<1>4. QED
  BY <1>1, <1>3

\* A line has the kind of a reply, and its number.
LEMMA LineIsReply ==
  ASSUME TypeOK, NEW c \in Conns, NEW k \in 1..Len(fromSlave[c])
  PROVE  /\ Line(c, k) \in Replies
         /\ Current(Line(c, k)) => [conn |-> c, cmd |-> Line(c, k).cmd] \in Answers
<1>1. fromSlave[c] \in Seq(Replies)
  BY DEF TypeOK
<1>2. fromSlave[c][k] \in Replies /\ fromSlave[c][1] \in Replies
  <2>1. 1 \in 1..Len(fromSlave[c])
    BY <1>1
  <2>2. QED
    BY <1>1, <2>1
<1>3. Line(c, k) \in Replies
  BY <1>2 DEF Line, Replies
<1>4. Current(Line(c, k)) => Line(c, k).cmd \in 1..MaxCommands
  BY DEF Current, TypeOK
<1>5. QED
  BY <1>3, <1>4 DEF Answers

\* What is left of a connection that is over has its types.
OverTypes ==
  /\ link \in [Conns -> Links]
  /\ toSlave \in [Conns -> Seq(0..MaxCommands)]
  /\ busy \in [Conns -> {NotBusy} \cup [cmd : 0..MaxCommands, runs : Nat \ {0}]]
  /\ held \in [Conns -> Nat] /\ garbled \in [Conns -> BOOLEAN]

\* A connection that ends leaves it so.
LEMMA OverTyped ==
  ASSUME TypeOK, NEW c \in Conns, Over(c)
  PROVE  OverTypes'
BY DEF Over, OverTypes, TypeOK, Links

\* The types of what the handlers write.
LEMMA IoTypeStep ==
  ASSUME TypeOK, NumberLeft, NEW c \in Conns,
         \/ Accept(c) \/ Handshake(c) \/ ReadCallback(c) \/ EmptyReadCallback(c)
         \/ TimerExpires(c) \/ HandleTimeout(c)
  PROVE  (TypeOK /\ NumberLeft)'
<1> USE DEF IoIdle
<1>1. CASE Accept(c)
  BY <1>1 DEF Accept, TypeOK, NumberLeft, mainvars, sharedvars, history, Links
<1>2. CASE Handshake(c)
  <2>1. /\ link' \in [Conns -> Links] /\ sockets' \subseteq Conns /\ left' \subseteq Conns
        /\ io' \in {IoIdle, [stage |-> "stopped"]} /\ pc' \in {pc, "dead"}
    BY <1>2 DEF Handshake, TypeOK, Links
  <2>2. QED
    BY <1>2, <2>1 DEF Handshake, TypeOK, NumberLeft, history
<1>3. CASE ReadCallback(c)
  <2>1. PICK k \in 1..Len(fromSlave[c]) :
          LET m      == Line(c, k)
              answer == [conn |-> c, cmd |-> m.cmd]
          IN  /\ IF Current(m) /\ m.kind = "ucbtable"
                 THEN /\ ucbTable' = ucbTable \cup {answer}
                      /\ io' = [stage |-> "count", seen |-> genmoveResponses]
                 ELSE UNCHANGED <<ucbTable, io>>
              /\ IF Current(m) /\ m.kind = "rand" /\ k = 1
                 THEN bestMove' = answer /\ genmoveResponseWait' = FALSE
                 ELSE UNCHANGED <<bestMove, genmoveResponseWait>>
              /\ pc' \in {pc, "dead"}
              /\ spoilt' = (spoilt \/ (Taken(m) /\ (pc \in {"table", "number"} \/ garbled[c])))
              /\ fromSlave' = [fromSlave EXCEPT ![c] = SubSeq(@, k + 1, Len(@))]
    BY <1>3 DEF ReadCallback
  <2>2. Current(Line(c, k)) => [conn |-> c, cmd |-> Line(c, k).cmd] \in Answers
    BY LineIsReply
  <2>3. ucbTable' \subseteq Answers /\ bestMove' \in Answers \cup {NoMove}
    BY <2>1, <2>2 DEF TypeOK
  <2>4. genmoveResponseWait' \in BOOLEAN /\ spoilt' \in BOOLEAN
    BY <2>1 DEF TypeOK
  <2>5. io' \in {IoIdle} \cup [stage : {"count"}, seen : Nat]
    <3>1. io' \in {IoIdle, [stage |-> "count", seen |-> genmoveResponses]}
      BY <1>3, <2>1 DEF ReadCallback, IoFree
    <3>2. QED
      BY <3>1 DEF TypeOK
  <2>6. SubSeq(fromSlave[c], k + 1, Len(fromSlave[c])) \in Seq(Replies)
    <3>1. fromSlave[c] \in Seq(Replies) /\ k \in 0..Len(fromSlave[c])
      BY DEF TypeOK
    <3>2. QED
      BY <3>1, Suffix
  <2>7. fromSlave' \in [Conns -> Seq(Replies)] /\ armed' \in [Conns -> BOOLEAN]
    BY <1>3, <2>1, <2>6 DEF ReadCallback, TypeOK
  <2>8. QED
    BY <1>3, <2>1, <2>3, <2>4, <2>5, <2>7 DEF ReadCallback, TypeOK, NumberLeft
<1>4. CASE EmptyReadCallback(c)
  <2>1. reads' \in [Conns -> Nat] /\ armed' \in [Conns -> BOOLEAN]
    BY <1>4 DEF EmptyReadCallback, TypeOK
  <2>2. QED
    BY <1>4, <2>1 DEF EmptyReadCallback, TypeOK, NumberLeft, mainvars, sharedvars, slavevars,
                      history
<1>5. CASE TimerExpires(c)
  BY <1>5 DEF TimerExpires, TypeOK, NumberLeft, mainvars, sharedvars, slavevars, history
<1>6. CASE HandleTimeout(c)
  <2>1. fired' \in [Conns -> BOOLEAN]
    BY <1>6 DEF HandleTimeout, TypeOK
  <2>2. ASSUME NEW taken \in 0..Len(fromSlave[c]), Over(c),
               isOpen' = [isOpen EXCEPT ![c] = FALSE],
               fromSlave' = [fromSlave EXCEPT ![c] = SubSeq(@, 1, taken)],
               io' = io
        PROVE  (TypeOK /\ NumberLeft)'
    <3>1. isOpen' \in [Conns -> BOOLEAN] /\ OverTypes'
      BY <2>2, OverTyped DEF TypeOK
    <3>2. SubSeq(fromSlave[c], 1, taken) \in Seq(Replies)
      <4>1. fromSlave[c] \in Seq(Replies)
        BY DEF TypeOK
      <4>2. QED
        BY <4>1, Prefix
    <3>3. fromSlave' \in [Conns -> Seq(Replies)]
      BY <2>2, <3>2 DEF TypeOK
    <3>4. QED
      BY <1>6, <2>1, <2>2, <3>1, <3>3
         DEF HandleTimeout, TypeOK, OverTypes, NumberLeft, mainvars, sharedvars, history
  <2>3. CASE io' = [stage |-> "stopped"] /\ UNCHANGED <<isOpen, slavevars>>
    BY <1>6, <2>1, <2>3
       DEF HandleTimeout, TypeOK, NumberLeft, mainvars, sharedvars, slavevars, history
  <2>4. QED
    BY <1>6, <2>2, <2>3 DEF HandleTimeout
<1>7. QED
  BY <1>1, <1>2, <1>3, <1>4, <1>5, <1>6

\* The unlocked count of answers keeps the types.
LEMMA CountTypeStep ==
  ASSUME TypeOK, NumberLeft, CountResponse
  PROVE  (TypeOK /\ NumberLeft)'
<1>1. io.seen \in Nat
  BY DEF CountResponse, TypeOK, IoIdle
<1>2. QED
  BY <1>1 DEF CountResponse, TypeOK, NumberLeft, IoIdle, mainvars, slavevars, history

\* A read that is acknowledged has the types, whatever number it bears.
LEMMA TakesTyped ==
  ASSUME TypeOK, NumberLeft, NEW c \in Conns, NEW n \in 0..MaxCommands, NEW runs \in Nat,
         NEW rest \in Seq(0..MaxCommands), Takes(c, n, runs, rest),
         garbled' \in [Conns -> BOOLEAN]
  PROVE  (TypeOK /\ NumberLeft)'
<1>1. [kind |-> "ack", cmd |-> n] \in Replies
  BY DEF Replies
<1>2. fromSlave' \in [Conns -> Seq(Replies)]
  BY <1>1, AppendProperties DEF Takes, TypeOK
<1>3. /\ toSlave' \in [Conns -> Seq(0..MaxCommands)] /\ held' \in [Conns -> Nat]
      /\ busy' \in [Conns -> {NotBusy} \cup [cmd : 0..MaxCommands, runs : Nat \ {0}]]
  BY DEF Takes, TypeOK
<1>4. QED
  BY <1>2, <1>3 DEF Takes, TypeOK, NumberLeft, mainvars, sharedvars, iovars, history

\* The types of what the slaves write.
LEMMA SlaveTypeStep ==
  ASSUME TypeOK, NumberLeft, NEW c \in Conns,
         SlaveReads(c) \/ SlaveReadsGarbled(c) \/ SlaveAnswers(c) \/ SlaveLost(c)
  PROVE  (TypeOK /\ NumberLeft)'
<1> DEFINE s == toSlave[c]
<1>0. s \in Seq(0..MaxCommands)
  BY DEF TypeOK
<1>1. CASE SlaveReads(c)
  <2>1. Head(s) \in 0..MaxCommands /\ Tail(s) \in Seq(0..MaxCommands)
    <3>1. s # <<>>
      BY <1>1 DEF SlaveReads, Reads
    <3>2. QED
      BY <1>0, <3>1, HeadTailProperties
  <2>2. QED
    BY <1>1, <2>1, TakesTyped DEF SlaveReads, TypeOK
<1>2. CASE SlaveReadsGarbled(c)
  <2>1. PICK ends \in 0..Len(s), cut \in BOOLEAN, rerun \in 0..held[c], n \in 0..MaxCommands :
          LET rest == SubSeq(s, ends + 1, Len(s))
          IN  /\ cut => rest # <<>>
              /\ Takes(c, n, ends + rerun, IF cut THEN <<0>> \o Tail(rest) ELSE rest)
    BY <1>2 DEF SlaveReadsGarbled
  <2> DEFINE rest == SubSeq(s, ends + 1, Len(s))
             new  == IF cut THEN <<0>> \o Tail(rest) ELSE rest
  <2>2. rest \in Seq(0..MaxCommands)
    BY <1>0, Suffix
  <2>3. new \in Seq(0..MaxCommands)
    <3>1. CASE ~ cut
      BY <2>2, <3>1
    <3>2. CASE cut
      <4>1. Tail(rest) \in Seq(0..MaxCommands)
        <5>1. rest # <<>>
          BY <2>1, <3>2
        <5> HIDE DEF rest
        <5>2. QED
          BY <2>2, <5>1, HeadTailProperties
      <4>2. <<0>> \in Seq(0..MaxCommands)
        BY DEF TypeOK
      <4> HIDE DEF rest
      <4>3. QED
        BY <3>2, <4>1, <4>2, ConcatProperties
    <3>3. QED
      BY <3>1, <3>2
  <2>4. ends + rerun \in Nat
    BY <1>0 DEF TypeOK
  <2>5. Takes(c, n, ends + rerun, new)
    BY <2>1
  <2>6. garbled' \in [Conns -> BOOLEAN]
    BY <1>2 DEF SlaveReadsGarbled, TypeOK
  <2> HIDE DEF new
  <2>7. QED
    BY <2>3, <2>4, <2>5, <2>6, TakesTyped
<1>3. CASE SlaveAnswers(c)
  <2>1. busy[c] \in [cmd : 0..MaxCommands, runs : Nat \ {0}]
    BY <1>3 DEF SlaveAnswers, TypeOK
  <2> DEFINE answer  == [kind |-> IF aiType = "RAN" THEN "rand" ELSE "ucbtable", cmd |-> busy[c].cmd]
             replies == Append(fromSlave[c], answer)
             ack     == [kind |-> "ack", cmd |-> busy[c].cmd]
  <2>2. answer \in Replies /\ ack \in Replies
    BY <2>1 DEF Replies
  <2>3. replies \in Seq(Replies) /\ Append(replies, ack) \in Seq(Replies)
    <3>1. fromSlave[c] \in Seq(Replies)
      BY DEF TypeOK
    <3> HIDE DEF answer, ack
    <3>2. replies \in Seq(Replies)
      BY <2>2, <3>1, AppendProperties
    <3> HIDE DEF replies
    <3>3. QED
      BY <2>2, <3>2, AppendProperties
  <2>4. fromSlave' \in [Conns -> Seq(Replies)]
    <3>1. PICK remains \in BOOLEAN :
            fromSlave' = [fromSlave EXCEPT ![c] = IF remains THEN Append(replies, ack) ELSE replies]
      BY <1>3 DEF SlaveAnswers
    <3> HIDE DEF replies, ack
    <3>2. (IF remains THEN Append(replies, ack) ELSE replies) \in Seq(Replies)
      BY <2>3
    <3>3. QED
      BY <3>1, <3>2 DEF TypeOK
  <2>5. busy' \in [Conns -> {NotBusy} \cup [cmd : 0..MaxCommands, runs : Nat \ {0}]]
    <3> DEFINE after == IF busy[c].runs = 1 THEN NotBusy
                        ELSE [cmd |-> busy[c].cmd, runs |-> busy[c].runs - 1]
    <3>1. after \in {NotBusy} \cup [cmd : 0..MaxCommands, runs : Nat \ {0}]
      BY <2>1
    <3>2. busy' = [busy EXCEPT ![c] = after]
      BY <1>3 DEF SlaveAnswers
    <3> HIDE DEF after
    <3>3. QED
      BY <3>1, <3>2 DEF TypeOK
  <2>6. QED
    BY <1>3, <2>4, <2>5 DEF SlaveAnswers, TypeOK, NumberLeft, mainvars, sharedvars, iovars, history
<1>4. CASE SlaveLost(c)
  <2>1. OverTypes'
    BY <1>4, OverTyped DEF SlaveLost
  <2>2. QED
    BY <1>4, <2>1 DEF SlaveLost, TypeOK, OverTypes, NumberLeft, mainvars, sharedvars, iovars, history
<1>5. QED
  BY <1>1, <1>2, <1>3, <1>4

\* Every step keeps the types, and that a command without a number finds one.
LEMMA TypeStep ==
  ASSUME TypeOK, NumberLeft, [Next]_vars
  PROVE  (TypeOK /\ NumberLeft)'
<1>1. CASE UNCHANGED vars
  BY <1>1 DEF vars, mainvars, sharedvars, iovars, slavevars, history, TypeOK, NumberLeft
<1>2. CASE Next
  BY <1>2, MainTypeStep, LoopTypeStep, IoTypeStep, CountTypeStep, SlaveTypeStep DEF Next
<1>3. QED
  BY <1>1, <1>2

\* Every variable keeps its type: no command goes past the last number, and whatever
\* comes from a slave is a reply (MasterServer.cpp, TCPServer.h).
THEOREM TypeCorrect == Spec => []TypeOK
<1>1. Init => TypeOK /\ NumberLeft
  <2>1. ASSUME Init
        PROVE  /\ toSlave \in [Conns -> Seq(0..MaxCommands)]
               /\ fromSlave \in [Conns -> Seq(Replies)]
    BY <2>1 DEF Init
  <2>2. ASSUME Init
        PROVE  /\ link \in [Conns -> Links] /\ reads \in [Conns -> Nat]
               /\ busy \in [Conns -> {NotBusy}] /\ held \in [Conns -> Nat]
    BY <2>2 DEF Init, Links
  <2>3. ASSUME Init
        PROVE  /\ isOpen \in [Conns -> BOOLEAN] /\ garbled \in [Conns -> BOOLEAN]
               /\ armed \in [Conns -> BOOLEAN] /\ fired \in [Conns -> BOOLEAN]
    BY <2>3 DEF Init
  <2>4. ASSUME Init
        PROVE  /\ commandNumber \in 1..MaxCommands /\ genmoveResponses \in Nat
               /\ timeout \in Int
    BY <2>4 DEF Init
  <2>5. QED
    BY <2>1, <2>2, <2>3, <2>4 DEF Init, TypeOK, NumberLeft
<1>2. TypeOK /\ NumberLeft /\ [Next]_vars => (TypeOK /\ NumberLeft)'
  BY TypeStep
<1>3. QED
  BY <1>1, <1>2, PTL DEF Spec

-----------------------------------------------------------------------------
\* How old an answer can be.

\* Once the table is emptied, and once the best move is reset, what arrives before the
\* command has its number bears the number before it.
FreshUntilNumbered ==
  /\ pc = "number" => \A a \in ucbTable : a.cmd >= commandNumber
  /\ pc \in {"table", "number"} => bestMove = NoMove \/ bestMove.cmd >= commandNumber

\* Unless something does arrive then, nothing is there that the number makes outdated.
NothingBetween ==
  ~ spoilt =>
    /\ pc = "number" => ucbTable = {}
    /\ pc \in {"table", "number"} => bestMove = NoMove
    /\ pc \notin {"table", "number"} =>
         \A a \in ucbTable \cup ({bestMove} \ {NoMove}) : a.cmd = commandNumber

RecentInv == AnswersAreRecent /\ FreshUntilNumbered /\ NothingBetween

\* A step that leaves the answers and the number as they are.
LEMMA RecentFrame ==
  ASSUME RecentInv, UNCHANGED <<commandNumber, ucbTable, bestMove, spoilt>>,
         pc' = pc \/ (pc \notin {"table", "number"} /\ pc' \notin {"table", "number"})
  PROVE  RecentInv'
<1>1. AnswersAreRecent' /\ FreshUntilNumbered'
  BY DEF RecentInv, AnswersAreRecent, FreshUntilNumbered
<1>2. NothingBetween'
  BY DEF RecentInv, NothingBetween
<1>3. QED
  BY <1>1, <1>2 DEF RecentInv

\* Every step keeps the answers recent.
LEMMA RecentStep ==
  ASSUME TypeOK, RecentInv, [Next]_vars
  PROVE  RecentInv'
<1>1. CASE StartGenmove
  BY <1>1 DEF StartGenmove, RecentInv, AnswersAreRecent, FreshUntilNumbered, NothingBetween
<1>2. CASE NewTable
  BY <1>2 DEF NewTable, RecentInv, AnswersAreRecent, FreshUntilNumbered, NothingBetween, history
<1>3. CASE WriteAll
  <2>1. \A a \in ucbTable \cup ({bestMove} \ {NoMove}) : a.cmd >= commandNumber
    BY <1>3 DEF WriteAll, RecentInv, FreshUntilNumbered
  <2>2. commandNumber \in Int /\ \A a \in ucbTable \cup ({bestMove} \ {NoMove}) : a.cmd \in Int
    BY DEF TypeOK, Answers
  <2>3. pc' \in {"dead", "write"}
    BY <1>3 DEF WriteAll
  <2>4. AnswersAreRecent' /\ FreshUntilNumbered'
    BY <1>3, <2>1, <2>2, <2>3 DEF WriteAll, AnswersAreRecent, FreshUntilNumbered
  <2>5. ~ spoilt => ucbTable' \cup ({bestMove'} \ {NoMove}) = {}
    BY <1>3 DEF WriteAll, RecentInv, NothingBetween
  <2>6. NothingBetween'
    BY <1>3, <2>3, <2>5 DEF WriteAll, NothingBetween
  <2>7. QED
    BY <2>4, <2>6 DEF RecentInv
<1>4. ASSUME NEW c \in Conns, ReadCallback(c)
      PROVE  RecentInv'
  <2>1. commandNumber \in Int /\ commandNumber' = commandNumber
    BY <1>4 DEF TypeOK, ReadCallback
  <2>2. PICK k \in 1..Len(fromSlave[c]) :
          LET m      == Line(c, k)
              answer == [conn |-> c, cmd |-> m.cmd]
          IN  /\ IF Current(m) /\ m.kind = "ucbtable"
                 THEN ucbTable' = ucbTable \cup {answer}
                 ELSE UNCHANGED ucbTable
              /\ IF Current(m) /\ m.kind = "rand" /\ k = 1
                 THEN bestMove' = answer
                 ELSE UNCHANGED bestMove
              /\ pc' = IF Current(m) /\ m.kind = "rand" /\ k > 1 THEN "dead" ELSE pc
              /\ spoilt' = (spoilt \/ (Taken(m) /\ (pc \in {"table", "number"} \/ garbled[c])))
    BY <1>4 DEF ReadCallback
  <2>3. \A a \in ucbTable' : a \in ucbTable \/ a.cmd = commandNumber
    BY <2>2 DEF Current
  <2>4. bestMove' = bestMove \/ bestMove'.cmd = commandNumber
    BY <2>2 DEF Current
  <2>5. pc' \in {pc, "dead"}
    BY <2>2
  <2>6. AnswersAreRecent' /\ FreshUntilNumbered'
    BY <2>1, <2>3, <2>4, <2>5 DEF RecentInv, AnswersAreRecent, FreshUntilNumbered
  <2>7. ~ spoilt' => ~ spoilt
    BY <2>2
  <2>8. NothingBetween'
    <3>1. CASE pc \in {"table", "number"}
      <4>1. ~ spoilt' => UNCHANGED <<ucbTable, bestMove, pc>>
        BY <2>2, <3>1 DEF Taken
      <4>2. QED
        BY <2>7, <3>1, <4>1 DEF RecentInv, NothingBetween
    <3>2. CASE pc \notin {"table", "number"}
      BY <2>1, <2>3, <2>4, <2>5, <2>7, <3>2 DEF RecentInv, NothingBetween
    <3>3. QED
      BY <3>1, <3>2
  <2>9. QED
    BY <2>6, <2>8 DEF RecentInv
<1>5. CASE StartReads \/ StartWait \/ Poll \/ PickMove
  BY <1>5, RecentFrame DEF StartReads, StartWait, Poll, PickMove, sharedvars, history
<1>6. CASE CountResponse
  BY <1>6, RecentFrame DEF CountResponse, mainvars, history
<1>7. ASSUME NEW c \in Conns, WriteNext(c) \/ ReadNext(c)
      PROVE  RecentInv'
  BY <1>7, RecentFrame DEF WriteNext, Write, CleanUp, ReadNext, sharedvars, history
<1>8. ASSUME NEW c \in Conns,
             \/ Accept(c) \/ Handshake(c) \/ EmptyReadCallback(c) \/ TimerExpires(c)
             \/ HandleTimeout(c) \/ SlaveReads(c) \/ SlaveReadsGarbled(c) \/ SlaveAnswers(c)
             \/ SlaveLost(c)
      PROVE  RecentInv'
  <2>1. CASE Handshake(c)
    BY <2>1, RecentFrame DEF Handshake, history
  <2>2. CASE ~ Handshake(c)
    BY <1>8, <2>2, RecentFrame
       DEF Accept, EmptyReadCallback, TimerExpires, HandleTimeout, SlaveReads,
           SlaveReadsGarbled, Takes, SlaveAnswers, SlaveLost, mainvars, sharedvars, history
  <2>3. QED
    BY <2>1, <2>2
<1>9. CASE UNCHANGED vars
  BY <1>9, RecentFrame DEF vars, mainvars, sharedvars, history
<1>10. QED
  BY <1>1, <1>2, <1>3, <1>4, <1>5, <1>6, <1>7, <1>8, <1>9 DEF Next

\* The invariant of the two theorems below holds for ever.
LEMMA RecentForEver == Spec => []RecentInv
<1>1. Init => RecentInv
  BY DEF Init, RecentInv, AnswersAreRecent, FreshUntilNumbered, NothingBetween
<1>2. TypeOK /\ RecentInv /\ [Next]_vars => RecentInv'
  BY RecentStep
<1>3. QED
  BY <1>1, <1>2, TypeCorrect, PTL DEF Spec

\* What a move is picked from is at most one command old, whatever is lost, delayed,
\* dropped, misread or answered twice, and however the handlers and the main thread
\* interleave (genmoveReadCallback, generateMove).
THEOREM RecentAnswers == Spec => []AnswersAreRecent
<1>1. RecentInv => AnswersAreRecent
  BY DEF RecentInv
<1>2. QED
  BY <1>1, RecentForEver, PTL

\* And it is of the present command, unless an answer came in between the reset and the
\* number, or from a slave that read otherwise than batch by batch: however late an
\* answer comes, its number tells it (genmoveReadCallback, writeAll).
THEOREM OutdatedBetween == Spec => []OutdatedOnlyBetween
<1>1. RecentInv => OutdatedOnlyBetween
  BY DEF RecentInv, NothingBetween, OutdatedOnlyBetween
<1>2. QED
  BY <1>1, RecentForEver, PTL

-----------------------------------------------------------------------------
\* Complete rounds.  First the vector of sockets: whoever was asked is in it, and who is
\* still to be asked has not been.
VectorInv ==
  /\ asked \subseteq sockets
  /\ pc = "write" => left \subseteq sockets \ asked
  /\ io.stage = "handshake" => io.conn \notin sockets /\ link[io.conn] # "none"
  /\ \A c \in Conns : link[c] = "none" => c \notin sockets

\* Every step keeps what holds of the vector.
LEMMA VectorStep ==
  ASSUME TypeOK, VectorInv, [Next]_vars
  PROVE  VectorInv'
<1> USE DEF VectorInv
<1>1. CASE WriteAll
  BY <1>1 DEF WriteAll, iovars, slavevars
<1>2. CASE StartGenmove \/ NewTable \/ StartReads \/ StartWait \/ Poll \/ PickMove \/ UNCHANGED vars
  BY <1>2 DEF StartGenmove, NewTable, StartReads, StartWait, Poll, PickMove, vars, mainvars,
              sharedvars, iovars, slavevars, history
<1>3. ASSUME NEW c \in Conns, WriteNext(c)
      PROVE  VectorInv'
  <2>1. CASE Write(c)
    BY <1>3, <2>1 DEF WriteNext, Write
  <2>2. CASE CleanUp(c)
    BY <1>3, <2>2 DEF WriteNext, CleanUp
  <2>3. QED
    BY <1>3, <2>1, <2>2 DEF WriteNext
<1>4. ASSUME NEW c \in Conns, ReadNext(c)
      PROVE  VectorInv'
  BY <1>4 DEF ReadNext, sharedvars, slavevars, history
<1>5. ASSUME NEW c \in Conns, Accept(c)
      PROVE  VectorInv'
  <2>1. /\ c \notin sockets /\ link' = [link EXCEPT ![c] = "up"]
        /\ io' = [stage |-> "handshake", conn |-> c]
    BY <1>5 DEF Accept
  <2>2. link'[c] = "up" /\ \A d \in Conns : link'[d] = "none" => link[d] = "none"
    BY <2>1 DEF TypeOK
  <2>3. UNCHANGED <<asked, sockets, pc, left>>
    BY <1>5 DEF Accept, mainvars, sharedvars, history
  <2>4. QED
    BY <2>1, <2>2, <2>3
<1>6. ASSUME NEW c \in Conns, Handshake(c)
      PROVE  VectorInv'
  <2>1. c \notin sockets /\ link[c] # "none" /\ asked' = asked /\ io'.stage # "handshake"
    BY <1>6 DEF Handshake, IoIdle, history
  <2>2. /\ sockets' \in {sockets, sockets \cup {c}}
        /\ \A d \in Conns : link'[d] = "none" => link[d] = "none"
    BY <1>6 DEF Handshake, TypeOK
  <2>3. pc' = "write" => /\ pc = "write" /\ left' \subseteq left \cup {c}
                         /\ c \in left' \ left => c \in sockets'
    BY <1>6 DEF Handshake
  <2>4. QED
    BY <2>1, <2>2, <2>3
<1>7. ASSUME NEW c \in Conns, ReadCallback(c)
      PROVE  VectorInv'
  <2>1. /\ UNCHANGED <<asked, sockets, left, link>>
        /\ pc' \in {pc, "dead"} /\ io.stage # "handshake" /\ io'.stage # "handshake"
    BY <1>7 DEF ReadCallback, IoFree, IoIdle
  <2>2. QED
    BY <2>1
<1>8. ASSUME NEW c \in Conns, EmptyReadCallback(c) \/ TimerExpires(c) \/ HandleTimeout(c)
      PROVE  VectorInv'
  <2>1. UNCHANGED <<asked, sockets, pc, left>> /\ (io' = io \/ io'.stage = "stopped")
    BY <1>8 DEF EmptyReadCallback, TimerExpires, HandleTimeout, mainvars, sharedvars, history
  <2>2. link' = link \/ link' = [link EXCEPT ![c] = "gone"]
    BY <1>8 DEF EmptyReadCallback, TimerExpires, HandleTimeout, Over, slavevars
  <2>3. \A d \in Conns : link'[d] = "none" => link[d] = "none"
    BY <2>2 DEF TypeOK
  <2>4. io.stage = "handshake" => io' = io /\ io.conn \in Conns /\ link' = link
    BY <1>8 DEF EmptyReadCallback, TimerExpires, HandleTimeout, IoFree, IoIdle, slavevars, TypeOK
  <2>5. io'.stage = "handshake" => io' = io
    BY <2>1
  <2>6. QED
    BY <2>1, <2>3, <2>4, <2>5
<1>9. CASE CountResponse
  BY <1>9 DEF CountResponse, IoIdle, mainvars, slavevars, history
<1>10. ASSUME NEW c \in Conns,
              SlaveReads(c) \/ SlaveReadsGarbled(c) \/ SlaveAnswers(c) \/ SlaveLost(c)
       PROVE  VectorInv'
  <2>1. UNCHANGED <<asked, sockets, pc, left, io>>
    BY <1>10 DEF SlaveReads, SlaveReadsGarbled, Takes, SlaveAnswers, SlaveLost, mainvars,
                 sharedvars, iovars, history
  <2>2. link' = link \/ link' = [link EXCEPT ![c] = "gone"]
    BY <1>10 DEF SlaveReads, SlaveReadsGarbled, Takes, SlaveAnswers, SlaveLost, Over
  <2>3. \A d \in Conns : link'[d] = "none" => link[d] = "none"
    BY <2>2 DEF TypeOK
  <2>4. io.stage = "handshake" => io.conn \in Conns
    BY DEF TypeOK, IoIdle
  <2>5. QED
    BY <2>1, <2>3, <2>4
<1>11. QED
  BY <1>1, <1>2, <1>3, <1>4, <1>5, <1>6, <1>7, <1>8, <1>9, <1>10 DEF Next

\* The loops never meet a socket that was asked, in any state.
LEMMA VectorForEver == Spec => []VectorInv
<1>1. Init => VectorInv
  BY DEF Init, VectorInv, IoIdle
<1>2. TypeOK /\ VectorInv /\ [Next]_vars => VectorInv'
  BY VectorStep
<1>3. QED
  BY <1>1, <1>2, TypeCorrect, PTL DEF Spec

\* Then the one answer that a slave owes, from the command on its way to it to the
\* answer on its way back.  Where a queue of replies has answers to a command...
AnswersIn(replies, n) ==
  {i \in 1..Len(replies) : replies[i].kind # "ack" /\ replies[i].cmd = n}

\* ... and one that a slave has filled batch by batch, up to the command n.
Orderly(replies, n) ==
  /\ \A i \in 1..Len(replies) : replies[i].cmd <= n
  /\ \A i \in 1..(Len(replies) - 1) :
       replies[i].kind = "ack" => replies[i + 1].kind # "ack" /\ replies[i + 1].cmd = replies[i].cmd
  /\ \A i, j \in AnswersIn(replies, n) : i = j

EndsInAck(replies) == Len(replies) # 0 /\ replies[Len(replies)].kind = "ack"

\* The line that ends in an answer has its number.
LEMMA OrderlyLine ==
  ASSUME TypeOK, NEW c \in Conns, NEW k \in 1..Len(fromSlave[c]), IsLine(c, k),
         NEW n, Orderly(fromSlave[c], n), fromSlave[c][k].kind # "ack"
  PROVE  Line(c, k) = [kind |-> fromSlave[c][k].kind, cmd |-> fromSlave[c][k].cmd]
<1> DEFINE s == fromSlave[c]
<1>1. s \in Seq(Replies)
  BY DEF TypeOK
<1>2. CASE k = 1
  BY <1>2 DEF Line
<1>3. CASE k # 1
  <2>1. 1 \in 1..(k - 1) /\ 1 \in 1..(Len(s) - 1)
    BY <1>1, <1>3
  <2>2. s[1].kind = "ack" /\ s[1 + 1].kind # "ack" /\ s[1 + 1].cmd = s[1].cmd
    BY <2>1 DEF IsLine, Orderly
  <2>3. k = 2
    <3>1. 2 \notin 1..(k - 1)
      BY <2>2 DEF IsLine
    <3>2. QED
      BY <1>1, <1>3, <3>1
  <2>4. QED
    BY <2>2, <2>3 DEF Line
<1>4. QED
  BY <1>2, <1>3

\* What is left of an orderly queue when a line is taken from it.
LEMMA OrderlySuffix ==
  ASSUME NEW s \in Seq(Replies), NEW k \in 1..Len(s), NEW n \in Nat, Orderly(s, n)
  PROVE  LET t == SubSeq(s, k + 1, Len(s))
         IN  /\ Orderly(t, n)
             /\ AnswersIn(t, n) # {} => AnswersIn(s, n) # {}
             /\ k \in AnswersIn(s, n) => AnswersIn(t, n) = {}
             /\ EndsInAck(t) => EndsInAck(s) /\ t[Len(t)] = s[Len(s)]
<1> DEFINE t == SubSeq(s, k + 1, Len(s))
<1>1. /\ Len(s) \in Nat /\ k \in Nat /\ k <= Len(s) /\ k # 0 /\ k \in 0..Len(s)
  OBVIOUS
<1>2. /\ t \in Seq(Replies) /\ Len(t) = Len(s) - k
      /\ \A i \in 1..(Len(s) - k) : t[i] = s[k + i]
  BY <1>1, Suffix
<1> HIDE DEF t
<1>3. \A i \in 1..Len(t) : k + i \in 1..Len(s) /\ t[i] = s[k + i] /\ k + i # k
  BY <1>1, <1>2
<1>4. \A i \in AnswersIn(t, n) : i \in Nat /\ k + i \in AnswersIn(s, n) /\ k + i # k
  BY <1>3 DEF AnswersIn
<1>5. \A i, j \in AnswersIn(t, n) : i = j
  <2>1. ASSUME NEW i \in AnswersIn(t, n), NEW j \in AnswersIn(t, n)
        PROVE  i = j
    <3>1. k + i = k + j
      BY <1>4 DEF Orderly
    <3>2. QED
      BY <1>1, <1>4, <3>1
  <2>2. QED
    BY <2>1
<1>6. ASSUME NEW i \in 1..(Len(t) - 1), t[i].kind = "ack"
      PROVE  t[i + 1].kind # "ack" /\ t[i + 1].cmd = t[i].cmd
  <2>1. i \in 1..Len(t) /\ i + 1 \in 1..Len(t) /\ k + i \in 1..(Len(s) - 1)
    BY <1>1, <1>2
  <2>2. t[i] = s[k + i] /\ t[i + 1] = s[k + i + 1]
    <3>1. t[i] = s[k + i] /\ t[i + 1] = s[k + (i + 1)]
      BY <1>3, <2>1
    <3>2. k + (i + 1) = k + i + 1
      BY <1>1
    <3>3. QED
      BY <3>1, <3>2
  <2>3. s[k + i + 1].kind # "ack" /\ s[k + i + 1].cmd = s[k + i].cmd
    BY <1>6, <2>1, <2>2 DEF Orderly
  <2>4. QED
    BY <2>2, <2>3
<1>7. Orderly(t, n)
  BY <1>3, <1>5, <1>6 DEF Orderly
<1>8. k \in AnswersIn(s, n) => AnswersIn(t, n) = {}
  BY <1>4 DEF Orderly
<1>9. EndsInAck(t) => EndsInAck(s) /\ t[Len(t)] = s[Len(s)]
  <2>1. SUFFICES ASSUME EndsInAck(t)
                 PROVE  EndsInAck(s) /\ t[Len(t)] = s[Len(s)]
    OBVIOUS
  <2>2. Len(t) \in 1..Len(t) /\ k + Len(t) = Len(s) /\ Len(s) # 0
    BY <1>1, <1>2, <2>1 DEF EndsInAck
  <2>3. t[Len(t)] = s[Len(s)]
    BY <1>3, <2>2
  <2>4. QED
    BY <2>1, <2>2, <2>3 DEF EndsInAck
<1>10. QED
  BY <1>4, <1>7, <1>8, <1>9 DEF t

\* What is left of it when a socket is dropped.
LEMMA OrderlyPrefix ==
  ASSUME NEW s \in Seq(Replies), NEW k \in 0..Len(s), NEW n \in Nat, Orderly(s, n)
  PROVE  /\ Orderly(SubSeq(s, 1, k), n)
         /\ AnswersIn(SubSeq(s, 1, k), n) # {} => AnswersIn(s, n) # {}
<1> DEFINE t == SubSeq(s, 1, k)
<1>1. Len(s) \in Nat /\ k \in Nat /\ k <= Len(s)
  OBVIOUS
<1>2. t \in Seq(Replies) /\ Len(t) = k /\ \A i \in 1..k : t[i] = s[i]
  BY Prefix
<1> HIDE DEF t
<1>3. \A i \in 1..Len(t) : i \in 1..Len(s) /\ t[i] = s[i]
  BY <1>1, <1>2
<1>4. AnswersIn(t, n) \subseteq AnswersIn(s, n)
  BY <1>3 DEF AnswersIn
<1>5. \A i \in 1..(Len(t) - 1) : i \in 1..(Len(s) - 1) /\ t[i] = s[i] /\ t[i + 1] = s[i + 1]
  BY <1>1, <1>2
<1>6. Orderly(t, n)
  BY <1>3, <1>4, <1>5 DEF Orderly
<1>7. QED
  BY <1>4, <1>6 DEF t

\* What there is in it with one more reply.
LEMMA OrderlyAppend ==
  ASSUME NEW s \in Seq(Replies), NEW r \in Replies, NEW n \in Nat, Orderly(s, n), r.cmd <= n,
         EndsInAck(s) => r.kind # "ack" /\ r.cmd = s[Len(s)].cmd,
         r.kind # "ack" /\ r.cmd = n => AnswersIn(s, n) = {}
  PROVE  /\ Orderly(Append(s, r), n)
         /\ AnswersIn(Append(s, r), n) # {} =>
              AnswersIn(s, n) # {} \/ (r.kind # "ack" /\ r.cmd = n)
         /\ EndsInAck(Append(s, r)) => r.kind = "ack"
         /\ Append(s, r)[Len(Append(s, r))] = r
<1> DEFINE t == Append(s, r)
<1>1. /\ Len(t) = Len(s) + 1 /\ Len(s) \in Nat
      /\ \A i \in 1..Len(s) : t[i] = s[i]
      /\ t[Len(s) + 1] = r
  BY AppendProperties
<1> HIDE DEF t
<1>2. \A i \in 1..Len(t) : i \in 1..Len(s) \/ i = Len(s) + 1
  BY <1>1
<1>3. \A i \in AnswersIn(t, n) :
        i \in AnswersIn(s, n) \/ (i = Len(s) + 1 /\ r.kind # "ack" /\ r.cmd = n)
  BY <1>1, <1>2 DEF AnswersIn
<1>4. \A i, j \in AnswersIn(t, n) : i = j
  BY <1>3 DEF Orderly
<1>5. ASSUME NEW i \in 1..(Len(t) - 1), t[i].kind = "ack"
      PROVE  t[i + 1].kind # "ack" /\ t[i + 1].cmd = t[i].cmd
  <2>1. i \in 1..Len(s) /\ t[i] = s[i]
    BY <1>1
  <2>2. CASE i = Len(s)
    <3>1. EndsInAck(s)
      BY <1>5, <2>1, <2>2 DEF EndsInAck
    <3>2. QED
      BY <1>1, <2>1, <2>2, <3>1
  <2>3. CASE i # Len(s)
    <3>1. i \in 1..(Len(s) - 1) /\ i + 1 \in 1..Len(s)
      BY <1>1, <2>1, <2>3
    <3>2. t[i + 1] = s[i + 1]
      BY <1>1, <3>1
    <3>3. QED
      BY <1>5, <2>1, <3>1, <3>2 DEF Orderly
  <2>4. QED
    BY <2>2, <2>3
<1>6. \A i \in 1..Len(t) : t[i].cmd <= n
  BY <1>1, <1>2 DEF Orderly
<1>7. Orderly(t, n)
  BY <1>4, <1>5, <1>6 DEF Orderly
<1>8. EndsInAck(t) => r.kind = "ack"
  BY <1>1 DEF EndsInAck
<1>9. QED
  BY <1>1, <1>3, <1>7, <1>8 DEF t

\* A slave that reads batch by batch owes one answer at most to the present command: it is
\* under way to the slave, or worked at, or under way back, and then the slave was asked.
CommandsTo(c) == {i \in 1..Len(toSlave[c]) : toSlave[c][i] = commandNumber}
Answering(c)  == busy[c] # NotBusy /\ busy[c].cmd = commandNumber
AnswersOf(c)  == AnswersIn(fromSlave[c], commandNumber)

Owed(c) == CommandsTo(c) # {} \/ Answering(c) \/ AnswersOf(c) # {}

SlaveInv(c) ==
  /\ \A i \in 1..Len(toSlave[c]) : toSlave[c][i] <= commandNumber
  /\ busy[c] # NotBusy => busy[c].runs = 1 /\ busy[c].cmd <= commandNumber
  /\ Orderly(fromSlave[c], commandNumber)
  /\ link[c] # "gone" /\ EndsInAck(fromSlave[c]) =>
       busy[c] # NotBusy /\ busy[c].cmd = fromSlave[c][Len(fromSlave[c])].cmd
  /\ \A i, j \in CommandsTo(c) : i = j
  /\ CommandsTo(c) # {} => ~ Answering(c) /\ AnswersOf(c) = {}
  /\ Answering(c) => AnswersOf(c) = {}
  /\ Owed(c) => c \in asked

QueueInv == \A c \in Conns : ~ garbled[c] => SlaveInv(c)

\* What no step of another connection changes.
LEMMA ElsewhereUnchanged ==
  ASSUME NEW d \in Conns, SlaveInv(d), UNCHANGED commandNumber, asked \subseteq asked',
         toSlave'[d] = toSlave[d], fromSlave'[d] = fromSlave[d], busy'[d] = busy[d],
         link'[d] = link[d] \/ link'[d] = "gone" \/ link[d] = "none"
  PROVE  SlaveInv(d)' /\ (Owed(d)' => Owed(d))
BY DEF SlaveInv, Owed, CommandsTo, Answering, AnswersOf

\* A line is taken: the answer that was owed, or nothing that was.
LEMMA SlaveLineTaken ==
  ASSUME TypeOK, NEW c \in Conns, SlaveInv(c), NEW k \in 1..Len(fromSlave[c]), IsLine(c, k),
         UNCHANGED <<commandNumber, toSlave, busy, link, asked>>,
         fromSlave' = [fromSlave EXCEPT ![c] = SubSeq(@, k + 1, Len(@))]
  PROVE  /\ SlaveInv(c)'
         /\ Owed(c)' => Owed(c)
         /\ Taken(Line(c, k)) => Owed(c) /\ ~ Owed(c)'
<1> DEFINE s == fromSlave[c]
           t == SubSeq(s, k + 1, Len(s))
<1>1. s \in Seq(Replies) /\ commandNumber \in Nat /\ fromSlave'[c] = t
  BY DEF TypeOK
<1>2. /\ Orderly(t, commandNumber)
      /\ AnswersIn(t, commandNumber) # {} => AnswersIn(s, commandNumber) # {}
      /\ k \in AnswersIn(s, commandNumber) => AnswersIn(t, commandNumber) = {}
      /\ EndsInAck(t) => EndsInAck(s) /\ t[Len(t)] = s[Len(s)]
  BY <1>1, OrderlySuffix DEF SlaveInv
<1> HIDE DEF t
<1>3. /\ CommandsTo(c)' = CommandsTo(c) /\ Answering(c)' = Answering(c)
      /\ AnswersOf(c)' = AnswersIn(t, commandNumber)
  BY <1>1 DEF CommandsTo, Answering, AnswersOf
<1>4. SlaveInv(c)' /\ (Owed(c)' => Owed(c))
  BY <1>1, <1>2, <1>3 DEF SlaveInv, Owed, AnswersOf
<1>5. ASSUME Taken(Line(c, k))
      PROVE  Owed(c) /\ ~ Owed(c)'
  <2>1. s[k].kind # "ack"
    BY <1>5 DEF Taken, Line
  <2>2. s[k].cmd = commandNumber
    <3>1. Orderly(s, commandNumber)
      BY DEF SlaveInv
    <3>2. Line(c, k) = [kind |-> s[k].kind, cmd |-> s[k].cmd]
      BY <2>1, <3>1, OrderlyLine
    <3>3. QED
      BY <1>5, <3>2 DEF Taken, Current
  <2>3. k \in AnswersIn(s, commandNumber)
    BY <2>1, <2>2 DEF AnswersIn
  <2>4. QED
    BY <1>2, <1>3, <2>3 DEF Owed, AnswersOf, SlaveInv
<1>6. QED
  BY <1>4, <1>5

\* A connection is over: what is left of its replies may still be taken.
LEMMA SlaveOver ==
  ASSUME TypeOK, NEW c \in Conns, SlaveInv(c), Over(c), UNCHANGED <<commandNumber, asked>>,
         NEW k \in 0..Len(fromSlave[c]), fromSlave'[c] = SubSeq(fromSlave[c], 1, k)
  PROVE  SlaveInv(c)' /\ (Owed(c)' => Owed(c))
<1>1. fromSlave[c] \in Seq(Replies) /\ commandNumber \in Nat
  BY DEF TypeOK
<1>2. /\ Orderly(fromSlave'[c], commandNumber)
      /\ AnswersIn(fromSlave'[c], commandNumber) # {} => AnswersIn(fromSlave[c], commandNumber) # {}
  BY <1>1, OrderlyPrefix DEF SlaveInv
<1>3. toSlave'[c] = <<>> /\ busy'[c] = NotBusy /\ link'[c] = "gone"
  BY DEF Over, TypeOK
<1>4. CommandsTo(c)' = {} /\ ~ Answering(c)' /\ \A i \in 1..Len(toSlave'[c]) : FALSE
  BY <1>3 DEF CommandsTo, Answering
<1>5. QED
  BY <1>2, <1>3, <1>4 DEF SlaveInv, Owed, AnswersOf

\* A slave reads its next batch.
LEMMA SlaveReadsOne ==
  ASSUME TypeOK, NEW c \in Conns, SlaveInv(c), SlaveReads(c)
  PROVE  SlaveInv(c)' /\ (Owed(c)' => Owed(c))
<1> DEFINE s == toSlave[c]
           n == Head(s)
           r == [kind |-> "ack", cmd |-> n]
<1>1. s \in Seq(0..MaxCommands) /\ s # <<>> /\ busy[c] = NotBusy /\ link[c] = "up"
  BY DEF SlaveReads, Reads, TypeOK
<1>2. /\ toSlave'[c] = Tail(s) /\ fromSlave'[c] = Append(fromSlave[c], r)
      /\ busy'[c] = [cmd |-> n, runs |-> 1]
      /\ UNCHANGED <<commandNumber, asked, link>>
  BY DEF SlaveReads, Takes, TypeOK, sharedvars, history
<1>3. /\ Len(s) \in Nat /\ Len(s) # 0 /\ n = s[1] /\ n \in 0..MaxCommands
      /\ Len(Tail(s)) = Len(s) - 1
      /\ \A i \in 1..Len(Tail(s)) : Tail(s)[i] = s[i + 1]
  BY <1>1, HeadTailProperties
<1>4. busy'[c] # NotBusy /\ busy'[c].cmd = n /\ busy'[c].runs = 1
  BY <1>2 DEF NotBusy
<1>5. 1 \in 1..Len(s) /\ n <= commandNumber /\ commandNumber \in Nat
  BY <1>3 DEF SlaveInv, TypeOK
<1>6. \A i \in 1..Len(Tail(s)) : i \in Nat /\ i # 0 /\ i + 1 \in 1..Len(s) /\ Tail(s)[i] = s[i + 1]
  BY <1>3
<1>7. ~ EndsInAck(fromSlave[c]) /\ fromSlave[c] \in Seq(Replies) /\ r \in Replies
  BY <1>1, <1>3 DEF SlaveInv, TypeOK, Replies
<1>8. /\ Orderly(fromSlave'[c], commandNumber)
      /\ AnswersIn(fromSlave'[c], commandNumber) # {} => AnswersIn(fromSlave[c], commandNumber) # {}
      /\ fromSlave'[c][Len(fromSlave'[c])] = r
  <2>1. Orderly(fromSlave[c], commandNumber) /\ r.kind = "ack" /\ r.cmd <= commandNumber
    BY <1>5 DEF SlaveInv
  <2> HIDE DEF r
  <2>2. QED
    BY <1>2, <1>5, <1>7, <2>1, OrderlyAppend
<1>9. \A i \in CommandsTo(c)' : i \in Nat /\ i # 0 /\ i + 1 \in CommandsTo(c)
  BY <1>2, <1>6 DEF CommandsTo
<1>10. \A i, j \in CommandsTo(c)' : i = j
  <2>1. ASSUME NEW i \in CommandsTo(c)', NEW j \in CommandsTo(c)'
        PROVE  i = j
    <3>1. i + 1 = j + 1
      BY <1>9 DEF SlaveInv
    <3>2. QED
      BY <1>9, <3>1
  <2>2. QED
    BY <2>1
<1>11. n = commandNumber => 1 \in CommandsTo(c) /\ CommandsTo(c)' = {}
  <2>1. n = commandNumber => 1 \in CommandsTo(c)
    BY <1>3, <1>5 DEF CommandsTo
  <2>2. ASSUME n = commandNumber, NEW i \in CommandsTo(c)'
        PROVE  FALSE
    <3>1. i + 1 = 1
      BY <1>9, <2>1, <2>2 DEF SlaveInv
    <3>2. QED
      BY <1>9, <3>1
  <2>3. QED
    BY <2>1, <2>2
<1>12. Answering(c)' => n = commandNumber
  BY <1>2, <1>4 DEF Answering
<1>13. AnswersOf(c)' # {} => AnswersOf(c) # {}
  BY <1>2, <1>8 DEF AnswersOf
<1>14. Owed(c)' => Owed(c)
  BY <1>9, <1>11, <1>12, <1>13 DEF Owed
<1>15. \A i \in 1..Len(toSlave'[c]) : toSlave'[c][i] <= commandNumber
  BY <1>2, <1>6 DEF SlaveInv
<1>16. /\ CommandsTo(c)' # {} => ~ Answering(c)' /\ AnswersOf(c)' = {}
       /\ Answering(c)' => AnswersOf(c)' = {}
  BY <1>9, <1>11, <1>12, <1>13 DEF SlaveInv
<1> HIDE DEF s, n
<1>17. QED
  BY <1>2, <1>4, <1>5, <1>8, <1>10, <1>14, <1>15, <1>16 DEF SlaveInv

\* A slave answers what it has read.
LEMMA SlaveAnswersOne ==
  ASSUME TypeOK, NEW c \in Conns, ~ garbled[c], SlaveInv(c), SlaveAnswers(c)
  PROVE  SlaveInv(c)' /\ (Owed(c)' => Owed(c))
<1> DEFINE n == busy[c].cmd
           r == [kind |-> IF aiType = "RAN" THEN "rand" ELSE "ucbtable", cmd |-> n]
<1>1. /\ busy[c] # NotBusy /\ busy[c].runs = 1 /\ n \in 0..MaxCommands /\ n <= commandNumber
      /\ link[c] = "up"
  BY DEF SlaveAnswers, SlaveInv, TypeOK
<1>2. /\ fromSlave'[c] = Append(fromSlave[c], r) /\ busy'[c] = NotBusy
      /\ UNCHANGED <<commandNumber, asked, link, toSlave>>
  BY <1>1 DEF SlaveAnswers, TypeOK, sharedvars, history
<1>3. r \in Replies /\ r.kind # "ack" /\ r.cmd = n
  BY <1>1 DEF Replies
<1>4. fromSlave[c] \in Seq(Replies) /\ commandNumber \in Nat
  BY DEF TypeOK
<1>5. n = commandNumber => Answering(c) /\ AnswersOf(c) = {} /\ CommandsTo(c) = {}
  BY <1>1 DEF Answering, SlaveInv
<1> HIDE DEF n, r
<1>6. EndsInAck(fromSlave[c]) => r.cmd = fromSlave[c][Len(fromSlave[c])].cmd
  BY <1>1, <1>3 DEF SlaveInv, n
<1>7. /\ Orderly(fromSlave'[c], commandNumber)
      /\ AnswersIn(fromSlave'[c], commandNumber) # {} =>
           AnswersIn(fromSlave[c], commandNumber) # {} \/ n = commandNumber
      /\ ~ EndsInAck(fromSlave'[c])
  BY <1>1, <1>2, <1>3, <1>4, <1>5, <1>6, OrderlyAppend DEF SlaveInv, AnswersOf
<1>8. ~ Answering(c)' /\ CommandsTo(c)' = CommandsTo(c)
  BY <1>2 DEF Answering, CommandsTo
<1>9. AnswersOf(c)' # {} => AnswersOf(c) # {} \/ n = commandNumber
  BY <1>2, <1>7 DEF AnswersOf
<1>10. Owed(c)' => Owed(c)
  BY <1>5, <1>8, <1>9 DEF Owed
<1>11. CommandsTo(c) # {} => AnswersOf(c)' = {}
  BY <1>5, <1>9 DEF SlaveInv
<1>12. QED
  BY <1>2, <1>7, <1>8, <1>10, <1>11 DEF SlaveInv

\* A command is written to a slave that was not asked yet.
LEMMA SlaveWritten ==
  ASSUME TypeOK, VectorInv, NEW c \in Conns, SlaveInv(c), WriteNext(c), Write(c)
  PROVE  SlaveInv(c)'
<1> DEFINE s == toSlave[c]
<1>1. /\ UNCHANGED <<commandNumber, busy, fromSlave, link>> /\ c \in asked'
      /\ ~ Owed(c)
  BY DEF WriteNext, Write, VectorInv, SlaveInv
<1>2. ~ Answering(c)' /\ AnswersOf(c)' = {}
  BY <1>1 DEF Owed, Answering, AnswersOf
<1>3. CASE toSlave'[c] = s
  BY <1>1, <1>2, <1>3 DEF SlaveInv, CommandsTo, Owed
<1>4. CASE toSlave'[c] = Append(s, commandNumber)
  <2>1. s \in Seq(0..MaxCommands) /\ commandNumber \in 0..MaxCommands /\ commandNumber \in Nat
    BY DEF TypeOK
  <2>2. /\ Len(toSlave'[c]) = Len(s) + 1 /\ Len(s) \in Nat
        /\ \A i \in 1..Len(s) : toSlave'[c][i] = s[i]
        /\ toSlave'[c][Len(s) + 1] = commandNumber
    BY <1>4, <2>1, AppendProperties
  <2>3. \A i \in 1..Len(toSlave'[c]) : i \in 1..Len(s) \/ i = Len(s) + 1
    BY <2>2
  <2>4. \A i \in CommandsTo(c)' : i = Len(s) + 1
    BY <1>1, <2>2, <2>3 DEF CommandsTo, Owed
  <2>5. \A i \in 1..Len(toSlave'[c]) : toSlave'[c][i] <= commandNumber
    <3>1. \A i \in 1..Len(s) : s[i] <= commandNumber
      BY DEF SlaveInv
    <3>2. ASSUME NEW i \in 1..Len(toSlave'[c])
          PROVE  toSlave'[c][i] <= commandNumber
      <4>1. CASE i \in 1..Len(s)
        BY <2>2, <3>1, <4>1
      <4>2. CASE i = Len(s) + 1
        BY <2>1, <2>2, <4>2
      <4>3. QED
        BY <2>3, <4>1, <4>2
    <3>3. QED
      BY <3>2
  <2>6. QED
    BY <1>1, <1>2, <2>4, <2>5 DEF SlaveInv
<1>5. QED
  BY <1>3, <1>4 DEF Write, TypeOK

\* A new number: nothing bears it yet.
LEMMA SlaveNumbered ==
  ASSUME TypeOK, NEW c \in Conns, SlaveInv(c), WriteAll
  PROVE  SlaveInv(c)' /\ ~ Owed(c)'
<1>1. /\ commandNumber \in Nat /\ commandNumber' = commandNumber + 1
      /\ UNCHANGED <<toSlave, fromSlave, busy, link>>
      /\ toSlave[c] \in Seq(0..MaxCommands) /\ fromSlave[c] \in Seq(Replies)
      /\ busy[c] # NotBusy => busy[c].cmd \in Nat
  BY DEF WriteAll, TypeOK, iovars, slavevars
<1>2. \A i \in 1..Len(toSlave[c]) : toSlave[c][i] \in Nat /\ toSlave[c][i] <= commandNumber
  BY <1>1 DEF SlaveInv
<1>3. \A i \in 1..Len(fromSlave[c]) :
        fromSlave[c][i].cmd \in Nat /\ fromSlave[c][i].cmd <= commandNumber
  <2>1. \A i \in 1..Len(fromSlave[c]) : fromSlave[c][i] \in Replies
    BY <1>1
  <2>2. \A r \in Replies : r.cmd \in Nat
    BY DEF Replies
  <2>3. \A i \in 1..Len(fromSlave[c]) : fromSlave[c][i].cmd <= commandNumber
    BY DEF SlaveInv, Orderly
  <2>4. QED
    BY <2>1, <2>2, <2>3
<1>4. CommandsTo(c)' = {}
  BY <1>1, <1>2 DEF CommandsTo
<1>5. ~ Answering(c)'
  BY <1>1 DEF Answering, SlaveInv
<1>6. AnswersOf(c)' = {} /\ Orderly(fromSlave[c], commandNumber')
  BY <1>1, <1>3 DEF AnswersOf, AnswersIn, Orderly, SlaveInv
<1>7. QED
  BY <1>1, <1>2, <1>4, <1>5, <1>6 DEF SlaveInv, Owed

\* Nothing is owed after a step that was not owed before it.
OwesNoMore == \A d \in Conns : ~ garbled'[d] /\ Owed(d)' => ~ garbled[d] /\ Owed(d)

\* A step that changes nothing of the queues, but may accept or end a connection.
LEMMA QueueFrame ==
  ASSUME QueueInv, UNCHANGED <<commandNumber, asked, toSlave, fromSlave, busy, garbled>>,
         \A d \in Conns : link'[d] = link[d] \/ link'[d] = "gone" \/ link[d] = "none"
  PROVE  QueueInv' /\ OwesNoMore
<1>1. ASSUME NEW d \in Conns, ~ garbled'[d]
      PROVE  SlaveInv(d)' /\ (Owed(d)' => Owed(d)) /\ ~ garbled[d]
  BY <1>1, ElsewhereUnchanged DEF QueueInv
<1>2. QED
  BY <1>1 DEF QueueInv, OwesNoMore

\* A step that changes one connection only.
LEMMA QueueOne ==
  ASSUME QueueInv, NEW c \in Conns, UNCHANGED <<commandNumber, asked>>,
         \A d \in Conns \ {c} : /\ toSlave'[d] = toSlave[d] /\ fromSlave'[d] = fromSlave[d]
                                /\ busy'[d] = busy[d] /\ link'[d] = link[d]
                                /\ garbled'[d] = garbled[d],
         ~ garbled'[c] => ~ garbled[c] /\ SlaveInv(c)' /\ (Owed(c)' => Owed(c))
  PROVE  QueueInv' /\ OwesNoMore
<1>1. ASSUME NEW d \in Conns, ~ garbled'[d]
      PROVE  SlaveInv(d)' /\ (Owed(d)' => Owed(d)) /\ ~ garbled[d]
  <2>1. CASE d = c
    BY <1>1, <2>1
  <2>2. CASE d # c
    BY <1>1, <2>2, ElsewhereUnchanged DEF QueueInv
  <2>3. QED
    BY <2>1, <2>2
<1>2. QED
  BY <1>1 DEF QueueInv, OwesNoMore

\* The handlers of a connection keep the queues, and add nothing to what is owed.
LEMMA QueueHandlerStep ==
  ASSUME TypeOK, QueueInv, NEW c \in Conns,
         \/ Accept(c) \/ Handshake(c) \/ ReadCallback(c) \/ EmptyReadCallback(c)
         \/ TimerExpires(c) \/ HandleTimeout(c)
  PROVE  QueueInv' /\ OwesNoMore
<1>1. CASE Accept(c) \/ Handshake(c)
  <2>1. UNCHANGED <<commandNumber, asked, toSlave, fromSlave, busy, garbled>>
    BY <1>1 DEF Accept, Handshake, sharedvars, history
  <2>2. \A d \in Conns : link'[d] = link[d] \/ link'[d] = "gone" \/ link[d] = "none"
    BY <1>1 DEF Accept, Handshake, TypeOK
  <2>3. QED
    BY <2>1, <2>2, QueueFrame
<1>2. CASE EmptyReadCallback(c) \/ TimerExpires(c)
  BY <1>2, QueueFrame DEF EmptyReadCallback, TimerExpires, sharedvars, slavevars, history
<1>3. CASE ReadCallback(c)
  <2>1. PICK k \in 1..Len(fromSlave[c]) :
          IsLine(c, k) /\ fromSlave' = [fromSlave EXCEPT ![c] = SubSeq(@, k + 1, Len(@))]
    BY <1>3 DEF ReadCallback
  <2>2. UNCHANGED <<commandNumber, toSlave, busy, link, asked, garbled>>
    BY <1>3 DEF ReadCallback
  <2>3. \A d \in Conns \ {c} : fromSlave'[d] = fromSlave[d]
    BY <2>1 DEF TypeOK
  <2>4. ~ garbled'[c] => ~ garbled[c] /\ SlaveInv(c)' /\ (Owed(c)' => Owed(c))
    BY <2>1, <2>2, SlaveLineTaken DEF QueueInv
  <2>5. QED
    BY <2>2, <2>3, <2>4, QueueOne
<1>4. CASE HandleTimeout(c)
  <2>1. UNCHANGED <<commandNumber, asked>>
    BY <1>4 DEF HandleTimeout, sharedvars, history
  <2>2. CASE UNCHANGED slavevars
    BY <2>1, <2>2, QueueFrame DEF slavevars
  <2>3. CASE Over(c) /\ \E taken \in 0..Len(fromSlave[c]) :
               fromSlave' = [fromSlave EXCEPT ![c] = SubSeq(@, 1, taken)]
    <3>1. PICK taken \in 0..Len(fromSlave[c]) :
            fromSlave' = [fromSlave EXCEPT ![c] = SubSeq(@, 1, taken)]
      BY <2>3
    <3>2. fromSlave'[c] = SubSeq(fromSlave[c], 1, taken)
      BY <3>1 DEF TypeOK
    <3>3. \A d \in Conns \ {c} : /\ toSlave'[d] = toSlave[d] /\ fromSlave'[d] = fromSlave[d]
                                 /\ busy'[d] = busy[d] /\ link'[d] = link[d]
                                 /\ garbled'[d] = garbled[d]
      BY <2>3, <3>1 DEF Over, TypeOK
    <3>4. ~ garbled'[c] => ~ garbled[c] /\ SlaveInv(c)' /\ (Owed(c)' => Owed(c))
      BY <2>1, <2>3, <3>2, SlaveOver DEF QueueInv, Over
    <3>5. QED
      BY <2>1, <3>3, <3>4, QueueOne
  <2>4. QED
    BY <1>4, <2>2, <2>3 DEF HandleTimeout
<1>5. QED
  BY <1>1, <1>2, <1>3, <1>4

\* So do the slaves.
LEMMA QueueSlaveStep ==
  ASSUME TypeOK, QueueInv, NEW c \in Conns,
         SlaveReads(c) \/ SlaveReadsGarbled(c) \/ SlaveAnswers(c) \/ SlaveLost(c)
  PROVE  QueueInv' /\ OwesNoMore
<1>1. UNCHANGED <<commandNumber, asked>>
  BY DEF SlaveReads, SlaveReadsGarbled, Takes, SlaveAnswers, SlaveLost, sharedvars, history
<1>2. \A d \in Conns \ {c} : /\ toSlave'[d] = toSlave[d] /\ fromSlave'[d] = fromSlave[d]
                             /\ busy'[d] = busy[d] /\ link'[d] = link[d]
                             /\ garbled'[d] = garbled[d]
  <2>1. CASE SlaveReads(c) \/ SlaveReadsGarbled(c)
    <3>1. \E n, runs, rest : Takes(c, n, runs, rest)
      BY <2>1 DEF SlaveReads, SlaveReadsGarbled
    <3>2. garbled' \in {garbled, [garbled EXCEPT ![c] = TRUE]}
      BY <2>1 DEF SlaveReads, SlaveReadsGarbled
    <3>3. QED
      BY <3>1, <3>2 DEF Takes, TypeOK
  <2>2. CASE SlaveAnswers(c)
    BY <2>2 DEF SlaveAnswers, TypeOK
  <2>3. CASE SlaveLost(c)
    BY <2>3 DEF SlaveLost, Over, TypeOK
  <2>4. QED
    BY <2>1, <2>2, <2>3
<1>3. ~ garbled'[c] => ~ garbled[c] /\ SlaveInv(c)' /\ (Owed(c)' => Owed(c))
  <2>1. CASE SlaveReads(c)
    BY <2>1, SlaveReadsOne DEF QueueInv, SlaveReads
  <2>2. CASE SlaveReadsGarbled(c)
    BY <2>2 DEF SlaveReadsGarbled, TypeOK
  <2>3. CASE SlaveAnswers(c)
    BY <2>3, SlaveAnswersOne DEF QueueInv, SlaveAnswers
  <2>4. CASE SlaveLost(c)
    <3>1. fromSlave[c] \in Seq(Replies) /\ fromSlave' = fromSlave /\ garbled' = garbled
      BY <2>4 DEF SlaveLost, Over, TypeOK
    <3>2. /\ Len(fromSlave[c]) \in 0..Len(fromSlave[c])
          /\ SubSeq(fromSlave[c], 1, Len(fromSlave[c])) = fromSlave[c]
      BY <3>1
    <3>3. QED
      BY <1>1, <2>4, <3>1, <3>2, SlaveOver DEF QueueInv, SlaveLost
  <2>5. QED
    BY <2>1, <2>2, <2>3, <2>4
<1>4. QED
  BY <1>1, <1>2, <1>3, QueueOne

\* So do the steps of the main thread that write nothing.
LEMMA QueueMainStep ==
  ASSUME QueueInv,
         \/ StartGenmove \/ NewTable \/ StartReads \/ StartWait \/ Poll \/ PickMove
         \/ CountResponse \/ (\E c \in Conns : ReadNext(c)) \/ UNCHANGED vars
  PROVE  QueueInv' /\ OwesNoMore
<1>1. UNCHANGED <<commandNumber, asked, slavevars>>
  BY DEF StartGenmove, NewTable, StartReads, StartWait, Poll, PickMove, CountResponse, ReadNext,
         vars, sharedvars, history
<1>2. QED
  BY <1>1, QueueFrame DEF slavevars

\* One that writes adds to what is owed by the slave it writes to.
LEMMA QueueWriteStep ==
  ASSUME TypeOK, VectorInv, QueueInv, NEW c \in Conns, WriteNext(c)
  PROVE  /\ QueueInv'
         /\ \A d \in Conns \ {c} : ~ garbled'[d] /\ Owed(d)' => ~ garbled[d] /\ Owed(d)
         /\ Write(c) \/ OwesNoMore
<1>1. UNCHANGED <<commandNumber, fromSlave, busy, link, garbled>>
  BY DEF WriteNext
<1>2. CASE Write(c)
  <2>1. /\ c \in asked' /\ asked \subseteq asked'
        /\ \A d \in Conns \ {c} : toSlave'[d] = toSlave[d]
    BY <1>2 DEF Write, TypeOK
  <2>2. ASSUME NEW d \in Conns \ {c}, ~ garbled'[d]
        PROVE  SlaveInv(d)' /\ (Owed(d)' => Owed(d)) /\ ~ garbled[d]
    BY <1>1, <2>1, <2>2, ElsewhereUnchanged DEF QueueInv
  <2>3. ~ garbled'[c] => SlaveInv(c)'
    BY <1>1, <1>2, SlaveWritten DEF QueueInv
  <2>4. QED
    BY <1>2, <2>1, <2>2, <2>3 DEF QueueInv
<1>3. CASE CleanUp(c)
  <2>1. UNCHANGED <<asked, toSlave>>
    BY <1>3 DEF CleanUp
  <2>2. QueueInv' /\ OwesNoMore
    BY <1>1, <2>1, QueueFrame
  <2>3. QED
    BY <2>2 DEF OwesNoMore
<1>4. QED
  BY <1>2, <1>3 DEF WriteNext

\* Every step keeps what holds of the queues.
LEMMA QueueStep ==
  ASSUME TypeOK, VectorInv, QueueInv, [Next]_vars
  PROVE  QueueInv'
<1>1. CASE WriteAll
  <2>1. garbled' = garbled
    BY <1>1 DEF WriteAll, slavevars
  <2>2. QED
    BY <1>1, <2>1, SlaveNumbered DEF QueueInv
<1>2. QED
  BY <1>1, QueueHandlerStep, QueueSlaveStep, QueueMainStep, QueueWriteStep DEF Next

\* A slave that reads batch by batch never owes two answers to one command.
LEMMA QueueForEver == Spec => []QueueInv
<1>1. Init => QueueInv
  <2>1. ASSUME Init, NEW c \in Conns
        PROVE  SlaveInv(c)
    <3>1. toSlave[c] = <<>> /\ fromSlave[c] = <<>> /\ busy[c] = NotBusy
      BY <2>1 DEF Init
    <3>2. CommandsTo(c) = {} /\ ~ Answering(c) /\ AnswersOf(c) = {}
      BY <3>1 DEF CommandsTo, Answering, AnswersOf, AnswersIn
    <3>3. Orderly(fromSlave[c], commandNumber) /\ ~ EndsInAck(fromSlave[c])
      BY <3>1 DEF Orderly, AnswersIn, EndsInAck
    <3>4. \A i \in 1..Len(toSlave[c]) : FALSE
      BY <3>1
    <3>5. QED
      BY <3>1, <3>2, <3>3, <3>4 DEF SlaveInv, Owed
  <2>2. QED
    BY <2>1 DEF QueueInv
<1>2. TypeOK /\ VectorInv /\ QueueInv /\ [Next]_vars => QueueInv'
  BY QueueStep
<1>3. QED
  BY <1>1, <1>2, TypeCorrect, VectorForEver, PTL DEF Spec

\* Last the table and the count.  Once the command has its number, the rows are of slaves
\* that were asked, and as many as the count says; who owes an answer has none.
FullTable == [conn : asked, cmd : {commandNumber}]
Counting  == io.stage = "count"

RoundOn ==
  /\ ucbTable \subseteq FullTable
  /\ \A c \in Conns : ~ garbled[c] /\ Owed(c) => RowOf(c) \notin ucbTable
  /\ Cardinality(ucbTable) = IF Counting THEN genmoveResponses + 1 ELSE genmoveResponses
  /\ Counting => io.seen = genmoveResponses

\* Until then nothing is counted.
RoundNotBegun ==
  /\ genmoveResponses = 0 /\ ~ Counting
  /\ pc = "number" => ucbTable = {}

Unnumbered == pc \in {"table", "number"}

RoundInv ==
  ~ spoilt => /\ Unnumbered => RoundNotBegun
              /\ ~ Unnumbered => RoundOn

\* A full table has a row for each connection that was asked.
LEMMA FullTableFinite ==
  ASSUME TypeOK
  PROVE  IsFiniteSet(FullTable) /\ Cardinality(FullTable) = Cardinality(asked)
<1> DEFINE f == [c \in asked |-> [conn |-> c, cmd |-> commandNumber]]
<1>1. f \in Bijection(asked, FullTable)
  <2>1. f \in [asked -> FullTable]
    BY DEF FullTable
  <2>2. \A x, y \in asked : f[x] = f[y] => x = y
    OBVIOUS
  <2>3. \A y \in FullTable : \E x \in asked : f[x] = y
    BY DEF FullTable
  <2>4. QED
    BY <2>1, <2>2, <2>3 DEF Bijection, Injection, Surjection, IsInjective
<1>2. ExistsBijection(asked, FullTable)
  BY <1>1 DEF ExistsBijection
<1>3. IsFiniteSet(asked)
  BY FS_Subset DEF TypeOK
<1>4. QED
  BY <1>2, <1>3, FS_Bijection

\* With as many rows as there are sockets, or more, a table has one of each.
LEMMA TableFull ==
  ASSUME TypeOK, ucbTable \subseteq FullTable, asked \subseteq sockets,
         Cardinality(ucbTable) >= Cardinality(sockets)
  PROVE  \A c \in sockets : RowOf(c) \in ucbTable
<1>1. /\ IsFiniteSet(sockets) /\ IsFiniteSet(asked) /\ Cardinality(asked) <= Cardinality(sockets)
      /\ Cardinality(sockets) = Cardinality(asked) => sockets = asked
  <2>1. IsFiniteSet(sockets)
    BY FS_Subset DEF TypeOK
  <2>2. QED
    BY <2>1, FS_Subset
<1>2. IsFiniteSet(FullTable) /\ Cardinality(FullTable) = Cardinality(asked)
  BY FullTableFinite
<1>3. /\ IsFiniteSet(ucbTable) /\ Cardinality(ucbTable) <= Cardinality(FullTable)
      /\ Cardinality(FullTable) = Cardinality(ucbTable) => FullTable = ucbTable
  BY <1>2, FS_Subset
<1>4. /\ Cardinality(asked) \in Nat /\ Cardinality(sockets) \in Nat
      /\ Cardinality(ucbTable) \in Nat
  BY <1>1, <1>3, FS_CardinalityType
<1>5. ucbTable = FullTable /\ sockets = asked
  BY <1>1, <1>2, <1>3, <1>4
<1>6. QED
  BY <1>5 DEF FullTable, RowOf

\* A step that leaves the table and the count alone, and after which nothing more is owed.
LEMMA RoundFrame ==
  ASSUME RoundInv, OwesNoMore,
         UNCHANGED <<commandNumber, genmoveResponses, ucbTable, asked, spoilt>>,
         pc' = pc \/ (~ Unnumbered /\ ~ Unnumbered'),
         io' = io \/ (~ Counting /\ ~ Counting')
  PROVE  RoundInv'
<1>1. Counting' = Counting /\ (Counting => io' = io) /\ FullTable' = FullTable
  BY DEF Counting, FullTable
<1>2. Unnumbered' = Unnumbered
  BY DEF Unnumbered
<1>3. RoundOn => RoundOn'
  BY <1>1 DEF RoundOn, OwesNoMore, RowOf
<1>4. RoundNotBegun /\ Unnumbered => RoundNotBegun'
  BY <1>1 DEF RoundNotBegun, Unnumbered
<1>5. QED
  BY <1>2, <1>3, <1>4 DEF RoundInv

\* The main thread.
LEMMA RoundMainStep ==
  ASSUME TypeOK, QueueInv, RoundInv,
         \/ StartGenmove \/ NewTable \/ WriteAll \/ StartReads \/ StartWait \/ Poll \/ PickMove
  PROVE  RoundInv'
<1>1. CASE StartGenmove
  BY <1>1 DEF StartGenmove, iovars, RoundInv, RoundNotBegun, Unnumbered, Counting
<1>2. CASE NewTable
  BY <1>2 DEF NewTable, iovars, history, RoundInv, RoundNotBegun, Unnumbered, Counting
<1>3. CASE WriteAll
  <2>1. SUFFICES ASSUME ~ spoilt'
                 PROVE  RoundOn'
    BY <1>3 DEF WriteAll, RoundInv, Unnumbered
  <2>2. ucbTable' = {} /\ genmoveResponses' = 0 /\ ~ Counting'
    BY <1>3, <2>1 DEF WriteAll, iovars, RoundInv, RoundNotBegun, Unnumbered, Counting
  <2>3. QED
    BY <2>2, FS_EmptySet DEF RoundOn
<1>4. CASE StartReads \/ StartWait \/ Poll \/ PickMove
  <2>1. OwesNoMore
    BY <1>4, QueueMainStep
  <2>2. /\ UNCHANGED <<commandNumber, genmoveResponses, ucbTable, asked, spoilt, io>>
        /\ ~ Unnumbered /\ ~ Unnumbered'
    BY <1>4 DEF StartReads, StartWait, Poll, PickMove, sharedvars, iovars, history, Unnumbered
  <2>3. QED
    BY <2>1, <2>2, RoundFrame
<1>5. QED
  BY <1>1, <1>2, <1>3, <1>4

\* A command is written: its slave has no row yet.
LEMMA RoundLoopStep ==
  ASSUME TypeOK, VectorInv, QueueInv, RoundInv, NEW c \in Conns, WriteNext(c) \/ ReadNext(c)
  PROVE  RoundInv'
<1>1. /\ UNCHANGED <<commandNumber, genmoveResponses, ucbTable, spoilt, io>>
      /\ ~ Unnumbered /\ ~ Unnumbered'
  BY DEF WriteNext, Write, CleanUp, ReadNext, sharedvars, history, Unnumbered
<1>2. CASE OwesNoMore /\ asked' = asked
  BY <1>1, <1>2, RoundFrame
<1>3. CASE WriteNext(c) /\ Write(c)
  <2>1. SUFFICES ASSUME ~ spoilt
                 PROVE  RoundOn'
    BY <1>1 DEF RoundInv
  <2>2. RoundOn
    BY <1>1, <2>1 DEF RoundInv
  <2>3. ucbTable' \subseteq FullTable'
    BY <1>1, <1>3, <2>2 DEF Write, RoundOn, FullTable
  <2>4. c \notin asked
    BY <1>3 DEF WriteNext, VectorInv
  <2>5. RowOf(c)' \notin ucbTable'
    BY <1>1, <2>2, <2>4 DEF RoundOn, FullTable, RowOf
  <2>6. ASSUME NEW d \in Conns, ~ garbled'[d], Owed(d)'
        PROVE  RowOf(d)' \notin ucbTable'
    <3>1. CASE d = c
      BY <2>5, <3>1
    <3>2. CASE d # c
      <4>1. ~ garbled[d] /\ Owed(d)
        BY <1>3, <2>6, <3>2, QueueWriteStep
      <4>2. QED
        BY <1>1, <2>2, <4>1 DEF RoundOn, RowOf
    <3>3. QED
      BY <3>1, <3>2
  <2>7. QED
    BY <1>1, <2>2, <2>3, <2>6 DEF RoundOn, Counting
<1>4. CASE WriteNext(c) /\ CleanUp(c)
  <2>1. asked' = asked
    BY <1>4 DEF CleanUp
  <2>2. OwesNoMore
    BY <1>4, QueueWriteStep DEF Write, CleanUp
  <2>3. QED
    BY <1>2, <2>1, <2>2
<1>5. CASE ReadNext(c)
  <2>1. OwesNoMore
    BY <1>5, QueueMainStep
  <2>2. QED
    BY <1>2, <1>5, <2>1 DEF ReadNext, history
<1>6. QED
  BY <1>3, <1>4, <1>5 DEF WriteNext

\* An answer is merged: what was owed is in the table, and is being counted.
LEMMA RoundReadStep ==
  ASSUME TypeOK, QueueInv, RoundInv, NEW c \in Conns, ReadCallback(c)
  PROVE  RoundInv'
<1>1. OwesNoMore
  BY QueueHandlerStep
<1>2. /\ UNCHANGED <<commandNumber, genmoveResponses, asked, toSlave, busy, link, garbled>>
      /\ ~ Counting /\ genmoveResponses \in Nat
  BY DEF ReadCallback, IoFree, IoIdle, Counting, TypeOK
<1>3. PICK k \in 1..Len(fromSlave[c]) :
        LET m      == Line(c, k)
            answer == [conn |-> c, cmd |-> m.cmd]
        IN  /\ IsLine(c, k)
            /\ IF Current(m) /\ m.kind = "ucbtable"
               THEN /\ ucbTable' = ucbTable \cup {answer}
                    /\ io' = [stage |-> "count", seen |-> genmoveResponses]
               ELSE UNCHANGED <<ucbTable, io>>
            /\ pc' = IF Current(m) /\ m.kind = "rand" /\ k > 1 THEN "dead" ELSE pc
            /\ spoilt' = (spoilt \/ (Taken(m) /\ (pc \in {"table", "number"} \/ garbled[c])))
            /\ fromSlave' = [fromSlave EXCEPT ![c] = SubSeq(@, k + 1, Len(@))]
  BY DEF ReadCallback
<1> DEFINE m == Line(c, k)
<1>4. CASE spoilt'
  BY <1>4 DEF RoundInv
<1>5. CASE ~ spoilt' /\ ~ (Current(m) /\ m.kind = "ucbtable")
  <2>1. UNCHANGED <<ucbTable, io>> /\ ~ spoilt
    BY <1>3, <1>5
  <2>2. pc' = pc \/ (~ Unnumbered /\ ~ Unnumbered')
    BY <1>3, <1>5 DEF Taken, Unnumbered
  <2>3. spoilt' = spoilt
    BY <1>3, <1>5, <2>1 DEF TypeOK
  <2>4. QED
    BY <1>1, <1>2, <2>1, <2>2, <2>3, RoundFrame
<1>6. CASE ~ spoilt' /\ Current(m) /\ m.kind = "ucbtable"
  <2>1. Taken(m)
    BY <1>6 DEF Taken
  <2>2. ~ spoilt /\ ~ Unnumbered /\ ~ garbled[c] /\ pc' = pc
    BY <1>3, <1>6, <2>1 DEF Unnumbered
  <2>3. RoundOn /\ ~ Unnumbered'
    BY <2>2 DEF RoundInv, Unnumbered
  <2>4. /\ ucbTable' = ucbTable \cup {RowOf(c)}
        /\ io' = [stage |-> "count", seen |-> genmoveResponses]
    BY <1>3, <1>6 DEF Current, RowOf
  <2>5. SlaveInv(c) /\ Owed(c) /\ ~ Owed(c)'
    BY <1>2, <1>3, <2>1, <2>2, SlaveLineTaken DEF QueueInv
  <2>6. c \in asked /\ RowOf(c) \notin ucbTable
    BY <2>2, <2>3, <2>5 DEF SlaveInv, RoundOn
  <2>7. Counting' /\ io'.seen = genmoveResponses'
    BY <1>2, <2>4 DEF Counting
  <2>8. Cardinality(ucbTable') = genmoveResponses' + 1
    <3>1. IsFiniteSet(ucbTable)
      BY <2>3, FullTableFinite, FS_Subset DEF RoundOn
    <3>2. Cardinality(ucbTable) = genmoveResponses
      BY <1>2, <2>3 DEF RoundOn
    <3>3. QED
      BY <1>2, <2>4, <2>6, <3>1, <3>2, FS_AddElement
  <2>9. ucbTable' \subseteq FullTable'
    BY <1>2, <2>3, <2>4, <2>6 DEF RoundOn, FullTable, RowOf
  <2>10. ASSUME NEW d \in Conns, ~ garbled'[d], Owed(d)'
         PROVE  RowOf(d)' \notin ucbTable'
    <3>1. d # c /\ ~ garbled[d] /\ Owed(d)
      BY <1>1, <2>5, <2>10 DEF OwesNoMore
    <3>2. RowOf(d) \notin ucbTable /\ RowOf(d) # RowOf(c) /\ RowOf(d)' = RowOf(d)
      BY <1>2, <2>3, <3>1 DEF RoundOn, RowOf
    <3>3. QED
      BY <2>4, <3>2
  <2>11. RoundOn'
    BY <2>7, <2>8, <2>9, <2>10 DEF RoundOn
  <2>12. QED
    BY <2>3, <2>11 DEF RoundInv
<1>7. QED
  BY <1>4, <1>5, <1>6

\* It is counted, and nothing is lost of the count.
LEMMA RoundCountStep ==
  ASSUME TypeOK, QueueInv, RoundInv, CountResponse
  PROVE  RoundInv'
<1>1. OwesNoMore
  BY QueueMainStep
<1>2. /\ UNCHANGED <<pc, asked, commandNumber, ucbTable, spoilt>>
      /\ Counting /\ ~ Counting'
  <2>1. io.stage = "count" /\ io' = [stage |-> "idle"]
    BY DEF CountResponse, IoIdle
  <2>2. QED
    BY <2>1 DEF CountResponse, mainvars, history, Counting
<1> SUFFICES ASSUME ~ spoilt
             PROVE  RoundInv'
  BY <1>2 DEF RoundInv
<1>3. RoundOn /\ ~ Unnumbered /\ ~ Unnumbered'
  BY <1>2 DEF RoundInv, RoundNotBegun, Unnumbered
<1>4. genmoveResponses' = genmoveResponses + 1
  BY <1>2, <1>3 DEF CountResponse, RoundOn
<1>5. Cardinality(ucbTable') = genmoveResponses'
  BY <1>2, <1>3, <1>4 DEF RoundOn
<1>6. \A c \in Conns : ~ garbled'[c] /\ Owed(c)' => RowOf(c)' \notin ucbTable'
  BY <1>1, <1>2, <1>3 DEF RoundOn, OwesNoMore, RowOf
<1>7. ucbTable' \subseteq FullTable'
  BY <1>2, <1>3 DEF RoundOn, FullTable
<1>8. QED
  BY <1>2, <1>3, <1>5, <1>6, <1>7 DEF RoundInv, RoundOn

\* The other handlers and the slaves leave the table and the count alone.
LEMMA RoundHandlerStep ==
  ASSUME TypeOK, QueueInv, RoundInv, NEW c \in Conns,
         \/ Accept(c) \/ Handshake(c) \/ EmptyReadCallback(c) \/ TimerExpires(c)
         \/ HandleTimeout(c)
         \/ SlaveReads(c) \/ SlaveReadsGarbled(c) \/ SlaveAnswers(c) \/ SlaveLost(c)
  PROVE  RoundInv'
<1>1. OwesNoMore
  BY QueueHandlerStep, QueueSlaveStep
<1>2. CASE Handshake(c)
  <2>1. UNCHANGED <<commandNumber, genmoveResponses, ucbTable, asked, spoilt>>
    BY <1>2 DEF Handshake, history
  <2>2. pc' = pc \/ (~ Unnumbered /\ ~ Unnumbered')
    BY <1>2 DEF Handshake, Unnumbered
  <2>3. ~ Counting /\ ~ Counting'
    BY <1>2 DEF Handshake, IoIdle, Counting
  <2>4. QED
    BY <1>1, <2>1, <2>2, <2>3, RoundFrame
<1>3. CASE ~ Handshake(c)
  <2>1. UNCHANGED <<commandNumber, genmoveResponses, ucbTable, asked, spoilt, pc>>
    BY <1>3 DEF Accept, EmptyReadCallback, TimerExpires, HandleTimeout, SlaveReads,
                SlaveReadsGarbled, Takes, SlaveAnswers, SlaveLost, mainvars, sharedvars, history
  <2>2. io' = io \/ (~ Counting /\ ~ Counting')
    <3>1. CASE Accept(c) \/ HandleTimeout(c)
      BY <3>1 DEF Accept, HandleTimeout, IoFree, IoIdle, Counting
    <3>2. CASE EmptyReadCallback(c) \/ TimerExpires(c)
      BY <3>2 DEF EmptyReadCallback, TimerExpires
    <3>3. CASE SlaveReads(c) \/ SlaveReadsGarbled(c) \/ SlaveAnswers(c) \/ SlaveLost(c)
      BY <3>3 DEF SlaveReads, SlaveReadsGarbled, Takes, SlaveAnswers, SlaveLost, iovars
    <3>4. QED
      BY <1>3, <3>1, <3>2, <3>3
  <2>3. QED
    BY <1>1, <2>1, <2>2, RoundFrame
<1>4. QED
  BY <1>2, <1>3

\* Every step keeps what holds of a round.
LEMMA RoundStep ==
  ASSUME TypeOK, VectorInv, QueueInv, RoundInv, [Next]_vars
  PROVE  RoundInv'
<1>1. CASE UNCHANGED vars
  <2>1. OwesNoMore
    BY <1>1, QueueMainStep
  <2>2. QED
    BY <1>1, <2>1, RoundFrame DEF vars, mainvars, sharedvars, iovars, history
<1>2. CASE Next
  BY <1>2, RoundMainStep, RoundLoopStep, RoundReadStep, RoundCountStep, RoundHandlerStep DEF Next
<1>3. QED
  BY <1>1, <1>2

\* The count never runs ahead of the rows, unless the round is spoilt.
LEMMA RoundForEver == Spec => []RoundInv
<1>1. Init => RoundInv
  BY FS_EmptySet DEF Init, RoundInv, Unnumbered, RoundOn, Counting, IoIdle
<1>2. TypeOK /\ VectorInv /\ QueueInv /\ RoundInv /\ [Next]_vars => RoundInv'
  BY RoundStep
<1>3. QED
  BY <1>1, <1>2, TypeCorrect, VectorForEver, QueueForEver, PTL DEF Spec

\* Slaves of a search answer with tables.
NoRandomMove ==
  aiType # "RAN" =>
    \A c \in Conns : \A i \in 1..Len(fromSlave[c]) : fromSlave[c][i].kind # "rand"

\* Every step keeps that.
LEMMA NoRandomStep ==
  ASSUME TypeOK, NoRandomMove, [Next]_vars
  PROVE  NoRandomMove'
<1> DEFINE Queues == {s \in Seq(Replies) : \A i \in 1..Len(s) : s[i].kind # "rand"}
<1>1. UNCHANGED aiType
  <2>1. CASE \/ StartGenmove \/ NewTable \/ WriteAll \/ StartReads \/ StartWait \/ Poll \/ PickMove
             \/ CountResponse \/ UNCHANGED vars
    BY <2>1 DEF StartGenmove, NewTable, WriteAll, StartReads, StartWait, Poll, PickMove,
                CountResponse, vars, mainvars
  <2>2. ASSUME NEW c \in Conns,
               \/ WriteNext(c) \/ ReadNext(c) \/ Accept(c) \/ Handshake(c) \/ ReadCallback(c)
               \/ EmptyReadCallback(c) \/ TimerExpires(c) \/ HandleTimeout(c)
        PROVE  UNCHANGED aiType
    BY <2>2 DEF WriteNext, ReadNext, Accept, Handshake, ReadCallback, EmptyReadCallback,
                TimerExpires, HandleTimeout, mainvars
  <2>3. ASSUME NEW c \in Conns,
               SlaveReads(c) \/ SlaveReadsGarbled(c) \/ SlaveAnswers(c) \/ SlaveLost(c)
        PROVE  UNCHANGED aiType
    BY <2>3 DEF SlaveReads, SlaveReadsGarbled, Takes, SlaveAnswers, SlaveLost, mainvars
  <2>4. QED
    BY <2>1, <2>2, <2>3 DEF Next
<1> SUFFICES ASSUME aiType # "RAN"
             PROVE  \A c \in Conns : fromSlave'[c] \in Queues
  BY <1>1 DEF NoRandomMove
<1>2. \A c \in Conns : fromSlave[c] \in Queues
  BY DEF NoRandomMove, TypeOK
<1>3. ASSUME NEW s \in Queues, NEW r \in Replies, r.kind # "rand"
      PROVE  Append(s, r) \in Queues
  <2>1. /\ Append(s, r) \in Seq(Replies) /\ Len(Append(s, r)) = Len(s) + 1 /\ Len(s) \in Nat
        /\ \A i \in 1..Len(s) : Append(s, r)[i] = s[i]
        /\ Append(s, r)[Len(s) + 1] = r
    BY AppendProperties
  <2>2. \A i \in 1..(Len(s) + 1) : i \in 1..Len(s) \/ i = Len(s) + 1
    BY <2>1
  <2>3. QED
    BY <1>3, <2>1, <2>2
<1>4. ASSUME NEW s \in Queues, NEW k \in 0..Len(s)
      PROVE  SubSeq(s, k + 1, Len(s)) \in Queues /\ SubSeq(s, 1, k) \in Queues
  <2>1. s \in Seq(Replies) /\ Len(s) \in Nat /\ k \in Nat /\ k <= Len(s)
    OBVIOUS
  <2>2. SubSeq(s, k + 1, Len(s)) \in Queues
    <3> DEFINE t == SubSeq(s, k + 1, Len(s))
    <3>1. t \in Seq(Replies) /\ Len(t) = Len(s) - k /\ \A i \in 1..(Len(s) - k) : t[i] = s[k + i]
      BY <2>1, Suffix
    <3> HIDE DEF t
    <3>2. \A i \in 1..Len(t) : k + i \in 1..Len(s) /\ t[i] = s[k + i]
      BY <2>1, <3>1
    <3>3. t \in Queues
      BY <3>1, <3>2
    <3>4. QED
      BY <3>3 DEF t
  <2>3. SubSeq(s, 1, k) \in Queues
    <3> DEFINE t == SubSeq(s, 1, k)
    <3>1. t \in Seq(Replies) /\ Len(t) = k /\ \A i \in 1..k : t[i] = s[i]
      BY <2>1, Prefix
    <3> HIDE DEF t
    <3>2. \A i \in 1..Len(t) : i \in 1..Len(s) /\ t[i] = s[i]
      BY <2>1, <3>1
    <3>3. t \in Queues
      BY <3>1, <3>2
    <3>4. QED
      BY <3>3 DEF t
  <2>4. QED
    BY <2>2, <2>3
<1> HIDE DEF Queues
<1>5. CASE UNCHANGED fromSlave
  BY <1>2, <1>5
<1>6. ASSUME NEW c \in Conns, NEW s \in Queues, fromSlave' = [fromSlave EXCEPT ![c] = s]
      PROVE  \A d \in Conns : fromSlave'[d] \in Queues
  BY <1>2, <1>6 DEF TypeOK
<1>7. ASSUME NEW c \in Conns, ReadCallback(c)
      PROVE  \A d \in Conns : fromSlave'[d] \in Queues
  <2>1. PICK k \in 1..Len(fromSlave[c]) :
          fromSlave' = [fromSlave EXCEPT ![c] = SubSeq(@, k + 1, Len(@))]
    BY <1>7 DEF ReadCallback
  <2>2. k \in 0..Len(fromSlave[c])
    BY DEF TypeOK
  <2>3. QED
    BY <1>2, <1>4, <1>6, <2>1, <2>2
<1>8. ASSUME NEW c \in Conns, HandleTimeout(c)
      PROVE  \A d \in Conns : fromSlave'[d] \in Queues
  <2>1. CASE \E taken \in 0..Len(fromSlave[c]) :
               fromSlave' = [fromSlave EXCEPT ![c] = SubSeq(@, 1, taken)]
    BY <1>2, <1>4, <1>6, <2>1
  <2>2. QED
    BY <1>5, <1>8, <2>1 DEF HandleTimeout, slavevars
<1>9. ASSUME NEW c \in Conns, NEW n \in 0..MaxCommands, NEW runs, NEW rest, Takes(c, n, runs, rest)
      PROVE  \A d \in Conns : fromSlave'[d] \in Queues
  <2>1. [kind |-> "ack", cmd |-> n] \in Replies
    BY DEF Replies
  <2>2. Append(fromSlave[c], [kind |-> "ack", cmd |-> n]) \in Queues
    BY <1>2, <1>3, <2>1
  <2>3. QED
    BY <1>6, <1>9, <2>2 DEF Takes
<1>10. ASSUME NEW c \in Conns, SlaveReads(c)
       PROVE  \A d \in Conns : fromSlave'[d] \in Queues
  <2>1. toSlave[c] \in Seq(0..MaxCommands) /\ toSlave[c] # <<>>
    BY <1>10 DEF SlaveReads, Reads, TypeOK
  <2>2. Head(toSlave[c]) \in 0..MaxCommands
    BY <2>1, HeadTailProperties
  <2>3. QED
    BY <1>9, <1>10, <2>2 DEF SlaveReads
<1>11. ASSUME NEW c \in Conns, SlaveReadsGarbled(c)
       PROVE  \A d \in Conns : fromSlave'[d] \in Queues
  <2>1. \E n \in 0..MaxCommands : \E runs, rest : Takes(c, n, runs, rest)
    BY <1>11 DEF SlaveReadsGarbled
  <2>2. QED
    BY <1>9, <2>1
<1>12. ASSUME NEW c \in Conns, SlaveAnswers(c)
       PROVE  \A d \in Conns : fromSlave'[d] \in Queues
  <2> DEFINE answer  == [kind |-> "ucbtable", cmd |-> busy[c].cmd]
             ack     == [kind |-> "ack", cmd |-> busy[c].cmd]
             replies == Append(fromSlave[c], answer)
  <2>1. busy[c] \in [cmd : 0..MaxCommands, runs : Nat \ {0}]
    BY <1>12 DEF SlaveAnswers, TypeOK
  <2>2. answer \in Replies /\ answer.kind # "rand" /\ ack \in Replies /\ ack.kind # "rand"
    BY <2>1 DEF Replies
  <2>3. PICK remains \in BOOLEAN :
          fromSlave' = [fromSlave EXCEPT ![c] = IF remains THEN Append(replies, ack) ELSE replies]
    BY <1>12 DEF SlaveAnswers
  <2> HIDE DEF answer, ack
  <2>4. replies \in Queues
    BY <1>2, <1>3, <2>2
  <2> HIDE DEF replies
  <2>5. Append(replies, ack) \in Queues
    BY <1>3, <2>2, <2>4
  <2>6. (IF remains THEN Append(replies, ack) ELSE replies) \in Queues
    BY <2>4, <2>5
  <2>7. QED
    BY <1>6, <2>3, <2>6
<1>13. CASE \/ StartGenmove \/ NewTable \/ WriteAll \/ StartReads \/ StartWait \/ Poll \/ PickMove
            \/ CountResponse \/ UNCHANGED vars
  BY <1>5, <1>13 DEF StartGenmove, NewTable, WriteAll, StartReads, StartWait, Poll, PickMove,
                     CountResponse, vars, slavevars
<1>14. ASSUME NEW c \in Conns,
              \/ WriteNext(c) \/ ReadNext(c) \/ Accept(c) \/ Handshake(c) \/ EmptyReadCallback(c)
              \/ TimerExpires(c) \/ SlaveLost(c)
       PROVE  \A d \in Conns : fromSlave'[d] \in Queues
  BY <1>5, <1>14 DEF WriteNext, ReadNext, Accept, Handshake, EmptyReadCallback, TimerExpires,
                     SlaveLost, slavevars
<1>15. QED
  BY <1>7, <1>8, <1>10, <1>11, <1>12, <1>13, <1>14 DEF Next

\* A search is never answered with a random move.
LEMMA NoRandomForEver == Spec => []NoRandomMove
<1>1. Init => NoRandomMove
  BY DEF Init, NoRandomMove
<1>2. TypeOK /\ NoRandomMove /\ [Next]_vars => NoRandomMove'
  BY NoRandomStep
<1>3. QED
  BY <1>1, <1>2, TypeCorrect, PTL DEF Spec

\* The wait flag of a search falls only where an answer is counted.
LEMMA FlagFallsInCount ==
  ASSUME TypeOK, NoRandomMove, Next, aiType # "RAN", genmoveResponseWait, ~ genmoveResponseWait'
  PROVE  CountResponse
<1>1. ASSUME NEW c \in Conns, ReadCallback(c)
      PROVE  FALSE
  <2>1. PICK k \in 1..Len(fromSlave[c]) : Line(c, k).kind = "rand"
    BY <1>1 DEF ReadCallback
  <2>2. QED
    BY <2>1 DEF NoRandomMove, Line
<1>2. CASE StartGenmove \/ NewTable \/ WriteAll \/ StartReads \/ StartWait \/ Poll \/ PickMove
  BY <1>2 DEF StartGenmove, NewTable, WriteAll, StartReads, StartWait, Poll, PickMove, sharedvars
<1>3. ASSUME NEW c \in Conns,
             \/ WriteNext(c) \/ ReadNext(c) \/ Accept(c) \/ Handshake(c)
             \/ EmptyReadCallback(c) \/ TimerExpires(c) \/ HandleTimeout(c)
      PROVE  FALSE
  BY <1>3 DEF WriteNext, ReadNext, Accept, Handshake, EmptyReadCallback, TimerExpires,
              HandleTimeout, sharedvars
<1>4. ASSUME NEW c \in Conns,
             SlaveReads(c) \/ SlaveReadsGarbled(c) \/ SlaveAnswers(c) \/ SlaveLost(c)
      PROVE  FALSE
  BY <1>4 DEF SlaveReads, SlaveReadsGarbled, Takes, SlaveAnswers, SlaveLost, sharedvars
<1>5. QED
  BY <1>1, <1>2, <1>3, <1>4 DEF Next

\* A search is taken for finished only when every slave then in the vector has answered
\* the present command, however many slaves come, go, are dropped and answer late, and
\* whatever became of the rounds before: unless this round counted an answer from before
\* its number or of a slave that read otherwise than batch by batch (genmoveReadCallback,
\* generateMove, writeAll).
THEOREM RoundsComplete == Spec => CompleteRounds
<1> DEFINE Complete == genmoveResponseWait /\ ~ genmoveResponseWait' /\ aiType # "RAN" /\ ~ spoilt
                         => \A c \in sockets : RowOf(c) \in ucbTable
<1>1. ASSUME TypeOK, VectorInv, RoundInv, NoRandomMove, Next
      PROVE  Complete
  <2>1. SUFFICES ASSUME genmoveResponseWait, ~ genmoveResponseWait', aiType # "RAN", ~ spoilt
                 PROVE  \A c \in sockets : RowOf(c) \in ucbTable
    OBVIOUS
  <2>2. CountResponse
    BY <1>1, <2>1, FlagFallsInCount
  <2>3. Counting /\ RoundOn
    BY <1>1, <2>1, <2>2 DEF CountResponse, Counting, RoundInv, RoundNotBegun
  <2>4. /\ ~ (genmoveResponses + 1 < Cardinality(sockets))
        /\ Cardinality(ucbTable) = genmoveResponses + 1
    BY <2>1, <2>2, <2>3 DEF CountResponse, RoundOn
  <2>5. Cardinality(sockets) \in Nat /\ genmoveResponses \in Nat
    BY <1>1, FS_Subset, FS_CardinalityType DEF TypeOK
  <2>6. Cardinality(ucbTable) >= Cardinality(sockets)
    BY <2>4, <2>5
  <2>7. QED
    BY <1>1, <2>3, <2>6, TableFull DEF RoundOn, VectorInv
<1>2. TypeOK /\ VectorInv /\ RoundInv /\ NoRandomMove /\ [Next]_vars => [Complete]_vars
  BY <1>1
<1>3. QED
  BY <1>2, TypeCorrect, VectorForEver, RoundForEver, NoRandomForEver, PTL DEF Spec, CompleteRounds
=============================================================================
