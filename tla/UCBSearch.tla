----------------------------- MODULE UCBSearch -----------------------------
(***************************************************************************)
(* A search over several slaves: the master finds candidates               *)
(* (getPossibleMoves) and gives every slave the same ones with a number of *)
(* simulations or a time; a slave plays simulations, on its own thread,    *)
(* while a thread of its own sleeps and then stops it (genmoveTimer); the  *)
(* master pools what the slaves found and picks a move.                    *)
(*                                                                         *)
(* Simulations are a win or none (what they do to a board is in GoPlayout) *)
(* and a slave that throws is gone for good.  Messages arrive: what        *)
(* happens when they do not is in MasterServer and Slave.                  *)
(***************************************************************************)
EXTENDS EGTPEngine, UCBTable, FiniteSets

CONSTANTS Slaves,
          Crews,       \* the slaves that may be there
          ClockCrews,  \* bound: those of them for which a clock is set
          Points,      \* where one can play
          PassMove,    \* what a random draw gives that found no move
          Configs,     \* values of AI_CONFIG: the AI, its option and how many random moves
          ClockTimes,  \* seconds a controller may report
          Locals,      \* what FindPossibleLocalMoves may find: a point may be listed twice
          MaxGames,    \* bound: games of a search that are counted
          MaxSearches  \* bound: searches of all the slaves

ASSUME CrewsAssumption  == Crews \subseteq SUBSET Slaves
ASSUME PassAssumption   == PassMove \notin Points
ASSUME LocalsAssumption == Locals \subseteq Seq(Points)
ASSUME ClockAssumption  == ClockTimes \subseteq Nat

\* main() takes numbers, of which that of simulations is of no use when it is 0.  No
\* random moves means that AI_CONFIG has no r: generateMove refuses an r of 0.
ASSUME ConfigsAssumption ==
  Configs \subseteq [ai : AiType, opt : {"s", "t"}, value : Nat \ {0}, random : Nat]

VARIABLES
  \* The master.
  config,     \* AI_CONFIG, set once by main()
  clock,      \* the game's GoTimeHandler
  stage,      \* "idle", "listing" candidates or "waiting" for answers
  open,       \* the points a random draw may give, while candidates are listed
  moves,      \* the candidates
  wanted,     \* random candidates still to find
  number,     \* commands given
  ucbTable, picked,
  \* The slaves.
  crew,       \* the slaves there are
  engine,     \* options
  search,     \* the search of a slave: see NoSearch
  timers,     \* searches of a slave whose timer still sleeps
  \* History.
  remaining,  \* what the controller's clock has left, or GO_TIME_NOT_ACTIVE
  answers,    \* what the slaves sent for this command: [slave, rows]
  spare       \* searches of a slave that had no more simulations than candidates

mastervars == <<config, clock, stage, open, moves, wanted, number, ucbTable, picked>>
slavevars  == <<crew, engine, search, timers>>
history    == <<remaining, answers, spare>>
vars       == <<mastervars, slavevars, history>>

\* games, wins: per candidate.  next: the candidate to simulate, or 0.  over: numSim
\* less totalNumPlayed.  playUntilStopped is the flag of this search.
NoSearch == [stage |-> "idle", moves |-> <<>>, games |-> <<>>, wins |-> <<>>,
             next |-> 0, over |-> 0, playUntilStopped |-> TRUE]

Init ==
  /\ config \in Configs
  /\ clock = NoTimeHandler /\ remaining = GO_TIME_NOT_ACTIVE
  /\ stage = "idle" /\ open = {} /\ moves = <<>> /\ wanted = 0 /\ number = 0
  /\ ucbTable = <<>> /\ picked = PassMove
  /\ crew \in Crews
  /\ engine = [s \in Slaves |-> NewEngine]
  /\ search = [s \in Slaves |-> NoSearch]
  /\ timers = [s \in Slaves |-> {}]
  /\ answers = {} /\ spare = [s \in Slaves |-> {}]

-----------------------------------------------------------------------------
\* The master.

\* A controller sets the clock, with byoyomi or without, or reports it...
SetClock ==
  /\ stage = "idle" /\ crew \in ClockCrews
  /\ \E main, byo \in ClockTimes, stones \in {0, 1} :
       /\ byo <= main /\ (stones = 0 => byo = main)
       /\ clock' = TimeHandler(main, byo, stones)
       /\ remaining' = IF stones = 0 THEN main ELSE main + byo
  /\ UNCHANGED <<config, stage, open, moves, wanted, number, ucbTable, picked, slavevars,
                 answers, spare>>

ReportClock ==
  /\ stage = "idle" /\ crew \in ClockCrews
  /\ \E time \in ClockTimes, stones \in {0, 1} :
       /\ clock' = UpdateTime(clock, time, stones)
       /\ remaining' = time
  /\ UNCHANGED <<config, stage, open, moves, wanted, number, ucbTable, picked, slavevars,
                 answers, spare>>

\* ... and a new game, clear_board or boardsize, has none.
NewGame ==
  /\ stage = "idle"
  /\ clock' = NoTimeHandler /\ remaining' = GO_TIME_NOT_ACTIVE
  /\ UNCHANGED <<config, stage, open, moves, wanted, number, ucbTable, picked, slavevars,
                 answers, spare>>

\* generateMove: the local answers first...
ListLocalMoves ==
  /\ stage = "idle"
  /\ (number + 1) * Cardinality(crew) <= MaxSearches
  /\ stage' = "listing"
  /\ moves' \in Locals
  /\ open' \in SUBSET Points
  /\ wanted' = config.random
  /\ picked' = PassMove
  /\ answers' = {}
  /\ UNCHANGED <<config, clock, number, ucbTable, slavevars, remaining, spare>>

\* Mutant of AddRandomMove: a thousand draws in vain are repeated.
AddRandomPoint ==
  /\ stage = "listing" /\ wanted > 0
  /\ \E p \in open \ ToSet(moves) : moves' = Append(moves, p)
  /\ wanted' = wanted - 1
  /\ UNCHANGED <<config, clock, stage, open, number, ucbTable, picked, slavevars, history>>

\* Mutant of AddRandomMove: one move too many.
AddRandomMoveInclusive ==
  /\ stage = "listing" /\ wanted >= 0
  /\ \E p \in (open \cup {PassMove}) \ ToSet(moves) : moves' = Append(moves, p)
  /\ wanted' = wanted - 1
  /\ UNCHANGED <<config, clock, stage, open, number, ucbTable, picked, slavevars, history>>

\* ... then random moves, drawn again until one is new.  A thousand draws that find
\* none are a pass, which is a candidate as well.
AddRandomMove ==
  /\ stage = "listing" /\ wanted > 0
  /\ \E p \in (open \cup {PassMove}) \ ToSet(moves) : moves' = Append(moves, p)
  /\ wanted' = wanted - 1
  /\ UNCHANGED <<config, clock, stage, open, number, ucbTable, picked, slavevars, history>>

Alive == {s \in crew : search[s].stage # "dead"}

\* What e_useai tells the slaves: the configuration, or the time left with a clock.
Options ==
  IF clock.isActive
  THEN [ai |-> config.ai, opt |-> "t",
        value |-> GetTimeRemainingForMove(clock) - GO_TIME_PROCESSING_BUFFER]
  ELSE config

SendCommand ==
  /\ stage = "listing" /\ wanted = 0
  /\ stage' = "waiting"
  /\ number' = number + 1
  /\ open' = {}
  /\ ucbTable' = [i \in DOMAIN moves |-> Row(moves[i], 0, 0)]
  /\ engine' = [s \in Slaves |->
                  IF s \in Alive
                  THEN E_useai(E_randmoves(engine[s], moves), Options.ai, Options.opt, Options.value)
                  ELSE engine[s]]
  /\ search' = [s \in Slaves |->
                  IF s \in Alive THEN [NoSearch EXCEPT !.stage = "asked"] ELSE search[s]]
  /\ UNCHANGED <<config, clock, moves, wanted, picked, crew, timers, history>>

\* The answer of a slave, a row per candidate, is parsed and merged.
Rows(r) == [i \in DOMAIN r.moves |-> Row(r.moves[i], r.wins[i], r.games[i])]

MergeAnswer(s) ==
  /\ search[s].stage = "done"
  /\ LET rows == Rows(search[s])
     IN  /\ ucbTable' = CombineUCBTables(ucbTable, ParseUCBTable(rows))
         /\ answers' = answers \cup {[slave |-> s, rows |-> rows]}
  /\ search' = [search EXCEPT ![s] = NoSearch]
  /\ UNCHANGED <<config, clock, stage, open, moves, wanted, number, picked, crew, engine, timers,
                 remaining, spare>>

\* All the slaves that live have answered.
PickMove ==
  /\ stage = "waiting"
  /\ \A s \in Alive : search[s].stage = "idle"
  /\ stage' = "idle"
  /\ picked' = BestPos(ucbTable, PassMove)
  /\ UNCHANGED <<config, clock, open, moves, wanted, number, ucbTable, slavevars, history>>

-----------------------------------------------------------------------------
\* A slave: genmove.

Dies(s) ==
  /\ search' = [search EXCEPT ![s] = [NoSearch EXCEPT !.stage = "dead"]]
  /\ timers' = [timers EXCEPT ![s] = {}]

\* An UpperConfidence with a timer thread, if there is a time.  sleep() takes an
\* unsigned: a time below -1 is more than a century.  If it was given no candidates it
\* looks for local moves itself, and as the master has found none in the same position,
\* and AI_CONFIG asks for no random ones, it has none: moves[0] is the end of the process.
StartUCB(s) ==
  LET e == engine[s]
      n == Len(e.preselRandMoves)
  IN  /\ search[s].stage = "asked" /\ e.aiType = "UCB"
      /\ IF n = 0 THEN Dies(s) /\ UNCHANGED spare ELSE
           /\ search' = [search EXCEPT ![s] =
                           [NoSearch EXCEPT !.stage = "first", !.moves = e.preselRandMoves,
                                            !.games = [i \in 1..n |-> 0],
                                            !.wins = [i \in 1..n |-> 0], !.next = 1]]
           /\ timers' = [timers EXCEPT ![s] = IF e.timeAlloc >= 0 THEN @ \cup {number} ELSE @]
           /\ spare' = [spare EXCEPT ![s] = IF e.simulations <= n THEN @ \cup {number} ELSE @]
      /\ UNCHANGED <<mastervars, crew, engine, remaining, answers>>

\* What a simulation adds: it is counted up to a bound, and throws if it begins
\* with a candidate that cannot be played.
Outcomes(s) ==
  LET r == search[s]
      i == r.next
  IN  IF r.moves[i] = PassMove THEN {}
      ELSE {[r EXCEPT !.games[i] = @ + 1, !.wins[i] = @ + w] : w \in {0, 1}}

Counted(s, outcome) == IF FoldFunction(+, 0, outcome.games) > MaxGames
                       THEN [outcome EXCEPT !.games = search[s].games, !.wins = search[s].wins]
                       ELSE outcome

SimulationThrows(s) ==
  /\ search[s].stage \in {"first", "loop"} /\ search[s].next # 0
  /\ Dies(s)
  /\ UNCHANGED <<mastervars, crew, engine, history>>

\* Mutant of FirstPlays: the first plays stop with the rest.
FirstPlaysUntilStopped(s) ==
  /\ search[s].stage = "first"
  /\ \E o \in Outcomes(s) :
       search' = [search EXCEPT ![s] =
                    IF o.next < Len(o.moves) /\ o.playUntilStopped
                    THEN [o EXCEPT !.next = @ + 1]
                    ELSE [o EXCEPT !.stage = "loop", !.next = 0,
                                   !.over = engine[s].simulations - Len(o.moves)]]
  /\ UNCHANGED <<mastervars, crew, engine, timers, history>>

\* Every candidate once, stopped or not.
FirstPlays(s) ==
  /\ search[s].stage = "first"
  /\ \E o \in Outcomes(s) :
       search' = [search EXCEPT ![s] =
                    IF o.next < Len(o.moves) THEN [o EXCEPT !.next = @ + 1]
                    ELSE [o EXCEPT !.stage = "loop", !.next = 0,
                                   !.over = engine[s].simulations - Len(o.moves)]]
  /\ UNCHANGED <<mastervars, crew, engine, timers, history>>

\* Candidates with the greatest upper bound, whatever the logarithm is: none other
\* has both as good a share and as few games.
Promising(r) ==
  LET worse(i, j) == r.wins[i] * r.games[j] < r.wins[j] * r.games[i]
      beats(j, i) == /\ ~ worse(j, i) /\ r.games[j] <= r.games[i]
                     /\ (worse(i, j) \/ r.games[j] < r.games[i] \/ j < i)
  IN  {i \in DOMAIN r.moves : \A j \in DOMAIN r.moves : ~ beats(j, i)}

Continues(r) == r.over > 0 /\ r.playUntilStopped

SelectCandidate(s) ==
  /\ search[s].stage = "loop" /\ search[s].next = 0 /\ Continues(search[s])
  /\ \E i \in Promising(search[s]) : search' = [search EXCEPT ![s].next = i]
  /\ UNCHANGED <<mastervars, crew, engine, timers, history>>

\* Mutant of SimulateNext: the number of simulations is a limit.
SimulateNextOfNumber(s) ==
  /\ search[s].stage = "loop" /\ search[s].next # 0
  /\ \E o \in Outcomes(s) :
       search' = [search EXCEPT ![s] = [Counted(s, o) EXCEPT !.next = 0, !.over = @ - 1]]
  /\ UNCHANGED <<mastervars, crew, engine, timers, history>>

\* The number of simulations is raised by one after each, unless stopped.
SimulateNext(s) ==
  /\ search[s].stage = "loop" /\ search[s].next # 0
  /\ \E o \in Outcomes(s) :
       search' = [search EXCEPT ![s] =
                    [Counted(s, o) EXCEPT !.next = 0,
                                          !.over = IF o.playUntilStopped THEN @ ELSE @ - 1]]
  /\ UNCHANGED <<mastervars, crew, engine, timers, history>>

\* The search is answered with a row per candidate; its UpperConfidence is gone.
EndUCB(s) ==
  /\ search[s].stage = "loop" /\ search[s].next = 0 /\ ~ Continues(search[s])
  /\ search' = [search EXCEPT ![s] = [@ EXCEPT !.stage = "done", !.over = 0,
                                            !.playUntilStopped = TRUE]]
  /\ engine' = [engine EXCEPT ![s] = Answered(@)]
  /\ UNCHANGED <<mastervars, crew, timers, history>>

\* MonteCarlo has no timer: the simulations are shared out evenly, and wins are
\* divided by all of them.
MonteCarlo(s) ==
  LET e == engine[s]
      n == Len(e.preselRandMoves)
      each == IF n = 0 THEN 0 ELSE e.simulations \div n
  IN  /\ search[s].stage = "asked" /\ e.aiType = "MC"
      /\ \/ /\ \E wins \in [1..n -> 0..each] :
                 search' = [search EXCEPT ![s] =
                              [NoSearch EXCEPT !.stage = "done", !.moves = e.preselRandMoves,
                                               !.games = [i \in 1..n |-> e.simulations],
                                               !.wins = wins]]
            /\ each = 0 \/ PassMove \notin ToSet(e.preselRandMoves)
            /\ engine' = [engine EXCEPT ![s] = Answered(@)]
            /\ UNCHANGED timers
         \/ /\ each > 0 /\ n > 0
            /\ Dies(s) /\ UNCHANGED engine
      /\ UNCHANGED <<mastervars, crew, history>>

\* Mutant of TimerFires: the thread was given a copy of the search.
TimerFiresOnCopy(s, k) ==
  /\ k \in timers[s]
  /\ timers' = [timers EXCEPT ![s] = @ \ {k}]
  /\ UNCHANGED <<mastervars, crew, engine, search, history>>

\* A timer wakes and writes to where its search was: past the search, that may be
\* where the present one is, or nowhere that matters.
TimerFires(s, k) ==
  /\ k \in timers[s]
  /\ timers' = [timers EXCEPT ![s] = @ \ {k}]
  /\ IF search[s].stage \in {"first", "loop"}
     THEN \/ search' = [search EXCEPT ![s].playUntilStopped = FALSE]
          \/ k # number /\ UNCHANGED search
     ELSE UNCHANGED search
  /\ UNCHANGED <<mastervars, crew, engine, history>>

SlaveStep(s) ==
  \/ StartUCB(s) \/ FirstPlays(s) \/ SelectCandidate(s) \/ SimulateNext(s) \/ EndUCB(s)
  \/ SimulationThrows(s) \/ MonteCarlo(s)

ListingStep == AddRandomMove \/ SendCommand

Next ==
  \/ SetClock \/ ReportClock \/ NewGame
  \/ ListLocalMoves \/ AddRandomMove \/ SendCommand \/ PickMove
  \/ \E s \in Slaves :
       \/ MergeAnswer(s)
       \/ StartUCB(s) \/ FirstPlays(s) \/ SelectCandidate(s) \/ SimulateNext(s) \/ EndUCB(s)
       \/ SimulationThrows(s) \/ MonteCarlo(s)
       \/ \E k \in 1..MaxSearches : TimerFires(s, k)

Spec == Init /\ [][Next]_vars

\* Threads run and sleeping threads wake up.  Nobody has to ask for a move or to set
\* a clock, and no answer has to arrive.
Fairness ==
  /\ WF_vars(ListingStep)
  /\ \A s \in Slaves :
       WF_vars(SlaveStep(s)) /\ \A k \in 1..MaxSearches : WF_vars(TimerFires(s, k))

FairSpec == Spec /\ Fairness

-----------------------------------------------------------------------------
\* Properties.

Searching(s) == search[s].stage \in {"first", "loop"}

Moves == Points \cup {PassMove}

Clocks == [mainTime : Int, byoyomiTime : Int, byoyomiStones : Nat, isActive : BOOLEAN]

Engines == [aiType : AiType, timeAlloc : Int, simulations : Nat \ {0}, preselRandMoves : Seq(Moves)]

Searches ==
  [stage : {"idle", "asked", "first", "loop", "done", "dead"}, moves : Seq(Moves),
   games : Seq(Nat), wins : Seq(Nat), next : Nat, over : Int, playUntilStopped : BOOLEAN]

TypeOK ==
  /\ config \in Configs
  /\ clock \in Clocks /\ remaining \in Int
  /\ stage \in {"idle", "listing", "waiting"}
  /\ open \subseteq Points /\ wanted \in Nat /\ number \in Nat
  /\ moves \in Seq(Moves) /\ picked \in Moves
  /\ crew \subseteq Slaves
  /\ engine \in [Slaves -> Engines]
  /\ search \in [Slaves -> Searches]
  /\ timers \in [Slaves -> SUBSET (1..number)]
  /\ spare \in [Slaves -> SUBSET (1..number)]

ListedTwice == Cardinality(ToSet(moves)) < Len(moves)

Games(i) == SumFunction([a \in answers |-> a.rows[i].timesPlayed])

\* The number of games a row counts as won.
WinsOf(row) == row.expected.num * (row.timesPlayed \div row.expected.den)
Wins(i)  == SumFunction([a \in answers |-> WinsOf(a.rows[i])])

\* However the answers come in, the master's rows are the games of all the slaves
\* that have answered and the share of them that were won, unless a candidate was
\* listed twice (parseUCBTableString, combineUCBTables).
AnswersArePooled ==
  stage = "waiting" /\ ~ ListedTwice =>
    \A i \in DOMAIN moves :
      /\ ucbTable[i].timesPlayed = Games(i)
      /\ answers # {} => ucbTable[i].expected = Share(Wins(i), Games(i))

\* A timer may fire at any time and still every answer tells of a game for every
\* candidate, the candidates of this command and no others (generateUCBTable).
AnswersCoverCandidates ==
  \A a \in answers :
    /\ [i \in DOMAIN a.rows |-> a.rows[i].pos] = moves
    /\ \A i \in DOMAIN a.rows : a.rows[i].timesPlayed > 0

\* No other candidate won a greater share of its games than the move picked, and a
\* pass is picked when none won any (the loop over ucbTable in generateMove).
BestMovePicked ==
  stage = "idle" /\ answers # {} /\ ~ ListedTwice =>
    IF picked = PassMove THEN \A i \in DOMAIN moves : Wins(i) = 0
    ELSE \E i \in DOMAIN moves :
           /\ moves[i] = picked /\ Wins(i) > 0
           /\ \A j \in DOMAIN moves : Wins(j) * Games(i) <= Wins(i) * Games(j)

\* The time a slave searches is less than the game has left, whatever was set and
\* reported before in this and in other games (GetTimeRemainingForMove, e_useai).
BudgetsWithinClock ==
  \A s \in Slaves :
    Searching(s) /\ clock.isActive /\ engine[s].timeAlloc >= 0 =>
      engine[s].timeAlloc < remaining

\* A search is stopped by its own timer.  That of an earlier one can do it only if
\* that search had no more simulations than candidates, and so ended without
\* (genmoveTimer, which keeps a pointer to it).
StoppedByOwnTimer ==
  \A s \in Slaves :
    /\ \A k \in timers[s] :
         ~ (Searching(s) /\ k = number) => \E j \in spare[s] : j <= k
    /\ Searching(s) /\ ~ search[s].playUntilStopped =>
         \/ engine[s].timeAlloc >= 0 /\ number \notin timers[s]
         \/ \E j \in spare[s] : j < number

\* A search with a time, or with no more simulations than candidates, ends.
StopsByItself(s) ==
  \/ number \in timers[s]
  \/ engine[s].simulations <= Len(search[s].moves)
SearchesEnd == \A s \in Slaves : (Searching(s) /\ StopsByItself(s)) ~> ~ Searching(s)

\* The master finds its candidates when there are enough moves, a pass among them,
\* that are not local answers (getPossibleMoves).
EnoughMoves == Cardinality((open \cup {PassMove}) \ ToSet(moves)) >= wanted
ListsEnd == (stage = "listing" /\ EnoughMoves) ~> (stage # "listing")

\* main.cpp: "-ai { ucb s 1000 r 20 } will run 1000 sims for each child in ucb", and
\* EGTPEngine.h: "Number of simulations that will be run", so that a search by
\* number ends.  Refuted: it raises its number with every simulation.
SearchesByNumberEnd ==
  \A s \in Slaves :
    (Searching(s) /\ config.opt = "s" /\ ~ clock.isActive) ~> ~ Searching(s)
=============================================================================
