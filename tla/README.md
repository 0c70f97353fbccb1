# Og-Go A.I. in TLA+

Og-Go A.I. is a Go engine: a board that keeps its blocks and liberties
incrementally, searches that play random games on copies of it, and a master
that spreads a search over slaves on a network. The modules here model the
board, the policy and the working board of a search, the search itself with its
timers and tables, the slave, and the master with its connections; TLC checks
them on small instances. TLAPS proves the rules for every board, that the board engine
implements them on boards of every size, the invariants of a search and of the
board it plays on, and the master's safety for any number of slaves.

Paths are relative to the repository. All sources below are under `src/src/`
unless they say otherwise.

## The system

| Component | State | Operations | What makes it correct |
|---|---|---|---|
| Board engine (`GoBoard`, `GoBlock`, `GoState`) | stones, ko point, prisoners, neighbour counters, block objects and a pointer from each point, list of moves | `Play`, `IsLegal`, `reset`, `copyBoard`, `resetAndReplayMoves` | counters equal what the board shows; it allows and plays the moves of the rules |
| `GoGame`, `GTPEngine` | one board, a time handler | `play`, `clear_board`, `boardsize`, `genmove`, time commands | the game follows the commands, and an illegal one changes nothing |
| `SimpleRandomAI` | none | random legal moves outside true eyes; playouts | a playout is a legal game that ends |
| `UpperConfidence`, `MonteCarlo` | a working board, expected values | simulations by number or until a timer stops them | each simulation starts from the game's position; the search ends |
| `PlayPolicy` | none | local answers: last liberties, hane and cut patterns | candidates are points that can be played; a pattern is found however the board is turned |
| `GoTimeHandler` | main time, byoyomi | updates, budget for a move | budgets fit the time that is left |
| `MasterServer`, `TCPServer` | sockets, command number, table of answers, wait flag, drop timers | `genmove` on all slaves, handlers for connections, answers, timeouts | a move is picked from answers to this command; every round ends |
| `SlaveClient`, `EGTPEngine` | a game, options of the search, read buffer | replay, search, answer, reconnect | every command of a batch is run once; options do not leak between commands |
| `main`, `SGFEngine`, `Log`, `Exception`, `PipeCommunication`, tests, `src/python/DGSDaemon.py` | | start, files, output | not modelled |

How they interact. The user's commands reach the master's main thread, which
runs `generateMove`: it writes the whole game and a `genmove` to every slave and
polls a flag. A second thread runs the io_service: accepting, the handshake,
the answers of the slaves and the drop timers are handlers in it. The two
threads share the sockets, the table, the counters and the flag without a lock.
A slave is one thread that reads a batch, replays the game on a new board and
searches; a timed search has a second thread that sleeps and then stops it.

What is hard here: the bookkeeping of the board, where one counter that is off
by one shows many moves later as a refused or a wrong capture; a board object
that is used again; two threads over the same state; slaves that answer late,
are dropped or lost; rounds that must end anyway. `PROJECT.json` lists these
hazards line by line with the properties that watch them.

## Modules

**GoPoint** has the enumerations. A player's colour and the content of a point
are different enumerations that share the integer 0, as in the code.

**GoRules** is the abstract specification of the board: Go as `Play` and
`IsLegal` decide it, on any finite graph of points, with no bookkeeping. Blocks
are defined as the smallest closed set of stones around a point, liberties from
blocks, suicide, captures and the ko point from liberties. It keeps the code's
own choices: anyone may move, the ko point is closed to both colours, and it is
set when exactly one of the captured blocks is a single stone, whatever else was
captured. Passing is not a play: the command does nothing.

**GoKo** adds the position before the last play as a history variable, to say
what the ko point is for.

**GoBoard** is the engine, as operators on a board record in the order the code
works: `AddStone` updates the neighbour counters, `UpdateBlocks` takes liberties
from the blocks around, makes or joins blocks, then `KillSurroundingDeadBlocks`
removes the dead ones direction by direction. It keeps the code's oddities that
change state: `stones[-1]` is the number of white's prisoners (`GoState.h` has
`bw_prisoners` just before `stones`), and `reset()` clears neither the block
pointers nor the player to move.

**GoGame** is a game on one such board with the commands that change it.
`Rules == INSTANCE GoRules WITH ...` is the refinement mapping: stones, ko point,
prisoners and player are the board's own fields, and the number of plays is the
length of the list of moves. `ImplementsRules` is the abstract specification as
a property.

**PlayPolicy** has the local answers to the last play as operators on a board:
the last liberties of the blocks around it, and the empty points around it that
match one of six patterns in one of eight views. A pattern reads the stones with
plain index arithmetic; `StoneMemory` says what lies there past an edge. The
score of a board is here too.

**GoPlayout** is the life of a search's working board. `UpperConfidence` makes a
board, replays the game, and resets and replays it before each simulation;
`MonteCarlo` copies the game and resets the copy after each. A simulation is one
candidate (a local answer or a random move) and random moves until it may end. An
illegal move on the way throws: phase `failed`.

**GoTimeHandler** is the clock, **EGTPEngine** the options that a slave keeps from
one command to the next, **UCBTable** the tables of results: how a row of a slave
is parsed and merged, and which row is picked. Shares of wins are exact fractions
there.

**UCBSearch** is a search over several slaves, from the list of candidates to the
pick, with messages that arrive. Simulations are a win or none.

| Code | Action |
|---|---|
| `time_settings`, `time_left`, `clear_board`, `boardsize` | `SetClock`, `ReportClock`, `NewGame` |
| `generateMove` and `getPossibleMoves` on the master | `ListLocalMoves`, `AddRandomMove`, `SendCommand`, `PickMove` |
| the merge in `genmoveReadCallback` | `MergeAnswer` |
| `EGTPEngine::parse`, genmove: a new `UpperConfidence`, its timer thread | `StartUCB` |
| `generateUCBTable`: the first plays, the loop, the table | `FirstPlays`, `SelectCandidate`, `SimulateNext`, `EndUCB` |
| an exception in `simulateMove` or `MonteCarlo` | `SimulationThrows`, `MonteCarlo` |
| `generateMCTable` | `MonteCarlo` |
| `genmoveTimer`, `interruptSimulation` | `TimerFires` |

What the loop compares is `totalNumPlayed < numSim`: `over` is their difference,
which a simulation leaves as it is, or takes one from once the search was
interrupted. A timer that outlives its search writes to where that was, which may
be where the present one is: `UpperConfidence` is a local variable of the same
function each time. Which candidate has the greatest upper bound depends on a
logarithm; `Promising` has all those that no other beats in both share and games.

**Slave** is one slave between the lines it reads and the answers it writes. A
batch is a list of lines of which the first has the number; the lines count for
one each against the buffer. Reads take whatever has come in, up to the size of
the buffer, and end inside a batch or a line when it is full or the network split
it; what was in the buffer past the end of a read stays there and is parsed again
(`Overwritten`).

| Code | Action |
|---|---|
| `asyncReadCallback`, the read | `Read`, and `ReadNothing` at the end of the stream |
| its loop over the commands: `egtp.parse`, the write | `ParseLine`, `Genmove`, `HalfLine` |
| an `Exception` or a crash in `parse` | `ParseThrows`, `SearchThrows` |
| `run`'s catch of a `std::exception` | `Restart`, in `WriteFails` and `HalfLine` |
| `initSocket` | `Connect` |
| the master's batches, a lost or dropped connection | `Command`, `Lose` |

**MasterServer** is the master with its two threads. The vector of sockets is a set:
no loop over it depends on its order, and a connection is in it once.

| Code | Action |
|---|---|
| `generateMove`, the resets | `StartGenmove`, then `NewTable` |
| `writeAll`, the number, then its loop over the sockets | `WriteAll`, `WriteNext` (`Write`, `CleanUp`) |
| the loop over `async_read_some` | `StartReads`, `ReadNext` |
| the wait loop | `StartWait`, `Poll` |
| the choice of the best row and the play | `PickMove` |
| `doAccept`, `newConnection`, `doHandshake` | `Accept`, `Handshake` |
| `genmoveReadCallback` | `ReadCallback`, `CountResponse`, `EmptyReadCallback` |
| `startTimeout`, `handle_timeout` | `TimerExpires`, `HandleTimeout` |
| a slave's read, its answers, its loss | `SlaveReads`, `SlaveReadsGarbled`, `SlaveAnswers`, `SlaveLost` |

`StartGenmove` to `StartWait` are separate steps because handlers run between
them, and so are the turns of the two loops over the sockets: an answer may be counted
and compared with the size of the vector when some sockets are written to and a dead
one is not erased yet, and a connection may come in. Which sockets are still to come is
`left`, in any order. A connection that is added inside a loop is taken in by it, or the
vector moves and the iterator is left in freed memory: `Handshake` allows both.
`CountResponse` is a step of its own because `++genmoveResponses` is a read and a write
that the other thread's reset can fall between; the check of the number, the merge and
the random move before it are one step, since the main thread reads nothing of them
before `PickMove`, and writes the table or the number before or after. An answer is a
record of its connection and command number; what it says about moves is a choice in
`PickMove`. `ReadCallback` takes one line: the acknowledgements that have come in, which
end without a newline, with the answer behind them, under the number of the first; a
random move behind an acknowledgement is taken from a fixed place
(`MasterServer.cpp:306`), and the exception ends the process. Several lines that arrive
in one read are several callbacks in a row.

What a slave answers is what `Slave` shows that it may. `SlaveReads` is a read of one
batch: an acknowledgement and one answer under its number. Any other read is
`SlaveReadsGarbled`: the ends of none or of several batches under the number of the
first, a part of one, under some first digits of its number, its rest under whatever it
begins with, and behind any of them genmoves of an earlier, longer batch, which are run
again (`held` is how many there may be). `garbled` remembers the connections that have
had such a read, and `spoilt` that this round has taken an answer of one of them, or one
from before the command had its number; both are history only.

The theorems are in modules of their own: **GoRulesProofs**, **GoKoProofs**,
**GoGameProofs** (with lemmas about the operators of `GoBoard`),
**GoPlayoutProofs** (with those about `PlayPolicy`), **UCBSearchProofs**,
**MasterServerProofs**, **SlaveProofs**, and **FoldTheorems**, which is about no
part of the system but about loops.

**MCGoKo**, **MCGoGame**, **MCUCBSearch** and **MCMasterServer** give the constants
their values; `GoPlayout` and `Slave` need no definitions for theirs.
Definitions named as mutants stand next to what they mutate: each is a plausible
slip in that code that one of the properties below has to notice.

## Runs

| Run | Bounds | What it shows |
|---|---|---|
| `ko_rules` | 3 x 2 points, 8 plays | The properties of the rules before they are proved: `NoDeadBlocks`, `KoPointEnclosed`, `StoneConservation`, `KoPointRecordsCapture`, `KoForbidsRepetition`. The smallest board with a ko, which takes six plays. |
| `game_2x2` | 2 x 2 points, 9 plays, cleared boards | The engine implements the rules (`ImplementsRules`), refuses exactly what they refuse (`LegalMovesAgree`), and its counters and blocks are exact (`LibertiesExact`, `BlocksAreGroups`, `NeighbourCountsExact`). Nine plays on four points are several captures and recaptures of everything. |
| `game_3x3` | 3 x 3 points, five openings, 9 plays in all | The same but for the neighbour counters, where a point has four neighbours: a join of four blocks, two single stones captured at once, a single stone and a block of two captured at once, a ko, a block of six around a stone. On all these boards: the last liberty of a block is the right one or, at an edge, none (`LastLibertyTrue`); a local answer that the player to move may not play is the last liberty of a lost block of his (`UnplayableMovesAreLost`); patterns turn with the board (`PatternsTurnWithBoard`); the score of a settled board is its area (`ScoreIsArea`). |
| `working_board` | 2 x 2 points, games of 5 plays, a candidate and 2 or more random plays, UCB and Monte Carlo | Whatever a working board went through, its blocks are groups, its neighbour counters exact and no stone is lost (`WorkingBoardCoherent`). |
| `working_board_stale` | the same | Refutes `SimulationsStartFromGame`: see below. |
| `search` | 1 slave for 2 commands with clocks of 4 and 10 seconds, or 2 slaves for 1; 2 points and the pass; by number 1 and 3, by time, Monte Carlo; up to 3 games counted | Rows are the games of all the slaves (`AnswersArePooled`) and cover every candidate whenever the timer fires (`AnswersCoverCandidates`); no other candidate won a greater share than the pick (`BestMovePicked`); budgets are less than what the clock has left (`BudgetsWithinClock`); a search is stopped by its own timer, unless an earlier one ended without its timer (`StoppedByOwnTimer`); searches that can end do (`SearchesEnd`), and so do lists that can be filled (`ListsEnd`). |
| `search_by_number` | 1 slave, 1 command of 3 simulations | Refutes `SearchesByNumberEnd`: see below. |
| `slave` | 2 commands, games of 0 to 3 plays, a buffer of 7 lines, 1 lost connection or split batch | As long as batches come whole, one by one and none shorter than another, each is answered once, with its number and from its position and candidates (`AnswersAreOfTheirCommand`, `CleanBatchesAnswered`) and does not end the slave (`CleanBatchesSurvived`), whatever was lost before; and a slave that loses such a connection comes back (`LostSlavesReconnect`). |
| `master_rounds` | 2 slaves for 2 rounds or 1 for 4, batch by batch, or for one round and two with any reads; budgets: none, one poll | A search is taken for finished only when all the slaves in the vector have answered this command (`CompleteRounds`), with slaves joining, late, lost and dropped at any step, whatever became of the rounds before. What a move is picked from is of its command, unless it came between the reset and the number (`OutdatedOnlyBetween`), and never more than one command old (`AnswersAreRecent`). |
| `master_live` | 2 slaves, 2 rounds, batch by batch, of which the first may have one poll | A round with time for a poll ends, whatever becomes of its slaves in the wait (`TimedRoundsEnd`). A round without a limit ends, although sockets were dropped in `writeAll`, answers are late and the round before was cut short, as long as one slave has not answered when the wait begins and none of the vector is lost, dropped or new (`UndisturbedRoundsEnd`). |
| `master_outdated` | 2 random slaves, 2 rounds | Refutes `NoOutdatedAnswer`. |
| `master_lost` | 1 slave, 1 round | Refutes `LostSlavesDropped`. |

`MaxMoves`, `MaxBlocks`, `MaxPlayout` and `MaxCommands` are bounds of the models (the
code has arrays of 1000 for the first three and an `int` for the last). The first
command is number 2, so `MaxCommands = 3` is two rounds. `master_rounds` has four rounds
for one slave, because with two no answer could be older than one command; its
constraint (`MCRounds`) stops two slaves after two, and slaves that have read otherwise
than batch by batch after half of that, in searches and with two replies under way at
most; of two slaves only the first round has a limit (`MCLimitFirst`), and none if they
are garbled. Beyond these bounds garbled reads are left to the proofs. A budget that
starts at zero polls is left out: to the safety properties it is none. A batch comes in
two parts at most, for any smaller number may stand for what a part bears. In
`master_live` the connections are called in the order they come (`MCInOrder`, a
renaming). Its `MCOneStays` leaves out the states, but for a wait with a limit, in which
no connection is or may come to be of use: a round there has only sockets that are lost
or about to be dropped, so that nothing is lost of `UndisturbedRoundsEnd`. The second
round has no limit (`MCLimitFirst`): what the first one adds to it are late answers and
a drop timer. With one slave and two commands `search` has a timer that outlives its
search; with two slaves it has tables to pool; three games tell a weighted mean from
another. `MaxGames` stops the counting of games and not the search. In `slave`, batches
have five to eight lines, so that the longest does not fit the buffer and is split;
`MaxFaults` bounds what the network does by itself, `MaxLists` how often a random slave
may repeat a lost batch before a write fails. `game_2x2` and `game_3x3` view a board
without the contents of its list of moves, which no play reads. The connections are
symmetric in `master_rounds`, which checks safety only. Deadlock is not checked: games
end at their bound, the master may die or wait for slaves that never come, a search may
have failed, and a slave may have ended.

Fairness, for `master_live` and `master_lost`. The main thread and the io thread
are threads of the operating system, each of which runs when it can: weak
fairness of `MainStep`, `CountResponse` and of the handlers of each connection,
which the io_service queues. A slave that stays connected goes on reading and
answering (`SlaveStep`), and a timer that is armed expires (`TimerExpires`).
Completing the handshake is part of it: a slave that connects and then says
nothing stops the io thread, and only rounds with a limit end then. Nothing makes
a user ask for a move, a slave connect, or a slave be lost.

For `search` and `search_by_number`: the master's main thread, each slave's thread
and each sleeping timer go on (weak fairness of `ListingStep`, `SlaveStep`,
`TimerFires`). Nobody has to ask for a move, and no answer has to arrive.
`AddRandomMove` needs no strong fairness: the draws are abstracted to the one that
finds a new move, and where there is one it is found with probability one. For
`slave`: the process goes on (weak fairness of its steps), and a connection that is
lost is noticed in the end by a write that fails; a slave writes only now and then,
so that this is strong fairness.

### What the code does otherwise than it says

* `reset()` is to "Reset the board to a fresh start" (`GoBoard.h:93`) but leaves
  `State.blockPointers`. Replaying black's three stones around a corner of 2 x 2
  points a second time gives their block two liberties where it has one
  (`working_board_stale`). Every simulation of a search but the first of a fresh
  board is affected. `WorkingBoardCoherent` shows how far it goes: liberty
  counters, and what is decided from them.
* "All GTP commands are numbered. This is done to prevent acting on outdated
  commands" (`MasterServer.h:54`), but the number is advanced in `writeAll`, after
  `bestMove` and the table are reset. With two random slaves the slower one's
  answer can arrive in between and is played as the next move
  (`master_outdated`). `AnswersAreRecent` shows that it can be one command old
  and no older, and `OutdatedOnlyBetween` that it is one only if it arrived in between.
* A socket is to be dropped after a "Default wait timeout" (`TCPServer.h:12`), but
  the end of a lost slave's stream is taken for a sign of life and cancels the
  timer. The socket stays, and a round without a limit waits for it forever
  (`master_lost`).
* "`-ai { ucb s 1000 r 20 }` will run 1000 sims for each child in ucb"
  (`main.cpp:44`), but `generateUCBTable` raises its number of simulations by one
  with each, as long as no timer has interrupted it (`UpperConfidence.cpp:138`), and
  by number there is no timer. With more simulations than candidates the search
  never ends (`search_by_number`).

Seen while modelling, without a run of their own, because they are about text or
because no line of the repository promises otherwise:

* `PlayPolicy.h` draws Hane 2 with an empty point below and Hane 3 with one for black
  on the left; the code does not look at the first and wants a stone at the second.
  The drawings of what Cut 1 excludes have empty points that the code does not ask
  for.
* The processing buffer is "Currently not used" (`GoTimeHandler.h:17`);
  `MasterServer.cpp:213` uses it. A budget of less than its five seconds is negative:
  -1 means no timer, and the rest sleeps for more than a century. `SearchesEnd` is
  about the others.
* Slaves with a clock search for exactly as long as the master waits, so that all of
  their answers may be late.
* `genmoveResponses` is the "Number of slaves that has returned a response"
  (`MasterServer.h:51`) but counts answers. A slave whose batch is shorter than the one
  before, as after `clear_board`, runs the rest of the longer one as well and answers
  twice under the present number (`SlaveClient.cpp:95`); a late answer to the last
  command may be counted after the reset, before its rows are dropped with the table, and
  a reset that falls into the increment is lost (`MasterServer.cpp:300`). Such a round may
  end before all slaves have answered: these are the rounds that `CompleteRounds` exempts
  (`spoilt`). It shows that nothing else but a time limit ends a round early, and that
  the next one is exact again.
* An answer that is counted while `writeAll` has not come to a dropped socket is compared
  with a vector that still has it (`MasterServer.cpp:301`). If it is the last answer, the
  comparison is never repeated, and a round without a limit waits forever although all
  its slaves have answered; so does one that is joined by a slave after the last
  command was written. `UndisturbedRoundsEnd` is about rounds in which an answer is
  still due when the wait begins.
* All that is left of a byoyomi period is the budget of the next move.
* An unknown AI type such as `ran` is UCB to the master (`main.cpp:115`) and random
  to the slaves.
* A pass is a candidate like any other when the draws find no move
  (`SimpleRandomAI.cpp:44`), and a last liberty is one if either colour may play
  there (`PlayPolicy.cpp:47`). Every slave that simulates such a candidate throws
  and ends (`SimulationThrows`).
* A pass does not change the player to move (`SimpleRandomAI.cpp:61`): both passes
  that end a playout are those of one player, and the other may have moves.

## Proofs

`GoRulesProofs` proves, for every finite graph of points with a symmetric and
irreflexive adjacency (`PointsAssumption`, `NeighboursAssumption`) and every
bound on the number of plays:

| Theorem | Property |
|---|---|
| `TypeCorrect` | `Spec => []TypeOK` |
| `BlocksLive` | `Spec => []NoDeadBlocks` |
| `KoEnclosed` | `Spec => []KoPointEnclosed` |
| `StonesConserved` | `Spec => []StoneConservation` |

and `GoKoProofs`, from the same assumptions:

| Theorem | Property |
|---|---|
| `KoRecorded` | `KoSpec => [](TypeOK /\ KoPointRecordsCapture)` |
| `KoRule` | `KoSpec => KoForbidsRepetition` |

The argument. Lemmas first: the block of a stone contains it, has one colour, is
closed under adjacency, and is the same for each of its stones; so the blocks of
a position partition its stones. `NoDeadBlocks` is inductive with `TypeOK`: a
block without liberties after a play either was next to the point played, and
then is captured or contains the stone played, which `IsSuicide` excludes, or was
not, and then kept the liberties it had; removing stones only adds liberties.
`KoPointEnclosed` is inductive with `TypeOK` alone: a captured block of one stone
has no liberty and no neighbour of its own colour, so all its neighbours are the
captor's, and they stay. `StoneConservation` counts: a play adds a point that was
empty, and the captured stones are on the board before they are prisoners.
`KoRule` follows from `KoRecorded`: a play that brings back the previous position
must put a stone where exactly one was taken, which is the ko point, and `IsLegal`
refuses it. So it needs the history that `KoRecorded` ties to the ko point, and
does not hold of `TypeOK` alone.

`MasterServerProofs` proves, for every finite set of connections, any AI types and
budgets, and every bound on the commands (`ConnsAssumption`, `AiTypesAssumption`,
`BudgetsAssumption`, `MaxCommandsAssumption`), whether slaves read batch by batch or not:

| Theorem | Property |
|---|---|
| `TypeCorrect` | `Spec => []TypeOK` |
| `RecentAnswers` | `Spec => []AnswersAreRecent` |
| `OutdatedBetween` | `Spec => []OutdatedOnlyBetween` |
| `RoundsComplete` | `Spec => CompleteRounds` |

The argument. `TypeOK` needs `NumberLeft` beside it: a command that was begun finds
a number. `AnswersAreRecent` is not inductive, because `WriteAll` raises the number:
`RecentInv` adds that from the moment the table is emptied, and the best move reset,
whatever is in them bears the number of before or a later one (`FreshUntilNumbered`), so
that it is one short of the new number at most, and that in a round that is not `spoilt`
there is nothing in them until the number is there (`NothingBetween`), which is
`OutdatedOnlyBetween` once it is.

`CompleteRounds` takes three invariants. `VectorInv` says that whoever was asked is in
the vector, and who is still in `left` was not asked. `QueueInv` is about a connection that
is not garbled (`SlaveInv`): no number in its queues is greater than the present one, an
acknowledgement is followed by the answer it belongs to (`Orderly`), so that a line has the
number of its answer, and there is at most one answer to the present command that it owes:
to be read, being worked on, or on its way back. `RoundInv` is about a round that is not
`spoilt`: until the command has its number nothing is counted (`RoundNotBegun`); from then
on the rows of the table are of connections that were asked, whoever still owes an answer
has none there, and the count is the number of rows, or one less in the middle of the
handler (`RoundOn`). So when the flag falls there are as many rows as sockets, all of them
of sockets that were asked, and that these are all the sockets is a matter of cardinalities
(`TableFull`, `FlagFallsInCount`). In a search no random move lowers the flag
(`NoRandomMove`). None of this needs the rounds before to have ended well: each begins anew
with the reset, but for an increment that the reset falls into, which spoils it.

Most proofs about loops use `FoldTheorems`: for a loop over a sequence, written as
`FoldLeft`, what holds of the start and is kept by each step holds of the result
(`FoldInvariant`). The step and what it keeps are constants of the module, so that it
needs no theorem with an operator parameter: every loop is an instance of it. The
induction inside is on the least number of elements after which it would not hold.

`GoGameProofs` proves, for a board of any size the code has room for
(`BoardSizeAssumption`, 2 to 19) and any bound on plays for which there are block
objects (`MaxMovesAssumption`):

| Theorem | Property |
|---|---|
| `TypeCorrect` | `Spec => []TypeOK` |
| `CountsExact` | `Spec => []NeighbourCountsExact` |
| `GroupsExact` | `Spec => []BlocksAreGroups` |
| `CountedLibertiesExact` | `Spec => []LibertiesExact` |
| `LegalityAgrees` | `Spec => []LegalMovesAgree` |
| `EngineImplementsRules` | `Spec => ImplementsRules` |
| `EngineKeepsRules` | `Spec =>` the rules' `[]NoDeadBlocks`, `[]KoPointEnclosed`, `[]StoneConservation` |

The argument. None of these is inductive alone: what a play does to the stones is
decided by liberty counters, the counters are kept by walking the lists of stones,
and the lists are found through the pointers. So `GameInv` has `Coherent`, all of
this at once: the neighbour counters are exact; a point has a pointer just if it has
a stone, to the block object whose stones are its group in the sense of the rules;
every block object is either unused, with nothing in it, or lists the stones that
point to it once each, has one of them as its anchor and their number of liberties;
and the objects not handed out yet are unused. `GameInv` adds that there are no more
block objects handed out than plays, so that one is left for each play. TLC checked
`GameInv` on the instance of `game_2x2` before it was proved.

A play leaves `Coherent` at once and comes back to it in the order of the code, and
there is a lemma for each step on the way: the stone and the counters are
put (`Put`), the blocks around lose a liberty (`Lost`), the stone gets an object of
its own or is taken into a friend's and the other friends are joined into it
(`Taken`, `Settled`), and the dead blocks around are removed direction by direction.
The loops over directions are unrolled; those over the stones of a block are folds
with the invariants `Imported`, `Joined`, `Cleared` and `Killed`. The last of these
is where the counters meet the rules: which groups are captured is what the liberty
counters say, one after another, while those removed before give liberties back,
and it is all the groups that the rules capture together. The geometry (that a step
in a direction and back is none, and that the four neighbours differ) is arithmetic
over the sizes. It also discharges the assumptions of `GoRules`, so that its
theorems can be used for the engine: `EngineKeepsRules` has them by the refinement.

`UCBSearchProofs` proves, for any set of slaves, candidates, clocks and options of a
search that can be given (`CrewsAssumption`, `LocalsAssumption`, `ClockAssumption` and so on of `UCBSearch`;
`ConfigsAssumption` says that the options are of the types of `EGTPEngine`):

| Theorem | Property |
|---|---|
| `TypeCorrect` | `Spec => []TypeOK` |
| `AnswersCover` | `Spec => []AnswersCoverCandidates` |
| `Budgets` | `Spec => []BudgetsWithinClock` |
| `OwnTimers` | `Spec => []StoppedByOwnTimer` |
| `Pools` | `Spec => []AnswersArePooled` |
| `BestPicked` | `Spec => []BestMovePicked` |

The argument. `TypeOK` needs to know in which stage a search has which tables:
`TypeInv` adds `SearchesKept`, which follows a slave's search from the candidates it
was given through the first plays (those before `next` have a game) to the loop (all
have), and `TableOfMoves`, that the master's rows are its candidates in their order,
for the merge. An answer covers the candidates because the first plays are not
interrupted by a timer. `ClockInv` says that a budget is computed from what the clock
still has, and `TimersKept` that a timer is the present search's own or was left by an
earlier one that is remembered in `spare`, and that an uninterrupted loop has as far
to go as when it began.

The tables the master merges answers into are what `PoolInv` is about: an answer that
came is of a slave that has done with this command, so that the next one is a new
element of the set that `Wins` and `Games` sum over (`AnswersKept`), and a row is the
share and the number of the games in all the answers (`TablePooled`), which has to hold
beyond the round, until candidates are listed again. It is kept because candidates that
are not listed twice are parsed as they were sent and each row meets only its own
(`ParsedAsSent`, `CombinedWithItsOwn`, both with the fold of `FoldTheorems`), and because
shares weighted by their games make the share of the sums: `Share` is the fraction with
the least denominator, and a share of a multiple is the same share (`ShareOfMultiple`,
`RowsCombine`). For the pick, one of finitely many shares is the greatest
(`GreatestFraction`), so that the best rows are none only when nothing was won; a pass
wins nothing, because the slaves never play one out. TLC checked `TypeInv`, `AnswersInv`
and `PoolInv` on the instance of `search` before they were proved. Shares are exact here;
of floats the two theorems say nothing.

`GoPlayoutProofs` proves, for the same boards and for any bound on a simulation's
plays (at least its candidate) for which there are block objects
(`MaxPlayoutAssumption`):

| Theorem | Property |
|---|---|
| `WorkingBoardKept` | `PlayoutSpec => []WorkingBoardCoherent` |
| `PatternsTurn` | `Spec => []PatternsTurnWithBoard` |
| `ScoresArea` | `Spec => []ScoreIsArea` |

The argument. The working board is where `Coherent` fails: after `reset()` an empty
point may point to any object, so that a liberty is taken for counted when it is not,
or the other way round (`working_board_stale`), blocks are captured that have
liberties, and others stay that have none. What survives is `Grouped`: the pointers of
*stones* lead to objects, the stones that point to one object are one group of the
board or none, the object lists just these and has one of them as its anchor, and
the neighbour counters are exact. It is inductive because nothing of it is decided by
a liberty counter: whichever block is removed, it is a whole group
(`BlockNotRemoved`), and an empty point is given a pointer before it is read as a
stone's. Each step of a play has a lemma for `Grouped` beside the one for `Coherent`
(`SettledInIs`, `ClearedInIs`, `StrikesIs`), and so has the fold of a replay
(`ReplayIsFit`), which may stop at an illegal move and leave the board there. `Fit`
adds what the rest of the search needs: as many moves as stones and prisoners, and no
more block objects handed out than moves, so that `reset()`, which clears the objects
up to `blockPointer`, leaves none with stones in it (`ResetIsFit`). `SearchInv` is
`Fit` of both boards, with the lengths of their lists of moves by phase. TLC checked it
on the instance of `working_board` before it was proved.

`PatternsTurn` is arithmetic on rows and columns: a turn exchanges a step along a row
and one along a column, a mirror reverses one of them, so that each of the eight views
of a point goes to a view of its image (`Views`), and off the edges no pattern looks
past the board. `ScoresArea` follows from the types of `GameInv`: on a settled board
the points that `GetScoreInternal` counts for black are black's territory, and with
just one white prisoner the border of white's as well.

`SlaveProofs` proves, for a buffer of any size and any numbers of commands, plays,
lost connections and split batches (`BoundsAssumption`, `AiTypesAssumption`,
`DefaultSimulationsAssumption` of `EGTPEngine`):

| Theorem | Property |
|---|---|
| `TypeCorrect` | `Spec => []TypeOK` |
| `AnswersCorrect` | `Spec => []AnswersAreOfTheirCommand` |
| `CleanBatchesHarmless` | `Spec => []CleanBatchesSurvived` |

The argument. `TypeOK` needs to know what lines there are: a candidate is the number
of a command because every line but the handshake bears one (`Sent`), and halving a
line keeps it. That the buffer never holds more than it has room for is about lines
that end somewhere in what is overwritten: `OverwrittenIs` counts those of a read and
those that stay behind it, over all the places where the read may end (`Ends`).

Neither of the other two is inductive: they say nothing of what is still to be
parsed, read or sent. `SlaveInv` follows a batch all the way, as long as the
connection is clean. On the wire are batches with growing numbers (`WireClean`). In
the buffer is one batch or the handshake, older than all on the wire, and so is every
answer (`BufferClean`): so an answer is the only one to its command. To be parsed is
the rest of that batch after the first *p* lines, and what these have done is
`Progress`: after *p* of them the game has the plays 1 to *p - 2*, the candidates are
there from the line that brings them, the options from the next one (`TodoClean`).
With all lines but the genmove done, `Progress` is what the answer must say, and no
line before it can be a play of a point already played, or a search of nothing, which
is what ends the process. A connection that is lost in the middle of a batch leaves
the engine as it is; the next batch clears the board but not the candidates, so
`Progress` begins with none of them (`Fresh`) unless they are remembered as `stale`,
or a random engine keeps them. A read keeps the connection clean only if none before
was longer, so that it overwrites all of the buffer, which is why `BufferClean` has
the length of the longest (`ReadClean`); at the end of the stream the same batch is
parsed once more from its beginning (`ReadNothingKeeps`), which answers nobody. That
a whole batch is parsed line by line, skipping none, is a fold (`ParsedIs`). TLC
checked `SlaveInv` on the instance of `slave` before it was proved.

Only model-checked. The other properties of the policy: `LastLibertyTrue` and
`UnplayableMovesAreLost` go through sequences that are
flattened or selected from, which takes an induction over data. Liveness under fairness
is out of the prover's reach for good. Sockets are a set in `MasterServer` partly for
the proofs.

## Left out

* Undefined behaviour. `blockPointers[-1]` is padding of `GoState` and taken for
  no block; the constructor's `reset()` reads `blockPointer` and `movePointer`
  before they are set, and a fresh board's block pointers are unset, all taken for
  zero. The freed buffer of `async_write_some` is not modelled. The uninitialized
  handshake buffer is: a handshake may fail. So is the vector of sockets that grows inside
  a loop over it: the loop goes on, or the process ends. That a thread reads the size of
  the vector in the middle of a change is not: it reads the one before or after.
* The player to move on a board never played on is what the memory holds: a
  choice.
* `boardsize` to another size: `BoardSize` is a constant. A point off the board in
  `play` on a board smaller than 19 x 19: columns are checked against the largest board
  only (`GTPEngine.cpp:182`), so that one beyond the edge is a point of the next row
  (`GoBoard.cpp:495`), which `PlayStone` has as a play of that point; what lies beyond the
  last row is refused as illegal and changes nothing.
* The text of replies: an answer longer than the master's buffer of 1024 bytes, which
  arrives as several lines.
* Undefined behaviour of `PlayPolicy` and `SlaveClient`: what lies above the stones of
  a board smaller than 19 x 19 is taken for no colour, what lies before them is an
  object's pointer and taken for none; a read that fills the buffer leaves no
  terminator, and its length is taken for 1024.
* `TestEdge` of `PlayPolicy`, and `generateMove` of `UpperConfidence` and
  `MonteCarlo`, which nothing calls; the AI type `uct`, which no search implements; a
  handshake of another version, which no master sends.
* Shares of wins as floats, printed with six digits on their way to the master.
* The board that the picked move is played on, and a user's commands between
  searches that change it: `GoGame` has them without the master.
* Display, files, logs, options, the Python daemon.

## Plan

1. **Composition** of `MasterServer` and `Slave`, with an abstract specification of a
   round: asked, answered, picked. Both abstract the other by what it may do; the
   product of their states is the obstacle.
2. **Proofs**: `LastLibertyTrue`, once selections from a list can be reasoned about without an
   induction of their own (`FoldTheorems` is a way).
3. **Larger boards** for `PlayPolicy`: on 3 x 3 points only the middle has no edge.
