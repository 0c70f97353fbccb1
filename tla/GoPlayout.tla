------------------------------ MODULE GoPlayout ------------------------------
(***************************************************************************)
(* The working board of a search (UpperConfidence.cpp, MonteCarlo.cpp,     *)
(* SimpleRandomAI.cpp): one board object, brought back to the game's       *)
(* position for each simulation and then played on at random.              *)
(*                                                                         *)
(* A search runs between two commands, so that the game stands still.      *)
(***************************************************************************)
EXTENDS PlayPolicy

CONSTANT MaxPlayout  \* bound: plays of a simulation (1000 moves in all in the code)

\* A simulation plays at least its candidate.
ASSUME MaxPlayoutAssumption == MaxPlayout \in Nat \ {0} /\ MaxMoves + MaxPlayout <= MaxBlocks

VARIABLES working,  \* workingBoard, or nboard of MonteCarlo; the game itself without a search
          phase,    \* where the search is
          mcColor   \* the colour MonteCarlo searches for, or UCB

playoutVars == <<board, working, phase, mcColor>>

UCB == -1  \* no colour: the search is one of UpperConfidence

PlayoutInit ==
  /\ Init
  /\ working = board
  /\ phase = "idle" /\ mcColor = UCB

\* The game goes on between searches.
GamePlay ==
  /\ phase = "idle"
  /\ \E color \in StoneColors, p \in Positions : PlayStone(color, p)
  /\ working' = board'
  /\ UNCHANGED <<phase, mcColor>>

\* What becomes of a working board that takes the game's moves: the first illegal
\* one throws, and so ends the search.
Replayed(r, next) ==
  /\ working' = r.board
  /\ phase' = IF r.ok THEN next ELSE "failed"
  /\ UNCHANGED board

\* generateUCBTable makes a board and brings it to the position, which no
\* simulation uses.
StartUCB ==
  /\ phase = "idle"
  /\ mcColor' = UCB
  /\ \E c \in StoneColors : Replayed(resetAndReplayMoves(NewBoard(c), board), "search")

\* A simulation begins: the board that the last one left is used again.
StartSimulation ==
  /\ phase = "search" /\ mcColor = UCB
  /\ Replayed(resetAndReplayMoves(working, board), "replayed")
  /\ UNCHANGED mcColor

\* generateMCTable and generateMove of MonteCarlo copy the game, and the first
\* simulation uses the copy.
StartMC ==
  /\ phase = "idle"
  /\ \E color, c \in StoneColors :
       /\ mcColor' = color
       /\ Replayed(copyBoard(board, c), "replayed")

RandomMoves(b, color) ==
  {p \in Positions : IsLegal(b, p, color) /\ ~ IsTrueEye(b, p, BoardColor(color))}

\* getPossibleMoves: local answers, and random moves for the colour of the command.
\* A thousand draws may miss every move, and then give a point off the board.
Candidates(color) ==
  ToSet(FindPossibleLocalMoves(board)) \cup RandomMoves(board, color) \cup {OffBoard}

\* A simulation tries a candidate: for the player whose turn it is on the working
\* board, whatever colour the candidates were found for, or with MonteCarlo for the
\* colour of the command.  An illegal one throws.
PlayCandidate ==
  /\ phase = "replayed"
  /\ \E color \in StoneColors :
       LET player == IF mcColor = UCB THEN working.toPlay ELSE mcColor
       IN  /\ mcColor = UCB \/ color = player
           /\ \E p \in Candidates(color) :
                IF IsLegal(working, p, player)
                THEN working' = Play(working, p, player) /\ phase' = "playout"
                ELSE UNCHANGED working /\ phase' = "failed"
  /\ UNCHANGED <<board, mcColor>>

\* Then it plays at random, but not into true eyes...
PlayoutMove ==
  /\ phase = "playout"
  /\ Len(working.moves) < Len(board.moves) + MaxPlayout
  /\ \E p \in RandomMoves(working, working.toPlay) : working' = Play(working, p, working.toPlay)
  /\ UNCHANGED <<board, phase, mcColor>>

\* ... until a thousand draws have twice found no move, which they may miss even
\* when there is one.  MonteCarlo then resets its board at once.
EndSimulation ==
  /\ phase = "playout"
  /\ IF mcColor = UCB
     THEN phase' = "search" /\ UNCHANGED <<board, working>>
     ELSE Replayed(resetAndReplayMoves(working, board), "replayed")
  /\ UNCHANGED mcColor

\* The search is over when its simulations are, between two of them, and its board
\* goes with it.
EndSearch ==
  /\ \/ phase = "search"
     \/ phase = "replayed" /\ mcColor # UCB
  /\ phase' = "idle" /\ working' = board /\ mcColor' = UCB
  /\ UNCHANGED board

PlayoutNext ==
  \/ GamePlay \/ StartUCB \/ StartMC \/ StartSimulation \/ PlayCandidate
  \/ PlayoutMove \/ EndSimulation \/ EndSearch

PlayoutSpec == PlayoutInit /\ [][PlayoutNext]_playoutVars

-----------------------------------------------------------------------------
\* Whatever a board went through before it was reset, its blocks are the groups on
\* it, its neighbour counters are right, and no stone is lost or made: what
\* reset() leaves behind reaches no further than the liberty counters and what is
\* decided from them (reset, resetAndReplayMoves, AddStone, RemoveStone).
WorkingBoardCoherent ==
  /\ GroupsExactOn(working)
  /\ NeighbourCountsExactOn(working)
  /\ Len(working.moves) =
       Cardinality({p \in Positions : working.stones[p] # NONE})
         + working.bw_prisoners[S_BLACK] + working.bw_prisoners[S_WHITE]

\* GoBoard.h says that reset() is to "Reset the board to a fresh start", so that
\* every simulation starts from the game's position: the same stones, prisoners
\* and ko point, and liberty counters that are right (resetAndReplayMoves).
\* Refuted: the block pointers of the last simulation are still there.
SimulationsStartFromGame ==
  phase = "replayed" =>
    /\ working.stones = board.stones
    /\ working.koPoint = board.koPoint
    /\ working.bw_prisoners = board.bw_prisoners
    /\ LibertiesExactOn(working)

=============================================================================
