----------------------------- MODULE EGTPEngine -----------------------------
(***************************************************************************)
(* The options of a slave's engine (EGTPEngine.cpp), which outlive the     *)
(* command that set them.                                                  *)
(***************************************************************************)
EXTENDS GoTimeHandler, SequencesExt

CONSTANT DefaultSimulations  \* 200 in the code

ASSUME DefaultSimulationsAssumption == DefaultSimulations \in Nat \ {0}

AiType == {"RAN", "MC", "UCB"}

NewEngine ==
  [aiType |-> "UCB", timeAlloc |-> GO_TIME_NOT_ACTIVE, simulations |-> DefaultSimulations,
   preselRandMoves |-> <<>>]

E_randmoves(e, moves) == [e EXCEPT !.preselRandMoves = @ \o moves]

\* e_useai ai [t seconds | s simulations].  What is not given stays as it was, and
\* a random engine takes no arguments.
E_useai(e, ai, opt, value) ==
  [e EXCEPT !.aiType      = ai,
            !.timeAlloc   = IF ai # "RAN" /\ opt = "t" THEN value ELSE @,
            !.simulations = IF ai # "RAN" /\ opt = "s" THEN value ELSE @]

\* Mutant of Answered: the candidates stay.
AnsweredKeepsMoves(e) == e

\* Once it has answered a genmove: a random engine keeps the candidates.
Answered(e) == IF e.aiType = "RAN" THEN e ELSE [e EXCEPT !.preselRandMoves = <<>>]
=============================================================================
