--------------------------- MODULE MCMasterServer ---------------------------
(***************************************************************************)
(* MasterServer for TLC.  The connections are alike, so that invariants    *)
(* need only one of every two permutations of them.                        *)
(***************************************************************************)
EXTENDS MasterServer, TLC

\* No time limit, or that and one poll.
MCUntimed == {GO_TIME_NOT_ACTIVE}
MCUntimedOrOnePoll == MCUntimed \cup {GO_TIME_PROCESSING_BUFFER + 1}

\* The first round may have a limit, so that its answers are late in the second.
MCLimitFirst == commandNumber > 2 => timeout <= 0

\* Two rounds of two slaves and four of one, which read batch by batch; otherwise one
\* search of two without a limit and two of one, with few replies under way.
MCRounds ==
  LET slaves == Cardinality({c \in Conns : link[c] # "none"})
  IN  /\ commandNumber <= (IF slaves > 1 THEN 3 ELSE 5)
      /\ slaves > 1 => MCLimitFirst
      /\ (\E c \in Conns : garbled[c]) =>
           /\ aiType # "RAN" /\ slaves + commandNumber <= 4 /\ (slaves > 1 => timeout < 0)
           /\ \A c \in Conns : Len(fromSlave[c]) <= 2

\* Outside a wait with a limit, some connection is or may come to be of use: without one
\* no round stays undisturbed for ever.
MCOneStays ==
  \/ pc = "wait" /\ timeout > 0
  \/ /\ pc # "dead" /\ io.stage # "stopped"
     /\ \E c \in Conns : link[c] # "gone" /\ isOpen[c] /\ ~ fired[c]

\* The first connection is called c1: any behaviour is one of these, renamed throughout.
MCInOrder == link["c1"] = "none" => \A c \in Conns : link[c] = "none"

MCSymmetry == Permutations(Conns)
=============================================================================
