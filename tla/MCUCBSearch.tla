---------------------------- MODULE MCUCBSearch ----------------------------
(***************************************************************************)
(* UCBSearch for TLC: one slave for two commands, or two slaves for one.   *)
(***************************************************************************)
EXTENDS UCBSearch

Config(ai, opt, value, random) == [ai |-> ai, opt |-> opt, value |-> value, random |-> random]

\* By number, one game and three, and without random moves; by time, with two of them;
\* Monte Carlo.
MCConfigs == {Config("UCB", "s", 1, 1), Config("UCB", "s", 3, 1), Config("UCB", "s", 1, 0),
              Config("UCB", "t", 10, 2), Config("MC", "s", 3, 1)}

\* Three games, by number: unless a clock is set, nothing ends the search.
MCByNumber == {Config("UCB", "s", 3, 1)}

\* None, one, and the last liberty of two stones of a block.
MCLocals == {<<>>, <<1>>, <<1, 1>>}
MCNoLocals == {<<>>}
=============================================================================
