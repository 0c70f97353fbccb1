------------------------------- MODULE Slave -------------------------------
(***************************************************************************)
(* A slave (SlaveClient.cpp) between the lines it reads and the answers it *)
(* writes: one buffer for all reads of a connection, one engine for all    *)
(* connections.                                                            *)
(*                                                                         *)
(* A command of the master is a batch of lines, of which the first has the *)
(* command's number.  Lines count for one each in the buffer: how much     *)
(* longer one is than another is a choice, where it matters.  What happens *)
(* in a search is in UCBSearch; here it answers or throws.                 *)
(***************************************************************************)
EXTENDS EGTPEngine, FiniteSets

CONSTANTS AiTypes,      \* what AI_TYPE may be
          BufferLines,  \* lines in a buffer of 1024 bytes
          MaxPlays,     \* bound: plays in a game
          MaxCommands,  \* bound: the last command number
          MaxFaults,    \* bound: lost connections and split batches
          MaxLists      \* bound: lists of candidates, before a write to a lost connection fails

ASSUME AiTypesAssumption == AiTypes \subseteq {"UCB", "RAN"}  \* a subset, as in MasterServer

ASSUME BoundsAssumption ==
  /\ {BufferLines, MaxPlays, MaxFaults, MaxLists} \subseteq Nat
  /\ MaxCommands \in Nat \ {0}

VARIABLES
  \* The slave.
  engine,     \* the options of its EGTPEngine
  game,       \* the plays on its board
  buf,        \* the lines in the buffer
  todo,       \* those of the present input not yet parsed
  number,     \* commandNumber of the present input
  ended,      \* "no", or what ended the process
  \* The connection: "greeting" until the handshake is answered.
  link, wire,
  \* The master.
  ai,         \* AI_TYPE
  given,      \* the last command's number
  plays,      \* the number of plays in the game of a command
  \* History.
  longest,    \* the most lines of a read of this connection
  clean,      \* every read of it was one whole batch, none shorter than another
  answers,    \* what genmoves wrote to the master while that was so
  stale,      \* candidates of a lost connection are still in the engine
  faults

slavevars  == <<engine, game, buf, todo, number, ended>>
linkvars   == <<link, wire>>
mastervars == <<ai, given, plays>>
history    == <<longest, clean, answers, stale, faults>>
vars       == <<slavevars, linkvars, mastervars, history>>

Line(kind, cmd, arg) == [kind |-> kind, cmd |-> cmd, arg |-> arg, part |-> "whole"]
Handshake == Line("e_request", 0, 0)

\* generateMove and generateGTPString: the whole game, and what to do with it.
Batch(n, k) ==
  <<Line("clear_board", n, 0), Line("boardsize", n, 0)>>
    \o [i \in 1..k |-> Line("play", n, i)]
    \o <<Line("e_randmoves", n, 0), Line("e_useai", n, 0), Line("genmove", n, 0)>>

Init ==
  /\ engine = NewEngine /\ game = {}
  /\ buf = <<>> /\ todo = <<>> /\ number = 0 /\ ended = "no"
  /\ link = "greeting" /\ wire = <<Handshake>>
  /\ ai \in AiTypes /\ given = 1 /\ plays = [n \in 1..MaxCommands |-> 0]
  /\ answers = {} /\ longest = 0 /\ clean = TRUE /\ stale = FALSE /\ faults = 0

Running == ended = "no"

-----------------------------------------------------------------------------
\* The master and the network.

\* A command, after the last one or in a new game, whether that was answered or not.
Command ==
  /\ link = "up" /\ given < MaxCommands /\ Running
  /\ given' = given + 1
  /\ \E k \in 0..MaxPlays :
       /\ plays' = [plays EXCEPT ![given'] = k]
       /\ wire' = wire \o Batch(given', k)
  /\ UNCHANGED <<slavevars, link, ai, history>>

\* The connection is lost, or the master drops it; what is under way may be lost too.
Lose ==
  /\ link \in {"greeting", "up"} /\ faults < MaxFaults /\ Running
  /\ link' = "lost"
  /\ wire' \in {wire, <<>>}
  /\ faults' = faults + 1
  /\ UNCHANGED <<slavevars, mastervars, answers, longest, clean, stale>>

-----------------------------------------------------------------------------
\* Reading.

\* The number at the beginning of an input, or 0.  A line cut in two may begin with
\* any number.
NumbersOf(input) ==
  LET first == Head(input)
  IN  CASE first.part = "back"         -> 0..MaxCommands
        [] first.kind = "clear_board"  -> {first.cmd}
        [] OTHER                       -> {0}

\* Mutant of InputNumber: the number of the last line.
InputNumberOfLast(input, n) == n \in NumbersOf(<<input[Len(input)]>>)

InputNumber(input, n) == n \in NumbersOf(input)

\* Only the first line is rid of its number: another that begins with one is skipped.
Numbered(l) == l.kind = "clear_board" /\ l.part # "back"

Parsed(input) ==
  FoldLeft(LAMBDA lines, l : IF Numbered(l) THEN lines ELSE Append(lines, l),
           <<Head(input)>>, Tail(input))

\* What a read of these lines leaves in the buffer: what was there is overwritten
\* and not cleared, so that the rest of a longer input follows, cut anywhere.
Overwritten(lines, from) ==
  lines \o (IF from <= Len(buf)
            THEN <<[buf[from] EXCEPT !.part = "back"]>> \o SubSeq(buf, from + 1, Len(buf))
            ELSE <<>>)

\* The line of the buffer in which a read of these lines ends.  The rest of a line
\* counts for nothing.
Whole(lines) == Cardinality({i \in DOMAIN lines : lines[i].part # "back"})

Ends(lines, shorter) ==
  LET k == Whole(lines)
  IN  IF k > Whole(buf) \/ (k = Whole(buf) /\ ~ shorter) THEN {Len(buf) + 1}
      ELSE {i \in 1..Len(buf) : Whole(SubSeq(buf, 1, i)) \in {k, k + 1}}

\* Mutant of Room: one more than the buffer has.
RoomForOneMore == BufferLines + 1

Room == BufferLines

\* A read takes what has come in, up to the size of the buffer; it ends inside of a
\* batch, or even of a line, when the buffer is full or the network has split it.
Read ==
  /\ Running /\ todo = <<>> /\ link # "down"
  /\ \E k \in 1..Min({Len(wire), Room}), cut, shorter \in BOOLEAN :
       LET taken == SubSeq(wire, 1, k)
           rest  == SubSeq(wire, k + 1, Len(wire))
           lines == IF cut THEN [taken EXCEPT ![k].part = "front"] ELSE taken
           whole == ~ cut /\ lines \in {<<Handshake>>} \cup {Batch(n, plays[n]) : n \in 2..given}
           split == cut \/ (rest # <<>> /\ Head(rest).kind # "clear_board")
       IN  /\ cut => taken[k].part = "whole"
           /\ split => k = Room \/ faults < MaxFaults
           /\ faults' = IF split /\ k < Room THEN faults + 1 ELSE faults
           /\ IF k = longest THEN TRUE ELSE shorter = (k < longest)
           /\ wire' = IF cut THEN <<[taken[k] EXCEPT !.part = "back"]>> \o rest ELSE rest
           /\ \E from \in Ends(lines, shorter) : buf' = Overwritten(lines, from)
           /\ longest' = Max({longest, k})
           /\ clean' = (clean /\ whole /\ ~ shorter)
  /\ \E n \in 0..MaxCommands : InputNumber(buf', n) /\ number' = n
  /\ todo' = Parsed(buf')
  /\ UNCHANGED <<engine, game, ended, link, mastervars, answers, stale>>

\* Mutant of ReadNothing: the handler returns.
ReadNothingReturns ==
  /\ Running /\ todo = <<>> /\ link = "lost" /\ wire = <<>>
  /\ ended' = "unread"
  /\ UNCHANGED <<engine, game, buf, todo, number, linkvars, mastervars, history>>

\* The end of the stream is not looked at: the buffer is parsed once more.  With
\* nothing in it there is no other read, and the process ends.
ReadNothing ==
  /\ Running /\ todo = <<>> /\ link = "lost" /\ wire = <<>>
  /\ IF buf = <<>> THEN ended' = "unread" /\ UNCHANGED <<todo, number>>
     ELSE /\ \E n \in 0..MaxCommands : InputNumber(buf, n) /\ number' = n
          /\ todo' = Parsed(buf)
          /\ UNCHANGED ended
  /\ UNCHANGED <<engine, game, buf, linkvars, mastervars, history>>

-----------------------------------------------------------------------------
\* Parsing a line and writing the answer.

\* Mutant of Restart: the next connection reads into the same buffer.
RestartKeepsBuffer ==
  /\ link' = "down" /\ wire' = <<>>
  /\ todo' = <<>> /\ UNCHANGED buf
  /\ longest' = 0 /\ clean' = TRUE
  /\ stale' = (stale \/ engine'.preselRandMoves # <<>>)
  /\ UNCHANGED <<ended, answers>>

\* A std::exception: a new connection and a new buffer, but the engine as it was.
Restart ==
  /\ link' = "down" /\ wire' = <<>>
  /\ todo' = <<>> /\ buf' = <<>>
  /\ longest' = 0 /\ clean' = TRUE
  /\ stale' = (stale \/ engine'.preselRandMoves # <<>>)
  /\ UNCHANGED <<ended, answers>>

\* Any other exception, or a crash: the process is over.
End(why) ==
  /\ ended' = why /\ todo' = <<>>
  /\ UNCHANGED <<engine, game, buf, linkvars, answers, longest, clean, stale>>

Written(answer) ==
  /\ link = "lost" => Len(engine'.preselRandMoves) <= MaxLists
  /\ todo' = Tail(todo)
  /\ link' = IF link = "greeting" THEN "up" ELSE link
  /\ answers' = IF link = "lost" \/ ~ clean THEN answers ELSE answers \cup answer
  /\ stale' = (stale /\ engine'.preselRandMoves # <<>>)
  /\ UNCHANGED <<buf, ended, wire, longest, clean>>

\* Writing to a lost connection goes well for a time, then throws.
WriteFails == link = "lost" /\ Restart

\* The state after a line that is no genmove.
Effect(l) ==
  CASE l.kind = "clear_board" \/ l.kind = "boardsize" -> game' = {} /\ UNCHANGED engine
    [] l.kind = "play" -> l.arg \notin game /\ game' = game \cup {l.arg} /\ UNCHANGED engine
    [] l.kind = "e_randmoves" -> engine' = E_randmoves(engine, <<l.cmd>>) /\ UNCHANGED game
    [] l.kind = "e_useai" -> engine' = E_useai(engine, ai, "s", l.cmd) /\ UNCHANGED game
    [] l.kind = "e_request" -> UNCHANGED <<engine, game>>
    [] OTHER -> FALSE

\* An answer: the number it bears and what was searched.
Answer(l) ==
  [number |-> number, cmd |-> l.cmd, ai |-> engine.aiType, moves |-> engine.preselRandMoves,
   simulations |-> engine.simulations, game |-> game, stale |-> stale,
   again |-> \E a \in answers : a.number = number]

\* A search clears the board and the candidates once it is over; a random engine
\* keeps both.
Searched ==
  /\ engine' = Answered(engine)
  /\ game' = IF engine.aiType = "RAN" THEN game ELSE {}

\* A search without candidates looks for local answers to the last play, and
\* crashes if there are none.
MaySearch == engine.aiType = "RAN" \/ engine.preselRandMoves # <<>> \/ game # {}
MayCrash  == engine.aiType # "RAN" /\ engine.preselRandMoves = <<>>

ParseLine ==
  /\ todo # <<>>
  /\ LET l == Head(todo)
     IN  /\ l.part # "back" \/ l.kind = "clear_board"
         /\ Effect(l)
         /\ Written({}) \/ WriteFails
  /\ Running /\ UNCHANGED <<number, mastervars, faults>>

Genmove ==
  /\ todo # <<>> /\ Head(todo).kind = "genmove" /\ Head(todo).part # "back"
  /\ MaySearch /\ Searched
  /\ Written({Answer(Head(todo))}) \/ WriteFails
  /\ Running /\ UNCHANGED <<number, mastervars, faults>>

\* An illegal play, an unknown command and a search of nothing.
ParseThrows ==
  /\ todo # <<>>
  /\ LET l == Head(todo)
     IN  \/ l.part # "whole"
         \/ l.kind = "play" /\ l.arg \in game
         \/ l.kind = "genmove" /\ MayCrash
  /\ End("line")
  /\ Running /\ UNCHANGED <<number, mastervars, faults>>

\* A candidate that cannot be played.
SearchThrows ==
  /\ todo # <<>> /\ Head(todo).kind = "genmove" /\ Head(todo).part = "whole"
  /\ engine.aiType = "UCB" /\ engine.preselRandMoves # <<>>
  /\ End("search")
  /\ Running /\ UNCHANGED <<number, mastervars, faults>>

\* Half a line: missing arguments throw a std::exception; a rest that begins with
\* no letter is skipped.
HalfLine ==
  /\ todo # <<>>
  /\ \/ /\ Head(todo).part = "front"
        /\ UNCHANGED <<engine, game>> /\ Restart
     \/ /\ Head(todo).part = "back"
        /\ todo' = Tail(todo)
        /\ UNCHANGED <<engine, game, buf, ended, linkvars, answers, longest, clean, stale>>
  /\ Running /\ UNCHANGED <<number, mastervars, faults>>

\* initSocket tries until the master accepts.
Connect ==
  /\ Running /\ link = "down"
  /\ link' = "greeting" /\ wire' = <<Handshake>>
  /\ UNCHANGED <<slavevars, mastervars, history>>

-----------------------------------------------------------------------------
Next ==
  \/ Command \/ Lose \/ Read \/ ReadNothing \/ ParseLine \/ Genmove \/ ParseThrows
  \/ SearchThrows \/ HalfLine \/ Connect

Spec == Init /\ [][Next]_vars

\* The process runs, connects, and a peer that is gone is noticed in the end.
Fairness ==
  /\ WF_vars(Read \/ ReadNothing \/ ParseLine \/ Genmove \/ ParseThrows \/ SearchThrows
               \/ HalfLine \/ Connect)
  /\ SF_vars((ParseLine \/ Genmove) /\ link' = "down")

FairSpec == Spec /\ Fairness

-----------------------------------------------------------------------------
\* Properties.

Lines == [kind : {"e_request", "clear_board", "boardsize", "play", "e_randmoves", "e_useai",
                  "genmove"},
          cmd : 0..MaxCommands, arg : 0..MaxPlays, part : {"whole", "front", "back"}]

TypeOK ==
  /\ engine.preselRandMoves \in Seq(1..MaxCommands) /\ engine.aiType \in AiType
  /\ game \subseteq 1..MaxPlays
  /\ buf \in Seq(Lines) /\ todo \in Seq(Lines) /\ wire \in Seq(Lines)
  /\ Whole(buf) <= BufferLines
  /\ number \in 0..MaxCommands
  /\ ended \in {"no", "line", "search", "unread"}
  /\ link \in {"greeting", "up", "lost", "down"}
  /\ ai \in AiTypes /\ given \in 1..MaxCommands /\ plays \in [1..MaxCommands -> 0..MaxPlays]
  /\ faults \in 0..MaxFaults

\* As long as the batches of a connection arrive whole, one by one and none shorter
\* than another, a slave answers a command once and with its number, and has
\* searched its candidates, as it was told to, in its position, whatever earlier
\* connections left behind (asyncReadCallback, EGTPEngine::parse).  The exception is
\* a connection that was lost between the candidates and the search.
AnswersAreOfTheirCommand ==
  \A a \in answers :
    /\ a.number = a.cmd /\ ~ a.again
    /\ a.game = 1..plays[a.cmd]
    /\ a.ai = "UCB" => /\ a.simulations = a.cmd
                       /\ a.moves = <<a.cmd>> \/ a.stale

\* No such batch ends the slave, nor does a connection that is lost in the middle of
\* one: only half a line or the rest of a longer batch does (run, asyncReadCallback).
CleanBatchesSurvived == clean => ended # "line"

\* Such a batch is answered, unless the connection is lost or the search throws.
CleanBatchesAnswered ==
  \A n \in 2..MaxCommands :
    (clean /\ link = "up" /\ todo # <<>> /\ Last(todo).cmd = n)
      ~> (link # "up" \/ ended = "search" \/ \E a \in answers : a.number = n)

\* A slave that has read anything, and nothing but whole batches, comes back after its
\* connection was lost (SlaveClient::run, initSocket).
LostSlavesReconnect ==
  (link = "lost" /\ clean /\ buf # <<>>) ~> (link # "lost" \/ ~ clean \/ ended = "search")
=============================================================================
