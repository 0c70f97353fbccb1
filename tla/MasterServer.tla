---------------------------- MODULE MasterServer ----------------------------
(***************************************************************************)
(* The master of a cluster (MasterServer.cpp, TCPServer.h): the main       *)
(* thread, which generates moves, and the thread of the io_service, which  *)
(* runs every handler, over state that no lock protects.                   *)
(*                                                                         *)
(* A connection is one TCPConnection object: a slave that connects again   *)
(* is a new one, and is in the vector of sockets at most once.  The loops  *)
(* over the sockets take them one by one, in any order, and handlers run   *)
(* between them.                                                           *)
(***************************************************************************)
EXTENDS GoPoint, GoTimeHandler, FiniteSets, Sequences

CONSTANTS Conns,       \* connections that slaves may make
          AiTypes,     \* values of AI_TYPE: a subset of {"UCB", "RAN"} ("MC" is as "UCB")
          Budgets,     \* seconds left for a move, or GO_TIME_NOT_ACTIVE
          Garbles,     \* whether slaves read otherwise than batch by batch
          MaxCommands  \* bound: the last command number

ASSUME ConnsAssumption == IsFiniteSet(Conns)
ASSUME AiTypesAssumption == AiTypes \subseteq {"UCB", "RAN"}
ASSUME BudgetsAssumption == Budgets \subseteq Nat \cup {GO_TIME_NOT_ACTIVE}
ASSUME GarblesAssumption == Garbles \in BOOLEAN
ASSUME MaxCommandsAssumption == MaxCommands \in Nat \ {0}

VARIABLES
  \* Main thread.
  pc,                   \* where generateMove is
  aiType,               \* AI_TYPE, set once by main()
  timeout,              \* polls left before giving up; below zero there is no limit
  left,                 \* sockets that the present loop over them has not come to
  \* Shared by the two threads.
  commandNumber, genmoveResponses, genmoveResponseWait,
  sockets,              \* the connections in the vector
  ucbTable,             \* the answers merged in the table: [conn, cmd]
  bestMove,             \* the answer of a random slave, or NoMove
  \* The io_service thread and what it waits for.
  io,                   \* the handler it is in the middle of
  isOpen,               \* TCPConnection::isOpen
  armed, fired,         \* the drop timer waits; its handler is queued
  reads,                \* reads outstanding on a connection
  \* Slaves, seen from the master.
  link,                 \* state of a connection: see Links
  toSlave,              \* commands under way, in order; 0: the rest of one read in part
  fromSlave,            \* replies under way, in order
  busy,                 \* the number a slave answers under, and how many genmoves it has to
  held,                 \* how many genmoves there are in a slave's buffer
  garbled,              \* a slave has read otherwise than batch by batch
  \* History.
  asked,                \* connections the last command was written to
  spoilt                \* an answer was taken in this round that is not the one answer of a
                        \* slave to its command: before it had its number, or of a garbled slave

mainvars   == <<pc, aiType, timeout, left>>
sharedvars == <<commandNumber, genmoveResponses, genmoveResponseWait, sockets, ucbTable, bestMove>>
iovars     == <<io, isOpen, armed, fired, reads>>
slavevars  == <<link, toSlave, fromSlave, busy, held, garbled>>
history    == <<asked, spoilt>>
vars       == <<mainvars, sharedvars, iovars, slavevars, history>>

NoMove == [conn |-> "nobody", cmd |-> 0]
IoIdle == [stage |-> "idle"]
NotBusy == [cmd |-> 0, runs |-> 0]

\* "gone": the slave closed or lost its end.  "none": it has not connected.
Links == {"none", "up", "gone"}

Replies == [kind : {"ack", "ucbtable", "rand"}, cmd : 0..MaxCommands]
Answers == [conn : Conns, cmd : 1..MaxCommands]

Init ==
  /\ pc = "idle" /\ timeout = -1 /\ left = {}
  /\ aiType \in AiTypes
  /\ commandNumber = 1 /\ genmoveResponses = 0 /\ genmoveResponseWait = FALSE
  /\ sockets = {} /\ ucbTable = {} /\ bestMove = NoMove
  /\ io = IoIdle
  /\ isOpen = [c \in Conns |-> TRUE]
  /\ armed = [c \in Conns |-> FALSE] /\ fired = [c \in Conns |-> FALSE]
  /\ reads = [c \in Conns |-> 0]
  /\ link = [c \in Conns |-> "none"]
  /\ toSlave = [c \in Conns |-> <<>>] /\ fromSlave = [c \in Conns |-> <<>>]
  /\ busy = [c \in Conns |-> NotBusy] /\ held = [c \in Conns |-> 0]
  /\ garbled = [c \in Conns |-> FALSE]
  /\ asked = {} /\ spoilt = FALSE

-----------------------------------------------------------------------------
\* The main thread: generateMove, one action per stretch that the handlers can
\* come between.

\* A poll of the wait loop stands for a second of it; the code polls every 0.1 s.
PollsAllowed(budget) ==
  IF budget = GO_TIME_NOT_ACTIVE THEN budget ELSE budget - GO_TIME_PROCESSING_BUFFER

\* Mutant of StartGenmove: the responses of the last round stay counted.
StartGenmoveKeepsCount ==
  /\ pc = "idle"
  /\ commandNumber < MaxCommands
  /\ genmoveResponseWait' = TRUE
  /\ bestMove' = NoMove
  /\ \E b \in Budgets : timeout' = PollsAllowed(b)
  /\ pc' = "table"
  /\ spoilt' = (io.stage = "count")
  /\ UNCHANGED <<aiType, left, commandNumber, genmoveResponses, sockets, ucbTable, iovars,
                 slavevars, asked>>

\* The response count and the wait flag are reset first, perhaps in the middle of an
\* increment...
StartGenmove ==
  /\ pc = "idle"
  /\ commandNumber < MaxCommands
  /\ genmoveResponses' = 0
  /\ genmoveResponseWait' = TRUE
  /\ bestMove' = NoMove
  /\ \E b \in Budgets : timeout' = PollsAllowed(b)
  /\ pc' = "table"
  /\ spoilt' = (io.stage = "count")
  /\ UNCHANGED <<aiType, left, commandNumber, sockets, ucbTable, iovars, slavevars, asked>>

\* Mutant of NewTable: the table is not emptied.
NewTableKeepsRows ==
  /\ pc = "table"
  /\ pc' = "number"
  /\ UNCHANGED <<aiType, timeout, left, sharedvars, iovars, slavevars, history>>

\* ... then the table, once the candidate moves are found...
NewTable ==
  /\ pc = "table"
  /\ ucbTable' = {}
  /\ pc' = "number"
  /\ UNCHANGED <<aiType, timeout, left, commandNumber, genmoveResponses, genmoveResponseWait,
                 sockets, bestMove, iovars, slavevars, history>>

\* ... and only writeAll gives the command its number.  Without any socket it throws,
\* and the process ends.
WriteAll ==
  /\ pc = "number"
  /\ commandNumber' = commandNumber + 1
  /\ pc' = IF sockets = {} THEN "dead" ELSE "write"
  /\ left' = sockets
  /\ asked' = {}
  /\ UNCHANGED <<aiType, timeout, genmoveResponses, genmoveResponseWait, sockets, ucbTable,
                 bestMove, iovars, slavevars, spoilt>>

\* A command is written and the drop timer set.
Write(c) ==
  /\ isOpen[c]
  /\ asked' = asked \cup {c}
  /\ armed' = [armed EXCEPT ![c] = TRUE]
  /\ toSlave' = IF link[c] = "up" THEN [toSlave EXCEPT ![c] = Append(@, commandNumber)]
                ELSE toSlave
  /\ UNCHANGED <<pc, sockets>>

\* A socket that a timeout closed is dropped.  If it is the only one, the vector is
\* cleared and the loop runs past its end: the process ends.
CleanUp(c) ==
  /\ ~ isOpen[c]
  /\ sockets' = sockets \ {c}
  /\ pc' = IF sockets = {c} THEN "dead" ELSE pc
  /\ UNCHANGED <<asked, armed, toSlave>>

\* The loop of writeAll.  Handlers may accept, count and time out between two sockets.
WriteNext(c) ==
  /\ pc = "write" /\ c \in left
  /\ left' = left \ {c}
  /\ Write(c) \/ CleanUp(c)
  /\ UNCHANGED <<aiType, timeout, commandNumber, genmoveResponses, genmoveResponseWait, ucbTable,
                 bestMove, io, isOpen, fired, reads, link, fromSlave, busy, held, garbled, spoilt>>

StartReads ==
  /\ pc = "write" /\ left = {}
  /\ pc' = "reads"
  /\ left' = sockets
  /\ UNCHANGED <<aiType, timeout, sharedvars, iovars, slavevars, history>>

\* One more read on every socket, on top of those earlier commands left there.
ReadNext(c) ==
  /\ pc = "reads" /\ c \in left
  /\ left' = left \ {c}
  /\ reads' = [reads EXCEPT ![c] = @ + 1]
  /\ UNCHANGED <<pc, aiType, timeout, sharedvars, io, isOpen, armed, fired, slavevars, history>>

StartWait ==
  /\ pc = "reads" /\ left = {}
  /\ pc' = "wait"
  /\ UNCHANGED <<aiType, timeout, left, sharedvars, iovars, slavevars, history>>

\* Mutant of Poll: a step that need not meet zero.
PollByTwo ==
  /\ pc = "wait"
  /\ \/ /\ ~ genmoveResponseWait
        /\ pc' = "pick"
        /\ UNCHANGED timeout
     \/ /\ genmoveResponseWait
        /\ timeout > -1
        /\ timeout' = timeout - 2
        /\ pc' = IF timeout' = 0 THEN "pick" ELSE "wait"
  /\ UNCHANGED <<aiType, left, sharedvars, iovars, slavevars, history>>

\* The loop ends when the flag falls, or when the count hits zero exactly: a count
\* that starts at zero or below never does.
Poll ==
  /\ pc = "wait"
  /\ \/ /\ ~ genmoveResponseWait
        /\ pc' = "pick"
        /\ UNCHANGED timeout
     \/ /\ genmoveResponseWait
        /\ timeout > -1
        /\ timeout' = timeout - 1
        /\ pc' = IF timeout' = 0 THEN "pick" ELSE "wait"
  /\ UNCHANGED <<aiType, left, sharedvars, iovars, slavevars, history>>

\* The best row wins, if any has won a game.  Without one the position is -1,
\* which is a pass for black and an illegal play, hence the end of the process,
\* for white; so is a best move that is not legal.  A random answer always passes
\* or plays.
PickMove ==
  /\ pc = "pick"
  /\ \E color \in StoneColors, found, legal \in BOOLEAN :
        LET some == IF aiType = "RAN" THEN bestMove # NoMove ELSE ucbTable # {} /\ found
            pass == aiType = "RAN" \/ color = S_BLACK
        IN  pc' = IF (some /\ legal) \/ (~ some /\ pass) THEN "idle" ELSE "dead"
  /\ UNCHANGED <<aiType, timeout, left, sharedvars, iovars, slavevars, history>>

MainStep ==
  \/ NewTable \/ WriteAll \/ StartReads \/ StartWait \/ Poll \/ PickMove
  \/ \E c \in Conns : WriteNext(c) \/ ReadNext(c)

-----------------------------------------------------------------------------
\* The io_service thread: one handler at a time, while the process lives.

Alive == pc # "dead"
IoFree == io = IoIdle /\ Alive

\* doAccept, newConnection: the handshake reads in the handler itself, so that
\* the thread waits for the slave and runs nothing else.
Accept(c) ==
  /\ IoFree
  /\ link[c] = "none"
  /\ link' = [link EXCEPT ![c] = "up"]
  /\ io' = [stage |-> "handshake", conn |-> c]
  /\ UNCHANGED <<mainvars, sharedvars, isOpen, armed, fired, reads, toSlave, fromSlave, busy,
                 held, garbled, history>>

\* The buffer of the handshake is not initialized: whatever follows the slave's
\* acknowledgement there may spoil it.  Asking a lost peer for its address, or
\* writing to it, throws, and io_service.run() returns for good.  A connection that is
\* added in the middle of a loop over the vector is taken in by it, or the vector moves
\* and the loop goes on in freed memory, which is the end of the process.
Handshake(c) ==
  /\ io = [stage |-> "handshake", conn |-> c] /\ Alive
  /\ \/ /\ sockets' = sockets \cup {c}
        /\ io' = IoIdle
        /\ IF pc \in {"write", "reads"} THEN left' = left \cup {c} /\ pc' \in {pc, "dead"}
           ELSE UNCHANGED <<left, pc>>
        /\ UNCHANGED link
     \/ /\ io' = IoIdle
        /\ link' = [link EXCEPT ![c] = "gone"]
        /\ UNCHANGED <<sockets, left, pc>>
     \/ /\ io' = [stage |-> "stopped"]
        /\ link[c] = "gone" /\ UNCHANGED <<link, sockets, left, pc>>
  /\ UNCHANGED <<aiType, timeout, commandNumber, genmoveResponses, genmoveResponseWait, ucbTable,
                 bestMove, isOpen, armed, fired, reads, toSlave, fromSlave, busy, held, garbled,
                 history>>

\* Acknowledgements end without a newline: those that have come in are one line with
\* each other and the answer after them, under the number of the first.
IsLine(c, k) ==
  /\ k \in 1..Len(fromSlave[c])
  /\ \A i \in 1..(k - 1) : fromSlave[c][i].kind = "ack"

Line(c, k) == [kind |-> fromSlave[c][k].kind, cmd |-> fromSlave[c][1].cmd]

\* Mutant of Current: an answer to an earlier command will do.
CurrentOrEarlier(m) == m.cmd \in 1..commandNumber

Current(m) == m.cmd = commandNumber

Taken(m) == Current(m) /\ m.kind # "ack"

\* genmoveReadCallback with data, a line at a time: the drop timer is cancelled and not
\* set again; the reply counts if it carries the present number.  A random move behind
\* an acknowledgement is looked for in the wrong place, where there is no row: an
\* exception of the program's own, which nothing in this thread catches.
ReadCallback(c) ==
  /\ IoFree
  /\ reads[c] > 0
  /\ \E k \in 1..Len(fromSlave[c]) :
       LET m      == Line(c, k)
           answer == [conn |-> c, cmd |-> m.cmd]
       IN  /\ IsLine(c, k)
           /\ IF Current(m) /\ m.kind = "ucbtable"
              THEN /\ ucbTable' = ucbTable \cup {answer}
                   /\ io' = [stage |-> "count", seen |-> genmoveResponses]
              ELSE UNCHANGED <<ucbTable, io>>
           /\ IF Current(m) /\ m.kind = "rand" /\ k = 1
              THEN /\ bestMove' = answer
                   /\ genmoveResponseWait' = FALSE
              ELSE UNCHANGED <<bestMove, genmoveResponseWait>>
           /\ pc' = IF Current(m) /\ m.kind = "rand" /\ k > 1 THEN "dead" ELSE pc
           /\ spoilt' = (spoilt \/ (Taken(m) /\ (pc \in {"table", "number"} \/ garbled[c])))
           /\ fromSlave' = [fromSlave EXCEPT ![c] = SubSeq(@, k + 1, Len(@))]
  /\ armed' = [armed EXCEPT ![c] = FALSE]
  /\ UNCHANGED <<aiType, timeout, left, commandNumber, genmoveResponses, sockets, isOpen, fired,
                 reads, link, toSlave, busy, held, garbled, asked>>

\* Mutant of CountResponse: one answer more than there are sockets is awaited.
CountResponseStrictly ==
  /\ io.stage = "count" /\ Alive
  /\ \E n \in {genmoveResponses, io.seen} :
        /\ genmoveResponses' = n + 1
        /\ genmoveResponseWait' = (genmoveResponseWait /\ n + 1 <= Cardinality(sockets))
  /\ io' = IoIdle
  /\ UNCHANGED <<mainvars, commandNumber, sockets, ucbTable, bestMove, isOpen, armed, fired,
                 reads, slavevars, history>>

\* The rest of the handler.  ++genmoveResponses is a read and a write: a reset in
\* between is lost.
CountResponse ==
  /\ io.stage = "count" /\ Alive
  /\ \E n \in {genmoveResponses, io.seen} :
        /\ genmoveResponses' = n + 1
        /\ genmoveResponseWait' = (genmoveResponseWait /\ n + 1 < Cardinality(sockets))
  /\ io' = IoIdle
  /\ UNCHANGED <<mainvars, commandNumber, sockets, ucbTable, bestMove, isOpen, armed, fired,
                 reads, slavevars, history>>

\* Mutant of EmptyReadCallback: it runs although no read is outstanding.
EmptyReadCallbackUnasked(c) ==
  /\ IoFree
  /\ link[c] = "gone" /\ fromSlave[c] = <<>>
  /\ reads[c] > -1
  /\ reads' = [reads EXCEPT ![c] = @ - 1]
  /\ armed' = [armed EXCEPT ![c] = FALSE]
  /\ UNCHANGED <<mainvars, sharedvars, io, isOpen, fired, slavevars, history>>

\* A read that ends without data, because the slave is gone or the socket closed,
\* cancels the drop timer as well, and is not renewed.
EmptyReadCallback(c) ==
  /\ IoFree
  /\ reads[c] > 0
  /\ link[c] = "gone" /\ fromSlave[c] = <<>>
  /\ reads' = [reads EXCEPT ![c] = @ - 1]
  /\ armed' = [armed EXCEPT ![c] = FALSE]
  /\ UNCHANGED <<mainvars, sharedvars, io, isOpen, fired, slavevars, history>>

\* SOCKET_DEFAULT_TIMEOUT seconds pass; cancelling comes too late from here on.
TimerExpires(c) ==
  /\ armed[c] /\ Alive
  /\ armed' = [armed EXCEPT ![c] = FALSE]
  /\ fired' = [fired EXCEPT ![c] = TRUE]
  /\ UNCHANGED <<mainvars, sharedvars, io, isOpen, reads, slavevars, history>>

\* What a slave has to read, to answer and to run again is of no more use once its
\* connection is over: the next one has another buffer.
Over(c) ==
  /\ link' = [link EXCEPT ![c] = "gone"]
  /\ toSlave' = [toSlave EXCEPT ![c] = <<>>]
  /\ busy' = [busy EXCEPT ![c] = NotBusy]
  /\ held' = [held EXCEPT ![c] = 0]
  /\ UNCHANGED garbled

\* handle_timeout drops the socket, and all replies but those that a read has already
\* taken; shutting down a connection the peer has reset throws instead, and the
\* io_service stops.
HandleTimeout(c) ==
  /\ IoFree
  /\ fired[c]
  /\ fired' = [fired EXCEPT ![c] = FALSE]
  /\ \/ /\ isOpen' = [isOpen EXCEPT ![c] = FALSE]
        /\ \E taken \in 0..Len(fromSlave[c]) :
             /\ taken > 0 => reads[c] > 0
             /\ fromSlave' = [fromSlave EXCEPT ![c] = SubSeq(@, 1, taken)]
        /\ Over(c)
        /\ UNCHANGED io
     \/ /\ link[c] = "gone"
        /\ io' = [stage |-> "stopped"]
        /\ UNCHANGED <<isOpen, slavevars>>
  /\ UNCHANGED <<mainvars, sharedvars, armed, reads, history>>

IoStep(c) ==
  \/ Handshake(c) \/ ReadCallback(c) \/ EmptyReadCallback(c) \/ HandleTimeout(c)

-----------------------------------------------------------------------------
\* Slaves, as the master sees them while it lives.  A slave acknowledges what it reads and
\* answers each genmove in it; all under one number, that at the beginning of the read.

Reads(c) == Alive /\ link[c] = "up" /\ busy[c] = NotBusy /\ toSlave[c] # <<>>

\* A read under the number n that makes for so many genmoves, and what is still to read.
Takes(c, n, runs, rest) ==
  /\ toSlave'   = [toSlave EXCEPT ![c] = rest]
  /\ fromSlave' = [fromSlave EXCEPT ![c] = Append(@, [kind |-> "ack", cmd |-> n])]
  /\ busy'      = [busy EXCEPT ![c] = IF runs = 0 THEN NotBusy ELSE [cmd |-> n, runs |-> runs]]
  /\ held'      = [held EXCEPT ![c] = runs]
  /\ UNCHANGED <<mainvars, sharedvars, iovars, link, history>>

\* One batch, and nothing of an earlier one behind it.
SlaveReads(c) ==
  /\ Reads(c) /\ Head(toSlave[c]) # 0
  /\ Takes(c, Head(toSlave[c]), 1, Tail(toSlave[c]))
  /\ UNCHANGED garbled

\* Any other read: the ends of none or of several batches, a part of the next one, and
\* what it leaves in the buffer of a longer read before.  It bears the number of the
\* first batch, or some first digits of it; a rest begins with anything.  A batch comes
\* in two parts at most.
SlaveReadsGarbled(c) ==
  /\ Garbles /\ Reads(c)
  /\ \E ends \in 0..Len(toSlave[c]), cut \in BOOLEAN, rerun \in 0..held[c], n \in 0..MaxCommands :
       LET first == Head(toSlave[c])
           rest  == SubSeq(toSlave[c], ends + 1, Len(toSlave[c]))
       IN  /\ IF cut THEN rest # <<>> /\ Head(rest) # 0 ELSE ends > 0
           /\ first # 0 => IF ends > 0 THEN n = first ELSE n <= first
           /\ Takes(c, n, ends + rerun, IF cut THEN <<0>> \o Tail(rest) ELSE rest)
  /\ garbled' = [garbled EXCEPT ![c] = TRUE]

\* A genmove is answered.  What is left in the buffer between two, or behind the last,
\* is acknowledged.
SlaveAnswers(c) ==
  /\ Alive /\ link[c] = "up" /\ busy[c] # NotBusy
  /\ \E remains \in BOOLEAN :
       LET n       == busy[c].cmd
           answer  == [kind |-> IF aiType = "RAN" THEN "rand" ELSE "ucbtable", cmd |-> n]
           replies == Append(fromSlave[c], answer)
       IN  /\ remains => garbled[c]
           /\ fromSlave' = [fromSlave EXCEPT ![c] =
                IF remains THEN Append(replies, [kind |-> "ack", cmd |-> n]) ELSE replies]
  /\ busy' = [busy EXCEPT ![c] = IF @.runs = 1 THEN NotBusy
                                 ELSE [cmd |-> @.cmd, runs |-> @.runs - 1]]
  /\ UNCHANGED <<mainvars, sharedvars, iovars, link, toSlave, held, garbled, history>>

\* A slave may be lost at any time.
SlaveLost(c) ==
  /\ Alive /\ link[c] = "up"
  /\ Over(c)
  /\ UNCHANGED <<mainvars, sharedvars, iovars, fromSlave, history>>

SlaveStep(c) == SlaveReads(c) \/ SlaveReadsGarbled(c) \/ SlaveAnswers(c)

-----------------------------------------------------------------------------
Next ==
  \/ StartGenmove
  \/ NewTable \/ WriteAll \/ StartReads \/ StartWait \/ Poll \/ PickMove
  \/ CountResponse
  \/ \E c \in Conns :
       \/ WriteNext(c) \/ ReadNext(c)
       \/ Accept(c) \/ Handshake(c) \/ ReadCallback(c) \/ EmptyReadCallback(c)
       \/ TimerExpires(c) \/ HandleTimeout(c)
       \/ SlaveReads(c) \/ SlaveReadsGarbled(c) \/ SlaveAnswers(c) \/ SlaveLost(c)

Spec == Init /\ [][Next]_vars

\* Both threads run, a slave that stays up goes on working, and time passes.
\* Nobody has to connect, to be lost or to ask for a move.
Fairness ==
  /\ WF_vars(MainStep)
  /\ WF_vars(CountResponse)
  /\ \A c \in Conns : WF_vars(IoStep(c)) /\ WF_vars(SlaveStep(c)) /\ WF_vars(TimerExpires(c))

FairSpec == Spec /\ Fairness

-----------------------------------------------------------------------------
\* Properties.

TypeOK ==
  /\ pc \in {"idle", "table", "number", "write", "reads", "wait", "pick", "dead"}
  /\ aiType \in AiTypes
  /\ timeout \in Int
  /\ left \subseteq Conns
  /\ commandNumber \in 1..MaxCommands
  /\ genmoveResponses \in Nat /\ genmoveResponseWait \in BOOLEAN
  /\ sockets \subseteq Conns
  /\ ucbTable \subseteq Answers
  /\ bestMove \in Answers \cup {NoMove}
  /\ io \in {IoIdle, [stage |-> "stopped"]}
            \cup [stage : {"handshake"}, conn : Conns] \cup [stage : {"count"}, seen : Nat]
  /\ isOpen \in [Conns -> BOOLEAN]
  /\ armed \in [Conns -> BOOLEAN] /\ fired \in [Conns -> BOOLEAN]
  /\ reads \in [Conns -> Nat]
  /\ link \in [Conns -> Links]
  /\ toSlave \in [Conns -> Seq(0..MaxCommands)]
  /\ fromSlave \in [Conns -> Seq(Replies)]
  /\ busy \in [Conns -> {NotBusy} \cup [cmd : 0..MaxCommands, runs : Nat \ {0}]]
  /\ held \in [Conns -> Nat] /\ garbled \in [Conns -> BOOLEAN]
  /\ asked \subseteq Conns /\ spoilt \in BOOLEAN

\* What arrives late, what a move is picked from is at most one command old: the
\* number in the reply bounds how stale an answer can be, although the table is
\* emptied before the command gets its number.
AnswersAreRecent ==
  \A a \in ucbTable \cup ({bestMove} \ {NoMove}) : a.cmd >= commandNumber - 1

\* And it is of this command, unless an answer came in between the reset and the
\* number: one that comes later is told by its number, however long ago the round was
\* that did not wait for it (genmoveReadCallback).
OutdatedOnlyBetween ==
  pc = "pick" /\ ~ spoilt =>
    \A a \in ucbTable \cup ({bestMove} \ {NoMove}) : a.cmd = commandNumber

RowOf(c) == [conn |-> c, cmd |-> commandNumber]

\* A search is taken for finished only when every slave then in the vector has answered
\* this command, whoever was dropped, came or answered late meanwhile, and whatever
\* became of the rounds before: unless this round has counted an answer from before its
\* number or of a garbled slave (genmoveResponses against sockets.size()).
CompleteRounds ==
  [][genmoveResponseWait /\ ~ genmoveResponseWait' /\ aiType # "RAN" /\ ~ spoilt
       => \A c \in sockets : RowOf(c) \in ucbTable]_vars

\* A round with time for at least one poll ends, whatever becomes of the slaves.
TimedRoundsEnd == (pc = "wait" /\ timeout > 0) ~> (pc # "wait")

\* No socket of the vector is lost, dropped, garbled or newer than the command.
Undisturbed ==
  /\ io.stage # "stopped"
  /\ \A c \in sockets : link[c] = "up" /\ isOpen[c] /\ c \in asked /\ ~ garbled[c]

\* An answer to this command is still to be counted.
AnswerDue == io.stage = "count" \/ \E c \in sockets : RowOf(c) \notin ucbTable

\* A round without a time limit ends, whoever was dropped from the vector in writeAll,
\* answers late or was cut short before, as long as one of the slaves has not answered
\* when the wait begins: that one's answer is compared with the vector as it then is.
UndisturbedRoundsEnd == (pc = "wait" /\ AnswerDue) ~> (pc # "wait" \/ ~ Undisturbed)

\* MasterServer.h: "All GTP commands are numbered. This is done to prevent acting
\* on outdated commands".  Refuted by a reply that arrives between the reset of
\* bestMove or of the table and the new number.
NoOutdatedAnswer ==
  pc = "pick" => \A a \in ucbTable \cup ({bestMove} \ {NoMove}) : a.cmd = commandNumber

\* TCPServer.h: "Default wait timeout before socket is dropped".  Refuted by a
\* slave that is lost after it was asked: the end of its stream cancels the timer.
LostSlavesDropped ==
  \A c \in Conns :
    (pc = "wait" /\ c \in asked /\ link[c] = "gone")
      ~> (~ isOpen[c] \/ pc = "dead" \/ io.stage = "stopped")
=============================================================================
