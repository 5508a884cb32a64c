---------------------------- MODULE NBoardMatch -----------------------------
(***************************************************************************)
(* One game of the match runner (run_game, core.cpp) with players that are *)
(* NBoard engines in processes of their own (ExternalNBoardPlayer,         *)
(* external_player.cpp; ProcessClient, process_client.cpp): the runner and *)
(* up to two engines, each a process, and two pipes for each engine.       *)
(*                                                                         *)
(* The operating system is modelled as far as the code leans on it: a pipe *)
(* keeps lines in order and loses none; writing to a pipe nobody can read  *)
(* raises SIGPIPE, which the runner neither ignores nor handles; SIGTERM   *)
(* ends an engine.  A line is read whole: how it is cut into reads, the    *)
(* 200 ms slices of a wait and the clock are left out, and a deadline may  *)
(* pass whenever the engine is late.                                       *)
(***************************************************************************)
EXTENDS NBoardEngine

CONSTANTS
  Externals,      \* which sides may be played by engine processes: sets of sides
  Openings,       \* the moves of the openings, as parse_opening_line takes them
  AskedDepth,     \* ExternalEngineConfig::depth
  MaxTurns,       \* 200 in the code, more than 60 moves and as many passes
  Faults          \* of "nostart", "slow", "hang", "crash": what may go wrong

PlayerSides == {"Black", "White"}
NoSide == "none"

ASSUME MatchAssumption ==
  /\ Externals \subseteq SUBSET PlayerSides
  /\ \A o \in Openings : o \in Seq(Squares)
  /\ AskedDepth \in Nat \ {0}
  /\ MaxTurns \in Nat /\ \A p \in Positions : MaxTurns > 2 * Empties[p]
  /\ Faults \subseteq {"nostart", "slow", "hang", "crash"}

VARIABLES
  runner,       \* the match runner: the game, and where it is
  client,       \* for each engine: its ProcessClient
  engine,       \* for each engine: its process
  toEngine,     \* for each engine: the pipe to its stdin
  fromEngine    \* for each engine: the pipe from its stdout

vars == <<runner, client, engine, toEngine, fromEngine>>

(***************************************************************************)
(* Openings: forced passes are made but not written down.                  *)
(***************************************************************************)
OpeningPly(p, m) ==
  LET q == IF Moves[p] = {} THEN Pass[p] ELSE p
  IN  IF ~Terminal(p) /\ m \in Moves[q] THEN {Play[q][m]} ELSE {}

\* parse_opening_line: where an opening leads, if it is accepted.
OpeningBoard(opening) ==
  LET at[i \in 0 .. Len(opening)] ==
        IF i = 0 THEN {Initial} ELSE UNION { OpeningPly(p, opening[i]) : p \in at[i - 1] }
  IN  at[Len(opening)]

SideToMove(p) == IF Side[p] THEN "Black" ELSE "White"

NoEngine == [status |-> "none", state |-> NewEngine]

Init ==
  /\ \E o \in Openings : \E p \in OpeningBoard(o) : \E x \in Externals :
       runner = [pc |-> "start", external |-> x, board |-> p, moves |-> o, turn |-> 0,
                 error |-> "none", peer |-> NoSide, todo |-> << >>, next |-> "start"]
  /\ client = [s \in PlayerSides |-> "new"]
  /\ engine = [s \in PlayerSides |-> NoEngine]
  /\ toEngine = [s \in PlayerSides |-> << >>]
  /\ fromEngine = [s \in PlayerSides |-> << >>]

(***************************************************************************)
(* Starting the engines, black first.                                      *)
(***************************************************************************)
Break(reason) == [runner EXCEPT !.pc = "finish", !.error = reason]
Running(s) == engine[s].status \in {"live", "hung", "ending"}

Unstarted == { s \in runner.external : client[s] = "new" }
FirstOf(S) == IF "Black" \in S THEN "Black" ELSE "White"

\* fork and exec; "nboard 2" is sent next.
StartEngine ==
  /\ runner.pc = "start" /\ Unstarted # {}
  /\ LET s == FirstOf(Unstarted) IN
       /\ client' = [client EXCEPT ![s] = "running"]
       /\ engine' = [engine EXCEPT ![s].status = "live"]
       /\ runner' = [runner EXCEPT !.pc = "send", !.peer = s, !.next = "start",
                                   !.todo = <<[kind |-> "nboard"]>>]
  /\ UNCHANGED <<toEngine, fromEngine>>

\* pipe or fork fails, the command is empty, the directory does not exist.
StartFails ==
  /\ "nostart" \in Faults
  /\ runner.pc = "start" /\ Unstarted # {}
  /\ runner' = Break("not started")
  /\ UNCHANGED <<client, engine, toEngine, fromEngine>>

AllStarted ==
  /\ runner.pc = "start" /\ Unstarted = {}
  /\ runner' = [runner EXCEPT !.pc = "turn"]
  /\ UNCHANGED <<client, engine, toEngine, fromEngine>>

(***************************************************************************)
(* The turns of the game.                                                  *)
(***************************************************************************)
TurnBegins ==
  /\ runner.pc = "turn" /\ ~Terminal(runner.board) /\ runner.turn < MaxTurns

\* Mutation: a side without a move is taken for the end of the game.
LoopEndsWithoutMove ==
  /\ runner.pc = "turn" /\ (Moves[runner.board] = {} \/ runner.turn >= MaxTurns)
  /\ runner' = IF Moves[runner.board] = {} THEN [runner EXCEPT !.pc = "finish"]
               ELSE Break("maximum turn count exceeded")
  /\ UNCHANGED <<client, engine, toEngine, fromEngine>>

LoopEnds ==
  /\ runner.pc = "turn" /\ (Terminal(runner.board) \/ runner.turn >= MaxTurns)
  /\ runner' = IF Terminal(runner.board) THEN [runner EXCEPT !.pc = "finish"]
               ELSE Break("maximum turn count exceeded")
  /\ UNCHANGED <<client, engine, toEngine, fromEngine>>

\* Mutation: the pass is made but not written down.
ForcedPassUnwritten ==
  /\ TurnBegins /\ Moves[runner.board] = {}
  /\ runner' = [runner EXCEPT !.board = Pass[runner.board], !.turn = @ + 1]
  /\ UNCHANGED <<client, engine, toEngine, fromEngine>>

\* pass_turn cannot refuse here: the game is not over.
ForcedPass ==
  /\ TurnBegins /\ Moves[runner.board] = {}
  /\ runner' = [runner EXCEPT !.board = Pass[runner.board], !.turn = @ + 1,
                              !.moves = Append(@, PassToken)]
  /\ UNCHANGED <<client, engine, toEngine, fromEngine>>

\* The move is looked up among the legal ones, and played.
Played(token) ==
  IF token \in Moves[runner.board]
  THEN [runner EXCEPT !.pc = "turn", !.board = Play[runner.board][token], !.turn = @ + 1,
                      !.moves = Append(@, token)]
  ELSE Break("no legal move")

\* A player in the runner's own process chooses a legal move (SearchService).
InProcessMove ==
  /\ TurnBegins /\ SideToMove(runner.board) \notin runner.external
  /\ \E m \in Moves[runner.board] : runner' = Played(m)
  /\ UNCHANGED <<client, engine, toEngine, fromEngine>>

\* ExternalNBoardPlayer::choose_move begins.
AskEngine ==
  /\ TurnBegins /\ Moves[runner.board] # {} /\ SideToMove(runner.board) \in runner.external
  /\ runner' = [runner EXCEPT
       !.pc = "send", !.peer = SideToMove(runner.board), !.next = "pong",
       !.todo = <<[kind |-> "set game", moves |-> runner.moves],
                  [kind |-> "set depth", depth |-> AskedDepth],
                  [kind |-> "ping", id |-> 1]>>]
  /\ UNCHANGED <<client, engine, toEngine, fromEngine>>

(***************************************************************************)
(* The conversation with an engine.                                        *)
(***************************************************************************)

Written(s, line) ==
  IF Running(s)
  THEN /\ toEngine' = [toEngine EXCEPT ![s] = Append(@, line)]
       /\ runner' = [runner EXCEPT !.todo = Tail(@),
                                   !.pc = IF Len(runner.todo) = 1 THEN runner.next ELSE "send"]
  ELSE /\ runner' = [runner EXCEPT !.pc = "killed"]
       /\ UNCHANGED toEngine

\* send_line; the process dies of SIGPIPE if the engine has.
SendLine ==
  /\ runner.pc = "send"
  /\ Written(runner.peer, Head(runner.todo))
  /\ UNCHANGED <<client, engine, fromEngine>>

LineRead(s) == fromEngine' = [fromEngine EXCEPT ![s] = Tail(@)]

IsPong(line) == line.kind = "pong" /\ line.id = 1

\* wait_for_pong skips every other line.
ReadPong ==
  LET s == runner.peer IN
  /\ runner.pc = "pong" /\ fromEngine[s] # << >>
  /\ runner' = IF IsPong(Head(fromEngine[s]))
               THEN [runner EXCEPT !.pc = "send", !.next = "move", !.todo = <<[kind |-> "go"]>>]
               ELSE runner
  /\ LineRead(s)
  /\ UNCHANGED <<client, engine, toEngine>>

\* What choose_move and run_game make of the engine's answer.
Answered(token) ==
  IF AfterToken(runner.board, token) = {} THEN Break("illegal move")
  ELSE IF token = PassToken THEN Break("pass on a legal-move turn")
  ELSE Played(token)

\* wait_for_move skips every line that is not a move.
ReadMove ==
  LET s == runner.peer IN
  /\ runner.pc = "move" /\ fromEngine[s] # << >>
  /\ runner' = IF Head(fromEngine[s]).kind = "===" THEN Answered(Head(fromEngine[s]).token)
               ELSE runner
  /\ LineRead(s)
  /\ UNCHANGED <<client, engine, toEngine>>

\* Mutation: the turn is tried again with the same engine.
TimeoutAndRetry ==
  /\ runner.pc \in {"pong", "move"}
  /\ "slow" \in Faults \/ engine[runner.peer].status # "live"
  /\ runner' = [runner EXCEPT !.pc = "turn"]
  /\ UNCHANGED <<client, engine, toEngine, fromEngine>>

\* The deadline passes first; the end of an engine that died is not told from
\* its silence.
Timeout ==
  /\ runner.pc \in {"pong", "move"}
  /\ "slow" \in Faults \/ engine[runner.peer].status # "live"
  /\ runner' = Break("timeout")
  /\ UNCHANGED <<client, engine, toEngine, fromEngine>>

(***************************************************************************)
(* The engines.                                                            *)
(***************************************************************************)

\* run_engine reads a line, handles it and prints what it has to say.
EngineStep(s) ==
  /\ engine[s].status = "live" /\ toEngine[s] # << >>
  /\ toEngine' = [toEngine EXCEPT ![s] = Tail(@)]
  /\ \E h \in Handled(engine[s].state, Head(toEngine[s])) :
       /\ engine' = [engine EXCEPT ![s].state = h.engine]
       /\ fromEngine' = [fromEngine EXCEPT ![s] = @ \o h.reply]
  /\ UNCHANGED <<runner, client>>

EngineHangs(s) ==
  /\ "hang" \in Faults /\ engine[s].status = "live"
  /\ engine' = [engine EXCEPT ![s].status = "hung"]
  /\ UNCHANGED <<runner, client, toEngine, fromEngine>>

\* It also stands for a command that cannot be executed (_exit after fork).
EngineCrashes(s) ==
  /\ "crash" \in Faults /\ engine[s].status \in {"live", "hung"}
  /\ engine' = [engine EXCEPT ![s].status = "dead"]
  /\ UNCHANGED <<runner, client, toEngine, fromEngine>>

\* SIGTERM, or the end of its input.
EngineExits(s) ==
  /\ engine[s].status = "ending"
  /\ engine' = [engine EXCEPT ![s].status = "dead"]
  /\ UNCHANGED <<runner, client, toEngine, fromEngine>>

(***************************************************************************)
(* The end: finish_record, then the players are destroyed, white first.    *)
(* ~ProcessClient closes the pipes and waits for the engine, which is sent *)
(* SIGTERM if it still runs; the quit of ExternalNBoardPlayer::stop is not *)
(* sent.                                                                   *)
(***************************************************************************)
Unstopped == { s \in runner.external : client[s] = "running" }
LastOf(S) == IF "White" \in S THEN "White" ELSE "Black"
Waiting(s) == client[s] = "waiting"

\* Mutation: the pipes are closed, but the engine is not told to end.
CloseWithoutKill ==
  /\ runner.pc = "finish" /\ Unstopped # {} /\ \A s \in PlayerSides : ~Waiting(s)
  /\ client' = [client EXCEPT ![LastOf(Unstopped)] = "waiting"]
  /\ UNCHANGED <<runner, engine, toEngine, fromEngine>>

Close ==
  LET s == LastOf(Unstopped) IN
  /\ runner.pc = "finish" /\ Unstopped # {} /\ \A t \in PlayerSides : ~Waiting(t)
  /\ client' = [client EXCEPT ![s] = IF Running(s) THEN "waiting" ELSE "reaped"]
  /\ engine' = IF Running(s) THEN [engine EXCEPT ![s].status = "ending"] ELSE engine
  /\ UNCHANGED <<runner, toEngine, fromEngine>>

\* Mutation: waitpid does not wait.
ReapAtOnce(s) ==
  /\ Waiting(s)
  /\ client' = [client EXCEPT ![s] = "reaped"]
  /\ UNCHANGED <<runner, engine, toEngine, fromEngine>>

Reap(s) ==
  /\ Waiting(s) /\ engine[s].status = "dead"
  /\ client' = [client EXCEPT ![s] = "reaped"]
  /\ UNCHANGED <<runner, engine, toEngine, fromEngine>>

Return ==
  /\ runner.pc = "finish" /\ Unstopped = {} /\ \A s \in PlayerSides : ~Waiting(s)
  /\ runner' = [runner EXCEPT !.pc = "done"]
  /\ UNCHANGED <<client, engine, toEngine, fromEngine>>

RunnerStep ==
  \/ StartEngine \/ StartFails \/ AllStarted
  \/ LoopEnds \/ ForcedPass \/ InProcessMove \/ AskEngine
  \/ SendLine \/ ReadPong \/ ReadMove \/ Timeout
  \/ Close \/ (\E s \in PlayerSides : Reap(s)) \/ Return

Next ==
  \/ RunnerStep
  \/ \E s \in PlayerSides :
       EngineStep(s) \/ EngineHangs(s) \/ EngineCrashes(s) \/ EngineExits(s)

\* The runner waits for nothing but an engine's answer, a deadline or an
\* engine's end; an engine that does not hang goes on reading, and one that
\* is told to end does so.
Fairness ==
  /\ WF_vars(RunnerStep)
  /\ \A s \in PlayerSides : WF_vars(EngineStep(s)) /\ WF_vars(EngineExits(s))

Spec == Init /\ [][Next]_vars
FairSpec == Spec /\ Fairness

(***************************************************************************)
(* Properties.                                                             *)
(***************************************************************************)

\* The moves the engines are sent lead, passes included, to the runner's board,
\* which run_game keeps beside them; and the answer the runner takes is the
\* engine's answer to this turn's question: the engine was at that board and at
\* the depth asked for, and nothing else is under way in either direction that
\* a later turn could mistake for an answer (the ping always carries the id 1).
AnswerIsForBoard ==
  LET s == runner.peer IN
  /\ Replay(runner.moves) = {runner.board}
  /\ runner.pc = "move" /\ fromEngine[s] # << >> /\ Head(fromEngine[s]).kind = "===" =>
       /\ engine[s].state.board = runner.board /\ engine[s].state.depth = AskedDepth
       /\ Len(fromEngine[s]) = 1 /\ toEngine[s] = << >>

\* No game is spoilt but by an engine that is not there or late: between a
\* runner and engines of this repository, no move is illegal, no pass is out of
\* place and the turn limit is never met.
OnlyFaultsSpoilAGame == runner.error \in {"none", "timeout", "not started"}

\* When run_game returns no engine runs on, and none is left unwaited for,
\* however the game ended.
NoEngineLeftBehind ==
  runner.pc = "done" =>
    \A s \in PlayerSides : <<client[s], engine[s].status>> \in {<<"new", "none">>, <<"reaped", "dead">>}

\* Whatever becomes of an engine, the runner does not wait for it for ever: the
\* game comes to an end and the engines are gone, unless the runner is.
RunnerIsNeverStuck == <>(runner.pc \in {"done", "killed"})

\* A game record is a game played by the rules from its opening.
Outcome ==
  IF runner.error # "none" THEN "broken"
  ELSE IF runner.pc \in {"finish", "done"} THEN "over" ELSE "none"

RefereeOfGame ==
  INSTANCE Referee WITH board <- runner.board, outcome <- Outcome,
                        Starts <- UNION { OpeningBoard(o) : o \in Openings }
PlayedByTheRules == RefereeOfGame!Spec

\* A command that cannot be sent is an error of the game, as send_or_error
\* reports it; the runner lives to record it.
RunnerSurvives == runner.pc # "killed"
=============================================================================
