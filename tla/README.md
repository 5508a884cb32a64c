# Verification of vibe-othello-engine in TLA+

This directory holds TLA+ models of the engine in `src/`, TLC configurations
that check them on small games, and theorems about them that TLAPS checks. Line
references are to the commit the models were written from. Paths are relative
to the repository: the engine's sources are `src/*.cpp` and
`include/othello/*.hpp`, its programs are under `tools/`.

## 1. The system

### 1.1 Components

| component | code | state it keeps | operations |
|---|---|---|---|
| Rule core | `src/rules.cpp`, `bitboard_ops.hpp`, `bitboard_rules.hpp` | none: a `Board` value (two 64-bit sets and the side to move) | `legal_moves`, `flips_for_move`, `apply_move`, `pass_turn`, `is_game_over` |
| Position hash | `src/hash.cpp`, `hash_update.hpp` | none: a 64-bit Zobrist key per board, full or updated | `zobrist_hash`, `hash_after_move`, `hash_after_pass` |
| Exact endgame solver | `src/endgame.cpp`, `endgame_last_n.hpp`, `endgame_ordering.hpp` | the recursion, its statistics, one table per call | `solve_exact_endgame` |
| Exact transposition table | `src/endgame_tt.hpp` | buckets of eight slots | `lookup`, `store`, `best_move_hint` |
| Midgame node search | `src/search_node.cpp`, `search_common.hpp` | the recursion, the PV table, history and killers | `search_with_context`, `search_node` |
| Midgame transposition table | `src/search_tt.hpp` | buckets of four slots, each entry with depth, scope and generation | `lookup`, `store` |
| Search session | `src/search.cpp`, `search_session.cpp`, `search_context.hpp` | the table, its generation counter, the last completed iteration, the evaluator's identity | `search`, `search_iterative`, `SearchSession::reset` |
| Aspiration windows | `src/search_aspiration.cpp` | the previous score, the window half-width | `search_aspirated_with_context` |
| Move ordering | `src/search_move_ordering.cpp`, `search_ordering.hpp`, `search_root_policy.cpp` | history counters, killer moves | ordering, cut-off recording, root preferences |
| Evaluation | `src/evaluation.cpp`, `evaluation_features.cpp`, `evaluation_patterns.cpp` | a configuration: weights and pattern tables by phase, constant during a search | `evaluate_basic_breakdown`, `evaluate_score_only` with its fast path |
| Evaluator configuration | `eval_config_io.cpp`, `eval_config_schema.hpp`, `pattern_table_io.cpp`, `evaluator_*.cpp` in `tools/common` | the lines read so far, a cache of table files | `load_evaluation_config_file`, `resolve_evaluator_selection` |
| NBoard engine | `tools/protocols/nboard/engine_main.cpp`, `parser.cpp`, `game_codec.cpp` | the current board, depth and session | the commands `nboard`, `set game`, `set depth`, `move`, `ping`, `go`, `quit` |
| NBoard client | `tools/protocols/nboard/process_client.cpp`, `probe_main.cpp` | a child process, two pipes, a read buffer | `start`, `send_line`, `read_line`, `stop` |
| Match runner | `tools/match_runner/*.cpp` | the game in progress, the moves, the players, the totals | `run_match`, `run_game`, `choose_move` |
| Notation, squares, players | `src/notation.cpp`, `square.cpp`, `player.cpp` | none | conversions |
| JSON lines | `tools/common/jsonl.cpp`, `tools/match_runner/jsonl_writer.cpp`, the parsers of `replay.cpp` and `eval_vs_exact.cpp` | the files between the tools | a writer, three hand-written readers |
| Replay tool | `tools/replay/replay.cpp` | the records of a match, the divergences found | read the match file, compare the games of each pair |
| Label tools | `tools/position_sampler`, `tools/exact_labels`, `tools/eval_vs_exact` | samples, labels, a summary, sorted lists of cases | sample positions, label them exactly, compare the evaluator with the labels |
| Other tools | `tools/analyze`, `benchmarks`, `positions`, `common`, `scripts` | reports | command lines around the library |

### 1.2 How they interact

Everything inside the library is a function call on one thread. The NBoard
engine and the match runner own a `SearchSession` and call `search_iterative`
with it; the session lends its table to one node search after another, through
the aspiration loop; the node search calls the rules, the incremental hash,
the ordering and the evaluation. `solve_exact_endgame` does the same with a
table of its own that lives for one call. Only the NBoard client and its child
are concurrent: two processes, two pipes, lines with a deadline, and signals.

Every program chooses its evaluator when it starts, from a file that names
others. The remaining tools meet in files only: the match runner's records are
read by the replay tool, the sampler's boards by the label dump, the dump's
labels by the analyzer. Each file is written through a stream that is looked at
before the last block of it is flushed, so its end may be missing and nobody
was told.

### 1.3 What is hard here

* A search returns a *bound* unless the score falls inside its window. Scout
  windows, re-searches, aspiration, the table and the move ordering all hand
  bounds to one another. Each is easy to test alone; the tests of the
  repository compare a few positions with a slow reference search.
* Ties. The engine promises a deterministic best move (the lower square of
  equals). A bound that happens to equal the best score looks like a tie.
* The tables survive: from one node to the next, and in a session from one
  search to the next, with another root, depth, window or evaluator.
* Passes. A pass is a move that is not listed, has no square in the principal
  variation, and in the midgame search consumes depth but no square.
* Two processes, one deadline, and a pipe that remembers what the last request
  left behind.
* Tables written by hand: 58 pattern instances and two rule tables, for which a
  wrong square is wrong for one corner, one colour or one phase only.
* Files that are cut, edited or rewritten while they are read, and three parsers
  that each have their own idea of a JSON value.
* Pairs of games: openings, colours, passes and broken games must be counted in
  the same way by the program that writes a record and the one that reads it.

### 1.4 What makes each part correct

* Exact solver: the margin is the game-theoretic one; the best move is the
  lowest square among the moves that keep it; the line is legal; every call
  keeps the fail-soft contract of its window; windows are never empty; it
  returns.
* Exact table: each stored bound holds of the position it is stored for, after
  any sequence of stores, replacements and bucket collisions.
* Midgame search and session: a returned score is a bound on (or the value of)
  a search of at least the requested depth under the current evaluator; no
  answer of another evaluator or mode is used; an aspirated score is never a
  mere bound; the chosen move is legal; the session is as good after `reset`
  as a new one.
* Rules and hash: a move flips exactly the bracketed discs and never wraps
  round an edge; the incremental hash is the full hash.
* NBoard client and match runner: a reply is matched to its request, a timeout
  ends the request, a game that cannot go on is recorded as such, and the board
  is always one reached by legal moves.
* Evaluation: a board is worth to one side what it costs the other and the same
  as its mirror images; the fast path gives the breakdown's total; a learned
  table serves all instances of its pattern alike.
* Evaluator configuration: what is loaded is what the files say, whatever the
  order of the lines; a bad file is refused, and no table file that cannot be
  read is passed over; targets whose paths have one normal form share one
  reading of the table.
* Files: what is written reads back, what is torn is refused, a record or label
  that is accepted is the one that was made.
* Replay: a divergence stands on both games of its pair, and a pair without one
  is one game played twice.
* Labels: each is its sample's, and the counts and lists of the report are those
  of its cases.

## 2. The modules

```
GameTree            positions, moves, passes; what the searches share
 +- GameTreeProofs  lines, and the induction the other proofs take from here
 +- ExactGame       final margins and game-theoretic values
 |   +- ExactTable  the exact solver's table
 |   |   +- ExactSolver          solve_exact_endgame
 |   |       +- ExactSolverProofs    (also GameTreeProofs)
 |   +- PositionSampler          random games, board blocks
 |       +- ExactLabels          the labels and their lines (also JsonLines)
 |           +- EvalVsExact      labels read back and compared
 |               +- LabelPipeline     the three label tools and their files
 |                   +- LabelPipelineProofs   (also GameTreeProofs)
 +- MoveHistory     history counters and killer moves
 +- MidgameTable    the session's table
 |   +- MidgameSearch            search_node (also MoveHistory)
 |       +- SearchSession        search, search_iterative, aspiration;
 |           |                   also takes ExactGame, implements SearchService
 |           +- SearchSessionProofs   (also GameTreeProofs)
 +- Referee         a game by the rules
 +- NBoardEngine    the engine's commands
 |   +- NBoardConsole            an engine and any lines at all
 |   +- NBoardMatch              run_game, two engines, four pipes;
 |       |                       implements Referee
 |       +- NBoardProofs         (also NBoardConsole, GameTreeProofs)
 +- MatchReplay     run_match, its file, the replay tool (also JsonLines)
 |   +- MatchReplayProofs        (also GameTreeProofs)
JsonLines           writing and reading lines of JSON
TTBounds            bounds and cutoffs, in both tables
OthelloRules        bitboards, moves, passes, hash
 +- Evaluation      features, patterns, phases
     +- BoardProofs              rules and scores; also discharges GameTree's assumptions
     +- EvaluatorConfig          choosing and loading an evaluator, then playing
         +- EvaluatorConfigProofs    (also BoardProofs)
```

An `MC` module gives each component a small game and is the module of its
runs. (`MCOthelloRules` takes the config and table files of `MCEvaluatorConfig`.) The components meet in four places. `GameTree` is what the searches and
the NBoard programs know of a board, and `BoardsAreAGame` (section 5) shows
that real boards have what it assumes. `SearchSession` takes of the exact
solver what `ExactSolver` shows: the margin, the lowest best move, a legal line
(`ExactResults`). `NBoardEngine` and `NBoardMatch` take of a search what
`SearchService` promises: a legal move when there is one. `MatchReplay` and
`LabelPipeline` are compositions over files: the writer's module and the
reader's share nothing but the lines.

### 2.1 ExactSolver, ExactTable, TTBounds, GameTree

A frame of `stack` is one activation of `solve_node`, or of a `solve_last_n`
function when few squares are empty; `ret` is the `NodeResult` on its way to
the caller. A frame holds the locals: window, original alpha, moves not tried,
best result, the candidate being searched and why (`stage`: a pass, a root
scout, a full search, a scout, a re-search).

| code | definitions |
|---|---|
| entry, cutoff, game over, pass | `SolveLast1`, `Cutoff`, `GameOver`, `SearchPass`, `StartMoves` |
| the move loop of the root | `RootCandidateFull`, `RootCandidateHopeless`, `RootCandidateScout`, `RootScoutReject`, `RootScoutPromising` |
| the move loop elsewhere | `InteriorFull`, `InteriorScout`, `ScoutInside`, `ScoutOutside` |
| after a candidate, after the loop | `AfterCandidate`, `ResumeFull`, `Finish`, `ResumePass` |
| `ExactTranspositionTable` | `Matching`, `CutoffResult`, `Hint`, `Store` |

The order in which moves are tried is the hint first, then `OrderScore`, a
constant per position, then the index. Any `OrderScore` is allowed, so what
holds does not depend on the heuristics of `endgame_ordering.hpp`. A hash is
the bucket index and the position itself; two positions may share a bucket but
not a key. The thresholds (4 empties for the specialised endings, 16 for root
scouts) are constants, smaller in the runs.

### 2.2 MidgameSearch, MidgameTable, MoveHistory, SearchSession, SearchService

`MidgameSearch` is `search_node` with the same stack; a frame also has the
depth, the moves in order, the line to follow and the preferred move. Every
switch of `SearchOptions` the function reads comes with the request: PVS, the
lazy first move, stored leaves, shallow hints, the least depths for probing and
storing. `MidgameTable` has the age of an entry,
its protection score, the slot a store takes, and the scope (evaluator identity
and mode) a lookup must match. `MoveHistory` has what a cutoff leaves behind,
which belongs to the session as the table does; the moves of a node are scored
once (`Scored`), by the static table or, deep enough and with moves enough, by
an arbitrary constant plus `HistoryKillerBonus`. `SearchSession` adds `SearchSessionState`, the
loops of `search` and `search_iterative`, `Reset`, exact roots by a fixed
threshold or an adaptive policy (`SolvesExactly`), and the aspiration loop,
whose state is in `job`.

An evaluation is an arbitrary constant per evaluator and position. The line
between evaluators is drawn where the code draws it: `IdentityTable` hashes the
families `evaluation_config_identity` hashes.

`SearchService` is the promise: one request at a time, each answered, each
answer right for its own request whatever came before. `ServiceSpec` is the
refinement; the mapping takes `asked` from the job in progress, `answered` from
the last result, and `Right` from `RightScore` and `RightLine`.

### 2.3 OthelloRules

Boards are pairs of sets of squares; squares are numbered as bits, and a shift
is the code's: move every bit by a distance, then mask the files it would have
wrapped to, in each of eight directions, `Width` a constant. Moves and flips
are the fills of `bitboard_rules.hpp`, step by step. `Zobrist` keys are sets,
and xor is the symmetric difference, so two hashes are equal only if the same
random numbers were xored into them. `RulesAgree` compares the fills with the
rules of the game written with coordinates and rays.

### 2.4 NBoardEngine, NBoardConsole, NBoardMatch, Referee

`Handled(e, line)` is the loop body of `run_engine`: what a line does to board,
history, depth and session, and what is printed. `NBoardConsole` sends an
engine any lines. `NBoardMatch` is `run_game` with `ExternalNBoardPlayer` and
`ProcessClient`: the runner's place in the code is `runner.pc`, an engine is a
process that reads its pipe when it likes, and the faults are an engine that
does not start, is late, hangs, or dies. `Referee` is what a record stands for:
a game by the rules from a legal start, until it is over or broken off;
`PlayedByTheRules` is the refinement.

### 2.5 Evaluation, EvaluatorConfig

`Evaluation` is the code's features as functions of the two sets of discs, its
58 pattern instances as sequences of squares in the code's order
(`PatternSquares`), the two rule tables as the functions that fill them, and
the phase, breakdown and fast path that weigh them. `EvaluatorConfig` is a
tool's start: the command line (`ParseOption`, `Select`), one action for a line
of the file (`ReadLine`), one for its end, where what was left out is set to 0 or
refused (`EndOfFile`), then the four targets in turn (`LoadTables`): one without
a path (`SkipTarget`), one whose table is in the cache (`TakeKept`), and one whose
file is opened (`OpenTable`), read line by line (`ReadTableLine`) and kept
(`KeepTable`); and the evaluator that comes of it (`Selected`). Then the tool
plays (`Play`, the actions of `OthelloRules`), so the evaluator's properties are
checked on every board reached, with the configuration that was really loaded.

A path is a sequence of names, and the cache knows a table by its normal form
(`CacheKey`: resolved from the folder of the config file, then
`lexically_normal`), not by its file. `FileAt` says which file a normal path
opens; two may open one, an absolute one and one from the folder, and then the
file is read twice. A trainer outside writes the next version of a table in place
(`BeginWrite`, `EndWrite`), as `pattern_only_train.py` does, at any moment between
the first line of the config and the last of the tables. A reading that meets an unfinished file
is torn: each of its lines is a line of a version written by then or a piece of
one (`TornLines`), and it may end anywhere. The parser takes such a reading
when its lines are well-formed, so all that can be promised of it is a table with
entries in their places; a reading no trainer wrote into is one version, whole.
A stream that fails in the middle of a file (`input.bad()`) is left out.

### 2.6 MatchReplay, JsonLines

A match of `run_match`: `opening_index_for_game` and the colours of a pair,
games with moves, forced passes and breaks, `RootEvents` where a search player
solves a root exactly, the record, the summary. The lines go to a file
(`WriteRecord`, `CloseFile`); a fault may cut it after any token of any line
(`LoseTail`; a cut inside a token leaves a line without its last brace as well). The replay
tool reads a line at a time (`ReadRecord`, `RefuseLine`), then looks at a pair at
a time (`ExtractPair`), and reports (`Render`). `JsonLines` has the writer and both parsers on sequences of
tokens; a parser's recursion is a stack of the marks that will close what is
open, so it is a fold and not a recursive operator.

### 2.7 PositionSampler, ExactLabels, EvalVsExact, LabelPipeline

`PositionSampler` is `sample_positions` step by step: an attempt, its plies and
forced passes, the four ways it can end, and the blocks of nine lines it
writes. `ExactLabels` says which labels `make_exact_label` may give and how they
are written; `EvalVsExact` reads a line back member by member, compares, counts
and sorts; `LabelPipeline` runs the three tools one after the other, between
them files whose end may be lost and a label line someone edited, in ten ways.

## 3. The runs

| run | distinct states | what it shows |
|---|---|---|
| `exact_solver` | 281 832 | contracts, sound entries, exact margin, deterministic best move, legal line, termination, with a table of two buckets of two slots and without one |
| `search_session` | 232 442 | two or three searches of a session: contracts, sound entries, right scores; it implements `SearchService`, and every request is answered |
| `session_row_tables` | violation | two evaluators that differ in a row table share an identity |
| `session_agreement` | violation | fixed-depth and iterative search report different best moves |
| `rules` | 2 618 | from a command line to the end of a game on 8x8: good and bad config files, tables written while they are read; the evaluator loaded is the one written, and only what should be refused is; moves and flips are those of the rules, hash and position stay those of the board, the evaluator is consistent on every board, every tool plays or refuses |
| `nboard_console` | 11 446 | after any lines the board is the one the history leads to and the session knows only this game; `go` is answered |
| `nboard_match` | 7 304 | one or two engines with every fault: the game is by the rules (`Referee`), an answer belongs to its question, only faults spoil a game, no engine is left behind, the runner is never stuck |
| `nboard_opening_pass` | violation | an opening with a forced pass in it spoils the game of two faultless engines |
| `nboard_engine_dies` | violation | writing to an engine that died kills the runner |
| `match_replay` | 190 241 | a match, its file and the replay of it: lines read back, files cut after any token are refused, divergences stand on both games and name their next moves, records and summary tell the games |
| `match_divergence` | violation | two games that part right after a forced pass are reported on the board before it |
| `labels` | 91 483 | sampling, labelling and comparing: samples as asked, labels of their samples, bad lines refused, ranks and counts that fit the cases, every tool ends |

The properties of the runs, by what they are about:

* **A bound stays a bound.** `ReturnsKeepContract` (both searches: whatever a
  call returns is the value inside its window and a bound on the right side
  outside), `TableSound` (the same of every entry, whatever was replaced),
  `MarginExact`, `NegamaxExact` (the midgame score is plain negamax's without a
  table, and in a new session where no pass mixes the depths).
* **The answer a caller sees.** `BestMoveDeterministic`, `LineLegal`,
  `ServiceSpec`, `AnswerIsForBoard`, `GoIsAnswered`.
* **Two pieces of state that must not part.** `HashIsFull`, `PositionIsBoard`,
  `HistoryLeadsToBoard`, `SessionStaysInGame`, `ScoreIsBreakdownTotal` (fast and
  full evaluation), `CutoffsKeepOrder` (the counters before and after they are
  halved).
* **Against a second definition.** `RulesAgree` (rays), `EvaluatorSymmetric`
  (the other side, the board in a mirror), `PatternsAligned`, `RankRelations`, `PlayedByTheRules`.
* **Across a file.** `LoadedAsAsked`, `BadConfigsRefused`, `LineReadsBack`,
  `RefusalsJustified`, `RecordsTellTheGames`, `DivergencesStand`,
  `SamplesAsAsked`, `LabelsAreOfSamples`, `ReportAddsUp`.
* **It ends.** `Termination`, `ServiceResponds`, `RunnerIsNeverStuck`,
  `NoEngineLeftBehind`, `ToolsEnd`, `ToolPlaysOrRefuses`.

### 3.1 Bounds, and why they are enough

* `exact_solver`. One graph of 19 positions from 5 empties, with forced passes
  at three depths, early ends and four transpositions, in 243 choices of final
  margins (`Spread` 3: two neighbours and the greatest loss, so that ties and
  off-by-one windows both arise) times 20 orders of moves (`Orders`), the last
  four of them without a table (`TablelessOrders`). The specialised endings start
  at 2 empties and root scouts at 4, so that each kind of loop has positions
  above and below it. Two buckets of two slots for 19 positions make every kind
  of replacement happen. The theorems of section 5 hold for every value of all
  of this; the run is what makes them believable, and covers
  `Termination`.
* `search_session`. One graph of 15 positions in three worlds of evaluations
  (`WorldCount`). Three callers take `UsualOptions`, the roots `R` and `A`
  (a position below `R`), depths 2 and 4, both modes and two searches
  (`MaxSearches`): the second meets entries of another depth, root or mode. Two
  callers (`OtherWorlds`) take `OtherOptions` and three searches of two
  evaluators: the lazy first move, no leaf entries, shallow hints, least depths
  of 1, a fixed aspiration window without re-search, exact roots at one empty
  square, a negative depth. The last takes `AdaptiveOptions`, with roots the
  policy solves and roots it does not. Buckets of two slots (four in the code)
  fill up. `GenerationMax` is 2 (2^32 - 1 in the code), so the counter wraps.
  `HistoryCap` is 20 (96 in the code): one cutoff at
  depth 4 nearly fills a counter, as one at depth 9 does in the code, and two
  halve them all; `LastBucket` 3 (64) makes two depths share killers. In one
  world nothing but history and killers tells moves apart. `SearchScoreMax` is 8 and evaluations go from -5 to 5, so that a doubled
  window is clamped. A table that cannot be allocated is one of the outcomes of
  a new size (`Counts`).
* `rules`. The full width, from boards with discs at every edge and the longest
  rows, and three endings with six empty squares played out. The width
  matters because the masks and the number of fill steps are the code's; the
  theorems hold for every width. They are played with the built-in evaluator, a full
  file's and those of two with tables for some phases. Whatever else can be loaded
  (`MCEvaluatorConfig`) is loaded with a board on which the game is over: a full file in
  the old names and in reverse order, one that spells a normal path in two ways and
  names its file by the absolute path as well, one whose third table has a version that
  cannot be read, and 17 bad ones. Torn lines are a value cut after its first digit and a
  line that is none; a table has two versions of two lines, which makes torn readings of
  every mixture, part and order of them.
* `nboard_*`. A game of four plies with a transposition, a forced pass and an
  early end. `MaxTurns` 9 stands for 200: both are more than two plies for each
  empty square, which is what `MatchAssumption` says.
* `match_replay`, `match_divergence`. A game of four plies with a pass that is
  followed by a choice, a transposition, a draw and an early end; five matches:
  of pairs, of an odd number of games, of sides not swapped, with one opening or two,
  one of which starts with a pass. The games of a pair and the place where the
  file is cut are free: every line after any number of its tokens.
* `labels`. A game of 15 positions with a pass, early ends, a win, a loss and a
  draw; six jobs that sample every size, unique or not, terminal or not, with
  attempts or plies that run out, a limit, a bound on the empties, labels
  with and without the scores of moves, and an evaluator that errs by either sign.
  Ten kinds of edits to a line (`EditLine`).

`CHECK_DEADLOCK FALSE` is set where the system stops of itself: a solved
endgame, a session out of searches, a finished game, an engine that has quit, a
tool that has reported.

### 3.2 Fairness

* Exact solver and session: `WF` of the steps of a search that has begun. The
  code is a recursion on the caller's thread, which runs on until it returns;
  nothing it does waits. No fairness is assumed of the caller: nobody has to
  ask a session again or reset it.
* Tools (`rules`, `labels`): `WF` of each program's steps, which
  read files and compute and wait for nobody. None of the faults: a trainer
  need not write, nor come to the end of what it writes, a file need not be cut, nobody has to edit a line.
  `match_replay` states no fairness: it has no liveness property.
* Match: `WF` of the runner's steps, of each engine reading its pipe, and of an
  engine ending once it has SIGTERM. Processes are scheduled; the runner waits
  only for an answer, with a deadline, or for the end of an engine it has
  killed. No fairness is assumed of the faults, and an engine that hangs need
  do nothing until it is killed. An engine that ignores SIGTERM is outside the
  model: `ProcessClient::stop` would wait for it for ever (`process_client.cpp:197`),
  and the hazard that it may is listed without a property. So is an engine that reads nothing
  until its pipe is full: `send_line` would block, and here a pipe takes every line.

### 3.3 What was found

Details, with the lines they contradict, are in the `findings` of
`PROJECT.json`.

1. `search_session.cpp:59`: the evaluator identity leaves out seven pattern
   families, so a session answers one configuration with another's entries.
2. `search_node.cpp:308`: the midgame loop accepts a failed-low score as a tie;
   the best move depends on the order of moves.
3. `match_runner/core.cpp:218`: openings with a forced pass are sent to engines
   without it, and are refused.
4. `process_client.cpp:146`: SIGPIPE is neither ignored nor handled.
5. `replay.cpp:395`: a divergence right after a forced pass is reported on the
   board before the pass, where neither of the moves reported is legal; and head
   and base, told by the side of that board, are the wrong way round.

Observations that contradict no line of the repository:

* `endgame.cpp:91`: the guard for lower-index ties in an interior node is passed
  with a bound, so a stored best move may not keep the stored score. The
  public result is unaffected, as `BestMoveIsDeterministic` proves.
* A table cutoff on the principal variation cuts the exact line to one move
  (`search_common.hpp:262`); `LineLegal` asks for a complete line only without
  a table.
* `run_game` never sends `quit` to an engine: the destructor closes the pipes and
  sends SIGTERM; `ExternalNBoardPlayer::stop` is called from `start` only.
* The tools look at a stream before its last block is flushed, so an error at
  the close is unnoticed (`jsonl_writer.cpp:200`).
* `eval_vs_exact` compares a label's `exact_score` with the evaluator and its
  `move_scores` with one another, but never the one with the other.
* A sampled position never directly follows a pass: the sampler passes and goes on to
  a move within one step.

## 4. What is abstracted

* A hash key is the position; two keys are never equal by chance.
* Statistics, logging, time and node counts are left out; no search in the
  repository is stopped by them.
* A move, a square or a GGF text is a token; a line of JSON is a sequence of
  tokens, and a string is one of them. A line comes through a pipe whole.
* The exact order of moves, and what mobility and corners give a move in the
  midgame order, are arbitrary constants; the rest of the midgame order (static
  buckets, history, killers, the preferred move, the hints) is modelled.
* Searches take arbitrary evaluations. The evaluator itself is in `Evaluation`;
  its arithmetic is of unbounded integers.
* A line of a config file is a key and what its text means.
* A search without a session is a session's first search.

### 4.1 Not modelled

`PROJECT.json` lists every component with what is modelled of it. Left out are
the conversions of squares and players, the option parsing of the tools, the
probe and the analysis tool (one call each of something modelled), the
benchmarks, the fixtures and the Python scripts: none has state beyond its
input and output. `search_positions.hpp` and `endgame_fixtures.cpp` are
collections of boards.

## 5. The proofs

All theorems are for every value of the constants, under the named assumptions
of the modules: `GameTypes`, `GameProgress`, `SidesAlternate` (a game),
`MarginTypes`, `ValueEquation` (values are negamax values),
`DepthValueEquation`, `SearchValuesEquation`, `PassFreeClosed` (what a search of
limited depth may answer), `ExactLinesLegal` (what the session takes of the exact
solver), `TablelessAssumption` (a game solved without a table is solved without
one to its end), `ConsoleAssumption` and `MatchAssumption` (histories are moves,
depths are positive), `ConfigAssumption` (a game starts on a board; a config file is
lines whose keys are two names, and a number is an integer or none; a table file has a
first version, what a path opens is a table file, and a torn line is one a table might have), the table, history and solver assumptions (sizes are positive; one
empty square has at most one move), and for the rules a width of at least 1. TLC
evaluates all of them in the runs.

Five conditions are premises of single theorems and not assumptions. Of the
first three nothing in the code makes sure, and two of them are broken by runs
that end in a violation, which shows that they cannot be dropped. The last two the
code meets, the fourth with no step to spare:

| premise | theorems | what happens without it |
|---|---|---|
| `IdentitiesTell`: no two evaluators share an identity | `ReturnsSound`, `TableStaysSound`, `AnswersAreSearchValues`, `SessionServes` | the run `session_row_tables`, finding 1 |
| `OpeningsShowPasses`: an opening without a pass it makes and does not show | `TalkInvariant`, `AnswersAreOfTheTurn`, `GamesAreSpoiltByFaults` | the run `nboard_opening_pass`, finding 3 |
| `OpeningsGoOn`: no opening ends the game | `GamesAreByTheRules` | `parse_opening_line` takes such an opening; if its engine cannot be started, a game that is over is recorded as broken off |
| `CaptureSteps >= Width - 3`: the fill takes a step for every disc but the first that a row can bracket | `MovesAndFlipsAgree` | the longest rows are not found: the mutant `LegalMovesInDirectionShort` of the run `rules`. `bitboard_rules.hpp` takes 5 for a width of 8 |
| `Width = 8` | `PatternsAreAligned`, `EvaluatorIsSymmetric` | the patterns, and the rules for corners and edges, are written down for 64 squares |

### 5.1 ExactSolverProofs

`TypeCorrect`, `TableIsSound`, `ContractsAreKept`, `MarginIsExact`,
`WindowsStayProper`. None is inductive alone: a stored bound is right because a
returned score was, a returned score is right because the loop's best score was
and because a table entry was, and windows stay proper because of where alpha
stands between the original alpha and the best score. The invariant `Inv` is

* `TypeOK`;
* `ControlInv`, which says of each frame (`FrameInv`) that its window is not
  empty and that its loop has established `LoopInv`: alpha is the larger of the
  original alpha and the best score; a best score above the original alpha is
  reached; while there is no cutoff, no tried move is worth more than the best
  score; in a root loop the best score is the value of the best move and no
  lower square has the same. Neighbouring frames are caller and callee
  (`CalledBy`: position and window), what is being returned keeps its
  contract, and the bottom frame is the root's, with the full window;
* `TableSound`.

`CallStep`, `ContinueStep` and `ReturnStep` say what the three ways to change
the stack need; `EnterKeepsInv`, `LoopKeepsInv` and `ResumeKeepsInv` have one
step for each action. `BoundSound` and `CutoffSound` are the two facts about
bounds the table rests on.

### 5.2 ExactSolverProofs: best move and line

`BestMoveIsDeterministic` cannot follow from an invariant of all nodes: interior
ones may store another move (the observation about `endgame.cpp:91`). `LoopInv`
has the part about root loops: a root scout rejects only candidates that cannot
be better, or equal at a lower square, and every other root candidate gets the
full window, so its score is exact. `BaseInv` adds what is left of the bottom
frame. A root with few empty squares runs the specialised loop, which tries the
squares in increasing order (`TailRoot`), so a tie found later is never lower;
and the table is empty when the root is entered, so no entry answers for it.

`LineIsLegal` rests on `LineInv`: the best line so far of every frame, and the
line on its way to the caller, lead from their position to a position of the game and
begin with the best move; the move of an entry is legal where the entry belongs.
A cutoff by the table makes a line of one move or none, so that a line goes on to
the end of the game is part of the invariant only for games solved without a
table (`TablelessAssumption` keeps such a game from entering one that uses it).
The bottom frame then gives the root's line, and `MarginIsExact` the margin at its end.

### 5.3 BoardProofs

`BoardsStayBoards`, `HashStaysFull`, `PositionStaysBoard`, `PliesFillOne`: the
board is a board, the carried hash is the full hash, the carried position is
the board seen by the side to move, for every width and start. The hash needs
that flips are opposing discs and that the square played was empty.
`BoardsAreAGame` says that boards with their moves and passes satisfy what
`GameTree` assumes of positions, so that the search theorems are about Othello
and not about a class of games that might exclude it.

`MovesAndFlipsAgree` compares two descriptions of a move that have nothing in
common. `ShiftIs` says where a shift by a distance and its mask take a square: one
step along the row and the file, or nowhere when that would leave the board
(`Coordinates`, `AwayIs`: a square is its two coordinates). By
induction over the steps, the walk of `flips_for_move` has the squares of the row as
long as they are the opponent's (`WalkIs`), so that it flips the row just when a disc of
the player's ends it (`FlipsAreBracketed`). The fill of `legal_moves` starts at all of the
player's discs at once; after `k` steps it has the squares with at most `k + 1`
opposing discs between them and such a disc (`FillGoesOn`). No row
brackets more than `Width - 2` discs, so with `Width - 3` steps no move is missed
(`FlipsAreMoves`, `MovesFlip`), and with more none is invented.

### 5.4 GameTreeProofs: lines, and induction

`LineEnd`, `Replay` and `OpeningBoard` are recursive functions of a sequence, and
what they do to a longer one is proved by induction over its length. The library's induction
theorems take an operator, which the installed provers cannot instantiate; but
that a set of finite sets has a least element under inclusion it states of sets.
`LeastElement` takes from it, for the sets `1 .. n`, that a set of numbers has a
least one, and `SetInduction`
is induction for a *set* of numbers: where the induction hypothesis would be an
operator, the set of the numbers it holds for is defined instead.
`RecursiveFunction` and `RecursionUnique` say that a recursion of `n` steps over
a set has a solution and only one, so that a `LET at[i \in ...] == ...` is what its
equation says. From these, `LineCons` and
`LineThroughPass` (a move, or a move after a forced pass, in front of a line) and, in
the NBoard proofs, `ReplayAppend` (a ply after a history) and `ExtensionKeeps`.

### 5.5 SearchSessionProofs

The first part follows `ExactSolverProofs`: `Inv` has `TypeOK`, `ControlInv`
(frames, callers, results and windows), `JobInv` (what the iteration and the
aspiration loop stand at), `TableInv`, `AnswerSound` and `KillersDiffer`. Two
things are different.

* A position searched to a depth has no one value: an entry of a deeper search may answer
  for it, and forced passes make depth and empties part ways. `Good` is the set of
  values the search in progress may find: plain negamax's alone where nothing can
  mix depths (no table, or a new session on a game without passes: `Plain`), all of
  `SearchValues` elsewhere. The argument needs of it only that it is closed under
  the moves of the game (`Closed`), so it is made once: `LoopInv` and `FrameInv`
  take the set as a parameter, and one invariant gives `ReturnsSound`,
  `AnswersAreSearchValues` and `ScoresAreNegamax`.
* The table outlives the search. What it holds must be true of every evaluator
  its scope matches (`EntrySound`), and, for `ScoresAreNegamax` in a new session,
  no deeper than the search in progress (`EntryStraight`). Ages, protection and the
  wrap of the generation choose a slot and never touch an entry, so `TableStaysSound`
  holds for every replacement policy of that shape.

Where identities collide no more is known than that scores are in range; that is what
`ProperValues` says, and it keeps the invariant free of the premise, so that
`SearchInvariant`, `ScoresAreNegamax`, `OrderSurvivesCutoffs` and `LinesCanBePlayed`
need none.

`LinesCanBePlayed` rests on a second invariant, `LineInv`: lines can be played from their
frame's position and begin with the best move; a new session's have no more moves than
the search has plies left (`LineFits`), an entry's move is legal where it belongs, and the
line kept for the next search is a line of the root it is kept for (`SessionLine`).
The last is needed because `search_iterative` reports an earlier search's line when
it begins with the same move (`search_node.cpp:347`).

`SessionServes` is the refinement of `SearchService`. `Begin` is `Ask`;
`FinishSearch` is `Answer`; a root that goes to the exact solver is asked and
answered in one step; every other step, resets and resizes included, changes
neither the request in progress nor the last answer.

`OrderSurvivesCutoffs` is an action property: halving is monotone, so counters that stood
in an order keep it, but for the square that made the cutoff.

### 5.6 NBoardProofs: the engine and its console

`HandledKeeps` says of every command that it keeps `EngineInv`: the history leads to the
board, and the session's positions are ones of the game. A refused `set game` changes
nothing; an accepted one keeps the session only if the old history is a beginning of
the new one, and then (`ExtensionKeeps`) the old game's positions are the new one's.
`BoardFollowsHistory`, `SessionFollowsGame` and `EveryGoAnswered` follow for any lines.

### 5.7 NBoardProofs: the match

Two invariants, of which only the second needs a premise.

* `MatchInv`: the runner by itself (`RunnerInv`), and how each `ProcessClient` stands
  to its process (`SideInv`). An engine that runs has a client that will stop it, and a client
  that waits does so after it told the process to end, or found it dead; so when
  none is left to stop and none waits, none runs: `EnginesAreGone`. The part of
  `RunnerInv` about turns (twice the empty squares, and one more where a pass is due)
  shows that the limit of turns is never met. With `StartInv` it gives `GamesAreByTheRules`, step by
  step: plies are `Ply`, the end of the loop is `GameOver`, errors are
  `BreakOff`, and everything the processes and pipes do is a stutter.
* `TalkInv`: what may be under way. Lines not yet sent and lines not yet read
  are one sequence (`Pending`): sending moves the border and nothing else
  (`PendingSent`), and the engine takes from its front (`PendingRead`). Between
  turns there is nothing, or what the start left: `nboard 2` unread, or its answer
  (`Quiet`). While the position is on its way the sequence is an ending of
  `nboard`, `set game`, `set depth`, `ping`, and what was read already has taken effect
  (`Asked`); after the pong both pipes are empty and the engine stands at
  the runner's board and depth, so the one line that can come is the answer
  (`Going`). That is why the ping may carry the same id every turn:
  after a timeout, which could leave a pong behind, the game is over. `AnswersAreOfTheTurn` and
  `GamesAreSpoiltByFaults` read it off.

### 5.8 MatchReplayProofs

The four properties of the run `match_replay`, for every game and match, every
way the games go and whichever token of whichever line a file is cut after: `RecordsTell`,
`LinesReadBack`, `RefusalsAreJustified`, `DivergencesAreTrue`. They have no premise
beyond the module's assumptions (discs and empty squares are 64, a match has openings,
an opening leads from the initial board to its board). The invariant has three
parts, `RunnerInv`, `FileInv` and `ReplayInv`.

* `RunnerInv`. A record holds moves, passes as a count, full moves and events, and
  none of them shows the boards. `Played` ties them together: some function
  `turn` numbers the turns taken by the first `k` moves, each move takes the board on by
  one ply, or by two where a pass is due, and an event of an exactly solved root
  names one of these turns (`IsTurn`). `RecordsTellTheGames` counts instead: the moves
  made in the first `n` turns are the turns on whose boards a move was possible (`Made`), so that the
  `n`-th turn is the pass that was due or the next of the record's moves (`TurnAsTold`), moves
  and passes are as many as they say (`Counted`) and a game that was not broken off
  ends where the game is over. Each action adds a turn (`MoveIsCounted`,
  `PassIsCounted`) or none, and the sums of the summary are cardinalities of sets
  that part the games.
* `FileInv`. Every line is its record's, except a last one that is torn, and that
  one cannot be read.
* `ReplayInv`. The replay tool has the first records of the match, without
  the boards, and its divergences and the pairs it is silent about are as
  `OnBothGames` and `PlayedTwice` say.

What the parser makes of a line is proved of lines and not of grammars. `Leads`
says that a row of tokens, wherever it stands in a line, takes the reader from one
state to another without ever being done on the way; a value is a row that is skipped
from any state that expects one (`Skips`), whatever is open around it. Strings, numbers
and words are values; arrays and objects of values are (an induction over the
parts, as in `CommaSeparated`); so the events with their nested objects are,
and the members of the object are the fields in the order they are written. That the
reader is not done before the last token is why a cut line is refused
(`CutLineRefused`), after whichever token; the run tries all of them on every record.

A record that is read back is a list of moves without boards or passes. `MovesReplay` says that
replaying its first `c` moves, with a pass wherever there is no move, comes to the board the
game had after them, so the replay never fails; `CommonMoves` of two records
have led over the same boards (`LikeSoFar`), as an `Advances` step is determined by the
board and the move. The two descriptions of a game meet in `MovesAreMade`: the turns taken by
the first `c` moves have `c` moves. So the moves the report names, which the code finds in the
lists of moves, are the next ones after the board it names
(`StandsOn`), and can be played there unless a pass is due (`NextMoveFits`); where one
is, nothing more is claimed than that they are the next of the head's and the base's
game, which is what finding 5 is about. From there `OutcomeOfPair` takes the cases: the openings differ, a game ends
where the other goes on, two moves differ, or none does and only a pass may be
ahead. A pair is refused only for its opening, its colours or a missing
partner, and none of these happens where sides are swapped and the
number of games is even (`RefusalsAreJustified`).

### 5.9 LabelPipelineProofs

Two properties of the run `labels`, for every game, options, random moves, lost ends and
edits: `SamplesAreAsAsked` and `LabelsAreTrue`. Beyond the game's assumptions they
take `JobSampler` (games start at a position, an attempt has a size to ask for) and
`JobTools` (the limit is a number or none).

* `SamplerInv`. Every attempt that is over is a sample or is in one of three counts. While
  one is under way its board was made by a move *or is not of the size that is wanted*:
  a pass keeps the number of empty squares and is taken only on the way to another, so
  the invariant has no need to know the game so far, and a sample never
  stands behind a pass.
* `FilesInv`. The file of positions is the sampler's, or its first lines with perhaps the
  beginning of one more (`FileOf`); what was read of it is the boards of the
  sampler whose rows are all there; and `MadeOk` of the labels says of every board before
  the next one whether it was labelled, so that a label's number can be wrong
  neither behind a skipped board nor at the limit.

The reading is not proved by induction over the file. `Kept` drops blank lines by recursion;
what it does to the first `n` lines is written down as a function of `n` (the first
`n - n \div 10` rows) and found to satisfy the recursion, which has one solution
(`KeptIs`). Nine rows, counted from anywhere but a whole number of boards, are refused
by their number, and a torn line in the last block is no row of any board
(`ReadsBack`).

### 5.10 EvaluatorConfigProofs

`LoadedIsAsAsked` and `OnlyBadConfigsRefused`, for every command line, set of config and table
files, order of the lines and writes of a trainer between two steps, the lines of a table included, under `ConfigAssumption` alone.
The invariant is `LoaderInv`, of the loader's record and the lines of the file it has chosen.

* `Heard`. What the loader holds after `n` lines is what the first `n` lines have said, and
  all of these are good. Each part is stated once: the keys seen are those of the
  lines, the features seen are those a key names by name or alias and each is of one
  line, a weight seen is the integer of a line that names it, the mode is of the one line that
  sets it, a path is that of its line. What was not heard of is as it was built in. The lemma
  that a step keeps this (`AcceptReads`, and one `ReadKeeps...` for each part) rests on a line being of one
  kind (`KindsDiffer`): no key names both a feature and a table, so reading one part
  leaves the others as they were.
* `TablesInv`. The targets before the next one that have a path have the table kept for its
  normal path, the others none; and a table kept has entries, each in its place, and is what a
  version of the file written by now says unless the reading of it was torn. This is where the cache is
  needed: a version written between two targets is not looked at by the second, if their paths have
  one normal form. For paths that do not nothing is claimed, and the run has two that open one file.
* `ReadingInv`. The lines read so far of a table make a table, and unless the reading is torn
  they are the first lines of the file as it stands. A trainer who begins to write makes the reading torn
  in the same step, so the lines of an untorn reading are never those of a version that is gone.
* Refused. A loader that refused its file has a file that is not well-formed (a line that is malformed or
  repeats another one, or something missing at its end), or names a table file that is missing, was
  written while it was read, or of which a version written by then cannot be read (`Unreadable`).

`WellFormedFile` counts: as many keys as lines, as many features as lines that name one.
`AsManyAsDifferent` turns the counts into "no two lines have the same", which is what the loader
looks at one line at a time, and back; with `Heard` at the last line the two statements meet
(`HeardIsWellFormed`, `RefusedIsMalformed`). The mode may stand anywhere, and
the end of the file needs only the whole of what was heard (`EndKeeps`): the mutant `ModeReadAtOnce`
shows what a mode that acts where it stands would do.

### 5.11 BoardProofs and EvaluatorConfigProofs: the scores

What is computed from a board is in `BoardProofs`; `EvaluatorConfigProofs` says it of the boards an
evaluator is asked about. That no square of theirs holds two discs is `BoardProofs`'
invariant, which the steps of a tool that plays keep (`PlaysOnBoards`).

* `ScoresAreTotals`. A sum over a set does not depend on the order in which it is taken (`SumSteps`
  to `SumOfIs`: sums are the library's folds, which are recursive functions, so a sum is shown to
  be any function on the subsets that satisfies the recursion, and there is one). The twelve raw
  values are integers (`RawValueTyped`); a feature of weight 0 adds nothing
  (`SumDropsZeros`), so the sum over the weighted features is the one over those shown;
  and where the fast path is taken the sum has the one term of the tables.
* `SidesAreBalanced`. `IndexOfStates`: an index is the states of its squares to base 3, so each digit
  is the state of its square (`IndexTells`), and exchanging the colours negates every
  signed cell (`SignsTurn`). Both rule tables are then negated (`CornerRuleTurns`,
  `EdgeRuleTurns`, where a chain is one of equal cells, of either colour), and the
  differences obviously are; the sum of negated terms is negated (`SumTurns`).
* `PatternsAreAligned`. By the same lemmas an index is in its table (`IndexInTable`), and two orders of squares
  with the same states have one index. Each instance of eleven families is compared with
  the first one, square by square (`TurnsCorner2x3` and its like); the rows and columns are lines of eight.
* `EvaluatorIsSymmetric`. A mirror is its own inverse and takes the eight steps from a square to steps from
  its image (`Follows`); so it takes rows to rows, and with `MovesAndFlipsAgree`'s lemmas legal moves
  to legal moves (`MovesTurn`), neighbours to neighbours (`AdjacentTurn`), stable edge squares to
  stable edge squares (`StableTurn`), and corner-local values stay (`CornerLocalTurn`). What
  is written down for one corner or edge has no image of its own: the four corners
  change places (`CornersChangePlaces`), an edge goes to another, perhaps read from its
  other end (`EdgesChangePlaces`), and an edge's rule gives the same from either end
  (`EdgeRuleReverses`). A sum does not depend on the names of its terms (`SumMoves`). The corner
  pattern reads two by three squares, which a transposition turns into three by two: that feature
  is left out there, in the property as in the theorem.

### 5.12 Only model-checked

* Liveness under fairness, and `ENABLED`: `Termination`, `ServiceResponds`,
  `RunnerIsNeverStuck`, `ToolsEnd`, `ToolPlaysOrRefuses`.
* The run `labels`. `RefusalsJustified` goes through ten edits of a line, read by the
  strict reader; `RankRelations` and
  `ReportAddsUp` are about folds that sort and count (`SortSeq`, `FoldSet`), which are
  recursive definitions of the library.

No module a theorem rests on declares a `RECURSIVE` operator.

## 6. Plan

Done, in this order: the exact solver and its table (the engine's one exact
promise), the midgame search and session with every option and the history of moves, the rules, the
NBoard engine and match; proofs of the exact solver and of the rules; then
matches, records and replay, the label tools, the evaluator and its
configuration; then the proofs of the midgame search and its session, of the
exact line, of the NBoard engine, and of the match between engines; then those of
the bitboards against the rules of the game, of a match, its file and its replay,
of the label tools up to the labels, of the loading of an evaluator, and of the
scores it gives.

Next, the model: what the analysis tool reports of a root's candidates, and the
probe, if a property beyond the search's own is found.

Then, another proof: `RefusalsJustified` of the labels. The lemmas on JSON lines of
`MatchReplayProofs` are about the lenient reader; the analyzer's is the strict one.
