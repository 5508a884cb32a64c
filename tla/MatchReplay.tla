----------------------------- MODULE MatchReplay -----------------------------
(***************************************************************************)
(* A match of the match runner and what the replay tool makes of its       *)
(* record: run_match and run_game (core.cpp) with the players left         *)
(* abstract, write_jsonl_file (jsonl_writer.cpp), and othello_replay_game  *)
(* (replay.cpp), which looks in every pair of games for the first move the *)
(* two players, head (player A) and base (player B), made differently.     *)
(*                                                                         *)
(* The two programs share nothing but the file.  A file may lose its tail: *)
(* the disk fills up, or the runner is killed while it writes.             *)
(***************************************************************************)
EXTENDS GameTree, JsonLines

CONSTANTS
  Initial,                  \* Board::initial
  BlackDiscs, WhiteDiscs,   \* the discs of each colour in a position
  Matches,                  \* the matches: see MatchType
  ExactThreshold,           \* the search players solve a root exactly from here on
  External                  \* the players that are engines of their own, of "A" and "B"

PassToken == 64
OpeningType == [name : STRING, moves : Seq(Squares), start_board : Positions]
\* parse_options refuses a number of games below one.
MatchType == [games : Nat \ {0}, swap_sides : BOOLEAN, openings : Seq(OpeningType)]

ASSUME MatchAssumption ==
  /\ \A p \in Positions :
       /\ BlackDiscs[p] \in Nat /\ WhiteDiscs[p] \in Nat
       /\ BlackDiscs[p] + WhiteDiscs[p] + Empties[p] = 64
  /\ \A c \in Matches : c \in MatchType /\ c.openings # << >>
  /\ ExactThreshold \in Nat
  /\ External \subseteq {"A", "B"}

\* An opening is the line parse_opening_line accepted, and where it leads.
ASSUME OpeningsLead ==
  \A c \in Matches : \A o \in Range(c.openings) : LineEnd(Initial, o.moves) = {o.start_board}

VARIABLES
  match,      \* the match being played, one of Matches
  game,       \* the game being played, or NoGame
  records,    \* the records of the games played; boards, the board at every ply of the
              \* game proper, is a history that no line shows
  file,       \* the lines on disk; torn, whether the last of them was cut
  replay      \* othello_replay_game

vars == <<match, game, records, file, replay>>

NoGame == [pc |-> "none"]
NoFile == [lines |-> << >>, closed |-> FALSE, torn |-> FALSE]
IdleReplay == [pc |-> "idle", read |-> 0, records |-> << >>, pairs |-> 0, divergences |-> << >>]

Init ==
  /\ match \in Matches
  /\ game = NoGame
  /\ records = << >>
  /\ file = NoFile
  /\ replay = IdleReplay

(***************************************************************************)
(* One game (run_game).                                                    *)
(***************************************************************************)
SideToMove(p) == IF Side[p] THEN "Black" ELSE "White"

\* Mutation: every game takes the next opening.
OpeningIndexIgnoresPairs(game_index, swap_sides, count) == game_index % count

\* opening_index_for_game: the two games of a pair share an opening.
OpeningIndexForGame(game_index, swap_sides, count) ==
  (IF swap_sides THEN game_index \div 2 ELSE game_index) % count

BlackIsPlayerA(game_index, swap_sides) == ~swap_sides \/ game_index % 2 = 0

Player(side, black_is_player_a) == IF (side = "Black") = black_is_player_a THEN "A" ELSE "B"

GamesLeft == Len(records) < match.games

StartGame ==
  /\ game = NoGame /\ GamesLeft
  /\ LET index == Len(records)
         k == OpeningIndexForGame(index, match.swap_sides, Len(match.openings))
         opening == match.openings[k + 1]
     IN  game' = [pc |-> "play", game_index |-> index, opening_index |-> k, opening |-> opening,
                  black_is_player_a |-> BlackIsPlayerA(index, match.swap_sides),
                  board |-> opening.start_board, full_moves |-> opening.moves,
                  moves |-> << >>, passes |-> 0, events |-> << >>, error |-> FALSE,
                  boards |-> <<opening.start_board>>]
  /\ UNCHANGED <<match, records, file, replay>>

GamePass ==
  /\ game.pc = "play" /\ Moves[game.board] = {} /\ ~Terminal(game.board)
  /\ game' = [game EXCEPT !.board = Pass[@], !.passes = @ + 1,
                          !.full_moves = Append(@, PassToken),
                          !.boards = Append(@, Pass[game.board])]
  /\ UNCHANGED <<match, records, file, replay>>

Mover == Player(SideToMove(game.board), game.black_is_player_a)

\* exact_root_trace, when a search player solved the root exactly.
RootEvents(move) ==
  IF Mover \in External \/ Empties[game.board] > ExactThreshold THEN << >>
  ELSE <<[ply |-> Len(game.full_moves), side |-> SideToMove(game.board), player |-> Mover,
          board |-> game.board, best_move |-> move]>>

GameMove ==
  /\ game.pc = "play"
  /\ \E m \in Moves[game.board] :
       game' = [game EXCEPT !.board = Play[@][m], !.moves = Append(@, m),
                            !.full_moves = Append(@, m), !.events = @ \o RootEvents(m),
                            !.boards = Append(@, Play[game.board][m])]
  /\ UNCHANGED <<match, records, file, replay>>

\* No legal move from the engine on the move: a mistake of its own, or silence.
EngineFails == ~Terminal(game.board) /\ Moves[game.board] # {} /\ Mover \in External
\* An engine that does not start breaks the game off before its first turn.
EngineMissing == Len(game.boards) = 1 /\ External # {}
GameBreaks ==
  /\ game.pc = "play" /\ (EngineFails \/ EngineMissing)
  /\ game' = [game EXCEPT !.pc = "finish", !.error = TRUE]
  /\ UNCHANGED <<match, records, file, replay>>

\* final_scores: the empty squares go to the winner.
FinalScores(p) ==
  LET black == BlackDiscs[p]
      white == WhiteDiscs[p]
      half == Empties[p] \div 2
  IN  IF black > white THEN <<black + Empties[p], white>>
      ELSE IF white > black THEN <<black, white + Empties[p]>>
      ELSE <<black + half, white + (Empties[p] - half)>>

\* finish_record, on a game that is over or broken off.
Finished(g) ==
  LET scores == FinalScores(g.board)
      diff == scores[1] - scores[2]
  IN  [game_index |-> g.game_index, opening_index |-> g.opening_index,
       opening_name |-> g.opening.name, opening_moves |-> g.opening.moves,
       start_board |-> g.opening.start_board, black_is_player_a |-> g.black_is_player_a,
       winner |-> IF diff > 0 THEN "black" ELSE IF diff < 0 THEN "white" ELSE "draw",
       black_score |-> scores[1], white_score |-> scores[2],
       score_diff_from_player_a |-> IF g.black_is_player_a THEN diff ELSE -diff,
       plies |-> Len(g.moves), passes |-> g.passes, moves |-> g.moves,
       exact_root_events |-> g.events, illegal_or_error |-> g.error, boards |-> g.boards]

FinishGame ==
  /\ game.pc = "finish" \/ (game.pc = "play" /\ Terminal(game.board))
  /\ records' = Append(records, Finished(game))
  /\ game' = NoGame
  /\ UNCHANGED <<match, file, replay>>

(***************************************************************************)
(* The summary (summarize).                                                *)
(***************************************************************************)
\* Mutation: games that were broken off count for whoever was ahead.
SummarizeErrorsToo(rs) ==
  LET broken == { i \in DOMAIN rs : rs[i].illegal_or_error }
      diff(i) == rs[i].score_diff_from_player_a
  IN  [games |-> Len(rs), error_games |-> Cardinality(broken),
       valid_games |-> Cardinality(DOMAIN rs \ broken),
       player_a_wins |-> Cardinality({ i \in DOMAIN rs : diff(i) > 0 }),
       player_b_wins |-> Cardinality({ i \in DOMAIN rs : diff(i) < 0 }),
       draws |-> Cardinality({ i \in DOMAIN rs : diff(i) = 0 })]

Summarize(rs) ==
  LET valid == { i \in DOMAIN rs : ~rs[i].illegal_or_error }
      diff(i) == rs[i].score_diff_from_player_a
  IN  [games |-> Len(rs), error_games |-> Cardinality(DOMAIN rs \ valid),
       valid_games |-> Cardinality(valid),
       player_a_wins |-> Cardinality({ i \in valid : diff(i) > 0 }),
       player_b_wins |-> Cardinality({ i \in valid : diff(i) < 0 }),
       draws |-> Cardinality({ i \in valid : diff(i) = 0 })]

(***************************************************************************)
(* The file (jsonl_writer.cpp).  Of the fields that nothing reads back, a  *)
(* line keeps the events and the reason of an error.                       *)
(***************************************************************************)
EventTokens(e) ==
  ObjectOf(<<<<"ply", <<Num(e.ply)>>>>, <<"side", <<Str(e.side)>>>>,
             <<"player", <<Str(e.player)>>>>, <<"board", <<Str(e.board)>>>>,
             <<"best_move", <<Str(e.best_move)>>>>, <<"stats", ObjectOf(<< >>)>>,
             <<"pv", StringArray(<<e.best_move>>)>>>>)

MatchLine(r) ==
  ObjectOf(<<<<"game_index", <<Num(r.game_index)>>>>,
             <<"opening_index", <<Num(r.opening_index)>>>>,
             <<"opening_name", <<Str(r.opening_name)>>>>,
             <<"opening_moves", StringArray(r.opening_moves)>>,
             <<"start_board", <<Str(r.start_board)>>>>,
             <<"black_is_player_a", <<Bool(r.black_is_player_a)>>>>,
             <<"score_diff_from_player_a", <<Num(r.score_diff_from_player_a)>>>>,
             <<"moves", StringArray(r.moves)>>,
             <<"exact_root_events",
               ArrayOf([i \in DOMAIN r.exact_root_events |-> EventTokens(r.exact_root_events[i])])>>,
             <<"illegal_or_error", <<Bool(r.illegal_or_error)>>>>,
             <<"error_reason", IF r.illegal_or_error THEN <<Str("reason")>> ELSE <<Null>>>>>>)

MatchOver == game = NoGame /\ Len(records) = match.games

WriteRecord ==
  /\ MatchOver /\ ~file.closed /\ Len(file.lines) < Len(records)
  /\ file' = [file EXCEPT !.lines = Append(@, MatchLine(records[Len(@) + 1]))]
  /\ UNCHANGED <<match, game, records, replay>>

CloseFile ==
  /\ MatchOver /\ ~file.closed /\ Len(file.lines) = Len(records)
  /\ file' = [file EXCEPT !.closed = TRUE]
  /\ UNCHANGED <<match, game, records, replay>>

\* What is still in the stream's buffer may be lost, with the process or without
\* a word when the file is closed: from anywhere in any line on.
LoseTail ==
  /\ MatchOver /\ ~file.closed /\ Len(file.lines) = Len(records)
  /\ \E n \in DOMAIN file.lines :
       \E cut \in 0 .. Len(file.lines[n]) - 1 :
         file' = [lines |-> SubSeq(file.lines, 1, n - 1)
                              \o (IF cut = 0 THEN << >> ELSE <<SubSeq(file.lines[n], 1, cut)>>),
                  closed |-> TRUE, torn |-> cut # 0]
  /\ UNCHANGED <<match, game, records, replay>>

(***************************************************************************)
(* Reading the file back (parse_match_jsonl_record).                       *)
(***************************************************************************)
Kinds ==
  [game_index |-> "int", opening_index |-> "int", opening_name |-> "string",
   opening_moves |-> "strings", start_board |-> "string", black_is_player_a |-> "bool",
   score_diff_from_player_a |-> "int", moves |-> "strings", illegal_or_error |-> "bool"]
Required == DOMAIN Kinds \ {"illegal_or_error"}

\* The field of that name; of a name that stands there twice, the last.
Field(line, members, name) ==
  ValueOf(line, members[Max(Named(members, name))].at, Kinds[name])

\* The record those members make: a set of one, or of none.
RecordOf(line, members) ==
  IF /\ \A name \in Required : Named(members, name) # {}
     /\ \A k \in DOMAIN members :
          members[k].name \in DOMAIN Kinds =>
            HasKind(line, members[k].at, Kinds[members[k].name])
  THEN {[name \in DOMAIN Kinds |->
           IF Named(members, name) = {} THEN FALSE ELSE Field(line, members, name)]}
  ELSE {}
ParseMatchRecord(line) == UNION { RecordOf(line, members) : members \in Object(line, TRUE) }

StartReplay ==
  /\ replay.pc = "idle" /\ file.closed
  /\ replay' = [replay EXCEPT !.pc = "read"]
  /\ UNCHANGED <<match, game, records, file>>

\* read_match_jsonl_records, line by line.
LineToRead == replay.pc = "read" /\ replay.read < Len(file.lines)
NextLine == file.lines[replay.read + 1]

ReadRecord ==
  /\ LineToRead
  /\ \E r \in ParseMatchRecord(NextLine) :
       replay' = [replay EXCEPT !.read = @ + 1, !.records = Append(@, r)]
  /\ UNCHANGED <<match, game, records, file>>

RefuseLine ==
  /\ LineToRead
  /\ ParseMatchRecord(NextLine) = {}
  /\ replay' = [replay EXCEPT !.pc = "refused"]
  /\ UNCHANGED <<match, game, records, file>>

\* The end of the file; no record at all, or one without its pair, is refused.
EndRead ==
  /\ replay.pc = "read" /\ replay.read = Len(file.lines)
  /\ replay' = [replay EXCEPT !.pc = IF replay.records = << >> \/ Len(replay.records) % 2 # 0
                                     THEN "refused" ELSE "extract"]
  /\ UNCHANGED <<match, game, records, file>>

(***************************************************************************)
(* The first divergence of a pair of games.                                *)
(***************************************************************************)
ReplayStart(start_board) == [ok |-> TRUE, board |-> start_board, turns |-> 0, passes |-> 0]
Refused(r) == [r EXCEPT !.ok = FALSE]
Passed(r) == [r EXCEPT !.board = Pass[@], !.turns = @ + 1, !.passes = @ + 1]

\* A move of the list, after the pass it does not show, if one is due.
ReplayMove(r, m) ==
  IF Moves[r.board] # {} /\ m \in Moves[r.board]
  THEN [r EXCEPT !.board = Play[@][m], !.turns = @ + 1]
  ELSE Refused(r)
ReplayToken(r, token) ==
  IF ~r.ok THEN r
  ELSE IF Moves[r.board] # {} THEN ReplayMove(r, token)
  ELSE IF Terminal(r.board) THEN Refused(r)
  ELSE IF token = PassToken THEN Passed(r)
  ELSE ReplayMove(Passed(r), token)

\* replay_moves; board_from_string gives back what to_string was given.
ReplayMoves(start_board, moves) ==
  LET after[i \in 0 .. Len(moves)] ==
        IF i = 0 THEN ReplayStart(start_board) ELSE ReplayToken(after[i - 1], moves[i])
  IN  after[Len(moves)]

\* Mutation: games with the same moves so far are never told apart by length.
CommonMovesOfEqualLength(first, second) ==
  LET limit == Min({Len(first), Len(second)})
      different == { i \in 1 .. limit : first[i] # second[i] }
  IN  IF different # {} THEN Min(different) - 1 ELSE -1

\* first_different_move_index: how many moves are common, -1 if the games are the same.
CommonMoves(first, second) ==
  LET limit == Min({Len(first), Len(second)})
      different == { i \in 1 .. limit : first[i] # second[i] }
  IN  IF different # {} THEN Min(different) - 1
      ELSE IF Len(first) # Len(second) THEN limit ELSE -1

SameOpening(first, second) ==
  /\ first.opening_index = second.opening_index /\ first.opening_name = second.opening_name
  /\ first.start_board = second.start_board /\ first.opening_moves = second.opening_moves

MoveAt(moves, i) == IF i \in DOMAIN moves THEN moves[i] ELSE NoMove

\* extract_pair_divergence
PairDivergence(pair_index, first, second) ==
  LET common == CommonMoves(first.moves, second.moves)
      r == ReplayMoves(first.start_board, SubSeq(first.moves, 1, common))
      player(record) == Player(SideToMove(r.board), record.black_is_player_a)
      head == IF player(first) = "A" THEN first ELSE second
      base == IF player(first) = "A" THEN second ELSE first
  IN  IF ~SameOpening(first, second) THEN [ok |-> FALSE, found |-> {}]
      ELSE IF common < 0 THEN [ok |-> TRUE, found |-> {}]
      ELSE IF ~r.ok \/ player(first) = player(second) THEN [ok |-> FALSE, found |-> {}]
      ELSE [ok |-> TRUE,
            found |-> {[pair_index |-> pair_index,
                        head_game_index |-> head.game_index, base_game_index |-> base.game_index,
                        ply |-> Len(first.opening_moves) + r.turns,
                        side_to_move |-> SideToMove(r.board), board |-> r.board,
                        head_move |-> MoveAt(head.moves, common + 1),
                        base_move |-> MoveAt(base.moves, common + 1),
                        head_final_diff |-> head.score_diff_from_player_a,
                        base_game_head_final_diff |-> base.score_diff_from_player_a,
                        illegal_or_error |-> first.illegal_or_error \/ second.illegal_or_error,
                        preceding_moves |-> first.opening_moves \o SubSeq(first.moves, 1, common)]}]

ExtractPair ==
  /\ replay.pc = "extract" /\ 2 * replay.pairs < Len(replay.records)
  /\ \E pair \in {PairDivergence(replay.pairs, replay.records[2 * replay.pairs + 1],
                                  replay.records[2 * replay.pairs + 2])} :
       replay' = IF pair.ok
                 THEN [replay EXCEPT !.pairs = @ + 1,
                                     !.divergences = @ \o SetToSeq(pair.found)]
                 ELSE [replay EXCEPT !.pc = "refused"]
  /\ UNCHANGED <<match, game, records, file>>

Render ==
  /\ replay.pc = "extract" /\ 2 * replay.pairs = Len(replay.records)
  /\ replay' = [replay EXCEPT !.pc = "reported"]
  /\ UNCHANGED <<match, game, records, file>>

Runner == StartGame \/ GamePass \/ GameMove \/ GameBreaks \/ FinishGame \/ WriteRecord \/ CloseFile \/ LoseTail
ReplayTool == StartReplay \/ ReadRecord \/ RefuseLine \/ EndRead \/ ExtractPair \/ Render
Next == Runner \/ ReplayTool

Spec == Init /\ [][Next]_vars

(***************************************************************************)
(* Properties.                                                             *)
(***************************************************************************)

Whole == file.closed /\ Len(file.lines) = match.games /\ ~file.torn

\* The line of a game that was just played reads back as that game, and no
\* beginning of it that lacks its end is taken for a record: the nested
\* objects and arrays the replay tool skips over hide no field and end where
\* they should (skip_value, parse_record).
LineReadsBack ==
  game = NoGame /\ records # << >> /\ file = NoFile =>
    LET r == Last(records)
        line == MatchLine(r)
    IN  /\ ParseMatchRecord(line) = {[name \in DOMAIN Kinds |-> r[name]]}
        /\ \A cut \in 1 .. Len(line) - 1 : ParseMatchRecord(SubSeq(line, 1, cut)) = {}

\* How many moves were made in the first n turns of the game that went over the boards.
Made(boards, n) == Cardinality({ k \in 1 .. n : Moves[boards[k]] # {} })

\* What is played is what the record and the summary say.  The moves of the record
\* are those of the game, one for every turn that was not a pass, its passes the
\* other turns, and a game that was not broken off is over.
PlayedAsTold(r) ==
  LET turns == Len(r.boards) - 1
  IN  /\ r.boards[1] = r.start_board
      /\ r.plies = Len(r.moves) /\ r.plies = Made(r.boards, turns) /\ r.passes = turns - r.plies
      /\ \A n \in 1 .. turns :
           LET board == r.boards[n]
               move == r.moves[Made(r.boards, n)]
           IN  IF Moves[board] = {} THEN r.boards[n + 1] = Pass[board]
               ELSE move \in Moves[board] /\ r.boards[n + 1] = Play[board][move]
      /\ r.illegal_or_error \/ Terminal(Last(r.boards))

\* An exactly solved root is a turn of the game: at that ply, counted with the
\* passes, its board was on the board, its player on the move, its move played.
EventsAreTurns(r) ==
  \A k \in DOMAIN r.exact_root_events :
    LET e == r.exact_root_events[k]
        at == e.ply - Len(r.opening_moves) + 1
    IN  /\ at + 1 \in DOMAIN r.boards
        /\ r.boards[at] = e.board /\ r.boards[at + 1] = Play[e.board][e.best_move]
        /\ e.player = Player(e.side, r.black_is_player_a) /\ e.player \notin External

\* The scores share out the whole board, the winner having more discs.
ScoresShareTheBoard(r) ==
  LET ahead == BlackDiscs[Last(r.boards)] - WhiteDiscs[Last(r.boards)]
  IN  /\ r.black_score + r.white_score = 64
      /\ r.score_diff_from_player_a
           = (IF r.black_is_player_a THEN 1 ELSE -1) * (r.black_score - r.white_score)
      /\ r.winner = IF ahead > 0 THEN "black" ELSE IF ahead < 0 THEN "white" ELSE "draw"

\* Player A's wins are the valid games whose winner is A's colour, and a game
\* that was broken off is nobody's win (run_game, finish_record, summarize).
RecordsTellTheGames ==
  /\ \A i \in DOMAIN records :
       PlayedAsTold(records[i]) /\ EventsAreTurns(records[i]) /\ ScoresShareTheBoard(records[i])
  /\ MatchOver =>
       LET s == Summarize(records)
           winner(r) == IF (r.winner = "black") = r.black_is_player_a THEN "A" ELSE "B"
           wonBy(player) == Cardinality({ i \in DOMAIN records :
             LET r == records[i]
             IN  ~r.illegal_or_error /\ r.winner # "draw" /\ player = winner(r) })
       IN  /\ s.games = match.games /\ s.valid_games + s.error_games = s.games
           /\ s.player_a_wins = wonBy("A") /\ s.player_b_wins = wonBy("B")
           /\ s.draws = s.valid_games - wonBy("A") - wonBy("B")

\* The replay tool refuses every file that lost the end of a line, whatever was
\* lost before it, and nothing that a match with sides swapped, an even number
\* of games and a whole file gave it, however its games ended: its pairs share
\* an opening and compare head with base (replay.cpp:376, :395), and no list of
\* moves fails to replay.
RefusalsJustified ==
  /\ file.torn => replay.pc # "reported"
  /\ replay.pc = "refused" => ~(Whole /\ match.swap_sides /\ match.games % 2 = 0)

\* A divergence stands on both games of its pair: at that ply both had the board
\* reported, with the same boards and the moves reported before it, and the moves
\* it names, which are different ones, are those the games made next, none for a
\* game that was broken off.  Player A, the head, is to move on that board in its
\* game and the base in the other, and unless a pass is due the moves can be made
\* there: head made the one and base the other.  After a pass they are the moves
\* of the players that the report does not name.
OnBothGames ==
  \A k \in DOMAIN replay.divergences :
    LET d == replay.divergences[k]
        head == records[d.head_game_index + 1]
        base == records[d.base_game_index + 1]
        shown == d.ply - Len(head.opening_moves) + 1
        made == Made(head.boards, shown - 1)
    IN  /\ {d.head_game_index, d.base_game_index} = {2 * d.pair_index, 2 * d.pair_index + 1}
        /\ shown \in DOMAIN head.boards \cap DOMAIN base.boards
        /\ head.boards[shown] = d.board /\ base.boards[shown] = d.board
        /\ SubSeq(head.boards, 1, shown) = SubSeq(base.boards, 1, shown)
        /\ d.preceding_moves = head.opening_moves \o SubSeq(head.moves, 1, made)
        /\ d.preceding_moves = base.opening_moves \o SubSeq(base.moves, 1, made)
        /\ d.head_move = MoveAt(head.moves, made + 1) /\ d.base_move = MoveAt(base.moves, made + 1)
        /\ d.head_move # d.base_move
        /\ Moves[d.board] # {} => {d.head_move, d.base_move} \subseteq Moves[d.board] \cup {NoMove}
        /\ Player(d.side_to_move, head.black_is_player_a) = "A"
        /\ d.head_final_diff = head.score_diff_from_player_a
        /\ d.base_game_head_final_diff = base.score_diff_from_player_a

\* A pair the report leaves out is one game played twice, though one of the two
\* may have been broken off before a forced pass.
PassAhead(first, second) ==
  /\ IsPrefix(first, second) /\ Moves[Last(first)] = {} /\ Len(second) = Len(first) + 1
SilentPairsAreEqual ==
  replay.pc = "reported" =>
    /\ 2 * replay.pairs = Len(replay.records)
    /\ \A p \in 0 .. replay.pairs - 1 :
         \/ \E k \in DOMAIN replay.divergences : replay.divergences[k].pair_index = p
         \/ LET first == records[2 * p + 1].boards
                second == records[2 * p + 2].boards
            IN  first = second \/ PassAhead(first, second) \/ PassAhead(second, first)

\* The divergences reported are all there are, and each is one
\* (extract_pair_divergence).
DivergencesStand == OnBothGames /\ SilentPairsAreEqual

\* The board a divergence reports is the board before the first differing move
\* (tests/replay_tests.cpp:93): a move it names can be played there.
DivergenceBoardIsBeforeMove ==
  \A k \in DOMAIN replay.divergences :
    LET d == replay.divergences[k] IN {d.head_move, d.base_move} \subseteq Moves[d.board] \cup {NoMove}
=============================================================================
