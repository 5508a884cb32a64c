-------------------------- MODULE MatchReplayProofs --------------------------
(***************************************************************************)
(* Proofs about a match, its record and the replay of the record, for      *)
(* every game, every match and every place a file may be cut at:           *)
(*                                                                         *)
(*   RecordsTell           what the records and the summary say is what    *)
(*                         was played                                      *)
(*   LinesReadBack         the line of a record reads back as that record  *)
(*   RefusalsAreJustified  the replay tool refuses what it must, no more   *)
(*   DivergencesAreTrue    the divergences it reports are there, and are   *)
(*                         all there are                                   *)
(*                                                                         *)
(* RunnerInv ties a game, whether still played or recorded, to the boards  *)
(* it went through: every two of them in a row lie a move or a due pass    *)
(* apart, the full moves count both, and each event of an exactly solved   *)
(* root names one such turn.  FileInv ties every line of the file to its   *)
(* record, and ReplayInv what the replay tool has read and found to the    *)
(* records of the match it knows nothing of.                               *)
(*                                                                         *)
(* Between them stands the reader of JSON lines.  What it does with a row  *)
(* of tokens is a sequence of sets of states, and a row leads it from one  *)
(* state to another wherever in the line it stands (Leads); a value is a   *)
(* row that is skipped from any state that expects one (Skips, IsValue).   *)
(* Arrays and objects are values when their parts are, which gives the     *)
(* line of a match its members and the place of each one's value.          *)
(***************************************************************************)
EXTENDS MatchReplay, GameTreeProofs

(***************************************************************************)
(* A game as it was played.                                                *)
(***************************************************************************)
PassDue(p) == Moves[p] = {} /\ ~Terminal(p)

\* From the i-th board to the j-th by the move m, after the pass if one is due.
Advances(boards, i, j, m) ==
  \/ /\ j = i + 1 /\ m \in Moves[boards[i]]
     /\ boards[j] = Play[boards[i]][m]
  \/ /\ j = i + 2 /\ PassDue(boards[i]) /\ boards[i + 1] = Pass[boards[i]]
     /\ m \in Moves[boards[i + 1]] /\ boards[j] = Play[boards[i + 1]][m]

\* The boards after the last move: none, or the one after a pass.
EndsAt(boards, i) ==
  \/ Len(boards) = i
  \/ Len(boards) = i + 1 /\ PassDue(boards[i]) /\ boards[i + 1] = Pass[boards[i]]

\* The n-th turn was the pass that was due, or the next of the moves.
TurnAsTold(moves, boards, n) ==
  LET board == boards[n]
      move == moves[Made(boards, n)]
  IN  IF Moves[board] = {} THEN boards[n + 1] = Pass[board]
      ELSE move \in Moves[board] /\ boards[n + 1] = Play[board][move]
Counted(moves, passes, boards) ==
  /\ Len(moves) = Made(boards, Len(boards) - 1) /\ passes = Len(boards) - 1 - Len(moves)
  /\ \A n \in 1 .. Len(boards) - 1 : TurnAsTold(moves, boards, n)

\* turn[k]: the turns taken when k moves have been made.
Played(start, moves, boards, turn) ==
  /\ turn \in [0 .. Len(moves) -> Nat] /\ turn[0] = 0 /\ boards[1] = start
  /\ \A k \in 0 .. Len(moves) : turn[k] + 1 \in DOMAIN boards
  /\ \A k \in 1 .. Len(moves) : Advances(boards, turn[k - 1] + 1, turn[k] + 1, moves[k])
  /\ EndsAt(boards, turn[Len(moves)] + 1)

Turns == Squares \cup {PassToken}
Events == [ply : Nat, side : {"Black", "White"}, player : {"A", "B"},
           board : Positions, best_move : Squares]
Games == [pc : {"play", "finish"}, game_index : Nat, opening_index : Nat,
          opening : OpeningType, black_is_player_a : BOOLEAN, board : Positions,
          full_moves : Seq(Turns), moves : Seq(Squares), passes : Nat,
          events : Seq(Events), error : BOOLEAN, boards : Seq(Positions)]

\* The event e is a turn of the game that went through these boards.
IsTurn(e, opening_moves, boards, black_is_player_a) ==
  LET at == e.ply - Len(opening_moves) + 1
  IN  /\ at \in DOMAIN boards /\ at + 1 \in DOMAIN boards
      /\ boards[at] = e.board /\ boards[at + 1] = Play[e.board][e.best_move]
      /\ e.player = Player(e.side, black_is_player_a) /\ e.player \notin External

\* The i-th game of the match c, as it must be set up.
IndexOf(c, i) == OpeningIndexForGame(i - 1, c.swap_sides, Len(c.openings))
OpeningOf(c, i) == c.openings[IndexOf(c, i) + 1]

GameInv(g, c, i) ==
  /\ g \in Games
  /\ g.game_index = i - 1 /\ g.opening_index = IndexOf(c, i) /\ g.opening = OpeningOf(c, i)
  /\ g.black_is_player_a = BlackIsPlayerA(i - 1, c.swap_sides)
  /\ g.boards # << >> /\ g.board = g.boards[Len(g.boards)]
  /\ Len(g.full_moves) = Len(g.opening.moves) + Len(g.boards) - 1
  /\ \E turn : Played(g.opening.start_board, g.moves, g.boards, turn)
  /\ Counted(g.moves, g.passes, g.boards) /\ (g.pc = "finish" => g.error)
  /\ \A k \in DOMAIN g.events : IsTurn(g.events[k], g.opening.moves, g.boards, g.black_is_player_a)

Records ==
  [game_index : Nat, opening_index : Nat, opening_name : STRING, opening_moves : Seq(Squares),
   start_board : Positions, black_is_player_a : BOOLEAN, winner : {"black", "white", "draw"},
   black_score : Int, white_score : Int, score_diff_from_player_a : Int, plies : Nat,
   passes : Nat, moves : Seq(Squares), exact_root_events : Seq(Events),
   illegal_or_error : BOOLEAN, boards : Seq(Positions)]

SetUp(r, c, i) ==
  /\ r.game_index = i - 1 /\ r.opening_index = IndexOf(c, i)
  /\ r.opening_name = OpeningOf(c, i).name /\ r.opening_moves = OpeningOf(c, i).moves
  /\ r.start_board = OpeningOf(c, i).start_board
  /\ r.black_is_player_a = BlackIsPlayerA(i - 1, c.swap_sides)

\* The sign of player A's difference and the winner say the same.
WinnerIsAhead(r) ==
  LET diff == (IF r.black_is_player_a THEN 1 ELSE -1) * r.score_diff_from_player_a
  IN  r.winner = IF diff > 0 THEN "black" ELSE IF diff < 0 THEN "white" ELSE "draw"

RecordInv(r, c, i) ==
  /\ r \in Records /\ SetUp(r, c, i) /\ r.boards # << >>
  /\ \E turn : Played(r.start_board, r.moves, r.boards, turn)
  /\ PlayedAsTold(r) /\ EventsAreTurns(r) /\ ScoresShareTheBoard(r) /\ WinnerIsAhead(r)

RunnerInv ==
  /\ match \in Matches
  /\ records \in Seq(Records) /\ Len(records) <= match.games
  /\ \A i \in DOMAIN records : RecordInv(records[i], match, i)
  /\ game # NoGame => GameInv(game, match, Len(records) + 1) /\ Len(records) < match.games

LEMMA IndexInRange ==
  ASSUME NEW i \in Nat, NEW swap \in BOOLEAN, NEW n \in Nat \ {0}
  PROVE  OpeningIndexForGame(i, swap, n) \in 0 .. n - 1
<1>1. \A x \in Nat : x % n \in 0 .. n - 1
  OBVIOUS
<1>2. i \div 2 \in Nat
  OBVIOUS
<1> QED
  BY <1>1, <1>2 DEF OpeningIndexForGame

LEMMA OpeningIsGood ==
  ASSUME NEW c \in Matches, NEW i \in Nat \ {0}
  PROVE  IndexOf(c, i) \in Nat /\ OpeningOf(c, i) \in OpeningType
<1>1. c \in MatchType /\ c.openings # << >>
  BY MatchAssumption
<1>2. c.swap_sides \in BOOLEAN /\ c.openings \in Seq(OpeningType)
  BY <1>1 DEF MatchType
<1>3. Len(c.openings) \in Nat \ {0}
  BY <1>1, <1>2
<1>4. IndexOf(c, i) \in 0 .. Len(c.openings) - 1
  BY <1>2, <1>3, IndexInRange DEF IndexOf
<1>5. IndexOf(c, i) + 1 \in DOMAIN c.openings
  BY <1>2, <1>3, <1>4
<1> QED
  BY <1>2, <1>4, <1>5, ElementOfSeq DEF OpeningOf

LEMMA NothingPlayed ==
  ASSUME NEW start
  PROVE  Played(start, << >>, <<start>>, [k \in 0 .. 0 |-> 0])
BY DEF Played, EndsAt

\* Appending a board leaves the boards there are.
LEMMA BoardsStay ==
  ASSUME NEW boards \in Seq(Positions), NEW p \in Positions
  PROVE  /\ Append(boards, p) \in Seq(Positions) /\ Append(boards, p) # << >>
         /\ Len(Append(boards, p)) = Len(boards) + 1
         /\ Append(boards, p)[Len(boards) + 1] = p
         /\ \A i \in DOMAIN boards : i \in DOMAIN Append(boards, p) /\ Append(boards, p)[i] = boards[i]
BY AppendProperties

LEMMA AdvancesStay ==
  ASSUME NEW boards, NEW more, NEW i \in Nat, NEW j \in Nat, NEW m,
         i \in DOMAIN boards, j \in DOMAIN boards, boards \in Seq(Positions),
         \A k \in DOMAIN boards : more[k] = boards[k], Advances(boards, i, j, m)
  PROVE  Advances(more, i, j, m)
<1>1. i + 1 \in DOMAIN boards \/ j = i + 1
  BY DEF Advances
<1>2. more[i] = boards[i] /\ more[j] = boards[j]
  OBVIOUS
<1>3. CASE j = i + 1
  BY <1>2, <1>3 DEF Advances
<1>4. CASE j = i + 2
  <2>1. i + 1 \in DOMAIN boards
    BY <1>4
  <2> QED
    BY <1>2, <1>4, <2>1 DEF Advances
<1> QED
  BY <1>3, <1>4 DEF Advances

\* A pass is due on the last board only if no pass led there.
LEMMA PassIsPlayed ==
  ASSUME NEW start, NEW moves \in Seq(Squares), NEW boards \in Seq(Positions), boards # << >>,
         NEW turn, Played(start, moves, boards, turn),
         NEW b, b = boards[Len(boards)], PassDue(b)
  PROVE  Played(start, moves, Append(boards, Pass[b]), turn)
<1> DEFINE more == Append(boards, Pass[b])
<1>1. b \in Positions /\ Pass[b] \in Positions
  BY GameTypes DEF PassDue
<1>2. /\ more \in Seq(Positions) /\ Len(more) = Len(boards) + 1
      /\ more[Len(boards) + 1] = Pass[b]
      /\ \A i \in DOMAIN boards : i \in DOMAIN more /\ more[i] = boards[i]
  BY <1>1, BoardsStay
<1> HIDE DEF more
<1>3. turn[Len(moves)] + 1 \in DOMAIN boards
  BY DEF Played
<1>4. Len(boards) = turn[Len(moves)] + 1
  BY DEF Played, EndsAt, PassDue, Terminal
<1>5. EndsAt(more, turn[Len(moves)] + 1)
  BY <1>2, <1>3, <1>4 DEF EndsAt
<1>6. \A k \in 1 .. Len(moves) : Advances(more, turn[k - 1] + 1, turn[k] + 1, moves[k])
  <2> SUFFICES ASSUME NEW k \in 1 .. Len(moves)
               PROVE  Advances(more, turn[k - 1] + 1, turn[k] + 1, moves[k])
    OBVIOUS
  <2>1. k - 1 \in 0 .. Len(moves) /\ k \in 0 .. Len(moves)
    OBVIOUS
  <2>2. turn[k - 1] \in Nat /\ turn[k] \in Nat
    BY <2>1 DEF Played
  <2>3. /\ turn[k - 1] + 1 \in DOMAIN boards /\ turn[k] + 1 \in DOMAIN boards
        /\ Advances(boards, turn[k - 1] + 1, turn[k] + 1, moves[k])
    BY <2>1 DEF Played
  <2> QED
    BY <1>2, <2>2, <2>3, AdvancesStay
<1> QED
  BY <1>2, <1>5, <1>6 DEF Played, more

LEMMA MoveIsPlayed ==
  ASSUME NEW start, NEW moves \in Seq(Squares), NEW boards \in Seq(Positions), boards # << >>,
         NEW turn, Played(start, moves, boards, turn),
         NEW b, b = boards[Len(boards)], NEW m \in Moves[b]
  PROVE  \E next : Played(start, Append(moves, m), Append(boards, Play[b][m]), next)
<1> DEFINE more == Append(boards, Play[b][m])
           longer == Append(moves, m)
           n == Len(moves)
           next == [k \in 0 .. n + 1 |-> IF k <= n THEN turn[k] ELSE Len(boards)]
<1>1. b \in Positions /\ Play[b][m] \in Positions /\ m \in Squares
  BY GameTypes
<1>2. /\ more \in Seq(Positions) /\ Len(more) = Len(boards) + 1
      /\ more[Len(boards) + 1] = Play[b][m]
      /\ \A i \in DOMAIN boards : i \in DOMAIN more /\ more[i] = boards[i]
  BY <1>1, BoardsStay
<1>3. /\ longer \in Seq(Squares) /\ Len(longer) = n + 1 /\ longer[n + 1] = m
      /\ \A k \in 1 .. n : longer[k] = moves[k]
  BY <1>1, AppendProperties
<1>4. n \in Nat /\ Len(boards) \in Nat /\ Len(boards) >= 1
  BY LenProperties, EmptySeq
<1> HIDE DEF more, longer
<1>5. turn \in [0 .. n -> Nat] /\ turn[0] = 0 /\ boards[1] = start
  BY DEF Played
<1>6. /\ next \in [0 .. n + 1 -> Nat] /\ next[n + 1] = Len(boards)
      /\ \A k \in 0 .. n : next[k] = turn[k]
  BY <1>4, <1>5
<1> HIDE DEF next
<1>7. \A k \in 0 .. n + 1 : next[k] + 1 \in DOMAIN more
  <2>1. \A k \in 0 .. n : next[k] + 1 \in DOMAIN boards
    BY <1>6 DEF Played
  <2>2. next[n + 1] + 1 \in DOMAIN more
    BY <1>2, <1>4, <1>6
  <2> QED
    BY <1>2, <1>4, <2>1, <2>2
<1>8. ASSUME NEW k \in 1 .. n
      PROVE  Advances(more, next[k - 1] + 1, next[k] + 1, longer[k])
  <2>1. k - 1 \in 0 .. n /\ k \in 0 .. n
    BY <1>4
  <2>2. turn[k - 1] \in Nat /\ turn[k] \in Nat
    BY <2>1, <1>5
  <2>3. /\ turn[k - 1] + 1 \in DOMAIN boards /\ turn[k] + 1 \in DOMAIN boards
        /\ Advances(boards, turn[k - 1] + 1, turn[k] + 1, moves[k])
    BY <2>1 DEF Played
  <2>4. Advances(more, turn[k - 1] + 1, turn[k] + 1, moves[k])
    BY <1>2, <2>2, <2>3, AdvancesStay
  <2> QED
    BY <1>3, <1>6, <2>1, <2>4
<1>9. Advances(more, next[n] + 1, next[n + 1] + 1, longer[n + 1])
  <2>1. n \in 0 .. n /\ turn[n] \in Nat /\ next[n] = turn[n] /\ turn[n] + 1 \in DOMAIN boards
    BY <1>4, <1>5, <1>6 DEF Played
  <2>2. PICK i \in Nat : i = turn[n] + 1
    BY <2>1
  <2>3. i \in DOMAIN boards /\ EndsAt(boards, i)
    BY <2>1, <2>2 DEF Played
  <2>4. next[n] + 1 = i /\ next[n + 1] + 1 = Len(boards) + 1 /\ longer[n + 1] = m
    BY <1>3, <1>6, <2>1, <2>2
  <2>5. CASE Len(boards) = i
    BY <1>2, <2>3, <2>4, <2>5 DEF Advances
  <2>6. CASE Len(boards) = i + 1 /\ PassDue(boards[i]) /\ boards[i + 1] = Pass[boards[i]]
    <3>1. i + 1 \in DOMAIN boards /\ b = boards[i + 1]
      BY <2>3, <2>6
    <3>2. more[i] = boards[i] /\ more[i + 1] = b /\ more[i + 2] = Play[b][m]
      BY <1>2, <2>3, <2>6, <3>1
    <3>3. Advances(more, i, i + 2, m)
      BY <2>6, <3>1, <3>2 DEF Advances
    <3> QED
      BY <2>4, <2>6, <3>3
  <2> QED
    BY <2>3, <2>5, <2>6 DEF EndsAt
<1>10. EndsAt(more, next[n + 1] + 1)
  BY <1>2, <1>6 DEF EndsAt
<1>11. more[1] = start
  BY <1>2, <1>4, <1>5
<1>12. \A k \in 1 .. n + 1 : Advances(more, next[k - 1] + 1, next[k] + 1, longer[k])
  <2> SUFFICES ASSUME NEW k \in 1 .. n + 1
               PROVE  Advances(more, next[k - 1] + 1, next[k] + 1, longer[k])
    OBVIOUS
  <2>1. CASE k = n + 1
    <3>1. k - 1 = n
      BY <2>1, <1>4
    <3> QED
      BY <2>1, <3>1, <1>9
  <2>2. CASE k # n + 1
    BY <2>2, <1>4, <1>8
  <2> QED
    BY <2>1, <2>2
<1>13. next[0] = 0
  BY <1>4, <1>5, <1>6
<1>14. Played(start, longer, more, next)
  BY <1>3, <1>6, <1>7, <1>10, <1>11, <1>12, <1>13 DEF Played
<1> QED
  BY <1>14 DEF more, longer

\* How many moves the first turns have.
LEMMA MadeTyped ==
  ASSUME NEW boards, NEW n \in Nat
  PROVE  /\ IsFiniteSet({ k \in 1 .. n : Moves[boards[k]] # {} }) /\ Made(boards, n) \in Nat
<1> DEFINE S == { k \in 1 .. n : Moves[boards[k]] # {} }
<1>1. S \subseteq 1 .. n
  OBVIOUS
<1> HIDE DEF S
<1>2. IsFiniteSet(S)
  <2>1. 1 \in Int /\ n \in Int
    OBVIOUS
  <2>2. IsFiniteSet(1 .. n)
    BY <2>1, FS_Interval
  <2> QED
    BY <1>1, <2>2, FS_Subset
<1>3. Cardinality(S) \in Nat
  BY <1>2, FS_CardinalityType
<1> QED
  BY <1>2, <1>3 DEF Made, S

LEMMA MadeFirst == \A boards : Made(boards, 0) = 0
<1> SUFFICES ASSUME NEW boards
             PROVE  Made(boards, 0) = 0
  OBVIOUS
<1>1. { k \in 1 .. 0 : Moves[boards[k]] # {} } = {}
  OBVIOUS
<1> QED
  BY <1>1, FS_EmptySet DEF Made

LEMMA MadeNext ==
  ASSUME NEW boards, NEW n \in Nat
  PROVE  /\ Moves[boards[n + 1]] # {} => Made(boards, n + 1) = Made(boards, n) + 1
         /\ Moves[boards[n + 1]] = {} => Made(boards, n + 1) = Made(boards, n)
<1> DEFINE S == { k \in 1 .. n : Moves[boards[k]] # {} }
           T == { k \in 1 .. n + 1 : Moves[boards[k]] # {} }
<1>1. IsFiniteSet(S)
  BY MadeTyped
<1>2. n + 1 \notin S /\ \A k \in 1 .. n + 1 : k \in 1 .. n \/ k = n + 1
  OBVIOUS
<1>3. Moves[boards[n + 1]] # {} => T = S \cup {n + 1}
  BY <1>2
<1>4. Moves[boards[n + 1]] = {} => T = S
  BY <1>2
<1> HIDE DEF S, T
<1>5. Cardinality(S \cup {n + 1}) = Cardinality(S) + 1
  BY <1>1, <1>2, FS_AddElement
<1>6. Made(boards, n) = Cardinality(S) /\ Made(boards, n + 1) = Cardinality(T)
  BY DEF Made, S, T
<1> QED
  BY <1>3, <1>4, <1>5, <1>6

LEMMA MadeAlike ==
  ASSUME NEW boards, NEW more, NEW n, \A k \in 1 .. n : more[k] = boards[k]
  PROVE  Made(more, n) = Made(boards, n)
<1>1. { k \in 1 .. n : Moves[more[k]] # {} } = { k \in 1 .. n : Moves[boards[k]] # {} }
  OBVIOUS
<1> QED
  BY <1>1 DEF Made

\* The move of a turn is one of those made by then.
LEMMA MadeInRange ==
  ASSUME NEW boards, NEW t \in Nat, NEW n \in 1 .. t, Moves[boards[n]] # {}
  PROVE  Made(boards, n) \in 1 .. Made(boards, t)
<1> DEFINE S == { k \in 1 .. n : Moves[boards[k]] # {} }
           T == { k \in 1 .. t : Moves[boards[k]] # {} }
<1>1. IsFiniteSet(T) /\ Cardinality(T) \in Nat /\ Cardinality(T) = Made(boards, t)
  BY MadeTyped DEF Made
<1>2. n \in S /\ S \subseteq T
  OBVIOUS
<1> HIDE DEF S, T
<1>3. IsFiniteSet(S) /\ Cardinality(S) <= Cardinality(T)
  BY <1>1, <1>2, FS_Subset
<1>4. Cardinality(S) \in Nat /\ Cardinality(S) # 0
  BY <1>2, <1>3, FS_CardinalityType, FS_EmptySet
<1>5. Made(boards, n) = Cardinality(S)
  BY DEF Made, S
<1> QED
  BY <1>1, <1>3, <1>4, <1>5

LEMMA NothingIsCounted ==
  ASSUME NEW p
  PROVE  Counted(<< >>, 0, <<p>>)
BY MadeFirst DEF Counted

LEMMA PassIsCounted ==
  ASSUME NEW moves \in Seq(Squares), NEW passes \in Nat, NEW boards \in Seq(Positions), boards # << >>,
         Counted(moves, passes, boards), NEW b, b = boards[Len(boards)], PassDue(b), NEW q, q = passes + 1
  PROVE  Counted(moves, q, Append(boards, Pass[b]))
<1> DEFINE more == Append(boards, Pass[b])
           l == Len(boards)
           t == l - 1
<1>1. b \in Positions /\ Pass[b] \in Positions /\ Moves[b] = {}
  BY GameTypes DEF PassDue
<1>2. l \in Nat /\ l >= 1 /\ t \in Nat /\ t + 1 = l /\ Len(moves) \in Nat
  BY LenProperties, EmptySeq
<1>3. Len(more) = l + 1 /\ more[l + 1] = Pass[b] /\ \A i \in 1 .. l : more[i] = boards[i]
  BY <1>1, BoardsStay
<1> HIDE DEF more
<1>4. Len(moves) = Made(boards, t) /\ passes = t - Len(moves)
      /\ \A n \in 1 .. t : TurnAsTold(moves, boards, n)
  BY DEF Counted
<1> HIDE DEF t
<1>5. \A n \in 1 .. l : Made(more, n) = Made(boards, n)
  <2> SUFFICES ASSUME NEW n \in 1 .. l
               PROVE  Made(more, n) = Made(boards, n)
    OBVIOUS
  <2>1. \A k \in 1 .. n : more[k] = boards[k]
    BY <1>2, <1>3
  <2> QED
    BY <2>1, MadeAlike
<1>6. Made(boards, l) = Made(boards, t)
  BY <1>1, <1>2, MadeNext
<1>7. Made(more, l) = Len(moves)
  BY <1>2, <1>4, <1>5, <1>6
<1>8. \A n \in 1 .. t : TurnAsTold(moves, more, n)
  <2> SUFFICES ASSUME NEW n \in 1 .. t
               PROVE  TurnAsTold(moves, more, n)
    OBVIOUS
  <2>1. more[n] = boards[n] /\ more[n + 1] = boards[n + 1] /\ Made(more, n) = Made(boards, n)
    BY <1>2, <1>3, <1>5
  <2> QED
    BY <1>4, <2>1 DEF TurnAsTold
<1>9. TurnAsTold(moves, more, l)
  BY <1>1, <1>2, <1>3 DEF TurnAsTold
<1>10. Len(more) - 1 = l /\ q = l - Len(moves) /\ \A n \in 1 .. l : n \in 1 .. t \/ n = l
  BY <1>2, <1>3, <1>4
<1> HIDE DEF l
<1>11. Counted(moves, q, more)
  BY <1>7, <1>8, <1>9, <1>10 DEF Counted
<1> QED
  BY <1>11 DEF more

LEMMA MoveIsCounted ==
  ASSUME NEW moves \in Seq(Squares), NEW passes \in Nat, NEW boards \in Seq(Positions), boards # << >>,
         Counted(moves, passes, boards), NEW b, b = boards[Len(boards)], NEW m \in Moves[b]
  PROVE  Counted(Append(moves, m), passes, Append(boards, Play[b][m]))
<1> DEFINE more == Append(boards, Play[b][m])
           longer == Append(moves, m)
           l == Len(boards)
           t == l - 1
           c == Len(moves)
<1>1. b \in Positions /\ Play[b][m] \in Positions /\ m \in Squares
  BY GameTypes
<1>2. l \in Nat /\ l >= 1 /\ t \in Nat /\ t + 1 = l /\ c \in Nat
  BY LenProperties, EmptySeq
<1>3. Len(more) = l + 1 /\ more[l + 1] = Play[b][m] /\ \A i \in 1 .. l : more[i] = boards[i]
  BY <1>1, BoardsStay
<1>4. Len(longer) = c + 1 /\ longer[c + 1] = m /\ \A k \in 1 .. c : longer[k] = moves[k]
  BY <1>1, AppendProperties
<1> HIDE DEF more, longer
<1>5. c = Made(boards, t) /\ passes = t - c /\ \A n \in 1 .. t : TurnAsTold(moves, boards, n)
  BY DEF Counted
<1> HIDE DEF t
<1>6. \A n \in 1 .. l : Made(more, n) = Made(boards, n)
  <2> SUFFICES ASSUME NEW n \in 1 .. l
               PROVE  Made(more, n) = Made(boards, n)
    OBVIOUS
  <2>1. \A k \in 1 .. n : more[k] = boards[k]
    BY <1>2, <1>3
  <2> QED
    BY <2>1, MadeAlike
<1>7. Made(boards, l) = Made(boards, t) + 1
  BY <1>2, MadeNext
<1>8. Made(more, l) = c + 1
  BY <1>2, <1>5, <1>6, <1>7
<1>9. \A n \in 1 .. t : TurnAsTold(longer, more, n)
  <2> SUFFICES ASSUME NEW n \in 1 .. t
               PROVE  TurnAsTold(longer, more, n)
    OBVIOUS
  <2>1. more[n] = boards[n] /\ more[n + 1] = boards[n + 1] /\ Made(more, n) = Made(boards, n)
    BY <1>2, <1>3, <1>6
  <2>2. Moves[boards[n]] # {} => Made(boards, n) \in 1 .. c
    BY <1>2, <1>5, MadeInRange
  <2>3. Moves[boards[n]] # {} => longer[Made(boards, n)] = moves[Made(boards, n)]
    BY <1>4, <2>2
  <2> QED
    BY <1>5, <2>1, <2>3 DEF TurnAsTold
<1>10. TurnAsTold(longer, more, l)
  <2>1. longer[Made(more, l)] = m /\ more[l] = b
    BY <1>2, <1>3, <1>4, <1>8
  <2> QED
    BY <1>3, <2>1 DEF TurnAsTold
<1>11. Len(more) - 1 = l /\ passes = l - Len(longer) /\ \A n \in 1 .. l : n \in 1 .. t \/ n = l
  BY <1>2, <1>3, <1>4, <1>5
<1> HIDE DEF l
<1>12. Counted(longer, passes, more)
  BY <1>4, <1>8, <1>9, <1>10, <1>11 DEF Counted
<1> QED
  BY <1>12 DEF more, longer

LEMMA ScoresShare ==
  ASSUME NEW p \in Positions
  PROVE  /\ FinalScores(p)[1] \in Int /\ FinalScores(p)[2] \in Int
         /\ FinalScores(p)[1] + FinalScores(p)[2] = 64
         /\ FinalScores(p)[1] > FinalScores(p)[2] <=> BlackDiscs[p] > WhiteDiscs[p]
         /\ FinalScores(p)[1] < FinalScores(p)[2] <=> BlackDiscs[p] < WhiteDiscs[p]
<1>1. /\ BlackDiscs[p] \in Nat /\ WhiteDiscs[p] \in Nat
      /\ BlackDiscs[p] + WhiteDiscs[p] + Empties[p] = 64
  BY MatchAssumption
<1>2. Empties[p] \in Nat
  BY GameTypes
<1> QED
  BY <1>1, <1>2 DEF FinalScores

LEMMA SidesAndPlayers ==
  /\ \A p : SideToMove(p) \in {"Black", "White"}
  /\ \A s, c : Player(s, c) \in {"A", "B"}
BY DEF SideToMove, Player

\* A turn stays one while the game goes on.
LEMMA TurnStays ==
  ASSUME NEW e \in Events, NEW opening_moves \in Seq(Squares), NEW c,
         NEW boards \in Seq(Positions), NEW p \in Positions, IsTurn(e, opening_moves, boards, c)
  PROVE  IsTurn(e, opening_moves, Append(boards, p), c)
<1> DEFINE at == e.ply - Len(opening_moves) + 1
<1>1. \A i \in DOMAIN boards : i \in DOMAIN Append(boards, p) /\ Append(boards, p)[i] = boards[i]
  BY BoardsStay
<1>2. at \in DOMAIN boards /\ at + 1 \in DOMAIN boards
  BY DEF IsTurn
<1> QED
  BY <1>1, <1>2 DEF IsTurn

LEMMA FinishedGame ==
  ASSUME NEW c, NEW i, NEW g, GameInv(g, c, i), g.error \/ Terminal(g.board)
  PROVE  RecordInv(Finished(g), c, i)
<1> DEFINE r == Finished(g)
           black == FinalScores(g.board)[1]
           white == FinalScores(g.board)[2]
<1>1. g \in Games /\ g.boards # << >> /\ g.board = g.boards[Len(g.boards)]
  BY DEF GameInv
<1>2. /\ g.board \in Positions /\ g.opening \in OpeningType /\ g.black_is_player_a \in BOOLEAN
      /\ g.boards \in Seq(Positions) /\ g.moves \in Seq(Squares) /\ g.events \in Seq(Events)
      /\ g.game_index \in Nat /\ g.opening_index \in Nat /\ g.passes \in Nat /\ g.error \in BOOLEAN
  BY <1>1 DEF Games
<1>3. /\ black \in Int /\ white \in Int /\ black + white = 64
      /\ black > white <=> BlackDiscs[g.board] > WhiteDiscs[g.board]
      /\ black < white <=> BlackDiscs[g.board] < WhiteDiscs[g.board]
      /\ BlackDiscs[g.board] \in Nat /\ WhiteDiscs[g.board] \in Nat
  BY <1>2, ScoresShare, MatchAssumption
<1>4. /\ g.opening.name \in STRING /\ g.opening.moves \in Seq(Squares)
      /\ g.opening.start_board \in Positions
  BY <1>2 DEF OpeningType
<1> DEFINE winner == IF black - white > 0 THEN "black" ELSE IF black - white < 0 THEN "white" ELSE "draw"
           diff == IF g.black_is_player_a THEN black - white ELSE -(black - white)
<1>5. r = [game_index |-> g.game_index, opening_index |-> g.opening_index,
       opening_name |-> g.opening.name, opening_moves |-> g.opening.moves,
       start_board |-> g.opening.start_board, black_is_player_a |-> g.black_is_player_a,
       winner |-> winner, black_score |-> black, white_score |-> white,
       score_diff_from_player_a |-> diff,
       plies |-> Len(g.moves), passes |-> g.passes, moves |-> g.moves,
       exact_root_events |-> g.events, illegal_or_error |-> g.error, boards |-> g.boards]
  BY DEF Finished
<1>6. winner \in {"black", "white", "draw"} /\ diff \in Int
  BY <1>3
<1> HIDE DEF r, black, white
<1>7. r \in Records
  <2> HIDE DEF winner, diff
  <2> QED
    BY <1>2, <1>3, <1>4, <1>5, <1>6 DEF Records
<1>8. SetUp(r, c, i)
  BY <1>5 DEF GameInv, SetUp
<1>9. ScoresShareTheBoard(r)
  <2>1. Last(r.boards) = g.board
    BY <1>1, <1>5 DEF Last
  <2> QED
    BY <1>2, <1>3, <1>5, <2>1 DEF ScoresShareTheBoard
<1>10. WinnerIsAhead(r)
  BY <1>2, <1>3, <1>5 DEF WinnerIsAhead
<1>11. EventsAreTurns(r)
  BY <1>5 DEF GameInv, EventsAreTurns, IsTurn
<1>12. r.boards # << >> /\ \E turn : Played(r.start_board, r.moves, r.boards, turn)
  BY <1>5 DEF GameInv
<1>13. PlayedAsTold(r)
  <2>1. /\ r.boards = g.boards /\ r.moves = g.moves /\ r.passes = g.passes
        /\ r.plies = Len(g.moves) /\ r.illegal_or_error = g.error /\ r.start_board = g.opening.start_board
    BY <1>5
  <2>2. Counted(g.moves, g.passes, g.boards)
    BY DEF GameInv
  <2>3. g.boards[1] = g.opening.start_board
    BY DEF GameInv, Played
  <2>4. Last(g.boards) = g.board
    BY <1>1 DEF Last
  <2> QED
    BY <2>1, <2>2, <2>3, <2>4 DEF PlayedAsTold, Counted, TurnAsTold
<1> QED
  BY <1>7, <1>8, <1>9, <1>10, <1>11, <1>12, <1>13 DEF RecordInv, r

LEMMA RunnerInit == Init => RunnerInv
BY MatchAssumption DEF Init, RunnerInv, MatchType

LEMMA GameStarts ==
  ASSUME RunnerInv, StartGame
  PROVE  RunnerInv'
<1> DEFINE index == Len(records)
           k == OpeningIndexForGame(index, match.swap_sides, Len(match.openings))
           opening == match.openings[k + 1]
<1>1. match \in Matches /\ records \in Seq(Records) /\ index \in Nat /\ index < match.games
  BY DEF RunnerInv, StartGame, GamesLeft
<1>2. k = IndexOf(match, index + 1) /\ opening = OpeningOf(match, index + 1)
  BY <1>1 DEF IndexOf, OpeningOf
<1>3. k \in Nat /\ opening \in OpeningType
  BY <1>1, <1>2, OpeningIsGood
<1>4. BlackIsPlayerA(index, match.swap_sides) \in BOOLEAN
  BY DEF BlackIsPlayerA
<1>5. game' = [pc |-> "play", game_index |-> index, opening_index |-> k, opening |-> opening,
                  black_is_player_a |-> BlackIsPlayerA(index, match.swap_sides),
                  board |-> opening.start_board, full_moves |-> opening.moves,
                  moves |-> << >>, passes |-> 0, events |-> << >>, error |-> FALSE,
                  boards |-> <<opening.start_board>>]
      /\ UNCHANGED <<match, records, file, replay>>
  BY DEF StartGame
<1> HIDE DEF k, opening
<1>6. opening.start_board \in Positions /\ opening.moves \in Seq(Squares)
      /\ opening.moves \in Seq(Turns)
  <2>1. opening.start_board \in Positions /\ opening.moves \in Seq(Squares)
    BY <1>3 DEF OpeningType
  <2> QED
    BY <2>1 DEF Turns
<1>7. game' \in Games
  BY <1>1, <1>3, <1>4, <1>5, <1>6 DEF Games
<1>8. \E turn : Played(opening.start_board, game'.moves, game'.boards, turn)
  BY <1>5, NothingPlayed
<1>9. \E turn : Played(game'.opening.start_board, game'.moves, game'.boards, turn)
  BY <1>5, <1>8
<1>10. Len(game'.full_moves) = Len(game'.opening.moves) + Len(game'.boards) - 1
  BY <1>5, <1>6
<1>11. Counted(game'.moves, game'.passes, game'.boards) /\ game'.pc = "play"
  <2>1. game'.moves = << >> /\ game'.passes = 0 /\ game'.boards = <<opening.start_board>> /\ game'.pc = "play"
    BY <1>5
  <2> QED
    BY <2>1, NothingIsCounted
<1>12. GameInv(game', match, index + 1)
  BY <1>1, <1>2, <1>5, <1>7, <1>9, <1>10, <1>11 DEF GameInv
<1> QED
  BY <1>1, <1>5, <1>12 DEF RunnerInv

\* A step of the game in progress.
LEMMA GameGoesOn ==
  ASSUME RunnerInv, game # NoGame, UNCHANGED <<match, records>>,
         GameInv(game', match, Len(records) + 1)
  PROVE  RunnerInv'
BY DEF RunnerInv

LEMMA GameParts ==
  ASSUME NEW c, NEW i, NEW g, GameInv(g, c, i)
  PROVE  /\ g \in Games /\ g.boards # << >> /\ g.boards \in Seq(Positions)
         /\ g.board = g.boards[Len(g.boards)] /\ g.board \in Positions
         /\ g.moves \in Seq(Squares) /\ g.events \in Seq(Events)
         /\ g.full_moves \in Seq(Turns)
         /\ g.opening \in OpeningType /\ g.opening.moves \in Seq(Squares)
         /\ g.passes \in Nat /\ g.black_is_player_a \in BOOLEAN
         /\ Len(g.full_moves) = Len(g.opening.moves) + Len(g.boards) - 1
<1>1. g \in Games /\ g.boards # << >> /\ g.board = g.boards[Len(g.boards)]
      /\ Len(g.full_moves) = Len(g.opening.moves) + Len(g.boards) - 1
  BY DEF GameInv
<1>2. g.opening \in OpeningType
  BY <1>1 DEF Games
<1> QED
  BY <1>1, <1>2 DEF Games, OpeningType

Updated(g, b, passes, full_moves, moves, events, boards) ==
  [g EXCEPT !.board = b, !.passes = passes, !.full_moves = full_moves, !.moves = moves,
            !.events = events, !.boards = boards]
SameGame(g, h) ==
  /\ h.pc = g.pc /\ h.game_index = g.game_index /\ h.opening_index = g.opening_index
  /\ h.opening = g.opening /\ h.black_is_player_a = g.black_is_player_a

IsNow(g, b, passes, full_moves, moves, events, boards) ==
  /\ g.board = b /\ g.passes = passes /\ g.full_moves = full_moves /\ g.moves = moves
  /\ g.events = events /\ g.boards = boards

LEMMA UpdatedGame ==
  ASSUME NEW g \in Games, NEW b \in Positions, NEW passes \in Nat, NEW full_moves \in Seq(Turns),
         NEW moves \in Seq(Squares), NEW events \in Seq(Events), NEW boards \in Seq(Positions)
  PROVE  LET h == Updated(g, b, passes, full_moves, moves, events, boards)
         IN  h \in Games /\ SameGame(g, h) /\ IsNow(h, b, passes, full_moves, moves, events, boards)
BY DEF Games, Updated, SameGame, IsNow

LEMMA GamePasses ==
  ASSUME RunnerInv, GamePass
  PROVE  RunnerInv'
<1> DEFINE i == Len(records) + 1
<1>1. game # NoGame /\ game.pc = "play"
  BY DEF GamePass, NoGame
<1>2. GameInv(game, match, i)
  BY <1>1 DEF RunnerInv
<1> DEFINE b == game.board
           boards == Append(game.boards, Pass[b])
           full_moves == Append(game.full_moves, PassToken)
<1>3. /\ game \in Games /\ game.boards # << >> /\ game.boards \in Seq(Positions)
      /\ b = game.boards[Len(game.boards)] /\ b \in Positions
      /\ game.moves \in Seq(Squares) /\ game.events \in Seq(Events)
      /\ game.full_moves \in Seq(Turns)
      /\ game.opening.moves \in Seq(Squares)
      /\ game.passes \in Nat
      /\ Len(game.full_moves) = Len(game.opening.moves) + Len(game.boards) - 1
  BY <1>2, GameParts
<1>4. PassDue(b) /\ Pass[b] \in Positions
  BY <1>3, GameTypes DEF GamePass, PassDue
<1>5. game' = [game EXCEPT !.board = Pass[b], !.passes = game.passes + 1, !.full_moves = full_moves,
                           !.boards = boards]
      /\ UNCHANGED <<match, records, file, replay>>
  BY DEF GamePass
<1>6. /\ boards \in Seq(Positions) /\ boards # << >> /\ Len(boards) = Len(game.boards) + 1
      /\ boards[Len(game.boards) + 1] = Pass[b]
  BY <1>3, <1>4, BoardsStay
<1>7. /\ full_moves \in Seq(Turns) /\ Len(full_moves) = Len(game.full_moves) + 1
  <2>1. PassToken \in Turns
    BY DEF Turns
  <2> QED
    BY <1>3, <2>1, AppendProperties
<1>8. PICK turn : Played(game.opening.start_board, game.moves, game.boards, turn)
  BY <1>2 DEF GameInv
<1>9. Played(game.opening.start_board, game.moves, boards, turn)
  BY <1>3, <1>4, <1>8, PassIsPlayed
<1>10. ASSUME NEW k \in DOMAIN game.events
       PROVE  IsTurn(game.events[k], game.opening.moves, boards, game.black_is_player_a)
  <2>1. game.events[k] \in Events
    BY <1>3, ElementOfSeq
  <2>2. IsTurn(game.events[k], game.opening.moves, game.boards, game.black_is_player_a)
    BY <1>2 DEF GameInv
  <2> QED
    BY <1>3, <1>4, <2>1, <2>2, TurnStays
<1> HIDE DEF boards, full_moves
<1>18. PICK passes \in Nat : passes = game.passes + 1
  BY <1>3
<1>11. game' = Updated(game, Pass[b], passes, full_moves, game.moves, game.events, boards)
  BY <1>3, <1>5, <1>18 DEF Games, Updated
<1>12. /\ game' \in Games /\ SameGame(game, game')
       /\ game'.board = Pass[b] /\ game'.full_moves = full_moves /\ game'.moves = game.moves
       /\ game'.events = game.events /\ game'.boards = boards /\ game'.passes = passes
  <2>1. boards \in Seq(Positions) /\ full_moves \in Seq(Turns) /\ Pass[b] \in Positions
    BY <1>4, <1>6, <1>7
  <2>2. game \in Games /\ game.moves \in Seq(Squares) /\ game.events \in Seq(Events)
    BY <1>3
  <2>3. game' \in Games
    BY <1>11, <2>1, <2>2, UpdatedGame
  <2>4. SameGame(game, game')
    BY <1>11, <2>1, <2>2, UpdatedGame
  <2>5. IsNow(game', Pass[b], passes, full_moves, game.moves, game.events, boards)
    BY <1>11, <2>1, <2>2, UpdatedGame
  <2> QED
    BY <2>3, <2>4, <2>5 DEF IsNow
<1>13. game'.game_index = i - 1 /\ game'.opening_index = IndexOf(match, i)
       /\ game'.opening = OpeningOf(match, i)
       /\ game'.black_is_player_a = BlackIsPlayerA(i - 1, match.swap_sides)
  BY <1>2, <1>12 DEF GameInv, SameGame
<1>14. /\ game'.boards # << >> /\ game'.board = game'.boards[Len(game'.boards)]
       /\ Len(game'.full_moves) = Len(game'.opening.moves) + Len(game'.boards) - 1
  <2>1. game'.boards # << >> /\ game'.board = game'.boards[Len(game'.boards)]
    BY <1>6, <1>12
  <2>2. Len(game.full_moves) \in Nat /\ Len(game.opening.moves) \in Nat /\ Len(game.boards) \in Nat
    BY <1>3, LenProperties
  <2>3. /\ Len(game'.full_moves) = Len(game.full_moves) + 1
        /\ Len(game'.boards) = Len(game.boards) + 1
        /\ Len(game'.opening.moves) = Len(game.opening.moves)
    BY <1>6, <1>7, <1>12 DEF SameGame
  <2>4. Len(game'.full_moves) = Len(game'.opening.moves) + Len(game'.boards) - 1
    BY <1>3, <2>2, <2>3
  <2> QED
    BY <2>1, <2>4
<1>15. /\ \E t : Played(game'.opening.start_board, game'.moves, game'.boards, t)
       /\ \A k \in DOMAIN game'.events :
            IsTurn(game'.events[k], game'.opening.moves, game'.boards, game'.black_is_player_a)
  BY <1>9, <1>10, <1>12 DEF SameGame
<1>16. Counted(game'.moves, game'.passes, game'.boards) /\ game'.pc = "play"
  <2>1. Counted(game.moves, game.passes, game.boards)
    BY <1>2 DEF GameInv
  <2>2. Counted(game.moves, passes, boards)
    BY <1>3, <1>4, <1>18, <2>1, PassIsCounted DEF boards
  <2> QED
    BY <1>1, <1>12, <2>2 DEF SameGame
<1>17. GameInv(game', match, i)
  BY <1>12, <1>13, <1>14, <1>15, <1>16 DEF GameInv
<1> QED
  BY <1>1, <1>5, <1>17, GameGoesOn

LEMMA EventsOfMove ==
  ASSUME NEW g \in Games, NEW i, NEW c, GameInv(g, c, i), game = g, NEW m \in Moves[g.board]
  PROVE  /\ RootEvents(m) \in Seq(Events)
         /\ \A k \in DOMAIN RootEvents(m) :
              IsTurn(RootEvents(m)[k], g.opening.moves, Append(g.boards, Play[g.board][m]),
                     g.black_is_player_a)
<1> DEFINE b == g.board
           boards == Append(g.boards, Play[b][m])
           e == [ply |-> Len(g.full_moves), side |-> SideToMove(b), player |-> Mover,
                 board |-> b, best_move |-> m]
<1>1. /\ g.boards # << >> /\ g.boards \in Seq(Positions)
      /\ b = g.boards[Len(g.boards)] /\ b \in Positions
      /\ g.full_moves \in Seq(Turns) /\ g.opening.moves \in Seq(Squares)
      /\ Len(g.full_moves) = Len(g.opening.moves) + Len(g.boards) - 1
  BY GameParts
<1>2. m \in Squares /\ Play[b][m] \in Positions
  BY <1>1, GameTypes
<1>3. /\ Len(boards) = Len(g.boards) + 1 /\ boards[Len(g.boards) + 1] = Play[b][m]
      /\ \A k \in DOMAIN g.boards : k \in DOMAIN boards /\ boards[k] = g.boards[k]
      /\ boards \in Seq(Positions)
  BY <1>1, <1>2, BoardsStay
<1>4. Mover = Player(SideToMove(b), g.black_is_player_a)
  BY DEF Mover
<1>5. e \in Events
  <2>1. Len(g.full_moves) \in Nat
    BY <1>1, LenProperties
  <2>2. SideToMove(b) \in {"Black", "White"} /\ Mover \in {"A", "B"}
    BY <1>4, SidesAndPlayers
  <2> QED
    BY <1>1, <1>2, <2>1, <2>2 DEF Events
<1>6. /\ e.ply = Len(g.full_moves) /\ e.side = SideToMove(b) /\ e.player = Mover
      /\ e.board = b /\ e.best_move = m
  OBVIOUS
<1> HIDE DEF e, boards
<1>7. ASSUME Mover \notin External
      PROVE  IsTurn(e, g.opening.moves, boards, g.black_is_player_a)
  <2>1. Len(g.full_moves) \in Nat /\ Len(g.opening.moves) \in Nat /\ Len(g.boards) \in Nat
    BY <1>1, LenProperties
  <2>2. e.ply - Len(g.opening.moves) + 1 = Len(g.boards)
    BY <1>1, <1>6, <2>1
  <2>3. Len(g.boards) \in DOMAIN g.boards /\ Len(g.boards) + 1 \in DOMAIN boards
    BY <1>1, <1>3
  <2> QED
    BY <1>1, <1>3, <1>4, <1>6, <1>7, <2>2, <2>3 DEF IsTurn
<1>8. RootEvents(m) = << >> \/ (RootEvents(m) = <<e>> /\ Mover \notin External)
  BY <1>4 DEF RootEvents, e
<1>9. CASE RootEvents(m) = << >>
  BY <1>9
<1>10. CASE RootEvents(m) = <<e>> /\ Mover \notin External
  <2>1. RootEvents(m) \in Seq(Events) /\ DOMAIN RootEvents(m) = {1} /\ RootEvents(m)[1] = e
    BY <1>5, <1>10
  <2>2. IsTurn(e, g.opening.moves, boards, g.black_is_player_a)
    BY <1>7, <1>10
  <2> QED
    BY <2>1, <2>2 DEF boards
<1> QED
  BY <1>8, <1>9, <1>10

\* What is appended to a sequence comes after what it has.
LEMMA Appended ==
  ASSUME NEW T, NEW s \in Seq(T), NEW t \in Seq(T), NEW k \in DOMAIN (s \o t)
  PROVE  \/ k \in DOMAIN s /\ (s \o t)[k] = s[k]
         \/ k - Len(s) \in DOMAIN t /\ (s \o t)[k] = t[k - Len(s)]
BY ConcatProperties

LEMMA GameMoves ==
  ASSUME RunnerInv, GameMove
  PROVE  RunnerInv'
<1> DEFINE i == Len(records) + 1
           b == game.board
<1>1. game # NoGame /\ game.pc = "play"
  BY DEF GameMove, NoGame
<1>2. GameInv(game, match, i)
  BY <1>1 DEF RunnerInv
<1>3. PICK m \in Moves[b] :
        game' = [game EXCEPT !.board = Play[b][m], !.moves = Append(game.moves, m),
                             !.full_moves = Append(game.full_moves, m),
                             !.events = game.events \o RootEvents(m),
                             !.boards = Append(game.boards, Play[b][m])]
  BY DEF GameMove
<1> DEFINE boards == Append(game.boards, Play[b][m])
           moves == Append(game.moves, m)
           full_moves == Append(game.full_moves, m)
           events == game.events \o RootEvents(m)
<1>4. /\ game \in Games /\ game.boards # << >> /\ game.boards \in Seq(Positions)
      /\ b = game.boards[Len(game.boards)] /\ b \in Positions
      /\ game.moves \in Seq(Squares) /\ game.events \in Seq(Events)
      /\ game.full_moves \in Seq(Turns)
      /\ game.opening.moves \in Seq(Squares)
      /\ game.passes \in Nat
      /\ Len(game.full_moves) = Len(game.opening.moves) + Len(game.boards) - 1
  BY <1>2, GameParts
<1>5. Play[b][m] \in Positions /\ m \in Squares /\ m \in Turns
  BY <1>4, GameTypes DEF Turns
<1>6. /\ boards \in Seq(Positions) /\ boards # << >> /\ Len(boards) = Len(game.boards) + 1
      /\ boards[Len(game.boards) + 1] = Play[b][m]
  BY <1>4, <1>5, BoardsStay
<1>7. full_moves \in Seq(Turns) /\ Len(full_moves) = Len(game.full_moves) + 1
  <2>1. m \in Turns /\ game.full_moves \in Seq(Turns)
    BY <1>4, <1>5
  <2>2. full_moves \in Seq(Turns)
    BY <2>1, AppendProperties
  <2>3. Len(full_moves) = Len(game.full_moves) + 1
    BY <2>1, AppendProperties
  <2> QED
    BY <2>2, <2>3
<1>8. moves \in Seq(Squares)
  BY <1>4, <1>5, AppendProperties
<1>9. /\ RootEvents(m) \in Seq(Events)
      /\ \A k \in DOMAIN RootEvents(m) :
           IsTurn(RootEvents(m)[k], game.opening.moves, boards, game.black_is_player_a)
  BY <1>2, <1>4, EventsOfMove
<1>10. events \in Seq(Events)
  BY <1>4, <1>9, ConcatProperties
<1>11. PICK turn : Played(game.opening.start_board, game.moves, game.boards, turn)
  BY <1>2 DEF GameInv
<1>12. \E next : Played(game.opening.start_board, moves, boards, next)
  BY <1>4, <1>11, MoveIsPlayed
<1>13. ASSUME NEW k \in DOMAIN events
       PROVE  IsTurn(events[k], game.opening.moves, boards, game.black_is_player_a)
  <2>1. CASE k \in DOMAIN game.events /\ events[k] = game.events[k]
    <3>1. game.events[k] \in Events
      BY <1>4, <2>1, ElementOfSeq
    <3>2. IsTurn(game.events[k], game.opening.moves, game.boards, game.black_is_player_a)
      BY <1>2, <2>1 DEF GameInv
    <3> QED
      BY <1>4, <1>5, <2>1, <3>1, <3>2, TurnStays
  <2>2. CASE k - Len(game.events) \in DOMAIN RootEvents(m)
             /\ events[k] = RootEvents(m)[k - Len(game.events)]
    BY <1>9, <2>2
  <2> QED
    BY <1>4, <1>9, <2>1, <2>2, Appended
<1> HIDE DEF boards, moves, full_moves, events
<1>14. game' = Updated(game, Play[b][m], game.passes, full_moves, moves, events, boards)
       /\ UNCHANGED <<match, records>>
  BY <1>3, <1>4 DEF Games, Updated, boards, moves, full_moves, events, GameMove
<1>15. game' \in Games
  BY <1>4, <1>5, <1>6, <1>7, <1>8, <1>10, <1>14, UpdatedGame
<1>16. SameGame(game, game')
  BY <1>4, <1>5, <1>6, <1>7, <1>8, <1>10, <1>14, UpdatedGame
<1>17. IsNow(game', Play[b][m], game.passes, full_moves, moves, events, boards)
  BY <1>4, <1>5, <1>6, <1>7, <1>8, <1>10, <1>14, UpdatedGame
<1>18. game'.game_index = i - 1 /\ game'.opening_index = IndexOf(match, i)
       /\ game'.opening = OpeningOf(match, i)
       /\ game'.black_is_player_a = BlackIsPlayerA(i - 1, match.swap_sides)
  BY <1>2, <1>16 DEF GameInv, SameGame
<1>19. /\ game'.boards # << >> /\ game'.board = game'.boards[Len(game'.boards)]
       /\ Len(game'.full_moves) = Len(game'.opening.moves) + Len(game'.boards) - 1
  <2>1. game'.boards # << >> /\ game'.board = game'.boards[Len(game'.boards)]
    BY <1>6, <1>17 DEF IsNow
  <2>2. Len(game.full_moves) \in Nat /\ Len(game.opening.moves) \in Nat /\ Len(game.boards) \in Nat
    BY <1>4, LenProperties
  <2>3. /\ Len(game'.full_moves) = Len(game.full_moves) + 1
        /\ Len(game'.boards) = Len(game.boards) + 1
        /\ Len(game'.opening.moves) = Len(game.opening.moves)
    BY <1>6, <1>7, <1>16, <1>17 DEF SameGame, IsNow
  <2>4. Len(game'.full_moves) = Len(game'.opening.moves) + Len(game'.boards) - 1
    BY <1>4, <2>2, <2>3
  <2> QED
    BY <2>1, <2>4
<1>20. /\ \E t : Played(game'.opening.start_board, game'.moves, game'.boards, t)
       /\ \A k \in DOMAIN game'.events :
            IsTurn(game'.events[k], game'.opening.moves, game'.boards, game'.black_is_player_a)
  BY <1>12, <1>13, <1>16, <1>17 DEF SameGame, IsNow
<1>21. Counted(game'.moves, game'.passes, game'.boards) /\ game'.pc = "play"
  <2>1. Counted(game.moves, game.passes, game.boards)
    BY <1>2 DEF GameInv
  <2>2. Counted(moves, game.passes, boards)
    BY <1>4, <2>1, MoveIsCounted DEF boards, moves
  <2> QED
    BY <1>1, <1>16, <1>17, <2>2 DEF SameGame, IsNow
<1>22. GameInv(game', match, i)
  BY <1>15, <1>18, <1>19, <1>20, <1>21 DEF GameInv
<1> QED
  BY <1>1, <1>14, <1>22, GameGoesOn

LEMMA GameIsBroken ==
  ASSUME RunnerInv, GameBreaks
  PROVE  RunnerInv'
<1>1. game # NoGame
  BY DEF GameBreaks, NoGame
<1>2. GameInv(game, match, Len(records) + 1) /\ game \in Games
  BY <1>1 DEF RunnerInv, GameInv
<1>3. game' = [game EXCEPT !.pc = "finish", !.error = TRUE] /\ UNCHANGED <<match, records>>
  BY DEF GameBreaks
<1>4. /\ game' \in Games /\ SameGame(game, [game' EXCEPT !.pc = game.pc])
      /\ IsNow(game', game.board, game.passes, game.full_moves, game.moves, game.events, game.boards)
      /\ game'.error = TRUE
      /\ game'.opening = game.opening /\ game'.game_index = game.game_index
      /\ game'.opening_index = game.opening_index
      /\ game'.black_is_player_a = game.black_is_player_a
  BY <1>2, <1>3 DEF Games, SameGame, IsNow
<1>5. GameInv(game', match, Len(records) + 1)
  BY <1>2, <1>4 DEF GameInv, IsNow
<1> QED
  BY <1>1, <1>3, <1>5, GameGoesOn

LEMMA GameFinishes ==
  ASSUME RunnerInv, FinishGame
  PROVE  RunnerInv'
<1>1. game # NoGame /\ records' = Append(records, Finished(game)) /\ game' = NoGame
      /\ match' = match
  BY DEF FinishGame, NoGame
<1>2. GameInv(game, match, Len(records) + 1) /\ records \in Seq(Records)
      /\ Len(records) < match.games /\ match \in Matches
  BY <1>1 DEF RunnerInv
<1>3. RecordInv(Finished(game), match, Len(records) + 1)
  <2>1. game.error \/ Terminal(game.board)
    BY <1>2 DEF FinishGame, GameInv
  <2> QED
    BY <1>2, <2>1, FinishedGame
<1>4. Finished(game) \in Records
  BY <1>3 DEF RecordInv
<1>5. /\ records' \in Seq(Records) /\ Len(records') = Len(records) + 1
      /\ records'[Len(records) + 1] = Finished(game)
      /\ \A i \in DOMAIN records : records'[i] = records[i]
  BY <1>1, <1>2, <1>4, AppendProperties
<1>6. match.games \in Nat
  BY <1>2, MatchAssumption DEF MatchType
<1>7. ASSUME NEW i \in DOMAIN records'
      PROVE  RecordInv(records'[i], match', i)
  <2>1. CASE i = Len(records) + 1
    BY <1>1, <1>3, <1>5, <2>1
  <2>2. CASE i # Len(records) + 1
    <3>1. i \in DOMAIN records
      BY <1>2, <1>5, <2>2
    <3> QED
      BY <1>1, <1>5, <3>1 DEF RunnerInv
  <2> QED
    BY <2>1, <2>2
<1>8. Len(records') <= match'.games
  BY <1>1, <1>2, <1>5, <1>6
<1> QED
  BY <1>1, <1>2, <1>5, <1>7, <1>8 DEF RunnerInv

\* Nothing else touches a game or a record.
LEMMA RunnerStep ==
  ASSUME RunnerInv, [Next]_vars
  PROVE  RunnerInv'
<1>1. ASSUME UNCHANGED <<match, game, records>>
      PROVE  RunnerInv'
  BY <1>1 DEF RunnerInv
<1>2. CASE WriteRecord \/ CloseFile \/ LoseTail \/ ReplayTool \/ UNCHANGED vars
  BY <1>1, <1>2 DEF WriteRecord, CloseFile, LoseTail, ReplayTool, StartReplay, ReadRecord,
                    RefuseLine, EndRead, ExtractPair, Render, vars
<1> QED
  BY <1>2, GameStarts, GamePasses, GameMoves, GameIsBroken, GameFinishes DEF Next, Runner

LEMMA Shared ==
  ASSUME NEW S, IsFiniteSet(S), NEW A \in SUBSET S
  PROVE  /\ IsFiniteSet(A) /\ IsFiniteSet(S \ A) /\ Cardinality(A) \in Nat
         /\ Cardinality(S \ A) = Cardinality(S) - Cardinality(A) /\ Cardinality(S) \in Nat
<1>1. IsFiniteSet(A) /\ IsFiniteSet(S \ A)
  BY FS_Subset, FS_Difference
<1>2. S \cap A = A
  OBVIOUS
<1> QED
  BY <1>1, <1>2, FS_Difference, FS_CardinalityType

LEMMA SummaryTells ==
  ASSUME RunnerInv, MatchOver
  PROVE  LET s == Summarize(records)
             winner(r) == IF (r.winner = "black") = r.black_is_player_a THEN "A" ELSE "B"
             wonBy(player) == Cardinality({ i \in DOMAIN records :
               LET r == records[i]
               IN  ~r.illegal_or_error /\ r.winner # "draw" /\ player = winner(r) })
         IN  /\ s.games = match.games /\ s.valid_games + s.error_games = s.games
             /\ s.player_a_wins = wonBy("A") /\ s.player_b_wins = wonBy("B")
             /\ s.draws = s.valid_games - wonBy("A") - wonBy("B")
<1> DEFINE D == DOMAIN records
           winner(r) == IF (r.winner = "black") = r.black_is_player_a THEN "A" ELSE "B"
           Won(player) == { i \in D : /\ ~records[i].illegal_or_error /\ records[i].winner # "draw"
                                      /\ player = winner(records[i]) }
           diff(i) == records[i].score_diff_from_player_a
           valid == { i \in D : ~records[i].illegal_or_error }
           ahead == { i \in valid : diff(i) > 0 }
           behind == { i \in valid : diff(i) < 0 }
           level == { i \in valid : diff(i) = 0 }
<1>1. records \in Seq(Records) /\ Len(records) = match.games
  BY DEF RunnerInv, MatchOver
<1>2. IsFiniteSet(D) /\ Cardinality(D) = Len(records) /\ Len(records) \in Nat
  <2>1. D = 1 .. Len(records) /\ Len(records) \in Nat
    BY <1>1
  <2>2. \A n \in Nat : /\ IsFiniteSet(1 .. n)
                        /\ Cardinality(1 .. n) = IF 1 > n THEN 0 ELSE n - 1 + 1
    BY FS_Interval
  <2> QED
    BY <2>1, <2>2
<1>3. ASSUME NEW i \in D
      PROVE  /\ diff(i) \in Int /\ records[i].black_is_player_a \in BOOLEAN
             /\ diff(i) > 0 <=> (records[i].winner # "draw" /\ "A" = winner(records[i]))
             /\ diff(i) < 0 <=> (records[i].winner # "draw" /\ "B" = winner(records[i]))
  <2>1. records[i] \in Records /\ WinnerIsAhead(records[i])
    BY DEF RunnerInv, RecordInv
  <2>2. diff(i) \in Int /\ records[i].black_is_player_a \in BOOLEAN
    BY <2>1 DEF Records
  <2> QED
    BY <2>1, <2>2 DEF WinnerIsAhead
<1>4. ahead = Won("A") /\ behind = Won("B")
  BY <1>3
<1>5. /\ ahead \subseteq valid /\ behind \subseteq valid \ ahead
      /\ level = (valid \ ahead) \ behind /\ valid \subseteq D
  BY <1>3
<1>6. Summarize(records) = [games |-> Len(records), error_games |-> Cardinality(D \ valid),
       valid_games |-> Cardinality(valid), player_a_wins |-> Cardinality(ahead),
       player_b_wins |-> Cardinality(behind), draws |-> Cardinality(level)]
  BY DEF Summarize
<1> HIDE DEF D, valid, ahead, behind, level, Won
<1>7. IsFiniteSet(valid) /\ Cardinality(D \ valid) = Cardinality(D) - Cardinality(valid)
      /\ Cardinality(valid) \in Nat
  BY <1>2, <1>5, Shared
<1>8. IsFiniteSet(valid \ ahead) /\ Cardinality(valid \ ahead) = Cardinality(valid) - Cardinality(ahead)
      /\ Cardinality(ahead) \in Nat
  BY <1>5, <1>7, Shared
<1>9. Cardinality(level) = Cardinality(valid \ ahead) - Cardinality(behind)
      /\ Cardinality(behind) \in Nat
  BY <1>5, <1>8, Shared
<1> DEFINE s == Summarize(records)
<1>10. /\ s.games = match.games /\ s.valid_games + s.error_games = s.games
       /\ s.player_a_wins = Cardinality(Won("A")) /\ s.player_b_wins = Cardinality(Won("B"))
       /\ s.draws = s.valid_games - Cardinality(Won("A")) - Cardinality(Won("B"))
  BY <1>1, <1>2, <1>4, <1>6, <1>7, <1>8, <1>9
<1> QED
  BY <1>10 DEF D, Won

\* What is played is what the record and the summary say (run_game,
\* finish_record, summarize), whatever the game and the match.
THEOREM RecordsTell == Spec => []RecordsTellTheGames
<1>1. RunnerInv => RecordsTellTheGames
  <2> SUFFICES ASSUME RunnerInv
               PROVE  RecordsTellTheGames
    OBVIOUS
  <2>1. \A i \in DOMAIN records :
          PlayedAsTold(records[i]) /\ EventsAreTurns(records[i]) /\ ScoresShareTheBoard(records[i])
    BY DEF RunnerInv, RecordInv
  <2> QED
    BY <2>1, SummaryTells, Zenon DEF RecordsTellTheGames
<1> QED
  BY <1>1, RunnerInit, RunnerStep, PTL DEF Spec

(***************************************************************************)
(* Lines that are read back.                                               *)
(***************************************************************************)
St(e, o, p, w) == [expect |-> e, open |-> o, parts |-> p, whole |-> w]
\* The replay tool's steps.
Taken(s, line, i) == ReadToken(s, line, i, TRUE)
Begun(s, kind) == ReadValue(s, kind, TRUE)

LEMMA StateParts ==
  ASSUME NEW e, NEW o, NEW p, NEW w
  PROVE  /\ St(e, o, p, w).expect = e /\ St(e, o, p, w).open = o /\ St(e, o, p, w).parts = p
         /\ St(e, o, p, w).whole = w
BY DEF St

LEMMA StateSteps ==
  ASSUME NEW e, NEW o, NEW p, NEW w
  PROVE  /\ \A x : Expecting(St(e, o, p, w), x) = St(x, o, p, w)
         /\ \A x : Opened(St(e, o, p, w), x) = St(e, Append(o, x), p, w)
         /\ Closed(St(e, o, p, w)) = St(e, Front(o), p, w)
         /\ ValueRead(St(e, o, p, w)) = St(IF o = << >> THEN "done" ELSE "more", o, p, w)
         /\ \A x, i : Part(St(e, o, p, w), x, i)
              = St(e, o, IF Len(o) = 1 THEN Append(p, [name |-> x, at |-> i]) ELSE p, w)
<1>1. ASSUME NEW x
      PROVE  Expecting(St(e, o, p, w), x) = St(x, o, p, w)
  BY DEF Expecting, St
<1>2. ASSUME NEW x
      PROVE  Opened(St(e, o, p, w), x) = St(e, Append(o, x), p, w)
  BY DEF Opened, St
<1>3. Closed(St(e, o, p, w)) = St(e, Front(o), p, w)
  BY DEF Closed, St
<1>4. ValueRead(St(e, o, p, w)) = St(IF o = << >> THEN "done" ELSE "more", o, p, w)
  BY <1>1, StateParts DEF ValueRead
<1>5. ASSUME NEW x, NEW i
      PROVE  Part(St(e, o, p, w), x, i)
              = St(e, o, IF Len(o) = 1 THEN Append(p, [name |-> x, at |-> i]) ELSE p, w)
  <2>1. CASE Len(o) = 1
    BY <2>1 DEF Part, St
  <2>2. CASE Len(o) # 1
    BY <2>2 DEF Part, St
  <2> QED
    BY <2>1, <2>2
<1> QED
  BY <1>1, <1>2, <1>3, <1>4, <1>5

LEMMA ReadAsValue ==
  ASSUME NEW line, NEW i, NEW s, s.expect = "value"
  PROVE  Taken(s, line, i) = Begun(s, line[i].kind)
BY DEF ReadToken, Taken, Begun

LEMMA ReadAsItem ==
  ASSUME NEW line, NEW i, NEW s, s.expect = "item", Len(s.open) # 1
  PROVE  Taken(s, line, i) = Begun(s, line[i].kind)
<1>1. Part(s, "item", i) = s
  BY DEF Part
<1> QED
  BY <1>1 DEF ReadToken, Taken, Begun

LEMMA ReadAsFirstItem ==
  ASSUME NEW line, NEW i, NEW s, s.expect = "first_item", Len(s.open) # 1, line[i].kind # "end_array"
  PROVE  Taken(s, line, i) = Begun(s, line[i].kind)
<1>1. Part(s, "item", i) = s
  BY DEF Part
<1> QED
  BY <1>1 DEF ReadToken, Taken, Begun

LEMMA ReadAsName ==
  ASSUME NEW line, NEW i, NEW s, line[i].kind = "string"
  PROVE  /\ s.expect = "name" =>
              Taken(s, line, i) = {Expecting(Part(s, line[i].value, i + 2), "colon")}
         /\ s.expect = "first_name" =>
              Taken(s, line, i) = {Expecting(Part(s, line[i].value, i + 2), "colon")}
BY DEF ReadToken, Taken

LEMMA ReadAsEnd ==
  ASSUME NEW line, NEW i, NEW s
  PROVE  /\ s.expect = "more" => Taken(s, line, i) = Delimited(s, line[i].kind)
         /\ s.expect = "rest_of_bare" /\ line[i].kind \in Delimiters =>
              Taken(s, line, i) = Delimited(s, line[i].kind)
         /\ s.expect = "first_item" /\ line[i].kind = "end_array" => Taken(s, line, i) = Delimited(s, "end_array")
         /\ s.expect = "first_name" /\ line[i].kind = "end_object" => Taken(s, line, i) = Delimited(s, "end_object")
BY DEF ReadToken, Taken

LEMMA ReadAsColon ==
  ASSUME NEW line, NEW i, NEW s, s.expect = "colon", line[i].kind = "colon"
  PROVE  Taken(s, line, i) = {Expecting(s, "value")}
BY DEF ReadToken, Taken

LEMMA Beginnings ==
  ASSUME NEW s
  PROVE  /\ Begun(s, "string") = {ValueRead(s)}
         /\ Begun(s, "int") = {Expecting(s, "rest_of_bare")}
         /\ Begun(s, "word") = {Expecting(s, "rest_of_bare")}
         /\ Begun(s, "begin_array") = {Expecting(Opened(s, "end_array"), "first_item")}
         /\ Begun(s, "begin_object") = {Expecting(Opened(s, "end_object"), "first_name")}
BY DEF ReadValue, Begun, Delimiters

LEMMA Endings ==
  ASSUME NEW s, s.open # << >>
  PROVE  /\ Delimited(s, "comma") = {Expecting(s, IF Last(s.open) = "end_object" THEN "name" ELSE "item")}
         /\ Last(s.open) = "end_array" => Delimited(s, "end_array") = {ValueRead(Closed(s))}
         /\ Last(s.open) = "end_object" => Delimited(s, "end_object") = {ValueRead(Closed(s))}
BY DEF Delimited

\* Where a value may begin that is no part of the outermost object.
ValueDue(e, o) == e = "value" \/ (e = "item" /\ Len(o) # 1) \/ (e = "first_item" /\ Len(o) # 1)
Ended(e) == e = "more" \/ e = "rest_of_bare"

LEMMA ReadValueDue ==
  ASSUME NEW line, NEW i, NEW e, NEW o, NEW p, NEW w, ValueDue(e, o), line[i].kind # "end_array"
  PROVE  Taken(St(e, o, p, w), line, i) = Begun(St(e, o, p, w), line[i].kind)
<1> DEFINE s == St(e, o, p, w)
<1>1. s.expect = e /\ s.open = o
  BY StateParts
<1> SUFFICES Taken(s, line, i) = Begun(s, line[i].kind)
  OBVIOUS
<1> HIDE DEF s
<1>2. CASE e = "value"
  BY <1>1, <1>2, ReadAsValue
<1>3. CASE e = "item" /\ Len(o) # 1
  BY <1>1, <1>3, ReadAsItem
<1>4. CASE e = "first_item" /\ Len(o) # 1
  BY <1>1, <1>4, ReadAsFirstItem
<1> QED
  BY <1>2, <1>3, <1>4 DEF ValueDue

LEMMA ReadScalar ==
  ASSUME NEW line, NEW i, NEW e, NEW o, NEW p, NEW w, ValueDue(e, o), o # << >>
  PROVE  /\ line[i].kind = "string" => Taken(St(e, o, p, w), line, i) = {St("more", o, p, w)}
         /\ line[i].kind = "int" => Taken(St(e, o, p, w), line, i) = {St("rest_of_bare", o, p, w)}
         /\ line[i].kind = "word" => Taken(St(e, o, p, w), line, i) = {St("rest_of_bare", o, p, w)}
<1>1. ValueRead(St(e, o, p, w)) = St("more", o, p, w)
  BY StateSteps
<1>2. Expecting(St(e, o, p, w), "rest_of_bare") = St("rest_of_bare", o, p, w)
  BY StateSteps
<1> QED
  BY <1>1, <1>2, Beginnings, ReadValueDue

\* An array or object opens.
LEMMA ReadOpening ==
  ASSUME NEW line, NEW i, NEW e, NEW o, NEW p, NEW w, ValueDue(e, o)
  PROVE  /\ line[i].kind = "begin_array" =>
              Taken(St(e, o, p, w), line, i) = {St("first_item", Append(o, "end_array"), p, w)}
         /\ line[i].kind = "begin_object" =>
              Taken(St(e, o, p, w), line, i) = {St("first_name", Append(o, "end_object"), p, w)}
<1>1. Expecting(Opened(St(e, o, p, w), "end_array"), "first_item") = St("first_item", Append(o, "end_array"), p, w)
  BY StateSteps
<1>2. Expecting(Opened(St(e, o, p, w), "end_object"), "first_name") = St("first_name", Append(o, "end_object"), p, w)
  BY StateSteps
<1> QED
  BY <1>1, <1>2, Beginnings, ReadValueDue

LEMMA ReadComma ==
  ASSUME NEW line, NEW i, NEW e, NEW o, NEW p, NEW w, Ended(e), o # << >>, line[i].kind = "comma"
  PROVE  /\ Last(o) = "end_object" => Taken(St(e, o, p, w), line, i) = {St("name", o, p, w)}
         /\ Last(o) = "end_array" => Taken(St(e, o, p, w), line, i) = {St("item", o, p, w)}
<1> DEFINE s == St(e, o, p, w)
<1>1. s.expect = e /\ s.open = o
  BY StateParts
<1>2. \A x : Expecting(s, x) = St(x, o, p, w)
  BY StateSteps
<1> HIDE DEF s
<1>3. Taken(s, line, i) = Delimited(s, "comma")
  BY <1>1, ReadAsEnd DEF Ended, Delimiters
<1>4. Taken(s, line, i) = {Expecting(s, IF Last(o) = "end_object" THEN "name" ELSE "item")}
  BY <1>1, <1>3, Endings
<1>5. /\ Last(o) = "end_object" => Taken(s, line, i) = {St("name", o, p, w)}
      /\ Last(o) = "end_array" => Taken(s, line, i) = {St("item", o, p, w)}
  BY <1>2, <1>4
<1> QED
  BY <1>5 DEF s

LEMMA ReadClosing ==
  ASSUME NEW line, NEW i, NEW e, NEW o, NEW p, NEW w, o # << >>,
         line[i].kind = Last(o),
         \/ Last(o) = "end_array" /\ (Ended(e) \/ e = "first_item")
         \/ Last(o) = "end_object" /\ (Ended(e) \/ e = "first_name")
  PROVE  /\ Front(o) = << >> => Taken(St(e, o, p, w), line, i) = {St("done", Front(o), p, w)}
         /\ Front(o) # << >> => Taken(St(e, o, p, w), line, i) = {St("more", Front(o), p, w)}
<1> DEFINE s == St(e, o, p, w)
<1>1. s.expect = e /\ s.open = o
  BY StateParts
<1>2. Closed(s) = St(e, Front(o), p, w)
  BY StateSteps
<1>3. ValueRead(Closed(s)) = St(IF Front(o) = << >> THEN "done" ELSE "more", Front(o), p, w)
  BY <1>2, StateSteps
<1> HIDE DEF s
<1>4. Taken(s, line, i) = {ValueRead(Closed(s))}
  <2>1. CASE Last(o) = "end_array" /\ (Ended(e) \/ e = "first_item")
    <3>1. Taken(s, line, i) = Delimited(s, "end_array")
      BY <1>1, <2>1, ReadAsEnd DEF Ended, Delimiters
    <3> QED
      BY <1>1, <2>1, <3>1, Endings
  <2>2. CASE Last(o) = "end_object" /\ (Ended(e) \/ e = "first_name")
    <3>1. Taken(s, line, i) = Delimited(s, "end_object")
      BY <1>1, <2>2, ReadAsEnd DEF Ended, Delimiters
    <3> QED
      BY <1>1, <2>2, <3>1, Endings
  <2> QED
    BY <2>1, <2>2
<1> QED
  BY <1>3, <1>4 DEF s

Note(name, i) == [name |-> name, at |-> i]

\* A member of the outermost object is noted.
LEMMA ReadName ==
  ASSUME NEW line, NEW i, NEW e, NEW o, NEW p, NEW w, e = "name" \/ e = "first_name",
         line[i].kind = "string", Len(o) = 1
  PROVE  Taken(St(e, o, p, w), line, i)
           = {St("colon", o, Append(p, Note(line[i].value, i + 2)), w)}
<1> DEFINE s == St(e, o, p, w)
           q == Append(p, Note(line[i].value, i + 2))
<1>1. s.expect = e
  BY StateParts
<1>2. Part(s, line[i].value, i + 2) = St(e, o, q, w)
  BY StateSteps DEF Note
<1> HIDE DEF s
<1>3. Taken(s, line, i) = {Expecting(Part(s, line[i].value, i + 2), "colon")}
  BY <1>1, ReadAsName
<1> HIDE DEF q
<1>4. Expecting(St(e, o, q, w), "colon") = St("colon", o, q, w)
  BY StateSteps
<1> QED
  BY <1>2, <1>3, <1>4 DEF q, s

LEMMA ReadNestedName ==
  ASSUME NEW line, NEW i, NEW e, NEW o, NEW p, NEW w, e = "name" \/ e = "first_name",
         line[i].kind = "string", Len(o) # 1
  PROVE  Taken(St(e, o, p, w), line, i) = {St("colon", o, p, w)}
<1> DEFINE s == St(e, o, p, w)
<1>1. s.expect = e /\ s.open = o /\ Expecting(s, "colon") = St("colon", o, p, w)
  BY StateParts, StateSteps
<1> HIDE DEF s
<1>2. Part(s, line[i].value, i + 2) = s
  BY <1>1 DEF Part
<1>3. Taken(s, line, i) = {Expecting(Part(s, line[i].value, i + 2), "colon")}
  BY <1>1, ReadAsName
<1> QED
  BY <1>1, <1>2, <1>3 DEF s

LEMMA ReadColon ==
  ASSUME NEW line, NEW i, NEW o, NEW p, NEW w, line[i].kind = "colon"
  PROVE  Taken(St("colon", o, p, w), line, i) = {St("value", o, p, w)}
<1> DEFINE s == St("colon", o, p, w)
<1>1. s.expect = "colon" /\ Expecting(s, "value") = St("value", o, p, w)
  BY StateParts, StateSteps
<1> HIDE DEF s
<1>2. Taken(s, line, i) = {Expecting(s, "value")}
  BY <1>1, ReadAsColon
<1> QED
  BY <1>1, <1>2 DEF s

(***************************************************************************)
(* Tokens in a row, and where they lead the reader.                        *)
(***************************************************************************)
\* after[i]: the states the reader may be in when it has read i tokens.
Reads(line, after) ==
  /\ after[0] = {Reader(TRUE)}
  /\ \A i \in DOMAIN line : after[i] = UNION { Taken(t, line, i) : t \in after[i - 1] }

\* The tokens v stand in the line after its i-th token.
Occurs(v, line, i) == \A k \in DOMAIN v : i + k \in DOMAIN line /\ line[i + k] = v[k]

Unfinished(states) == \A t \in states : t.expect # "done"

\* Over the tokens v, after the i-th, the reader goes from the state s to the state t.
Leads(v, i, s, t) ==
  \A line, after :
    Reads(line, after) /\ Occurs(v, line, i) /\ after[i] = {s} =>
      after[i + Len(v)] = {t} /\ \A k \in i .. i + Len(v) - 1 : Unfinished(after[k])

LEMMA TokenKinds ==
  /\ \A c : Mark(c).kind = c
  /\ \A v : Str(v).kind = "string" /\ Str(v).value = v
  /\ \A n : Num(n).kind = "int" /\ Num(n).value = n
  /\ \A c : Word(c).kind = "word" /\ Word(c).value = c
BY DEF Mark, Str, Num, Word

LEMMA OneToken ==
  ASSUME NEW T, NEW x \in T
  PROVE  <<x>> \in Seq(T) /\ Len(<<x>>) = 1 /\ <<x>>[1] = x /\ DOMAIN <<x>> = {1}
OBVIOUS

LEMMA OccursInTwo ==
  ASSUME NEW T, NEW u \in Seq(T), NEW v \in Seq(T), NEW line, NEW i \in Nat,
         Occurs(u \o v, line, i)
  PROVE  Occurs(u, line, i) /\ Occurs(v, line, i + Len(u))
<1>1. /\ u \o v \in Seq(T) /\ Len(u \o v) = Len(u) + Len(v)
      /\ \A k \in 1 .. Len(u) + Len(v) :
           (u \o v)[k] = IF k <= Len(u) THEN u[k] ELSE v[k - Len(u)]
  BY ConcatProperties
<1>2. Len(u) \in Nat /\ Len(v) \in Nat /\ DOMAIN u = 1 .. Len(u) /\ DOMAIN v = 1 .. Len(v)
      /\ DOMAIN (u \o v) = 1 .. Len(u) + Len(v)
  BY <1>1, LenProperties
<1>3. ASSUME NEW k \in DOMAIN u
      PROVE  i + k \in DOMAIN line /\ line[i + k] = u[k]
  <2>1. k \in DOMAIN (u \o v) /\ (u \o v)[k] = u[k]
    BY <1>1, <1>2
  <2> QED
    BY <2>1 DEF Occurs
<1>4. ASSUME NEW k \in DOMAIN v
      PROVE  i + Len(u) + k \in DOMAIN line /\ line[i + Len(u) + k] = v[k]
  <2>1. Len(u) + k \in DOMAIN (u \o v) /\ (u \o v)[Len(u) + k] = v[k]
    BY <1>1, <1>2
  <2>2. i + (Len(u) + k) \in DOMAIN line /\ line[i + (Len(u) + k)] = v[k]
    BY <2>1 DEF Occurs
  <2>3. i + (Len(u) + k) = i + Len(u) + k
    BY <1>2
  <2> QED
    BY <2>2, <2>3
<1> QED
  BY <1>3, <1>4 DEF Occurs

LEMMA LeadsOn ==
  ASSUME NEW T, NEW u \in Seq(T), NEW v \in Seq(T), NEW i \in Nat, NEW s, NEW t, NEW r,
         Leads(u, i, s, t), Leads(v, i + Len(u), t, r)
  PROVE  Leads(u \o v, i, s, r)
<1>1. Len(u) \in Nat /\ Len(v) \in Nat /\ Len(u \o v) = Len(u) + Len(v)
  BY LenProperties, ConcatProperties
<1> SUFFICES ASSUME NEW line, NEW after,
                    Reads(line, after), Occurs(u \o v, line, i), after[i] = {s}
             PROVE  /\ after[i + Len(u \o v)] = {r}
                    /\ \A k \in i .. i + Len(u \o v) - 1 : Unfinished(after[k])
  BY DEF Leads
<1>2. Occurs(u, line, i) /\ Occurs(v, line, i + Len(u))
  BY OccursInTwo
<1>3. after[i + Len(u)] = {t} /\ \A k \in i .. i + Len(u) - 1 : Unfinished(after[k])
  BY <1>2 DEF Leads
<1>4. /\ after[i + Len(u) + Len(v)] = {r}
      /\ \A k \in i + Len(u) .. i + Len(u) + Len(v) - 1 : Unfinished(after[k])
  BY <1>2, <1>3 DEF Leads
<1>5. i + Len(u) + Len(v) = i + Len(u \o v)
  BY <1>1
<1>6. \A k \in i .. i + Len(u \o v) - 1 :
        k \in i .. i + Len(u) - 1 \/ k \in i + Len(u) .. i + Len(u) + Len(v) - 1
  BY <1>1
<1> QED
  BY <1>3, <1>4, <1>5, <1>6

LEMMA OneTokenLeads ==
  ASSUME NEW x, NEW i \in Nat, NEW s, NEW t, s.expect # "done",
         \A line : line[i + 1] = x => Taken(s, line, i + 1) = {t}
  PROVE  Leads(<<x>>, i, s, t)
<1>1. Len(<<x>>) = 1 /\ DOMAIN <<x>> = {1} /\ <<x>>[1] = x
  OBVIOUS
<1> SUFFICES ASSUME NEW line, NEW after,
                    Reads(line, after), Occurs(<<x>>, line, i), after[i] = {s}
             PROVE  /\ after[i + 1] = {t}
                    /\ \A k \in i .. i + 1 - 1 : Unfinished(after[k])
  BY <1>1 DEF Leads
<1>2. i + 1 \in DOMAIN line /\ line[i + 1] = x
  BY <1>1 DEF Occurs
<1>3. (i + 1) - 1 = i
  OBVIOUS
<1>4. after[i + 1] = UNION { Taken(r, line, i + 1) : r \in {s} }
  BY <1>2, <1>3 DEF Reads
<1>5. Unfinished(after[i])
  BY DEF Unfinished
<1>6. \A k \in i .. i + 1 - 1 : k = i
  OBVIOUS
<1>7. after[i + 1] = Taken(s, line, i + 1)
  BY <1>4
<1> QED
  BY <1>2, <1>5, <1>6, <1>7

LEMMA NoTokenLeads ==
  ASSUME NEW i \in Nat, NEW s
  PROVE  Leads(<< >>, i, s, s)
<1>1. Len(<< >>) = 0 /\ i + 0 = i /\ i .. i + 0 - 1 = {}
  BY EmptySeq
<1> QED
  BY <1>1 DEF Leads

(***************************************************************************)
(* Values that are skipped.                                                *)
(***************************************************************************)
Closings == {"end_array", "end_object"}
Stacks == { o \in Seq(Closings) : o # << >> }
Skips(v) ==
  \A e, p, w : \A i \in Nat, o \in Stacks : ValueDue(e, o) =>
    \E f : Ended(f) /\ Leads(v, i, St(e, o, p, w), St(f, o, p, w))

LEMMA DueIsUnfinished ==
  ASSUME NEW e, NEW o, NEW p, NEW w
  PROVE  /\ ValueDue(e, o) => St(e, o, p, w).expect # "done"
         /\ Ended(e) => St(e, o, p, w).expect # "done"
<1>1. St(e, o, p, w).expect = e
  BY StateParts
<1> QED
  BY <1>1 DEF ValueDue, Ended

LEMMA ScalarSkips ==
  ASSUME NEW x, x.kind = "string" \/ x.kind = "int" \/ x.kind = "word"
  PROVE  Skips(<<x>>)
<1>2. ASSUME NEW i \in Nat, NEW e, NEW o \in Stacks, NEW p, NEW w, ValueDue(e, o)
      PROVE  \E f : Ended(f) /\ Leads(<<x>>, i, St(e, o, p, w), St(f, o, p, w))
  <2>1. o # << >> /\ St(e, o, p, w).expect # "done"
    BY <1>2, DueIsUnfinished DEF Stacks
  <2>2. CASE x.kind = "string"
    <3>1. \A line : line[i + 1] = x => Taken(St(e, o, p, w), line, i + 1) = {St("more", o, p, w)}
      BY <1>2, <2>1, <2>2, ReadScalar
    <3>2. Leads(<<x>>, i, St(e, o, p, w), St("more", o, p, w))
      BY <2>1, <3>1, OneTokenLeads
    <3> QED
      BY <3>2 DEF Ended
  <2>3. CASE x.kind = "int" \/ x.kind = "word"
    <3>1. \A line : line[i + 1] = x =>
            Taken(St(e, o, p, w), line, i + 1) = {St("rest_of_bare", o, p, w)}
      BY <1>2, <2>1, <2>3, ReadScalar
    <3>2. Leads(<<x>>, i, St(e, o, p, w), St("rest_of_bare", o, p, w))
      BY <2>1, <3>1, OneTokenLeads
    <3> QED
      BY <3>2 DEF Ended
  <2> QED
    BY <2>2, <2>3
<1> QED
  BY <1>2 DEF Skips

Comma == <<Mark("comma")>>

LEMMA CommaLength == Len(Comma) = 1
BY DEF Comma
LEMMA CommaIsOne == 1 \in DOMAIN Comma /\ Comma[1] = Mark("comma")
BY DEF Comma

LEMMA TwoInOne ==
  ASSUME NEW T, NEW u \in Seq(T), NEW v \in Seq(T)
  PROVE  u \o v \in Seq(T) /\ Len(u \o v) = Len(u) + Len(v) /\ Len(u) \in Nat /\ Len(v) \in Nat
BY ConcatProperties, LenProperties

\* joined[k]: the first k parts one after the other, a comma between each two.
Joins(joined, parts, T) ==
  /\ joined \in [0 .. Len(parts) -> Seq(T)] /\ joined[0] = << >>
  /\ \A k \in 1 .. Len(parts) :
       joined[k] = IF k = 1 THEN parts[1] ELSE (joined[k - 1] \o Comma) \o parts[k]

LEMMA Separated ==
  ASSUME NEW T, Comma \in Seq(T), NEW parts \in Seq(Seq(T))
  PROVE  \E f : Joins(f, parts, T) /\ f[Len(parts)] = CommaSeparated(parts)
<1> DEFINE n == Len(parts)
           X == Seq(T)
           Step(s, i) == s \o (IF i = 1 THEN << >> ELSE Comma) \o parts[i]
           step == [i \in 1 .. n |-> [s \in X |-> Step(s, i)]]
           Body(f) == [i \in 0 .. n |-> IF i = 0 THEN << >> ELSE Step(f[i - 1], i)]
           at == CHOOSE f : f = Body(f)
<1>1. n \in Nat /\ << >> \in X
  BY LenProperties
<1>2. \A i \in 1 .. n : parts[i] \in X
  BY ElementOfSeq
<1>3. \A i \in 1 .. n : \A s \in X : Step(s, i) \in X
  <2> SUFFICES ASSUME NEW i \in 1 .. n, NEW s \in X
               PROVE  Step(s, i) \in X
    OBVIOUS
  <2> DEFINE c == IF i = 1 THEN << >> ELSE Comma
  <2>1. c \in Seq(T)
    BY <1>1
  <2> HIDE DEF c
  <2>2. s \o c \in Seq(T)
    BY <2>1, ConcatProperties
  <2>3. (s \o c) \o parts[i] \in Seq(T)
    BY <1>2, <2>2, ConcatProperties
  <2> QED
    BY <2>3 DEF c
<1> HIDE DEF Step
<1>4. step \in [1 .. n -> [X -> X]]
  BY <1>3
<1>5. PICK f \in [0 .. n -> X] : Recurses(f, n, << >>, step)
  <2> HIDE DEF n, X, step
  <2> QED
    BY <1>1, <1>4, RecursiveFunction
<1>6. \A i \in 1 .. n : f[i] = Step(f[i - 1], i)
  <2> TAKE i \in 1 .. n
  <2>1. f[i] = step[i][f[i - 1]]
    <3> HIDE DEF n, step, X
    <3> QED
      BY <1>5 DEF Recurses
  <2>2. i - 1 \in 0 .. n
    BY <1>1
  <2>3. f[i - 1] \in X
    <3> HIDE DEF X, n
    <3> QED
      BY <2>2
  <2> QED
    BY <2>1, <2>3
<1>7. f[0] = << >>
  BY <1>5 DEF Recurses
<1>8. f = Body(f)
  <2>1. \A i \in 0 .. n : f[i] = IF i = 0 THEN << >> ELSE Step(f[i - 1], i)
    BY <1>1, <1>6, <1>7
  <2> HIDE DEF X
  <2> QED
    BY <2>1
<1>9. at = Body(at)
  <2> HIDE DEF Body
  <2> QED
    BY <1>8
<1>10. \A i \in 0 .. n : at[i] = IF i = 0 THEN << >> ELSE Step(at[i - 1], i)
  <2> HIDE DEF at
  <2> QED
    BY <1>9
<1> HIDE DEF at, step
<1>11. ContinueAlike(f, at, n)
  <2>1. \A i \in 1 .. n : i \in 0 .. n /\ i # 0
    BY <1>1
  <2>2. at[0] = << >>
    BY <1>1, <1>10
  <2> HIDE DEF n
  <2> QED
    BY <2>1, <2>2, <1>6, <1>7, <1>10 DEF ContinueAlike
<1>12. f[n] = at[n]
  <2>1. Alike(f, at, n)
    <3> HIDE DEF n
    <3> QED
      BY <1>1, <1>11, RecursionUnique
  <2> QED
    BY <1>1, <2>1 DEF Alike
<1>13. CommaSeparated(parts) = at[n]
  BY DEF CommaSeparated, at, Step, Comma
<1>14. ASSUME NEW k \in 1 .. n
       PROVE  f[k] = IF k = 1 THEN parts[1] ELSE (f[k - 1] \o Comma) \o parts[k]
  <2>1. f[k] = Step(f[k - 1], k)
    BY <1>6
  <2>2. CASE k = 1
    <3>1. f[k - 1] = << >> /\ parts[1] \in Seq(T)
      BY <1>2, <1>7, <2>2
    <3>2. << >> \o << >> = << >> /\ << >> \o parts[1] = parts[1]
      BY <1>1, <3>1, ConcatEmptySeq
    <3>3. f[k] = (<< >> \o << >>) \o parts[1]
      BY <2>1, <2>2, <3>1 DEF Step
    <3> QED
      BY <2>2, <3>2, <3>3
  <2>3. CASE k # 1
    BY <2>1, <2>3 DEF Step
  <2> QED
    BY <2>2, <2>3
<1> QED
  BY <1>7, <1>12, <1>13, <1>14 DEF Joins

(***************************************************************************)
(* Arrays and objects.                                                     *)
(***************************************************************************)
LEMMA Pushed ==
  ASSUME NEW S, NEW o \in Seq(S), NEW c \in S
  PROVE  /\ Last(Append(o, c)) = c
         /\ Front(Append(o, c)) = o
<1>1. /\ Append(o, c) \in Seq(S) /\ Len(Append(o, c)) = Len(o) + 1 /\ Append(o, c)[Len(o) + 1] = c
      /\ \A k \in 1 .. Len(o) : Append(o, c)[k] = o[k]
  BY AppendProperties
<1>2. Len(o) \in Nat
  BY LenProperties
<1> DEFINE q == Append(o, c)
           f == SubSeq(q, 1, Len(o))
<1> HIDE DEF q
<1>3. Len(q) = Len(o) + 1 /\ q[Len(o) + 1] = c /\ \A k \in 1 .. Len(o) : q[k] = o[k]
  BY <1>1 DEF q
<1>4. f \in Seq(S) /\ Len(f) = Len(o) /\ \A k \in 1 .. Len(o) : f[k] = q[k]
  <2>1. \A k \in 1 .. Len(o) : q[k] \in S
    BY <1>3, ElementOfSeq
  <2> QED
    BY <1>2, <2>1, SubSeqProperties
<1> HIDE DEF f
<1>5. f = o
  BY <1>3, <1>4, SeqEqual
<1>6. Last(q) = c
  BY <1>3 DEF Last
<1>7. Front(q) = o
  <2>1. Len(q) - 1 = Len(o)
    BY <1>2, <1>3
  <2> QED
    BY <1>5, <2>1 DEF f, Front
<1> QED
  BY <1>6, <1>7 DEF q

\* The stack q is o with one more mark on it.
Over(q, o, c) ==
  /\ q = Append(o, c) /\ q \in Stacks /\ Last(q) = c /\ Front(q) = o
  /\ Len(q) = Len(o) + 1 /\ Len(o) \in Nat

LEMMA Stacked ==
  ASSUME NEW o \in Seq(Closings), NEW c \in Closings
  PROVE  Over(Append(o, c), o, c)
<1> DEFINE q == Append(o, c)
<1>1. q \in Seq(Closings) /\ Len(q) = Len(o) + 1 /\ q # << >>
  BY AppendProperties
<1>2. Last(q) = c /\ Front(q) = o
  BY Pushed
<1> HIDE DEF q
<1>3. q \in Stacks
  BY <1>1 DEF Stacks
<1>4. Len(o) \in Nat
  BY LenProperties
<1>5. q = Append(o, c)
  BY DEF q
<1> QED
  BY <1>1, <1>2, <1>3, <1>4, <1>5 DEF Over

\* What opens, what parts and what closes an array or an object.
LEMMA OpeningLeads ==
  ASSUME NEW i \in Nat, NEW e, NEW o, NEW p, NEW w, ValueDue(e, o)
  PROVE  /\ Leads(<<Mark("begin_array")>>, i, St(e, o, p, w),
                  St("first_item", Append(o, "end_array"), p, w))
         /\ Leads(<<Mark("begin_object")>>, i, St(e, o, p, w),
                  St("first_name", Append(o, "end_object"), p, w))
<1>1. \A c : Mark(c).kind = c
  BY TokenKinds
<1>2. \A line : line[i + 1] = Mark("begin_array") =>
        Taken(St(e, o, p, w), line, i + 1) = {St("first_item", Append(o, "end_array"), p, w)}
  BY <1>1, ReadOpening
<1>3. \A line : line[i + 1] = Mark("begin_object") =>
        Taken(St(e, o, p, w), line, i + 1) = {St("first_name", Append(o, "end_object"), p, w)}
  BY <1>1, ReadOpening
<1> QED
  BY <1>2, <1>3, DueIsUnfinished, OneTokenLeads

LEMMA CommaLeads ==
  ASSUME NEW i \in Nat, NEW e, NEW q \in Stacks, NEW p, NEW w, Ended(e)
  PROVE  /\ Last(q) = "end_array" => Leads(Comma, i, St(e, q, p, w), St("item", q, p, w))
         /\ Last(q) = "end_object" => Leads(Comma, i, St(e, q, p, w), St("name", q, p, w))
<1> DEFINE c == Mark("comma")
<1>1. c.kind = "comma" /\ q # << >>
  BY TokenKinds DEF Stacks
<1> HIDE DEF c
<1>2. Last(q) = "end_array" =>
        \A line : line[i + 1] = c => Taken(St(e, q, p, w), line, i + 1) = {St("item", q, p, w)}
  BY <1>1, ReadComma
<1>3. Last(q) = "end_object" =>
        \A line : line[i + 1] = c => Taken(St(e, q, p, w), line, i + 1) = {St("name", q, p, w)}
  BY <1>1, ReadComma
<1> QED
  BY <1>2, <1>3, DueIsUnfinished, OneTokenLeads DEF Comma, c

LEMMA ClosingLeads ==
  ASSUME NEW i \in Nat, NEW e, NEW q \in Stacks, NEW p, NEW w, NEW c, c = Last(q),
         \/ c = "end_array" /\ (Ended(e) \/ e = "first_item")
         \/ c = "end_object" /\ (Ended(e) \/ e = "first_name")
  PROVE  /\ Front(q) = << >> => Leads(<<Mark(c)>>, i, St(e, q, p, w), St("done", Front(q), p, w))
         /\ Front(q) # << >> => Leads(<<Mark(c)>>, i, St(e, q, p, w), St("more", Front(q), p, w))
<1>1. Mark(c).kind = Last(q) /\ q # << >>
  BY TokenKinds DEF Stacks
<1>2. St(e, q, p, w).expect # "done"
  <2>1. St(e, q, p, w).expect = e
    BY StateParts
  <2> QED
    BY <2>1 DEF Ended
<1>3. Front(q) = << >> =>
        \A line : line[i + 1] = Mark(c) =>
          Taken(St(e, q, p, w), line, i + 1) = {St("done", Front(q), p, w)}
  BY <1>1, ReadClosing
<1>4. Front(q) # << >> =>
        \A line : line[i + 1] = Mark(c) =>
          Taken(St(e, q, p, w), line, i + 1) = {St("more", Front(q), p, w)}
  BY <1>1, ReadClosing
<1> QED
  BY <1>2, <1>3, <1>4, OneTokenLeads

\* How the parts are joined, one after the other.
LEMMA FirstJoined ==
  ASSUME NEW T, NEW parts \in Seq(Seq(T)), NEW f, Joins(f, parts, T), Len(parts) # 0
  PROVE  /\ 1 \in 1 .. Len(parts) /\ f[1] = parts[1]
         /\ parts[1] \in Seq(T) /\ Len(parts[1]) \in Nat
<1>1. 1 \in 1 .. Len(parts)
  BY LenProperties
<1>2. parts[1] \in Seq(T)
  BY <1>1, ElementOfSeq
<1>3. f[1] = parts[1]
  BY <1>1 DEF Joins
<1> QED
  BY <1>1, <1>2, <1>3, LenProperties

LEMMA NextParts ==
  ASSUME NEW T, Comma \in Seq(T), NEW parts \in Seq(Seq(T)), NEW f, Joins(f, parts, T),
         NEW k \in Nat, k # 0, k + 1 <= Len(parts)
  PROVE  /\ f[k] \in Seq(T) /\ f[k] \o Comma \in Seq(T) /\ parts[k + 1] \in Seq(T)
         /\ f[k + 1] = (f[k] \o Comma) \o parts[k + 1]
<1>1. /\ k + 1 \in 1 .. Len(parts) /\ k \in 0 .. Len(parts) /\ k + 1 # 1 /\ (k + 1) - 1 = k
  BY LenProperties
<1>2. f[k] \in Seq(T)
  BY <1>1 DEF Joins
<1>3. parts[k + 1] \in Seq(T)
  BY <1>1, ElementOfSeq
<1>4. f[k + 1] = (f[k] \o Comma) \o parts[k + 1]
  BY <1>1 DEF Joins
<1>5. f[k] \o Comma \in Seq(T)
  BY <1>2, TwoInOne
<1> QED
  BY <1>2, <1>3, <1>4, <1>5

NextLong(f, parts, k) ==
  /\ Len(f[k]) \in Nat /\ Len(f[k] \o Comma) = Len(f[k]) + 1
  /\ Len(parts[k + 1]) \in Nat
  /\ Len(f[k + 1]) = Len(f[k]) + 1 + Len(parts[k + 1])

LEMMA NextLengths ==
  ASSUME NEW T, Comma \in Seq(T), NEW parts \in Seq(Seq(T)), NEW f, Joins(f, parts, T),
         NEW k \in Nat, k # 0, k + 1 <= Len(parts)
  PROVE  NextLong(f, parts, k)
<1>1. /\ f[k] \in Seq(T) /\ f[k] \o Comma \in Seq(T) /\ parts[k + 1] \in Seq(T)
      /\ f[k + 1] = (f[k] \o Comma) \o parts[k + 1]
  BY NextParts
<1>2. Len(f[k] \o Comma) = Len(f[k]) + 1
  BY <1>1, CommaLength, TwoInOne
<1>3. Len(f[k + 1]) = Len(f[k]) + 1 + Len(parts[k + 1])
  BY <1>1, <1>2, TwoInOne
<1>4. Len(f[k]) \in Nat /\ Len(parts[k + 1]) \in Nat
  BY <1>1, LenProperties
<1> QED
  BY <1>2, <1>3, <1>4 DEF NextLong

\* Where the whole stands, each part stands and the comma that follows it.
PartAt(f, parts, line, i, k) ==
  /\ i + Len(f[k]) - Len(parts[k]) \in Nat
  /\ Occurs(parts[k], line, i + Len(f[k]) - Len(parts[k]))
CommaAt(f, line, i, k) ==
  i + Len(f[k]) + 1 \in DOMAIN line /\ line[i + Len(f[k]) + 1] = Mark("comma")

LEMMA PartsOccur ==
  ASSUME NEW T, Comma \in Seq(T), NEW parts \in Seq(Seq(T)), NEW f, Joins(f, parts, T),
         NEW line, NEW i \in Nat, Occurs(f[Len(parts)], line, i)
  PROVE  /\ \A k \in 1 .. Len(parts) : PartAt(f, parts, line, i, k)
         /\ \A k \in 1 .. Len(parts) - 1 : CommaAt(f, line, i, k)
<1> DEFINE n == Len(parts)
           S == { d \in Nat : d < n => Occurs(f[n - d], line, i) }
<1>1. n \in Nat
  BY LenProperties
<1>2. ASSUME n # 0, Occurs(f[1], line, i)
      PROVE  PartAt(f, parts, line, i, 1)
  <2>1. f[1] = parts[1] /\ Len(parts[1]) \in Nat
    BY <1>2, FirstJoined
  <2>2. i + Len(f[1]) - Len(parts[1]) = i
    BY <2>1
  <2> QED
    BY <1>2, <2>1, <2>2 DEF PartAt
<1>3. ASSUME NEW k \in Nat, k # 0, k + 1 <= n, Occurs(f[k + 1], line, i)
      PROVE  Occurs(f[k], line, i) /\ CommaAt(f, line, i, k) /\ PartAt(f, parts, line, i, k + 1)
  <2> DEFINE u == f[k] \o Comma
  <2>1. /\ f[k] \in Seq(T) /\ u \in Seq(T) /\ parts[k + 1] \in Seq(T)
        /\ f[k + 1] = u \o parts[k + 1]
    BY <1>3, NextParts
  <2>2. /\ Len(f[k]) \in Nat /\ Len(u) = Len(f[k]) + 1 /\ Len(parts[k + 1]) \in Nat
        /\ Len(f[k + 1]) = Len(f[k]) + 1 + Len(parts[k + 1])
    <3>1. NextLong(f, parts, k)
      BY <1>3, NextLengths
    <3> QED
      BY <3>1 DEF NextLong
  <2>7. Occurs(u, line, i) /\ Occurs(parts[k + 1], line, i + Len(u))
    <3> HIDE DEF u
    <3> QED
      BY <1>3, <2>1, OccursInTwo
  <2>3. Occurs(f[k], line, i) /\ Occurs(Comma, line, i + Len(f[k]))
    BY <2>1, <2>7, OccursInTwo
  <2>4. i + Len(f[k + 1]) - Len(parts[k + 1]) = i + Len(u) /\ i + Len(u) \in Nat
    <3> HIDE DEF u
    <3> QED
      BY <2>2
  <2>5. PartAt(f, parts, line, i, k + 1)
    BY <2>4, <2>7 DEF PartAt
  <2>6. CommaAt(f, line, i, k)
    <3>1. 1 \in DOMAIN Comma /\ Comma[1] = Mark("comma")
      BY CommaIsOne
    <3> QED
      BY <2>3, <3>1 DEF Occurs, CommaAt
  <2> QED
    BY <2>3, <2>5, <2>6
<1> HIDE DEF n
<1>4. 0 \in S
  BY <1>1 DEF n
<1>5. ASSUME NEW d \in Nat, d \in S, d + 1 < n
      PROVE  Occurs(f[n - (d + 1)], line, i)
  <2>1. PICK k \in Nat : k = n - (d + 1)
    BY <1>1, <1>5
  <2>2. k # 0 /\ k + 1 <= n /\ n - d = k + 1
    BY <1>1, <1>5, <2>1
  <2>3. Occurs(f[n - d], line, i)
    BY <1>1, <1>5
  <2>4. Occurs(f[k], line, i)
    BY <1>3, <2>2, <2>3
  <2> QED
    BY <2>1, <2>4
<1>6. \A d \in Nat : d \in S => d + 1 \in S
  BY <1>5
<1> HIDE DEF S
<1>7. Nat \subseteq S
  BY <1>4, <1>6, SetInduction
<1>8. ASSUME NEW j \in 1 .. n
      PROVE  Occurs(f[j], line, i)
  <2>1. n - j \in S /\ n - j < n /\ n - (n - j) = j
    BY <1>1, <1>7
  <2> QED
    BY <2>1 DEF S
<1>9. ASSUME NEW k \in 1 .. n
      PROVE  PartAt(f, parts, line, i, k)
  <2>1. CASE k = 1
    BY <1>1, <1>2, <1>8, <2>1
  <2>2. CASE k # 1
    <3>1. PICK j \in Nat : j # 0 /\ j + 1 = k
      <4>1. k - 1 \in Nat /\ k - 1 # 0 /\ (k - 1) + 1 = k
        BY <1>1, <2>2
      <4> QED
        BY <4>1
    <3>2. j + 1 <= n /\ Occurs(f[j + 1], line, i)
      BY <1>1, <1>8, <3>1
    <3> QED
      BY <1>3, <3>1, <3>2
  <2> QED
    BY <2>1, <2>2
<1>10. ASSUME NEW k \in 1 .. n - 1
       PROVE  CommaAt(f, line, i, k)
  <2>1. k \in Nat /\ k # 0 /\ k + 1 <= n /\ k + 1 \in 1 .. n
    BY <1>1
  <2>2. Occurs(f[k + 1], line, i)
    BY <1>8, <2>1
  <2> QED
    BY <1>3, <2>1, <2>2
<1> QED
  BY <1>9, <1>10 DEF n

\* What is between the marks of an array or object, and the marks.
LEMMA Enclosed ==
  ASSUME NEW T, NEW a \in T, NEW z \in T, NEW v \in Seq(T)
  PROVE  /\ <<a>> \o v \in Seq(T) /\ Len(<<a>> \o v) = 1 + Len(v) /\ <<z>> \in Seq(T)
         /\ <<a>> \in Seq(T) /\ Len(<<a>>) = 1
         /\ <<a>> \o v \o <<z>> \in Seq(T) /\ Len(<<a>> \o v \o <<z>>) = Len(v) + 2
<1>1. <<a>> \in Seq(T) /\ <<z>> \in Seq(T) /\ Len(<<a>>) = 1 /\ Len(<<z>>) = 1
  BY OneToken
<1>2. <<a>> \o v \in Seq(T) /\ Len(<<a>> \o v) = 1 + Len(v)
  BY <1>1, ConcatProperties
<1>3. <<a>> \o v \o <<z>> \in Seq(T) /\ Len(<<a>> \o v \o <<z>>) = 1 + Len(v) + 1
  BY <1>1, <1>2, ConcatProperties
<1>4. Len(v) \in Nat
  BY LenProperties
<1> QED
  BY <1>1, <1>2, <1>3, <1>4

LEMMA SkipOnce ==
  ASSUME NEW v, Skips(v), NEW i \in Nat, NEW e, NEW o \in Stacks, NEW p, NEW w, ValueDue(e, o)
  PROVE  \E f : Ended(f) /\ Leads(v, i, St(e, o, p, w), St(f, o, p, w))
BY DEF Skips

LEMMA NaturalSums ==
  ASSUME NEW i \in Nat, NEW m, m \in Nat, NEW n, n = m + 1
  PROVE  i + 1 \in Nat /\ i + 1 + m \in Nat /\ i + 1 + n \in Nat
OBVIOUS

\* An array of values that are skipped is skipped.
LEMMA ArraySkips ==
  ASSUME NEW T, Comma \in Seq(T), Mark("begin_array") \in T, Mark("end_array") \in T,
         NEW parts \in Seq(Seq(T)), \A k \in 1 .. Len(parts) : Skips(parts[k])
  PROVE  Skips(ArrayOf(parts)) /\ ArrayOf(parts) \in Seq(T)
<1> DEFINE n == Len(parts)
           v == CommaSeparated(parts)
<1>1. n \in Nat
  BY LenProperties
<1>2. PICK f : Joins(f, parts, T) /\ f[n] = v
  BY Separated
<1>3. v \in Seq(T)
  BY <1>1, <1>2 DEF Joins
<1>4. ASSUME NEW i \in Nat, NEW e, NEW o \in Stacks, NEW p, NEW w, ValueDue(e, o)
      PROVE  \E g : Ended(g) /\ Leads(ArrayOf(parts), i, St(e, o, p, w), St(g, o, p, w))
  <2> DEFINE q == Append(o, "end_array")
             Reached(k, g) == Leads(f[k], i + 1, St("first_item", q, p, w), St(g, q, p, w))
             S == { k \in Nat : k <= n => \E g : (IF k = 0 THEN g = "first_item" ELSE Ended(g))
                                                 /\ Reached(k, g) }
  <2>1. Over(q, o, "end_array") /\ o # << >>
    <3>1. o \in Seq(Closings) /\ o # << >>
      BY DEF Stacks
    <3>2. "end_array" \in Closings
      BY DEF Closings
    <3> QED
      BY <3>1, <3>2, Stacked, Zenon
  <2>14. q \in Stacks /\ Last(q) = "end_array" /\ Front(q) = o
    BY <2>1 DEF Over
  <2>15. Len(q) # 1
    <3>1. Len(o) # 0
      BY <2>1, EmptySeq DEF Stacks
    <3> QED
      BY <2>1, <3>1 DEF Over
  <2> HIDE DEF q
  <2>2. 0 \in S
    <3>1. Reached(0, "first_item")
      BY <1>2, NoTokenLeads DEF Joins
    <3> QED
      BY <3>1
  <2>3. \A k \in Nat : k \in S => k + 1 \in S
    <3> SUFFICES ASSUME NEW k \in Nat, k \in S, k + 1 <= n
                 PROVE  \E g : Ended(g) /\ Reached(k + 1, g)
      OBVIOUS
    <3>1. k + 1 \in 1 .. n /\ (k + 1) - 1 = k
      BY <1>1
    <3>2. PICK g : (IF k = 0 THEN g = "first_item" ELSE Ended(g)) /\ Reached(k, g)
      BY <1>1
    <3>3. Skips(parts[k + 1]) /\ parts[k + 1] \in Seq(T)
      BY <3>1, ElementOfSeq
    <3>4. CASE k = 0
      <4>1. ValueDue("first_item", q)
        BY <2>15 DEF ValueDue
      <4>2. i + 1 \in Nat /\ k + 1 = 1
        BY <3>4
      <4>3. PICK h : Ended(h) /\ Leads(parts[k + 1], i + 1, St("first_item", q, p, w), St(h, q, p, w))
        BY <2>14, <3>3, <4>1, <4>2, SkipOnce
      <4>4. f[k + 1] = parts[k + 1]
        <5>1. f[1] = parts[1]
          BY <1>1, <1>2, FirstJoined
        <5> QED
          BY <4>2, <5>1
      <4> QED
        BY <4>3, <4>4
    <3>5. CASE k # 0
      <4> DEFINE u == f[k] \o Comma
      <4>1. f[k] \in Seq(T) /\ u \in Seq(T) /\ f[k + 1] = u \o parts[k + 1]
        BY <1>2, <3>5, NextParts
      <4>8. Len(f[k]) \in Nat /\ Len(u) = Len(f[k]) + 1
        <5>1. NextLong(f, parts, k)
          BY <1>2, <3>5, NextLengths
        <5> QED
          BY <5>1 DEF NextLong
      <4>2. i + 1 \in Nat /\ i + 1 + Len(f[k]) \in Nat /\ i + 1 + Len(u) \in Nat
        <5> HIDE DEF u
        <5> QED
          BY <4>8, NaturalSums
      <4>3. Leads(Comma, i + 1 + Len(f[k]), St(g, q, p, w), St("item", q, p, w))
        BY <2>14, <3>2, <3>5, <4>2, CommaLeads
      <4>4. Leads(u, i + 1, St("first_item", q, p, w), St("item", q, p, w))
        BY <3>2, <4>1, <4>2, <4>3, LeadsOn
      <4> HIDE DEF u
      <4>5. ValueDue("item", q)
        BY <2>15 DEF ValueDue
      <4>6. PICK h : Ended(h) /\ Leads(parts[k + 1], i + 1 + Len(u),
                                       St("item", q, p, w), St(h, q, p, w))
        BY <2>14, <3>3, <4>2, <4>5, SkipOnce
      <4>7. Leads(f[k + 1], i + 1, St("first_item", q, p, w), St(h, q, p, w))
        BY <3>3, <4>1, <4>2, <4>4, <4>6, LeadsOn
      <4> QED
        BY <4>6, <4>7
    <3> QED
      BY <3>4, <3>5
  <2> HIDE DEF S
  <2>4. n \in S
    BY <1>1, <2>2, <2>3, SetInduction
  <2>5. PICK g : (IF n = 0 THEN g = "first_item" ELSE Ended(g)) /\ Reached(n, g)
    BY <2>4 DEF S
  <2>6. g = "first_item" \/ Ended(g)
    BY <2>5
  <2>7. Leads(v, i + 1, St("first_item", q, p, w), St(g, q, p, w))
    BY <1>2, <2>5
  <2> HIDE DEF v
  <2>8. /\ <<Mark("begin_array")>> \o v \in Seq(T) /\ Len(<<Mark("begin_array")>> \o v) = 1 + Len(v)
        /\ <<Mark("end_array")>> \in Seq(T) /\ <<Mark("begin_array")>> \in Seq(T)
        /\ Len(<<Mark("begin_array")>>) = 1 /\ Len(v) \in Nat
    BY <1>3, Enclosed, LenProperties
  <2>9. Leads(<<Mark("begin_array")>>, i, St(e, o, p, w), St("first_item", q, p, w))
    BY <1>4, OpeningLeads DEF q
  <2>10. Leads(<<Mark("begin_array")>> \o v, i, St(e, o, p, w), St(g, q, p, w))
    BY <1>3, <2>7, <2>8, <2>9, LeadsOn
  <2>11. i + (1 + Len(v)) \in Nat
    BY <2>8
  <2>12. Leads(<<Mark("end_array")>>, i + (1 + Len(v)), St(g, q, p, w), St("more", o, p, w))
    BY <2>1, <2>6, <2>11, <2>14, ClosingLeads
  <2>13. Leads(<<Mark("begin_array")>> \o v \o <<Mark("end_array")>>, i, St(e, o, p, w),
               St("more", o, p, w))
    BY <2>8, <2>10, <2>12, LeadsOn
  <2> QED
    BY <2>13 DEF Ended, ArrayOf, v
<1>5. ArrayOf(parts) \in Seq(T)
  BY <1>3, Enclosed DEF ArrayOf
<1> QED
  BY <1>4, <1>5 DEF Skips

(***************************************************************************)
(* Objects.                                                                *)
(***************************************************************************)
Piece(name, v) == <<Str(name), Mark("colon")>> \o v
PiecesOf(fields) == [k \in DOMAIN fields |-> Piece(fields[k][1], fields[k][2])]

\* The marks are tokens of T.
Marked(T) ==
  /\ Mark("comma") \in T /\ Mark("colon") \in T /\ Mark("begin_array") \in T
  /\ Mark("end_array") \in T /\ Mark("begin_object") \in T /\ Mark("end_object") \in T

GoodField(field, T) == Str(field[1]) \in T /\ field[2] \in Seq(T) /\ Skips(field[2])
GoodFields(fields, T) ==
  /\ Len(fields) \in Nat /\ DOMAIN fields = 1 .. Len(fields)
  /\ \A k \in DOMAIN fields : GoodField(fields[k], T)

LEMMA CommaIsGood ==
  ASSUME NEW T, Marked(T)
  PROVE  Comma \in Seq(T)
BY OneToken DEF Comma, Marked

LEMMA TwoTokens ==
  ASSUME NEW a, NEW b
  PROVE  <<a>> \o <<b>> = <<a, b>>
<1>1. <<a>> \in Seq({a, b}) /\ <<b>> \in Seq({a, b}) /\ <<a, b>> \in Seq({a, b})
  OBVIOUS
<1>2. /\ Len(<<a>>) = 1 /\ Len(<<b>>) = 1 /\ Len(<<a, b>>) = 2
      /\ <<a>>[1] = a /\ <<b>>[1] = b /\ <<a, b>>[1] = a /\ <<a, b>>[2] = b
  OBVIOUS
<1>3. /\ <<a>> \o <<b>> \in Seq({a, b}) /\ Len(<<a>> \o <<b>>) = 2
      /\ \A k \in 1 .. 2 : (<<a>> \o <<b>>)[k] = IF k <= 1 THEN <<a>>[k] ELSE <<b>>[k - 1]
  BY <1>1, <1>2, ConcatProperties
<1>4. \A k \in 1 .. 2 : k = 1 \/ k = 2
  OBVIOUS
<1>5. (<<a>> \o <<b>>)[1] = a /\ (<<a>> \o <<b>>)[2] = b
  BY <1>2, <1>3
<1>6. \A k \in 1 .. 2 : (<<a>> \o <<b>>)[k] = <<a, b>>[k]
  BY <1>2, <1>4, <1>5
<1> QED
  BY <1>1, <1>2, <1>3, <1>6, SeqEqual

NameColon(name) == <<Str(name), Mark("colon")>>

LEMMA NameColonIs ==
  ASSUME NEW T, Marked(T), NEW name, Str(name) \in T
  PROVE  /\ NameColon(name) \in Seq(T) /\ Len(NameColon(name)) = 2
         /\ NameColon(name) = <<Str(name)>> \o <<Mark("colon")>>
         /\ <<Str(name)>> \in Seq(T) /\ <<Mark("colon")>> \in Seq(T) /\ Len(<<Str(name)>>) = 1
<1>1. NameColon(name) = <<Str(name)>> \o <<Mark("colon")>>
  BY TwoTokens DEF NameColon
<1>2. <<Str(name)>> \in Seq(T) /\ <<Mark("colon")>> \in Seq(T) /\ Len(<<Str(name)>>) = 1
      /\ Len(<<Mark("colon")>>) = 1
  BY OneToken DEF Marked
<1>3. <<Str(name)>> \o <<Mark("colon")>> \in Seq(T)
      /\ Len(<<Str(name)>> \o <<Mark("colon")>>) = 1 + 1
  BY <1>2, TwoInOne
<1> QED
  BY <1>1, <1>2, <1>3

LEMMA PieceIs ==
  ASSUME NEW T, Marked(T), NEW field, GoodField(field, T)
  PROVE  /\ Piece(field[1], field[2]) \in Seq(T)
         /\ Len(Piece(field[1], field[2])) = 2 + Len(field[2]) /\ Len(field[2]) \in Nat
<1>1. Piece(field[1], field[2]) = NameColon(field[1]) \o field[2]
  BY DEF Piece, NameColon
<1>2. NameColon(field[1]) \in Seq(T) /\ Len(NameColon(field[1])) = 2
  BY NameColonIs DEF GoodField
<1>3. field[2] \in Seq(T)
  BY DEF GoodField
<1> QED
  BY <1>1, <1>2, <1>3, TwoInOne

LEMMA PiecesAre ==
  ASSUME NEW T, Marked(T), NEW fields, GoodFields(fields, T)
  PROVE  /\ PiecesOf(fields) \in Seq(Seq(T)) /\ Len(PiecesOf(fields)) = Len(fields)
         /\ \A k \in 1 .. Len(fields) : PiecesOf(fields)[k] = Piece(fields[k][1], fields[k][2])
<1>1. DOMAIN fields = 1 .. Len(fields) /\ Len(fields) \in Nat
  BY DEF GoodFields
<1>2. \A k \in 1 .. Len(fields) : Piece(fields[k][1], fields[k][2]) \in Seq(T)
  BY <1>1, PieceIs DEF GoodFields
<1>3. PiecesOf(fields) \in [1 .. Len(fields) -> Seq(T)]
  BY <1>1, <1>2 DEF PiecesOf
<1>4. PiecesOf(fields) \in Seq(Seq(T)) /\ Len(PiecesOf(fields)) = Len(fields)
  BY <1>1, <1>3, IsASeq
<1>5. \A k \in 1 .. Len(fields) : PiecesOf(fields)[k] = Piece(fields[k][1], fields[k][2])
  BY <1>1 DEF PiecesOf
<1> QED
  BY <1>4, <1>5

\* The outermost object notes its members, the others do not.
Noted(q, p, name, at) == IF Len(q) = 1 THEN Append(p, Note(name, at)) ELSE p

LEMMA FieldLeads ==
  ASSUME NEW T, Marked(T), NEW field, GoodField(field, T), NEW i \in Nat, NEW e,
         e = "name" \/ e = "first_name", NEW q \in Stacks, NEW p, NEW w
  PROVE  \E g : Ended(g) /\ Leads(Piece(field[1], field[2]), i, St(e, q, p, w),
                                  St(g, q, Noted(q, p, field[1], i + 3), w))
<1> DEFINE r == Noted(q, p, field[1], i + 3)
           x == Str(field[1])
           v == field[2]
<1>1. x.kind = "string" /\ x.value = field[1] /\ i + 1 + 2 = i + 3
  BY TokenKinds
<1>2. St(e, q, p, w).expect # "done" /\ St("colon", q, r, w).expect # "done"
  <2>1. St(e, q, p, w).expect = e /\ St("colon", q, r, w).expect = "colon"
    BY StateParts
  <2> QED
    BY <2>1
<1>3. \A line : line[i + 1] = x => Taken(St(e, q, p, w), line, i + 1) = {St("colon", q, r, w)}
  <2> SUFFICES ASSUME NEW line, line[i + 1] = x
               PROVE  Taken(St(e, q, p, w), line, i + 1) = {St("colon", q, r, w)}
    OBVIOUS
  <2>1. line[i + 1].kind = "string" /\ line[i + 1].value = field[1]
    BY <1>1
  <2> DEFINE j == i + 1
             noted == Append(p, Note(line[j].value, j + 2))
  <2> HIDE DEF j, noted, r
  <2>2. line[j].kind = "string"
    BY <2>1 DEF j
  <2>4. j + 2 = i + 3 /\ line[j].value = field[1]
    BY <1>1, <2>1 DEF j
  <2>5. CASE Len(q) = 1
    <3>1. r = noted
      BY <2>4, <2>5 DEF Noted, noted, r
    <3>2. Taken(St(e, q, p, w), line, j) = {St("colon", q, noted, w)}
      BY <2>2, <2>5, ReadName DEF noted
    <3> QED
      BY <3>1, <3>2 DEF j
  <2>6. CASE Len(q) # 1
    <3>1. r = p
      BY <2>6 DEF Noted, r
    <3>2. Taken(St(e, q, p, w), line, j) = {St("colon", q, p, w)}
      BY <2>2, <2>6, ReadNestedName
    <3> QED
      BY <3>1, <3>2 DEF j
  <2> QED
    BY <2>5, <2>6
<1> HIDE DEF r, x
<1>4. Leads(<<x>>, i, St(e, q, p, w), St("colon", q, r, w))
  BY <1>2, <1>3, OneTokenLeads
<1>5. \A line : line[i + 1 + 1] = Mark("colon") =>
        Taken(St("colon", q, r, w), line, i + 1 + 1) = {St("value", q, r, w)}
  BY TokenKinds, ReadColon
<1>6. Leads(<<Mark("colon")>>, i + 1, St("colon", q, r, w), St("value", q, r, w))
  <2>1. i + 1 \in Nat
    OBVIOUS
  <2> QED
    BY <1>2, <1>5, <2>1, OneTokenLeads
<1>7. /\ NameColon(field[1]) \in Seq(T) /\ Len(NameColon(field[1])) = 2
      /\ NameColon(field[1]) = <<x>> \o <<Mark("colon")>>
      /\ <<x>> \in Seq(T) /\ <<Mark("colon")>> \in Seq(T) /\ Len(<<x>>) = 1
  BY NameColonIs DEF GoodField, x
<1>8. Leads(NameColon(field[1]), i, St(e, q, p, w), St("value", q, r, w))
  BY <1>4, <1>6, <1>7, LeadsOn
<1>9. ValueDue("value", q)
  BY DEF ValueDue
<1>10. Skips(v) /\ v \in Seq(T) /\ i + 2 \in Nat
  BY DEF GoodField
<1>11. PICK g : Ended(g) /\ Leads(v, i + 2, St("value", q, r, w), St(g, q, r, w))
  BY <1>9, <1>10, SkipOnce
<1>12. Leads(NameColon(field[1]) \o v, i, St(e, q, p, w), St(g, q, r, w))
  BY <1>7, <1>8, <1>10, <1>11, LeadsOn
<1>13. NameColon(field[1]) \o v = Piece(field[1], v)
  BY DEF NameColon, Piece
<1> QED
  BY <1>11, <1>12, <1>13 DEF r

\* ps[k]: the members noted when k fields have been read from the i-th token on.
FieldPlace(fields, f, i, k) == i + Len(f[k]) - Len(fields[k][2]) + 1
Notes(ps, q, fields, f, i) ==
  \A k \in 1 .. Len(fields) :
    ps[k] = Noted(q, ps[k - 1], fields[k][1], FieldPlace(fields, f, i, k))

LEMMA FirstPlace ==
  ASSUME NEW i \in Nat, NEW long \in Nat
  PROVE  i + (2 + long) - long + 1 = i + 3
OBVIOUS

LEMMA NextPlace ==
  ASSUME NEW i \in Nat, NEW long \in Nat, NEW so \in Nat, NEW with, with = so + 1
  PROVE  /\ i + so \in Nat /\ i + with \in Nat
         /\ i + (so + 1 + (2 + long)) - long + 1 = i + with + 3
OBVIOUS

LEMMA ObjectBody ==
  ASSUME NEW T, Marked(T), NEW fields, GoodFields(fields, T), NEW f,
         Joins(f, PiecesOf(fields), T), NEW i \in Nat, NEW q \in Stacks, Last(q) = "end_object",
         NEW w, NEW ps, Notes(ps, q, fields, f, i)
  PROVE  \E g : /\ g = "first_name" \/ Ended(g)
                /\ Leads(f[Len(fields)], i, St("first_name", q, ps[0], w),
                         St(g, q, ps[Len(fields)], w))
<1> DEFINE parts == PiecesOf(fields)
           n == Len(fields)
           Reached(k, g) == Leads(f[k], i, St("first_name", q, ps[0], w), St(g, q, ps[k], w))
           S == { k \in Nat : k <= n => \E g : (IF k = 0 THEN g = "first_name" ELSE Ended(g))
                                               /\ Reached(k, g) }
<1>1. /\ parts \in Seq(Seq(T)) /\ Len(parts) = n
      /\ \A k \in 1 .. n : parts[k] = Piece(fields[k][1], fields[k][2])
  BY PiecesAre
<1>2. n \in Nat /\ \A k \in 1 .. n : GoodField(fields[k], T)
  BY DEF GoodFields
<1>3. Comma \in Seq(T)
  BY CommaIsGood
<1>4. Joins(f, parts, T)
  OBVIOUS
<1> HIDE DEF parts, n
<1>5. \A k \in 1 .. n : ps[k] = Noted(q, ps[k - 1], fields[k][1], FieldPlace(fields, f, i, k))
  BY DEF Notes, n
<1>6. f[0] = << >>
  BY DEF Joins
<1>7. 0 \in S
  <2>1. Reached(0, "first_name")
    BY <1>6, NoTokenLeads
  <2> QED
    BY <2>1
<1>8. ASSUME NEW k \in Nat, k \in S, k + 1 <= n
      PROVE  \E g : Ended(g) /\ Reached(k + 1, g)
  <2>1. k + 1 \in 1 .. n /\ (k + 1) - 1 = k
    BY <1>2, <1>8
  <2>2. PICK g : (IF k = 0 THEN g = "first_name" ELSE Ended(g)) /\ Reached(k, g)
    <3>1. k <= n
      BY <1>2, <1>8
    <3> HIDE DEF Reached
    <3> QED
      BY <1>8, <3>1
  <2> DEFINE field == fields[k + 1]
             v == Piece(field[1], field[2])
             place == FieldPlace(fields, f, i, k + 1)
  <2>3. /\ GoodField(field, T) /\ parts[k + 1] = v
        /\ ps[k + 1] = Noted(q, ps[k], field[1], place)
    BY <1>1, <1>2, <1>5, <2>1
  <2>4. v \in Seq(T) /\ Len(v) = 2 + Len(field[2]) /\ Len(field[2]) \in Nat
    BY <2>3, PieceIs
  <2>5. place = i + Len(f[k + 1]) - Len(field[2]) + 1
    BY DEF FieldPlace
  <2> HIDE DEF field, v, place
  <2>6. CASE k = 0
    <3>1. k + 1 = 1 /\ n # 0
      BY <1>2, <1>8, <2>6
    <3>2. f[1] = parts[1]
      BY <1>1, <1>4, <3>1, FirstJoined
    <3>3. f[k + 1] = v
      BY <2>3, <3>1, <3>2
    <3>4. place = i + 3
      BY <2>4, <2>5, <3>3, FirstPlace
    <3>5. g = "first_name"
      BY <2>2, <2>6
    <3>6. PICK h : Ended(h) /\ Leads(v, i, St("first_name", q, ps[k], w),
                                     St(h, q, Noted(q, ps[k], field[1], i + 3), w))
      BY <2>3, FieldLeads DEF v
    <3>7. Leads(f[k + 1], i, St("first_name", q, ps[0], w), St(h, q, ps[k + 1], w))
      BY <2>3, <2>6, <3>3, <3>4, <3>6
    <3> QED
      BY <3>6, <3>7
  <2>7. CASE k # 0
    <3> DEFINE u == f[k] \o Comma
    <3>1. k + 1 <= Len(parts)
      BY <1>1, <1>8
    <3>2. f[k] \in Seq(T) /\ u \in Seq(T) /\ f[k + 1] = u \o v
      BY <1>1, <1>3, <1>4, <2>3, <2>7, <3>1, NextParts
    <3>3. NextLong(f, parts, k)
      BY <1>1, <1>3, <1>4, <2>7, <3>1, NextLengths
    <3>4. Len(f[k]) \in Nat /\ Len(u) = Len(f[k]) + 1 /\ Len(f[k + 1]) = Len(f[k]) + 1 + Len(v)
      BY <2>3, <3>3 DEF NextLong
    <3> HIDE DEF u
    <3>5. i + Len(f[k]) \in Nat /\ i + Len(u) \in Nat /\ place = i + Len(u) + 3
      <4>1. place = i + (Len(f[k]) + 1 + (2 + Len(field[2]))) - Len(field[2]) + 1
        BY <2>4, <2>5, <3>4
      <4> DEFINE so == Len(f[k])
                 long == Len(field[2])
                 with == Len(u)
      <4>2. so \in Nat /\ long \in Nat /\ with = so + 1
        BY <2>4, <3>4
      <4>3. place = i + (so + 1 + (2 + long)) - long + 1
        BY <4>1
      <4> HIDE DEF so, long, with
      <4>4. i + so \in Nat /\ i + with \in Nat /\ place = i + with + 3
        BY <4>2, <4>3, NextPlace
      <4> QED
        BY <4>4 DEF so, with
    <3>6. Ended(g) /\ Reached(k, g)
      BY <2>2, <2>7
    <3>7. Leads(Comma, i + Len(f[k]), St(g, q, ps[k], w), St("name", q, ps[k], w))
      BY <3>5, <3>6, CommaLeads
    <3>8. Leads(u, i, St("first_name", q, ps[0], w), St("name", q, ps[k], w))
      BY <1>3, <3>2, <3>6, <3>7, LeadsOn DEF u
    <3>9. PICK h : Ended(h) /\ Leads(v, i + Len(u), St("name", q, ps[k], w),
                                     St(h, q, Noted(q, ps[k], field[1], i + Len(u) + 3), w))
      BY <2>3, <3>5, FieldLeads DEF v
    <3>10. Leads(v, i + Len(u), St("name", q, ps[k], w), St(h, q, ps[k + 1], w))
      BY <2>3, <3>5, <3>9
    <3>11. Leads(f[k + 1], i, St("first_name", q, ps[0], w), St(h, q, ps[k + 1], w))
      BY <2>4, <3>2, <3>8, <3>10, LeadsOn
    <3> QED
      BY <3>9, <3>11
  <2> QED
    BY <2>6, <2>7
<1>9. \A k \in Nat : k \in S => k + 1 \in S
  BY <1>8
<1> HIDE DEF S
<1>10. n \in S
  BY <1>2, <1>7, <1>9, SetInduction
<1>11. PICK g : (IF n = 0 THEN g = "first_name" ELSE Ended(g)) /\ Reached(n, g)
  BY <1>10 DEF S
<1>12. g = "first_name" \/ Ended(g)
  BY <1>11
<1> QED
  BY <1>11, <1>12 DEF n

\* From the mark that opens an object to the one that closes it.
LEMMA ObjectLeads ==
  ASSUME NEW T, Marked(T), NEW fields, GoodFields(fields, T), NEW f,
         Joins(f, PiecesOf(fields), T), f[Len(fields)] = CommaSeparated(PiecesOf(fields)),
         NEW i \in Nat, NEW o \in Seq(Closings), NEW q, Over(q, o, "end_object"), NEW e,
         ValueDue(e, o), NEW w, NEW ps, Notes(ps, q, fields, f, i + 1)
  PROVE  /\ o = << >> => Leads(ObjectOf(fields), i, St(e, o, ps[0], w),
                               St("done", o, ps[Len(fields)], w))
         /\ o # << >> => Leads(ObjectOf(fields), i, St(e, o, ps[0], w),
                               St("more", o, ps[Len(fields)], w))
         /\ ObjectOf(fields) \in Seq(T)
<1> DEFINE v == CommaSeparated(PiecesOf(fields))
           open == <<Mark("begin_object")>>
           close == <<Mark("end_object")>>
           n == Len(fields)
<1>1. q \in Stacks /\ Last(q) = "end_object" /\ Front(q) = o /\ q = Append(o, "end_object")
      /\ i + 1 \in Nat
  BY DEF Over
<1>2. PICK g : /\ g = "first_name" \/ Ended(g)
               /\ Leads(f[n], i + 1, St("first_name", q, ps[0], w), St(g, q, ps[n], w))
  BY <1>1, ObjectBody
<1>3. v \in Seq(T)
  <2>1. Len(fields) \in 0 .. Len(PiecesOf(fields))
    BY PiecesAre DEF GoodFields
  <2>2. f[Len(fields)] \in Seq(T)
    BY <2>1 DEF Joins
  <2> QED
    BY <2>2
<1>4. Leads(v, i + 1, St("first_name", q, ps[0], w), St(g, q, ps[n], w))
  BY <1>2
<1>5. ObjectOf(fields) = open \o v \o close
  BY DEF ObjectOf, PiecesOf, Piece
<1> HIDE DEF v, n
<1>6. /\ open \in Seq(T) /\ close \in Seq(T) /\ Len(open) = 1
      /\ open \o v \in Seq(T) /\ Len(open \o v) = 1 + Len(v) /\ Len(v) \in Nat
      /\ open \o v \o close \in Seq(T)
  <2>1. Mark("begin_object") \in T /\ Mark("end_object") \in T
    BY DEF Marked
  <2> QED
    BY <1>3, <2>1, Enclosed, LenProperties
<1>7. Leads(open, i, St(e, o, ps[0], w), St("first_name", q, ps[0], w))
  BY <1>1, OpeningLeads
<1>8. i + (1 + Len(v)) \in Nat
  BY <1>6
<1>9. /\ o = << >> => Leads(close, i + (1 + Len(v)), St(g, q, ps[n], w), St("done", o, ps[n], w))
      /\ o # << >> => Leads(close, i + (1 + Len(v)), St(g, q, ps[n], w), St("more", o, ps[n], w))
  BY <1>1, <1>2, <1>8, ClosingLeads
<1> HIDE DEF open, close
<1>10. Leads(open \o v, i, St(e, o, ps[0], w), St(g, q, ps[n], w))
  BY <1>3, <1>4, <1>6, <1>7, LeadsOn
<1>11. CASE o = << >>
  <2>1. Leads(open \o v \o close, i, St(e, o, ps[0], w), St("done", o, ps[n], w))
    BY <1>6, <1>9, <1>10, <1>11, LeadsOn
  <2> QED
    BY <1>5, <1>6, <1>11, <2>1 DEF n
<1>12. CASE o # << >>
  <2>1. Leads(open \o v \o close, i, St(e, o, ps[0], w), St("more", o, ps[n], w))
    BY <1>6, <1>9, <1>10, <1>12, LeadsOn
  <2> QED
    BY <1>5, <1>6, <1>12, <2>1 DEF n
<1> QED
  BY <1>11, <1>12

\* An object whose values are skipped is skipped.
LEMMA ObjectSkips ==
  ASSUME NEW T, Marked(T), NEW fields, GoodFields(fields, T)
  PROVE  Skips(ObjectOf(fields)) /\ ObjectOf(fields) \in Seq(T)
<1> DEFINE n == Len(fields)
<1>1. PICK f : Joins(f, PiecesOf(fields), T) /\ f[n] = CommaSeparated(PiecesOf(fields))
  <2>1. PiecesOf(fields) \in Seq(Seq(T)) /\ Len(PiecesOf(fields)) = n
    BY PiecesAre
  <2>2. Comma \in Seq(T)
    BY CommaIsGood
  <2>3. \E f : Joins(f, PiecesOf(fields), T)
               /\ f[Len(PiecesOf(fields))] = CommaSeparated(PiecesOf(fields))
    BY <2>1, <2>2, Separated
  <2> QED
    BY <2>1, <2>3
<1>2. ASSUME NEW i \in Nat, NEW e, NEW o \in Stacks, NEW p, NEW w, ValueDue(e, o)
      PROVE  /\ Leads(ObjectOf(fields), i, St(e, o, p, w), St("more", o, p, w))
             /\ ObjectOf(fields) \in Seq(T)
  <2> DEFINE q == Append(o, "end_object")
             ps == [k \in 0 .. n |-> p]
  <2>1. o \in Seq(Closings) /\ o # << >> /\ Over(q, o, "end_object")
    <3>1. o \in Seq(Closings) /\ o # << >>
      BY DEF Stacks
    <3>2. "end_object" \in Closings
      BY DEF Closings
    <3> QED
      BY <3>1, <3>2, Stacked, Zenon
  <2> HIDE DEF q
  <2>2. Len(q) # 1
    <3>1. Len(o) # 0
      BY <2>1, EmptySeq DEF Stacks
    <3> QED
      BY <2>1, <3>1 DEF Over
  <2>3. n \in Nat
    BY DEF GoodFields
  <2>4. ps[0] = p /\ ps[n] = p /\ \A k \in 1 .. n : ps[k] = p /\ ps[k - 1] = p
    BY <2>3
  <2> HIDE DEF ps
  <2>5. Notes(ps, q, fields, f, i + 1)
    BY <2>2, <2>4 DEF Notes, Noted
  <2>6. /\ o # << >> => Leads(ObjectOf(fields), i, St(e, o, ps[0], w), St("more", o, ps[n], w))
        /\ ObjectOf(fields) \in Seq(T)
    BY <1>1, <1>2, <2>1, <2>5, ObjectLeads
  <2> QED
    BY <2>1, <2>4, <2>6
<1>3. ObjectOf(fields) \in Seq(T)
  <2>1. <<"end_object">> \in Stacks /\ ValueDue("value", <<"end_object">>)
    BY OneToken DEF Stacks, Closings, ValueDue
  <2> QED
    BY <1>2, <2>1
<1>4. ASSUME NEW i \in Nat, NEW e, NEW o \in Stacks, NEW p, NEW w, ValueDue(e, o)
      PROVE  \E g : Ended(g) /\ Leads(ObjectOf(fields), i, St(e, o, p, w), St(g, o, p, w))
  <2>1. Leads(ObjectOf(fields), i, St(e, o, p, w), St("more", o, p, w))
    BY <1>2, <1>4
  <2> QED
    BY <2>1 DEF Ended
<1> QED
  BY <1>3, <1>4 DEF Skips

(***************************************************************************)
(* A line is read to its end.                                              *)
(***************************************************************************)
ReadOn(states, line, i) == UNION { Taken(t, line, i) : t \in states }

\* The reader has a set of states after every token of a line.
LEMMA EveryLineIsRead ==
  ASSUME NEW line, NEW n \in Nat
  PROVE  \E f : f = [i \in 0 .. n |-> IF i < 1 THEN {Reader(TRUE)} ELSE ReadOn(f[i - 1], line, i)]
<1> DEFINE Body(f, k) == [i \in 0 .. k |-> IF i < 1 THEN {Reader(TRUE)} ELSE ReadOn(f[i - 1], line, i)]
           S == { k \in Nat : \E f : f = Body(f, k) }
<1>1. 0 \in S
  <2> DEFINE f == [i \in 0 .. 0 |-> {Reader(TRUE)}]
  <2>1. \A i \in 0 .. 0 : i < 1
    OBVIOUS
  <2>2. f = Body(f, 0)
    BY <2>1
  <2> QED
    BY <2>2
<1>2. ASSUME NEW k \in Nat, k \in S
      PROVE  k + 1 \in S
  <2>1. PICK f : f = Body(f, k)
    BY <1>2
  <2> DEFINE g == [i \in 0 .. k + 1 |-> IF i <= k THEN f[i] ELSE ReadOn(f[k], line, k + 1)]
  <2>2. \A i \in 0 .. k : f[i] = IF i < 1 THEN {Reader(TRUE)} ELSE ReadOn(f[i - 1], line, i)
    BY <2>1
  <2>3. ASSUME NEW i \in 0 .. k + 1
        PROVE  g[i] = IF i < 1 THEN {Reader(TRUE)} ELSE ReadOn(g[i - 1], line, i)
    <3>1. CASE i <= k
      <4>1. i \in 0 .. k /\ g[i] = f[i]
        BY <3>1
      <4>2. i < 1 \/ (i - 1 \in 0 .. k + 1 /\ i - 1 <= k)
        BY <3>1
      <4>3. i < 1 \/ g[i - 1] = f[i - 1]
        BY <4>2
      <4> HIDE DEF g
      <4> QED
        BY <2>2, <4>1, <4>3
    <3>2. CASE i = k + 1
      <4>1. ~(i <= k) /\ ~(i < 1) /\ i - 1 = k /\ k \in 0 .. k + 1 /\ k <= k
        BY <3>2
      <4>2. g[i] = ReadOn(f[k], line, k + 1) /\ g[k] = f[k]
        BY <3>2, <4>1
      <4> HIDE DEF g
      <4> QED
        BY <3>2, <4>1, <4>2
    <3> QED
      BY <3>1, <3>2
  <2>4. g = Body(g, k + 1)
    <3> DEFINE h == g
    <3>1. h = [i \in 0 .. k + 1 |-> h[i]]
      OBVIOUS
    <3>2. \A i \in 0 .. k + 1 : h[i] = IF i < 1 THEN {Reader(TRUE)} ELSE ReadOn(h[i - 1], line, i)
      BY <2>3
    <3> HIDE DEF h
    <3>3. h = Body(h, k + 1)
      BY <3>1, <3>2
    <3> QED
      BY <3>3 DEF h
  <2>5. \E h : h = Body(h, k + 1)
    <3> HIDE DEF g, Body
    <3> QED
      BY <2>4
  <2> HIDE DEF Body
  <2> QED
    BY <2>5
<1> HIDE DEF Body
<1>3. n \in S
  <2> HIDE DEF S
  <2> QED
    BY <1>1, <1>2, SetInduction
<1> QED
  BY <1>3 DEF Body

\* The states after the tokens of a line, the last of them what ReadFrom gives.
ReadWhole(line, after) ==
  /\ Reads(line, after)
  /\ ReadFrom(Reader(TRUE), line, 1, TRUE) = after[Len(line)]

LEMMA LineIsRead ==
  ASSUME NEW line, Len(line) \in Nat, DOMAIN line = 1 .. Len(line)
  PROVE  \E after : ReadWhole(line, after)
<1> DEFINE n == Len(line)
           Body(f) == [i \in 0 .. n |-> IF i < 1 THEN {Reader(TRUE)} ELSE ReadOn(f[i - 1], line, i)]
           at == CHOOSE f : f = Body(f)
<1>1. n \in Nat
  OBVIOUS
<1> HIDE DEF n
<1>2. \E f : f = Body(f)
  BY <1>1, EveryLineIsRead
<1>3. at = Body(at)
  <2> HIDE DEF Body
  <2> QED
    BY <1>2
<1>4. \A i \in 0 .. n : at[i] = IF i < 1 THEN {Reader(TRUE)} ELSE ReadOn(at[i - 1], line, i)
  <2> HIDE DEF at
  <2> QED
    BY <1>3
<1>5. ReadFrom(Reader(TRUE), line, 1, TRUE) = at[n]
  BY DEF ReadFrom, at, ReadOn, Taken, n
<1> HIDE DEF at
<1>6. at[0] = {Reader(TRUE)}
  <2>1. 0 \in 0 .. n /\ 0 < 1
    BY <1>1
  <2> QED
    BY <1>4, <2>1
<1>7. ASSUME NEW i \in 1 .. n
      PROVE  at[i] = UNION { Taken(t, line, i) : t \in at[i - 1] }
  <2>1. i \in 0 .. n /\ ~(i < 1)
    BY <1>1
  <2> QED
    BY <1>4, <2>1 DEF ReadOn
<1>8. Reads(line, at)
  BY <1>6, <1>7 DEF Reads, n
<1>9. ReadWhole(line, at)
  BY <1>5, <1>8 DEF ReadWhole, n
<1> QED
  BY <1>9

(***************************************************************************)
(* An object on a line of its own is read back.                            *)
(***************************************************************************)
\* The members of the object: their names, and where their values begin.
MembersOf(fields, f) ==
  [k \in 1 .. Len(fields) |-> Note(fields[k][1], FieldPlace(fields, f, 1, k))]
FirstOf(s, k) == [j \in 1 .. k |-> s[j]]

LEMMA OneMore ==
  ASSUME NEW k \in Nat, k # 0, NEW s
  PROVE  FirstOf(s, k) = Append(FirstOf(s, k - 1), s[k])
<1> DEFINE S == { s[j] : j \in 1 .. k }
           u == FirstOf(s, k - 1)
           v == FirstOf(s, k)
<1>1. k - 1 \in Nat
  OBVIOUS
<1>2. /\ u \in [1 .. k - 1 -> S] /\ v \in [1 .. k -> S]
      /\ s[k] \in S
  BY <1>1 DEF FirstOf
<1> DEFINE x == s[k]
<1>3. \A j \in 1 .. k - 1 : u[j] = v[j]
  BY <1>1 DEF FirstOf
<1>4. v[k] = x
  BY DEF FirstOf
<1> HIDE DEF S, u, v, x
<1>5. u \in Seq(S) /\ Len(u) = k - 1 /\ v \in Seq(S) /\ Len(v) = k
  BY <1>1, <1>2, IsASeq
<1>6. /\ Append(u, x) \in Seq(S) /\ Len(Append(u, x)) = k
      /\ \A j \in 1 .. k - 1 : Append(u, x)[j] = u[j]
      /\ Append(u, x)[k] = x
  <2>1. x \in S
    BY <1>2 DEF x
  <2> QED
    BY <1>1, <1>5, <2>1, AppendProperties
<1>7. \A j \in 1 .. k : Append(u, x)[j] = v[j]
  BY <1>3, <1>4, <1>6
<1>8. v = Append(u, x)
  BY <1>5, <1>6, <1>7, SeqEqual
<1> QED
  BY <1>8 DEF u, v, x

LEMMA NoneOf ==
  ASSUME NEW s
  PROVE  FirstOf(s, 0) = << >>
BY DEF FirstOf

\* What the line of an object leads to.
LEMMA LineLeads ==
  ASSUME NEW T, Marked(T), NEW fields, GoodFields(fields, T), NEW f,
         Joins(f, PiecesOf(fields), T), f[Len(fields)] = CommaSeparated(PiecesOf(fields))
  PROVE  /\ Leads(ObjectOf(fields), 0, Reader(TRUE), St("done", << >>, MembersOf(fields, f), TRUE))
         /\ ObjectOf(fields) \in Seq(T)
<1> DEFINE n == Len(fields)
           ms == MembersOf(fields, f)
           ps == [k \in 0 .. n |-> FirstOf(ms, k)]
           o == << >>
           q == Append(o, "end_object")
<1>1. n \in Nat
  BY DEF GoodFields
<1>2. Reader(TRUE) = St("value", o, << >>, TRUE)
  BY DEF Reader, St
<1>3. ValueDue("value", o)
  BY DEF ValueDue
<1>4. o \in Seq(Closings)
  OBVIOUS
<1>5. Over(q, o, "end_object")
  <2>1. "end_object" \in Closings
    BY DEF Closings
  <2> HIDE DEF o
  <2> QED
    BY <1>4, <2>1, Stacked
<1>6. Len(q) = 1
  OBVIOUS
<1>7. ms = FirstOf(ms, n)
  BY DEF MembersOf, FirstOf
<1>8. \A k \in 1 .. n : ms[k] = Note(fields[k][1], FieldPlace(fields, f, 1, k))
  BY DEF MembersOf
<1> HIDE DEF ms
<1>9. ps[0] = << >> /\ ps[n] = ms
  BY <1>1, <1>7, NoneOf
<1>10. ASSUME NEW k \in 1 .. n
       PROVE  ps[k] = Noted(q, ps[k - 1], fields[k][1], FieldPlace(fields, f, 0 + 1, k))
  <2>1. k \in Nat /\ k # 0 /\ k \in 0 .. n /\ k - 1 \in 0 .. n /\ 0 + 1 = 1
    BY <1>1
  <2>2. FirstOf(ms, k) = Append(FirstOf(ms, k - 1), ms[k])
    BY <2>1, OneMore
  <2>3. ps[k] = FirstOf(ms, k) /\ ps[k - 1] = FirstOf(ms, k - 1)
    BY <2>1
  <2> HIDE DEF ps, q
  <2>4. ps[k] = Append(ps[k - 1], Note(fields[k][1], FieldPlace(fields, f, 1, k)))
    BY <1>8, <2>2, <2>3
  <2> QED
    BY <1>6, <2>1, <2>4 DEF Noted
<1> HIDE DEF ps, q
<1>11. Notes(ps, q, fields, f, 0 + 1)
  BY <1>10 DEF Notes, n
<1>12. /\ o = << >> => Leads(ObjectOf(fields), 0, St("value", o, ps[0], TRUE),
                             St("done", o, ps[Len(fields)], TRUE))
       /\ ObjectOf(fields) \in Seq(T)
  <2>1. 0 \in Nat
    OBVIOUS
  <2> HIDE DEF o
  <2> QED
    BY <1>3, <1>4, <1>5, <1>11, <2>1, ObjectLeads
<1>13. Leads(ObjectOf(fields), 0, Reader(TRUE), St("done", << >>, ms, TRUE))
  BY <1>2, <1>9, <1>12
<1> QED
  BY <1>12, <1>13 DEF ms

LEMMA LineShape ==
  ASSUME NEW T, Marked(T), NEW fields, GoodFields(fields, T)
  PROVE  LET line == ObjectOf(fields)
         IN  /\ line \in Seq(T) /\ Len(line) \in Nat /\ DOMAIN line = 1 .. Len(line)
             /\ KindAt(line, 1) = "begin_object"
<1> DEFINE line == ObjectOf(fields)
           v == CommaSeparated(PiecesOf(fields))
           a == Mark("begin_object")
           z == Mark("end_object")
<1>1. PICK f : Joins(f, PiecesOf(fields), T) /\ f[Len(PiecesOf(fields))] = v
  <2>1. PiecesOf(fields) \in Seq(Seq(T))
    BY PiecesAre
  <2>2. Comma \in Seq(T)
    BY CommaIsGood
  <2> QED
    BY <2>1, <2>2, Separated
<1>2. v \in Seq(T)
  <2>1. Len(PiecesOf(fields)) \in 0 .. Len(PiecesOf(fields))
    BY PiecesAre DEF GoodFields
  <2>2. f[Len(PiecesOf(fields))] \in Seq(T)
    BY <1>1, <2>1 DEF Joins
  <2> QED
    BY <1>1, <2>2
<1>3. line = <<a>> \o v \o <<z>>
  BY DEF ObjectOf, PiecesOf, Piece
<1>4. a \in T /\ z \in T
  BY DEF Marked
<1> HIDE DEF v, a, z, line
<1>5. /\ <<a>> \o v \in Seq(T) /\ Len(<<a>> \o v) = 1 + Len(v) /\ <<z>> \in Seq(T) /\ <<a>> \in Seq(T)
      /\ Len(<<a>>) = 1 /\ Len(v) \in Nat /\ <<a>> \o v \o <<z>> \in Seq(T)
      /\ Len(<<a>> \o v \o <<z>>) = Len(v) + 2
  BY <1>2, <1>4, Enclosed, LenProperties
<1>6. line \in Seq(T) /\ Len(line) = Len(v) + 2 /\ DOMAIN line = 1 .. Len(line)
  <2>1. line \in Seq(T) /\ Len(line) = Len(v) + 2
    BY <1>3, <1>5
  <2> QED
    BY <2>1, LenProperties
<1>7. line[1] = a
  <2> DEFINE u == <<a>> \o v
  <2>1. <<a>>[1] = a
    OBVIOUS
  <2>2. 1 \in 1 .. Len(<<a>>) + Len(v) /\ 1 <= Len(<<a>>)
    BY <1>5
  <2>3. u[1] = a
    BY <1>2, <1>5, <2>1, <2>2, ConcatProperties
  <2>4. 1 \in 1 .. Len(u) + Len(<<z>>) /\ 1 <= Len(u)
    BY <1>5
  <2> HIDE DEF u
  <2>5. u \in Seq(T) /\ line = u \o <<z>>
    BY <1>3, <1>5 DEF u
  <2> QED
    BY <1>5, <2>3, <2>4, <2>5, ConcatProperties
<1>8. 1 \in DOMAIN line /\ a.kind = "begin_object"
  BY <1>5, <1>6, TokenKinds DEF a
<1>9. KindAt(line, 1) = "begin_object"
  BY <1>7, <1>8 DEF KindAt
<1>10. Len(line) \in Nat
  BY <1>5, <1>6
<1> QED
  BY <1>6, <1>9, <1>10 DEF line

LEMMA LineOccurs ==
  ASSUME NEW line, Len(line) \in Nat, DOMAIN line = 1 .. Len(line)
  PROVE  Occurs(line, line, 0)
<1>1. \A k \in DOMAIN line : 0 + k = k
  OBVIOUS
<1> QED
  BY <1>1 DEF Occurs

\* What one token does depends on no other token.
LEMMA SameToken ==
  ASSUME NEW t, NEW i, NEW line, NEW other, line[i] = other[i]
  PROVE  Taken(t, line, i) = Taken(t, other, i)
BY DEF Taken, ReadToken

SameStart(line, other, m) ==
  \A i \in 1 .. m : i \in DOMAIN line /\ i \in DOMAIN other /\ line[i] = other[i]

\* A line that begins as another does is read as the other is.
LEMMA ReadAlike ==
  ASSUME NEW line, NEW other, NEW m \in Nat, SameStart(line, other, m),
         NEW after, Reads(line, after), NEW else, Reads(other, else)
  PROVE  after[m] = else[m]
<1>1. after[0] = else[0]
  BY DEF Reads
<1>2. ASSUME NEW i \in 1 .. m, after[i - 1] = else[i - 1]
      PROVE  after[i] = else[i]
  <2>1. \A t : Taken(t, line, i) = Taken(t, other, i)
    BY SameToken DEF SameStart
  <2>2. after[i] = UNION { Taken(t, line, i) : t \in after[i - 1] }
    BY DEF Reads, SameStart
  <2>3. else[i] = UNION { Taken(t, other, i) : t \in else[i - 1] }
    BY DEF Reads, SameStart
  <2> QED
    BY <1>2, <2>1, <2>2, <2>3
<1>3. Alike(after, else, m)
  BY <1>1, <1>2, RecursionUnique DEF ContinueAlike
<1> QED
  BY <1>3 DEF Alike

\* The object's members come back, and nothing of a beginning that lacks its end.
LEMMA ObjectReadBack ==
  ASSUME NEW T, Marked(T), NEW fields, GoodFields(fields, T), NEW f,
         Joins(f, PiecesOf(fields), T), f[Len(fields)] = CommaSeparated(PiecesOf(fields))
  PROVE  Object(ObjectOf(fields), TRUE) = {MembersOf(fields, f)}
<1> DEFINE line == ObjectOf(fields)
           ms == MembersOf(fields, f)
<1>1. line \in Seq(T) /\ Len(line) \in Nat /\ DOMAIN line = 1 .. Len(line)
      /\ KindAt(line, 1) = "begin_object"
  BY LineShape
<1>2. Leads(line, 0, Reader(TRUE), St("done", << >>, ms, TRUE))
  BY LineLeads
<1> HIDE DEF line, ms
<1>3. PICK after : ReadWhole(line, after)
  BY <1>1, LineIsRead
<1>4. Reads(line, after) /\ Occurs(line, line, 0) /\ after[0] = {Reader(TRUE)}
  BY <1>1, <1>3, LineOccurs DEF ReadWhole, Reads
<1>5. after[0 + Len(line)] = {St("done", << >>, ms, TRUE)}
  BY <1>2, <1>4 DEF Leads
<1> DEFINE end == St("done", << >>, ms, TRUE)
<1>6. ReadFrom(Reader(TRUE), line, 1, TRUE) = {end}
  <2>1. 0 + Len(line) = Len(line)
    BY <1>1
  <2> HIDE DEF end
  <2> QED
    BY <1>3, <1>5, <2>1 DEF ReadWhole, end
<1>7. end.expect = "done" /\ end.parts = ms
  <2> DEFINE o == << >>
             w == TRUE
  <2> HIDE DEF o, w
  <2>1. /\ St("done", o, ms, w).expect = "done"
        /\ St("done", o, ms, w).parts = ms
    BY StateParts
  <2> QED
    BY <2>1 DEF o, w
<1> HIDE DEF end
<1>8. Object(line, TRUE) = { s.parts : s \in { t \in {end} : t.expect = "done" } }
  BY <1>1, <1>6 DEF Object
<1>9. { t \in {end} : t.expect = "done" } = {end}
  BY <1>7
<1>10. Object(line, TRUE) = {ms}
  BY <1>7, <1>8, <1>9
<1> QED
  BY <1>10 DEF line, ms

LEMMA CutLineRefused ==
  ASSUME NEW T, Marked(T), NEW fields, GoodFields(fields, T),
         NEW cut \in 1 .. Len(ObjectOf(fields)) - 1
  PROVE  Object(SubSeq(ObjectOf(fields), 1, cut), TRUE) = {}
<1> DEFINE line == ObjectOf(fields)
           short == SubSeq(line, 1, cut)
<1>1. line \in Seq(T) /\ Len(line) \in Nat /\ DOMAIN line = 1 .. Len(line)
  BY LineShape
<1>2. PICK f : Joins(f, PiecesOf(fields), T) /\ f[Len(fields)] = CommaSeparated(PiecesOf(fields))
  <2>1. PiecesOf(fields) \in Seq(Seq(T)) /\ Len(PiecesOf(fields)) = Len(fields)
    BY PiecesAre
  <2>2. Comma \in Seq(T)
    BY CommaIsGood
  <2>3. \E g : Joins(g, PiecesOf(fields), T)
               /\ g[Len(PiecesOf(fields))] = CommaSeparated(PiecesOf(fields))
    BY <2>1, <2>2, Separated
  <2> QED
    BY <2>1, <2>3
<1> DEFINE end == St("done", << >>, MembersOf(fields, f), TRUE)
<1>3. Leads(line, 0, Reader(TRUE), end)
  BY <1>2, LineLeads
<1>4. cut \in Nat /\ cut \in 1 .. Len(line) - 1
  OBVIOUS
<1> HIDE DEF line, end
<1>5. short \in Seq(T) /\ Len(short) = cut /\ \A i \in 1 .. cut : short[i] = line[i]
  <2>1. 1 \in 1 .. Len(line) + 1 /\ cut \in 0 .. Len(line) /\ 1 <= cut
    BY <1>1, <1>4
  <2>2. \A i \in 1 .. cut : i \in 1 .. cut - 1 + 1 /\ 1 + i - 1 = i
    BY <1>4
  <2>3. short \in Seq(T) /\ Len(short) = cut - 1 + 1 /\ \A i \in 1 .. cut - 1 + 1 : short[i] = line[1 + i - 1]
    BY <1>1, <2>1, SubSeqProperties
  <2> QED
    BY <1>4, <2>2, <2>3
<1>6. DOMAIN short = 1 .. cut /\ Len(short) \in Nat
  BY <1>4, <1>5, LenProperties
<1> HIDE DEF short
<1>7. PICK after : ReadWhole(line, after)
  BY <1>1, LineIsRead
<1>8. PICK else : ReadWhole(short, else)
  BY <1>5, <1>6, LineIsRead
<1>9. else[cut] = after[cut]
  <2>1. 1 .. cut \subseteq DOMAIN line /\ 1 .. cut \subseteq DOMAIN short
    BY <1>1, <1>4, <1>6
  <2>2. Reads(line, after) /\ Reads(short, else)
    BY <1>7, <1>8 DEF ReadWhole
  <2> QED
    <3>1. SameStart(line, short, cut)
      BY <1>5, <2>1 DEF SameStart
    <3> HIDE DEF short
    <3> QED
      BY <1>4, <2>2, <3>1, ReadAlike
<1>10. Unfinished(after[cut])
  <2>1. Reads(line, after) /\ Occurs(line, line, 0) /\ after[0] = {Reader(TRUE)}
    BY <1>1, <1>7, LineOccurs DEF ReadWhole, Reads
  <2>2. cut \in 0 .. 0 + Len(line) - 1
    BY <1>1, <1>4
  <2> QED
    BY <1>3, <2>1, <2>2 DEF Leads
<1>11. ReadFrom(Reader(TRUE), short, 1, TRUE) = else[cut]
  BY <1>5, <1>8 DEF ReadWhole
<1>12. { t \in else[cut] : t.expect = "done" } = {}
  BY <1>9, <1>10 DEF Unfinished
<1>13. Object(short, TRUE) = {}
  <2>1. CASE KindAt(short, 1) # "begin_object"
    BY <2>1 DEF Object
  <2>2. CASE KindAt(short, 1) = "begin_object"
    BY <1>11, <1>12, <2>2 DEF Object
  <2> QED
    BY <2>1, <2>2
<1> QED
  BY <1>13 DEF short, line

\* The tokens v stand from the i-th on, and a delimiter after them.
StandsAt(v, line, i) ==
  /\ i \in Nat \ {0} /\ Occurs(v, line, i - 1) /\ Len(v) \in Nat
  /\ i + Len(v) \in DOMAIN line /\ line[i + Len(v)].kind \in Delimiters

LEMMA PlaceSums ==
  ASSUME NEW whole \in Nat, NEW long \in Nat, 1 + whole - (2 + long) \in Nat
  PROVE  /\ 1 + whole - (2 + long) + 2 = (1 + whole - long + 1) - 1
         /\ 1 + whole - long + 1 \in Nat \ {0}
         /\ 1 + whole - long + 1 + long = 1 + whole + 1
OBVIOUS

\* The value of a field stands where the member says.
LEMMA ValueStands ==
  ASSUME NEW T, Marked(T), NEW fields, GoodFields(fields, T), NEW f,
         Joins(f, PiecesOf(fields), T), f[Len(fields)] = CommaSeparated(PiecesOf(fields)),
         NEW k \in 1 .. Len(fields)
  PROVE  StandsAt(fields[k][2], ObjectOf(fields), MembersOf(fields, f)[k].at)
<1> DEFINE n == Len(fields)
           line == ObjectOf(fields)
           parts == PiecesOf(fields)
           v == f[n]
           a == Mark("begin_object")
           z == Mark("end_object")
           value == fields[k][2]
           place == FieldPlace(fields, f, 1, k)
<1>1. /\ n \in Nat /\ k \in 1 .. n /\ GoodField(fields[k], T)
      /\ parts \in Seq(Seq(T)) /\ Len(parts) = n /\ parts[k] = Piece(fields[k][1], value)
      /\ Joins(f, parts, T)
  BY PiecesAre DEF GoodFields
<1>2. MembersOf(fields, f)[k].at = place
  BY DEF MembersOf, Note
<1>3. line \in Seq(T) /\ Len(line) \in Nat /\ DOMAIN line = 1 .. Len(line)
  BY LineShape
<1>4. line = (<<a>> \o v) \o <<z>>
  BY DEF ObjectOf, PiecesOf, Piece
<1>5. place = 1 + Len(f[k]) - Len(value) + 1
  BY DEF FieldPlace
<1>6. value \in Seq(T) /\ Str(fields[k][1]) \in T
  BY <1>1 DEF GoodField
<1>7. a \in T /\ z \in T /\ Comma \in Seq(T)
  BY CommaIsGood DEF Marked
<1>8. z.kind \in Delimiters /\ Mark("comma").kind \in Delimiters
  BY TokenKinds DEF Delimiters
<1> HIDE DEF n, line, parts, a, z, place, value
<1>9. f[k] \in Seq(T) /\ Len(f[k]) \in Nat /\ v \in Seq(T) /\ Len(v) \in Nat
  <2>1. k \in 0 .. Len(parts) /\ n \in 0 .. Len(parts)
    BY <1>1
  <2>2. f[k] \in Seq(T) /\ f[n] \in Seq(T)
    BY <1>1, <2>1 DEF Joins
  <2> QED
    BY <2>2, LenProperties
<1> HIDE DEF v
<1>10. /\ <<a>> \o v \in Seq(T) /\ Len(<<a>> \o v) = 1 + Len(v) /\ <<z>> \in Seq(T) /\ <<a>> \in Seq(T)
       /\ Len(<<a>>) = 1
  BY <1>7, <1>9, Enclosed
<1>11. Occurs(line, line, 0)
  BY <1>3, LineOccurs
<1>12. Occurs(<<a>> \o v, line, 0) /\ Occurs(<<z>>, line, 1 + Len(v))
  <2>1. Occurs((<<a>> \o v) \o <<z>>, line, 0)
    BY <1>4, <1>11
  <2>2. Occurs(<<a>> \o v, line, 0) /\ Occurs(<<z>>, line, 0 + Len(<<a>> \o v))
    <3> DEFINE u == <<a>> \o v
               y == <<z>>
    <3>1. u \in Seq(T) /\ y \in Seq(T) /\ Occurs(u \o y, line, 0)
      BY <1>10, <2>1
    <3> HIDE DEF u, y
    <3>2. Occurs(u, line, 0) /\ Occurs(y, line, 0 + Len(u))
      BY <3>1, OccursInTwo
    <3> QED
      BY <3>2 DEF u, y
  <2>3. 0 + Len(<<a>> \o v) = 1 + Len(v)
    BY <1>9, <1>10
  <2> QED
    BY <2>2, <2>3
<1>13. Occurs(v, line, 1)
  <2> DEFINE y == <<a>>
  <2>1. y \in Seq(T) /\ Occurs(y \o v, line, 0) /\ Len(y) = 1
    BY <1>10, <1>12
  <2> HIDE DEF y
  <2>2. Occurs(v, line, 0 + Len(y))
    BY <1>9, <2>1, OccursInTwo
  <2> QED
    BY <2>1, <2>2
<1>14. /\ \A j \in 1 .. Len(parts) : PartAt(f, parts, line, 1, j)
       /\ \A j \in 1 .. Len(parts) - 1 : CommaAt(f, line, 1, j)
  <2>1. Occurs(f[Len(parts)], line, 1)
    BY <1>1, <1>13 DEF v
  <2> QED
    BY <1>1, <1>7, <2>1, PartsOccur
<1>15. /\ 1 + Len(f[k]) - Len(parts[k]) \in Nat
       /\ Occurs(parts[k], line, 1 + Len(f[k]) - Len(parts[k]))
  BY <1>1, <1>14 DEF PartAt
<1>16. /\ parts[k] = NameColon(fields[k][1]) \o value
       /\ NameColon(fields[k][1]) \in Seq(T) /\ Len(NameColon(fields[k][1])) = 2
  BY <1>1, <1>6, NameColonIs DEF Piece, NameColon
<1>17. Len(parts[k]) = 2 + Len(value) /\ Len(value) \in Nat
  BY <1>6, <1>16, TwoInOne
<1>18. Occurs(value, line, 1 + Len(f[k]) - Len(parts[k]) + 2)
  <2> DEFINE name == NameColon(fields[k][1])
             i == 1 + Len(f[k]) - Len(parts[k])
  <2>1. Occurs(name \o value, line, i) /\ i \in Nat /\ name \in Seq(T) /\ Len(name) = 2
    BY <1>15, <1>16
  <2> HIDE DEF name, i
  <2>2. Occurs(value, line, i + Len(name))
    BY <1>6, <2>1, OccursInTwo
  <2> QED
    BY <2>1, <2>2 DEF i
<1>19. /\ place \in Nat \ {0} /\ Occurs(value, line, place - 1)
       /\ place + Len(value) = 1 + Len(f[k]) + 1
  <2> DEFINE whole == Len(f[k])
             long == Len(value)
  <2>1. whole \in Nat /\ long \in Nat /\ 1 + whole - (2 + long) \in Nat
    BY <1>9, <1>15, <1>17
  <2>2. Occurs(value, line, 1 + whole - (2 + long) + 2)
    BY <1>17, <1>18
  <2>3. place = 1 + whole - long + 1
    BY <1>5
  <2> HIDE DEF whole, long
  <2>4. /\ 1 + whole - (2 + long) + 2 = place - 1 /\ place \in Nat \ {0}
        /\ place + long = 1 + whole + 1
    BY <2>1, <2>3, PlaceSums
  <2> QED
    BY <2>2, <2>4 DEF whole, long
<1>20. 1 + Len(f[k]) + 1 \in DOMAIN line /\ line[1 + Len(f[k]) + 1].kind \in Delimiters
  <2>1. CASE k = n
    <3>1. f[k] = v
      BY <2>1 DEF v
    <3>2. 1 \in DOMAIN <<z>> /\ <<z>>[1] = z
      OBVIOUS
    <3>3. 1 + Len(v) + 1 \in DOMAIN line /\ line[1 + Len(v) + 1] = z
      BY <1>12, <3>2 DEF Occurs
    <3> QED
      BY <1>8, <3>1, <3>3
  <2>2. CASE k # n
    <3>1. k \in 1 .. Len(parts) - 1
      BY <1>1, <2>2
    <3>2. 1 + Len(f[k]) + 1 \in DOMAIN line /\ line[1 + Len(f[k]) + 1] = Mark("comma")
      BY <1>14, <3>1 DEF CommaAt
    <3> QED
      BY <1>8, <3>2
  <2> QED
    BY <2>1, <2>2
<1>21. StandsAt(value, line, place)
  BY <1>17, <1>19, <1>20 DEF StandsAt
<1> QED
  BY <1>2, <1>21 DEF value, line

(***************************************************************************)
(* Arrays of strings.                                                      *)
(***************************************************************************)
Strings(values) == [k \in DOMAIN values |-> <<Str(values[k])>>]

LEMMA StringsAre ==
  ASSUME NEW T, NEW values, Len(values) \in Nat, DOMAIN values = 1 .. Len(values),
         \A k \in DOMAIN values : Str(values[k]) \in T
  PROVE  /\ Strings(values) \in Seq(Seq(T)) /\ Len(Strings(values)) = Len(values)
         /\ \A k \in 1 .. Len(values) : Strings(values)[k] = <<Str(values[k])>>
<1>1. \A k \in 1 .. Len(values) : <<Str(values[k])>> \in Seq(T)
  BY OneToken
<1>2. Strings(values) \in [1 .. Len(values) -> Seq(T)]
  BY <1>1 DEF Strings
<1>3. Strings(values) \in Seq(Seq(T)) /\ Len(Strings(values)) = Len(values)
  BY <1>2, IsASeq
<1>4. \A k \in 1 .. Len(values) : Strings(values)[k] = <<Str(values[k])>>
  BY DEF Strings
<1> QED
  BY <1>3, <1>4

\* The array is skipped.
LEMMA StringArraySkips ==
  ASSUME NEW T, Marked(T), NEW values, Len(values) \in Nat, DOMAIN values = 1 .. Len(values),
         \A k \in DOMAIN values : Str(values[k]) \in T
  PROVE  Skips(StringArray(values)) /\ StringArray(values) \in Seq(T)
<1> DEFINE parts == Strings(values)
<1>1. /\ parts \in Seq(Seq(T)) /\ Len(parts) = Len(values)
      /\ \A k \in 1 .. Len(values) : parts[k] = <<Str(values[k])>>
  BY StringsAre
<1>2. StringArray(values) = ArrayOf(parts)
  BY DEF StringArray, Strings
<1> HIDE DEF parts
<1>3. \A k \in 1 .. Len(parts) : Skips(parts[k])
  <2> TAKE k \in 1 .. Len(parts)
  <2> DEFINE x == Str(values[k])
  <2>1. x.kind = "string"
    BY TokenKinds
  <2> HIDE DEF x
  <2>2. Skips(<<x>>)
    BY <2>1, ScalarSkips
  <2> QED
    BY <1>1, <2>2 DEF x
<1>4. Comma \in Seq(T) /\ Mark("begin_array") \in T /\ Mark("end_array") \in T
  BY CommaIsGood DEF Marked
<1> QED
  BY <1>1, <1>2, <1>3, <1>4, ArraySkips

Singles(parts) == \A k \in 1 .. Len(parts) : Len(parts[k]) = 1

\* n strings with commas between them are 2n - 1 tokens.
LEMMA JoinedStrings ==
  ASSUME NEW T, Marked(T), NEW parts \in Seq(Seq(T)), NEW f, Joins(f, parts, T),
         Singles(parts)
  PROVE  \A k \in 1 .. Len(parts) : Len(f[k]) = 2 * k - 1
<1> DEFINE n == Len(parts)
           S == { k \in Nat : k < n => Len(f[k + 1]) = 2 * (k + 1) - 1 }
<1>1. n \in Nat /\ Comma \in Seq(T)
  BY LenProperties, CommaIsGood
<1>2. 0 \in S
  <2> SUFFICES ASSUME 0 < n
               PROVE  Len(f[0 + 1]) = 2 * (0 + 1) - 1
    OBVIOUS
  <2>1. n # 0
    BY <1>1
  <2>2. 1 \in 1 .. n /\ f[1] = parts[1]
    BY <2>1, FirstJoined
  <2>3. Len(f[1]) = 1
    BY <2>2 DEF Singles
  <2> QED
    BY <2>3
<1>3. ASSUME NEW k \in Nat, k \in S
      PROVE  k + 1 \in S
  <2> SUFFICES ASSUME k + 1 < n
               PROVE  Len(f[k + 1 + 1]) = 2 * (k + 1 + 1) - 1
    OBVIOUS
  <2>1. Len(f[k + 1]) = 2 * (k + 1) - 1
    BY <1>1, <1>3
  <2>2. k + 1 \in Nat /\ k + 1 # 0 /\ (k + 1) + 1 <= Len(parts) /\ (k + 1) + 1 \in 1 .. Len(parts)
    BY <1>1
  <2>3. NextLong(f, parts, k + 1)
    BY <1>1, <2>2, NextLengths
  <2>4. Len(f[(k + 1) + 1]) = Len(f[k + 1]) + 1 + Len(parts[(k + 1) + 1])
    BY <2>3 DEF NextLong
  <2>5. Len(parts[(k + 1) + 1]) = 1
    BY <2>2 DEF Singles
  <2> QED
    BY <2>1, <2>4, <2>5
<1> HIDE DEF S
<1>4. Nat \subseteq S
  BY <1>2, <1>3, SetInduction
<1>5. ASSUME NEW k \in 1 .. n
      PROVE  Len(f[k]) = 2 * k - 1
  <2>1. k - 1 \in Nat /\ k - 1 < n /\ (k - 1) + 1 = k
    BY <1>1
  <2>2. k - 1 \in S
    BY <1>4, <2>1
  <2> QED
    BY <2>1, <2>2 DEF S
<1> QED
  BY <1>5

\* The strings and commas of the array, and the mark that ends it.
ArrayStands(values, line, i, end) ==
  /\ line[i].kind = "begin_array" /\ i \in DOMAIN line
  /\ \A k \in 1 .. Len(values) :
       i + 2 * k - 1 \in DOMAIN line /\ line[i + 2 * k - 1] = Str(values[k])
  /\ \A k \in 1 .. Len(values) - 1 : i + 2 * k \in DOMAIN line /\ line[i + 2 * k].kind = "comma"
  /\ end \in DOMAIN line /\ line[end].kind = "end_array"
  /\ Len(values) = 0 => end = i + 1
  /\ Len(values) # 0 => end = i + 2 * Len(values)

LEMMA StringArrayStands ==
  ASSUME NEW T, Marked(T), NEW values, Len(values) \in Nat, DOMAIN values = 1 .. Len(values),
         \A k \in DOMAIN values : Str(values[k]) \in T,
         NEW line, NEW i \in Nat \ {0}, Occurs(StringArray(values), line, i - 1)
  PROVE  \E end : ArrayStands(values, line, i, end)
<1> DEFINE n == Len(values)
           parts == Strings(values)
           v == CommaSeparated(parts)
           a == Mark("begin_array")
           z == Mark("end_array")
<1>1. /\ parts \in Seq(Seq(T)) /\ Len(parts) = n
      /\ \A k \in 1 .. n : parts[k] = <<Str(values[k])>>
  BY StringsAre
<1>2. StringArray(values) = (<<a>> \o v) \o <<z>>
  BY DEF StringArray, Strings, ArrayOf
<1>3. a.kind = "begin_array" /\ z.kind = "end_array" /\ a \in T /\ z \in T /\ Comma \in Seq(T)
      /\ Mark("comma").kind = "comma"
  BY TokenKinds, CommaIsGood DEF Marked
<1> HIDE DEF parts, a, z, v
<1>4. PICK f : Joins(f, parts, T) /\ f[n] = v
  <2>1. \E f : Joins(f, parts, T) /\ f[Len(parts)] = CommaSeparated(parts)
    BY <1>1, <1>3, Separated
  <2> QED
    BY <1>1, <2>1 DEF v
<1>5. n \in Nat /\ v \in Seq(T) /\ Len(v) \in Nat /\ f[0] = << >>
  <2>1. n \in 0 .. Len(parts)
    BY <1>1
  <2>2. v \in Seq(T) /\ f[0] = << >>
    BY <1>4, <2>1 DEF Joins
  <2> QED
    BY <2>2, LenProperties
<1>6. \A k \in 1 .. n : Len(parts[k]) = 1 /\ parts[k][1] = Str(values[k]) /\ 1 \in DOMAIN parts[k]
  <2> TAKE k \in 1 .. n
  <2> DEFINE x == Str(values[k])
  <2>1. parts[k] = <<x>>
    BY <1>1
  <2> HIDE DEF x
  <2>2. Len(<<x>>) = 1 /\ <<x>>[1] = x /\ 1 \in DOMAIN <<x>>
    OBVIOUS
  <2> QED
    BY <2>1, <2>2 DEF x
<1>7. \A k \in 1 .. n : Len(f[k]) = 2 * k - 1
  <2>1. Singles(parts)
    BY <1>1, <1>6 DEF Singles
  <2>2. \A k \in 1 .. Len(parts) : Len(f[k]) = 2 * k - 1
    BY <1>1, <1>4, <2>1, JoinedStrings
  <2> QED
    BY <1>1, <2>2
<1>8. Len(v) = IF n = 0 THEN 0 ELSE 2 * n - 1
  <2>1. CASE n = 0
    BY <1>4, <1>5, <2>1
  <2>2. CASE n # 0
    BY <1>4, <1>5, <1>7, <2>2
  <2> QED
    BY <2>1, <2>2
<1>9. /\ <<a>> \o v \in Seq(T) /\ Len(<<a>> \o v) = 1 + Len(v) /\ <<z>> \in Seq(T) /\ <<a>> \in Seq(T)
      /\ Len(<<a>>) = 1
  BY <1>3, <1>5, Enclosed
<1>10. i - 1 \in Nat /\ i - 1 + 1 = i /\ i - 1 + (1 + Len(v)) = i + Len(v)
  BY <1>5
<1>11. Occurs(<<a>> \o v, line, i - 1) /\ Occurs(<<z>>, line, i + Len(v))
  <2> DEFINE u == <<a>> \o v
             y == <<z>>
  <2>1. u \in Seq(T) /\ y \in Seq(T) /\ Occurs(u \o y, line, i - 1) /\ Len(u) = 1 + Len(v)
    BY <1>2, <1>9
  <2> HIDE DEF u, y
  <2>2. Occurs(u, line, i - 1) /\ Occurs(y, line, i - 1 + Len(u))
    BY <1>10, <2>1, OccursInTwo
  <2>3. i - 1 + Len(u) = i + Len(v)
    BY <1>10, <2>1
  <2> QED
    BY <2>2, <2>3 DEF u, y
<1>12. Occurs(<<a>>, line, i - 1) /\ Occurs(v, line, i)
  <2> DEFINE y == <<a>>
  <2>1. y \in Seq(T) /\ Occurs(y \o v, line, i - 1) /\ Len(y) = 1
    BY <1>9, <1>11
  <2> HIDE DEF y
  <2>2. Occurs(y, line, i - 1) /\ Occurs(v, line, i - 1 + Len(y))
    BY <1>5, <1>10, <2>1, OccursInTwo
  <2> QED
    BY <1>10, <2>1, <2>2 DEF y
<1>13. line[i].kind = "begin_array" /\ i \in DOMAIN line
  <2>1. 1 \in DOMAIN <<a>> /\ <<a>>[1] = a
    OBVIOUS
  <2>2. i - 1 + 1 \in DOMAIN line /\ line[i - 1 + 1] = a
    BY <1>12, <2>1 DEF Occurs
  <2> QED
    BY <1>3, <1>10, <2>2
<1>14. i + Len(v) + 1 \in DOMAIN line /\ line[i + Len(v) + 1].kind = "end_array"
  <2>1. 1 \in DOMAIN <<z>> /\ <<z>>[1] = z
    OBVIOUS
  <2> QED
    BY <1>3, <1>11, <2>1 DEF Occurs
<1>15. /\ \A k \in 1 .. n : PartAt(f, parts, line, i, k)
       /\ \A k \in 1 .. n - 1 : CommaAt(f, line, i, k)
  <2>1. Occurs(f[Len(parts)], line, i)
    BY <1>1, <1>4, <1>12
  <2> QED
    BY <1>1, <1>3, <1>4, <2>1, PartsOccur
<1>16. ASSUME NEW k \in 1 .. n
       PROVE  i + 2 * k - 1 \in DOMAIN line /\ line[i + 2 * k - 1] = Str(values[k])
  <2>1. Occurs(parts[k], line, i + Len(f[k]) - Len(parts[k]))
    BY <1>15 DEF PartAt
  <2>2. /\ i + Len(f[k]) - Len(parts[k]) + 1 \in DOMAIN line
        /\ line[i + Len(f[k]) - Len(parts[k]) + 1] = Str(values[k])
    BY <1>6, <2>1 DEF Occurs
  <2>3. i + Len(f[k]) - Len(parts[k]) + 1 = i + 2 * k - 1
    <3> DEFINE long == Len(f[k])
               one == Len(parts[k])
    <3>1. long = 2 * k - 1 /\ one = 1
      BY <1>6, <1>7
    <3> HIDE DEF long, one
    <3>2. i + long - one + 1 = i + 2 * k - 1
      BY <1>5, <3>1
    <3> QED
      BY <3>2 DEF long, one
  <2> QED
    BY <2>2, <2>3
<1>17. ASSUME NEW k \in 1 .. n - 1
       PROVE  i + 2 * k \in DOMAIN line /\ line[i + 2 * k].kind = "comma"
  <2>1. k \in 1 .. n
    BY <1>5
  <2>2. i + Len(f[k]) + 1 \in DOMAIN line /\ line[i + Len(f[k]) + 1] = Mark("comma")
    BY <1>15 DEF CommaAt
  <2>3. i + Len(f[k]) + 1 = i + 2 * k
    <3> DEFINE long == Len(f[k])
    <3>1. long = 2 * k - 1
      BY <1>7, <2>1
    <3> HIDE DEF long
    <3>2. i + long + 1 = i + 2 * k
      BY <1>5, <3>1
    <3> QED
      BY <3>2 DEF long
  <2> QED
    BY <1>3, <2>2, <2>3
<1> DEFINE end == i + Len(v) + 1
<1>18. /\ n = 0 => end = i + 1
       /\ n # 0 => end = i + 2 * n
  BY <1>5, <1>8
<1>19. ArrayStands(values, line, i, end)
  <2> HIDE DEF end
  <2> QED
    BY <1>13, <1>14, <1>16, <1>17, <1>18 DEF ArrayStands, end
<1> QED
  BY <1>19

LEMMA OddOrEven ==
  ASSUME NEW d \in Nat, d # 0
  PROVE  \E k \in Nat \ {0} : (d = 2 * k - 1 /\ d % 2 = 1) \/ (d = 2 * k /\ d % 2 = 0)
<1>1. CASE d % 2 = 1
  <2>1. d = 2 * ((d + 1) \div 2) - 1 /\ (d + 1) \div 2 \in Nat \ {0}
    BY <1>1
  <2> QED
    BY <1>1, <2>1
<1>2. CASE d % 2 = 0
  <2>1. d = 2 * (d \div 2) /\ d \div 2 \in Nat \ {0}
    BY <1>2
  <2> QED
    BY <1>2, <2>1
<1> QED
  BY <1>1, <1>2

LEMMA Halves ==
  ASSUME NEW n \in Nat
  PROVE  /\ (2 * n) \div 2 = n
         /\ n # 0 => (2 * n - 1) % 2 = 1
         /\ 1 \div 2 = 0
OBVIOUS

\* The array's tokens, by how far they are from its beginning.
LEMMA ArrayKinds ==
  ASSUME NEW values, Len(values) \in Nat, NEW line, Len(line) \in Nat, DOMAIN line = 1 .. Len(line),
         NEW i \in Nat \ {0}, NEW end, ArrayStands(values, line, i, end)
  PROVE  /\ KindAt(line, i) = "begin_array" /\ KindAt(line, end) = "end_array"
         /\ end \in i + 1 .. Len(line)
         /\ \A j \in i + 1 .. end - 1 :
              KindAt(line, j) = IF (j - i) % 2 = 1 THEN "string" ELSE "comma"
<1> DEFINE n == Len(values)
<1>1. n \in Nat /\ end \in Nat /\ end \in 1 .. Len(line) /\ i \in 1 .. Len(line)
      /\ (n = 0 => end = i + 1) /\ (n # 0 => end = i + 2 * n)
  BY DEF ArrayStands
<1>2. KindAt(line, i) = "begin_array" /\ KindAt(line, end) = "end_array"
  BY DEF ArrayStands, KindAt
<1> HIDE DEF n
<1>3. end \in i + 1 .. Len(line)
  BY <1>1
<1>4. ASSUME NEW j \in i + 1 .. end - 1
      PROVE  KindAt(line, j) = IF (j - i) % 2 = 1 THEN "string" ELSE "comma"
  <2>1. j - i \in Nat /\ j - i # 0 /\ n # 0 /\ end = i + 2 * n
    BY <1>1
  <2>2. PICK k \in Nat \ {0} : \/ j - i = 2 * k - 1 /\ (j - i) % 2 = 1
                               \/ j - i = 2 * k /\ (j - i) % 2 = 0
    BY <2>1, OddOrEven
  <2>3. CASE j - i = 2 * k - 1 /\ (j - i) % 2 = 1
    <3>1. k \in 1 .. n /\ j = i + 2 * k - 1
      BY <1>1, <2>1, <2>3
    <3>2. j \in DOMAIN line /\ line[j] = Str(values[k])
      BY <3>1 DEF ArrayStands, n
    <3> QED
      BY <2>3, <3>2, TokenKinds DEF KindAt
  <2>4. CASE j - i = 2 * k /\ (j - i) % 2 = 0
    <3>1. k \in 1 .. n - 1 /\ j = i + 2 * k
      BY <1>1, <2>1, <2>4
    <3>2. j \in DOMAIN line /\ line[j].kind = "comma"
      BY <3>1 DEF ArrayStands, n
    <3>3. (j - i) % 2 # 1
      BY <2>4
    <3> QED
      BY <3>2, <3>3 DEF KindAt
  <2> QED
    BY <2>2, <2>3, <2>4
<1> QED
  BY <1>2, <1>3, <1>4

\* The array reads back as its strings.
LEMMA StringsReadBack ==
  ASSUME NEW values, Len(values) \in Nat, DOMAIN values = 1 .. Len(values),
         NEW line, Len(line) \in Nat, DOMAIN line = 1 .. Len(line),
         NEW i \in Nat \ {0}, NEW end, ArrayStands(values, line, i, end)
  PROVE  IsStringArray(line, i) /\ StringsAt(line, i) = [k \in 1 .. Len(values) |-> values[k]]
<1> DEFINE n == Len(values)
<1>1. /\ KindAt(line, i) = "begin_array" /\ KindAt(line, end) = "end_array"
      /\ end \in i + 1 .. Len(line)
      /\ \A j \in i + 1 .. end - 1 : KindAt(line, j) = IF (j - i) % 2 = 1 THEN "string" ELSE "comma"
  BY ArrayKinds
<1>2. \A j \in i + 1 .. end - 1 : KindAt(line, j) # "end_array"
  BY <1>1
<1>3. n \in Nat /\ (n = 0 => end = i + 1) /\ (n # 0 => end = i + 2 * n)
  BY DEF ArrayStands
<1>4. ArrayEnd(line, i) = end
  <2> DEFINE P(j) == KindAt(line, j) = "end_array" /\ \A k \in i + 1 .. j - 1 : KindAt(line, k) # "end_array"
             j == CHOOSE m \in i + 1 .. Len(line) : P(m)
  <2>1. P(end)
    BY <1>1, <1>2
  <2>2. j \in i + 1 .. Len(line) /\ P(j)
    <3> HIDE DEF P
    <3> QED
      BY <1>1, <2>1
  <2> HIDE DEF j
  <2>3. ~(j < end)
    <3> SUFFICES ASSUME j < end
                 PROVE  FALSE
      OBVIOUS
    <3>1. j \in i + 1 .. end - 1
      BY <1>1, <2>2
    <3> QED
      BY <1>2, <2>2, <3>1
  <2>4. ~(end < j)
    <3> SUFFICES ASSUME end < j
                 PROVE  FALSE
      OBVIOUS
    <3>1. end \in i + 1 .. j - 1
      BY <1>1, <2>2
    <3> QED
      BY <1>1, <2>2, <3>1
  <2>5. j = end
    BY <1>1, <2>2, <2>3, <2>4
  <2> QED
    BY <2>5 DEF ArrayEnd, j
<1> HIDE DEF n
<1>5. IsStringArray(line, i)
  <2>1. end - 1 = i \/ (end - 1 - i) % 2 = 1
    <3>1. CASE n = 0
      BY <1>3, <3>1
    <3>2. CASE n # 0
      <4>1. end - 1 - i = 2 * n - 1
        BY <1>3, <3>2
      <4> QED
        BY <1>3, <3>2, <4>1, Halves
    <3> QED
      BY <3>1, <3>2
  <2>2. \E j \in i + 1 .. Len(line) : KindAt(line, j) = "end_array"
    BY <1>1
  <2> QED
    BY <1>1, <1>4, <2>1, <2>2 DEF IsStringArray
<1>6. (end - i) \div 2 = n
  <2>1. CASE n = 0
    <3>1. end - i = 1
      BY <1>3, <2>1
    <3> QED
      BY <2>1, <3>1, Halves
  <2>2. CASE n # 0
    <3>1. end - i = 2 * n
      BY <1>3, <2>2
    <3> QED
      BY <1>3, <3>1, Halves
  <2> QED
    BY <2>1, <2>2
<1>7. \A k \in 1 .. n : line[i + 2 * k - 1].value = values[k]
  BY TokenKinds DEF ArrayStands, n
<1>8. StringsAt(line, i) = [k \in 1 .. n |-> line[i + 2 * k - 1].value]
  BY <1>4, <1>6 DEF StringsAt
<1>9. StringsAt(line, i) = [k \in 1 .. n |-> values[k]]
  BY <1>7, <1>8
<1> QED
  BY <1>5, <1>9 DEF n

(***************************************************************************)
(* Values, and the objects and arrays made of them.                        *)
(***************************************************************************)
IsValue(v) == \E T : v \in Seq(T) /\ Skips(v)
TokensOf(v) == { v[k] : k \in DOMAIN v }
Marks == {Mark("comma"), Mark("colon"), Mark("begin_array"), Mark("end_array"),
          Mark("begin_object"), Mark("end_object")}

LEMMA MarksAre ==
  ASSUME NEW T, Marks \subseteq T
  PROVE  Marked(T)
BY DEF Marks, Marked

LEMMA OwnTokens ==
  ASSUME NEW T, NEW v \in Seq(T), NEW X, TokensOf(v) \subseteq X
  PROVE  v \in Seq(X)
<1>1. DOMAIN v = 1 .. Len(v) /\ Len(v) \in Nat /\ \A k \in 1 .. Len(v) : v[k] \in X
  BY LenProperties DEF TokensOf
<1>2. v \in [1 .. Len(v) -> X]
  BY <1>1
<1> QED
  BY <1>1, <1>2, IsASeq

IsFields(fields) ==
  /\ Len(fields) \in Nat /\ DOMAIN fields = 1 .. Len(fields)
  /\ \A k \in DOMAIN fields : IsValue(fields[k][2])

LEMMA FieldsAreGood ==
  ASSUME NEW fields, IsFields(fields)
  PROVE  \E T : Marked(T) /\ GoodFields(fields, T)
<1> DEFINE T == Marks \cup { Str(fields[k][1]) : k \in DOMAIN fields }
                  \cup UNION { TokensOf(fields[k][2]) : k \in DOMAIN fields }
<1>1. Marked(T)
  <2>1. Marks \subseteq T
    OBVIOUS
  <2> HIDE DEF T
  <2> QED
    BY <2>1, MarksAre
<1>2. ASSUME NEW k \in DOMAIN fields
      PROVE  GoodField(fields[k], T)
  <2>1. Str(fields[k][1]) \in T /\ TokensOf(fields[k][2]) \subseteq T
    OBVIOUS
  <2> HIDE DEF T
  <2>2. PICK X : fields[k][2] \in Seq(X) /\ Skips(fields[k][2])
    BY DEF IsFields, IsValue
  <2>3. fields[k][2] \in Seq(T)
    BY <2>1, <2>2, OwnTokens
  <2> QED
    BY <2>1, <2>2, <2>3 DEF GoodField
<1> HIDE DEF T
<1>3. GoodFields(fields, T)
  BY <1>2 DEF GoodFields, IsFields
<1> QED
  BY <1>1, <1>3

LEMMA ObjectIsValue ==
  ASSUME NEW fields, IsFields(fields)
  PROVE  IsValue(ObjectOf(fields))
<1>1. PICK T : Marked(T) /\ GoodFields(fields, T)
  BY FieldsAreGood
<1>2. Skips(ObjectOf(fields)) /\ ObjectOf(fields) \in Seq(T)
  BY <1>1, ObjectSkips
<1> QED
  BY <1>2 DEF IsValue

LEMMA ArrayIsValue ==
  ASSUME NEW parts, Len(parts) \in Nat, DOMAIN parts = 1 .. Len(parts),
         parts = [k \in DOMAIN parts |-> parts[k]],
         \A k \in DOMAIN parts : IsValue(parts[k])
  PROVE  IsValue(ArrayOf(parts))
<1> DEFINE T == Marks \cup UNION { TokensOf(parts[k]) : k \in DOMAIN parts }
<1>1. Marked(T)
  <2>1. Marks \subseteq T
    OBVIOUS
  <2> HIDE DEF T
  <2> QED
    BY <2>1, MarksAre
<1>2. ASSUME NEW k \in DOMAIN parts
      PROVE  parts[k] \in Seq(T) /\ Skips(parts[k])
  <2>1. TokensOf(parts[k]) \subseteq T
    OBVIOUS
  <2> HIDE DEF T
  <2>2. PICK X : parts[k] \in Seq(X) /\ Skips(parts[k])
    BY DEF IsValue
  <2> QED
    BY <2>1, <2>2, OwnTokens
<1> HIDE DEF T
<1>3. parts \in [1 .. Len(parts) -> Seq(T)]
  BY <1>2
<1>4. parts \in Seq(Seq(T))
  BY <1>3, IsASeq
<1>5. Comma \in Seq(T) /\ Mark("begin_array") \in T /\ Mark("end_array") \in T
  BY <1>1, CommaIsGood DEF Marked
<1>6. Skips(ArrayOf(parts)) /\ ArrayOf(parts) \in Seq(T)
  BY <1>2, <1>4, <1>5, ArraySkips
<1> QED
  BY <1>6 DEF IsValue

IsRow(values) == Len(values) \in Nat /\ DOMAIN values = 1 .. Len(values)
RowTokens(values) == Marks \cup { Str(values[k]) : k \in DOMAIN values }

LEMMA StringArrayIsValue ==
  ASSUME NEW values, IsRow(values)
  PROVE  IsValue(StringArray(values))
<1> DEFINE T == RowTokens(values)
<1>1. Marks \subseteq T /\ \A k \in DOMAIN values : Str(values[k]) \in T
  BY DEF RowTokens
<1> HIDE DEF T
<1>2. Marked(T)
  BY <1>1, MarksAre
<1>3. Skips(StringArray(values)) /\ StringArray(values) \in Seq(T)
  BY <1>1, <1>2, StringArraySkips DEF IsRow
<1> QED
  BY <1>3 DEF IsValue

LEMMA ScalarIsValue ==
  ASSUME NEW x, x.kind = "string" \/ x.kind = "int" \/ x.kind = "word"
  PROVE  IsValue(<<x>>)
<1>1. <<x>> \in Seq({x})
  BY OneToken
<1>2. Skips(<<x>>)
  BY ScalarSkips
<1> QED
  BY <1>1, <1>2 DEF IsValue

\* Where they stand, scalars and arrays of strings are read for what they are.
LEMMA ScalarStands ==
  ASSUME NEW x, NEW line, NEW i, StandsAt(<<x>>, line, i)
  PROVE  line[i] = x /\ KindAt(line, i) = x.kind /\ Alone(line, i)
<1>1. Len(<<x>>) = 1 /\ 1 \in DOMAIN <<x>> /\ <<x>>[1] = x
  BY OneToken
<1>2. i \in Nat /\ i - 1 + 1 = i /\ i - 1 + 1 \in DOMAIN line /\ line[i - 1 + 1] = x
  BY <1>1 DEF StandsAt, Occurs
<1>3. i + 1 \in DOMAIN line /\ line[i + 1].kind \in Delimiters
  BY <1>1 DEF StandsAt
<1> QED
  BY <1>2, <1>3 DEF KindAt, Alone

LEMMA StringsStand ==
  ASSUME NEW values, IsRow(values), NEW line, Len(line) \in Nat, DOMAIN line = 1 .. Len(line),
         NEW i, StandsAt(StringArray(values), line, i)
  PROVE  IsStringArray(line, i) /\ StringsAt(line, i) = [k \in 1 .. Len(values) |-> values[k]]
<1> DEFINE T == RowTokens(values)
<1>1. Marks \subseteq T /\ \A k \in DOMAIN values : Str(values[k]) \in T
  BY DEF RowTokens
<1> HIDE DEF T
<1>2. Marked(T)
  BY <1>1, MarksAre
<1>3. i \in Nat \ {0} /\ Occurs(StringArray(values), line, i - 1)
  BY DEF StandsAt
<1>4. PICK end : ArrayStands(values, line, i, end)
  BY <1>1, <1>2, <1>3, StringArrayStands DEF IsRow
<1> QED
  BY <1>3, <1>4, StringsReadBack DEF IsRow

(***************************************************************************)
(* The line of a game.                                                     *)
(***************************************************************************)
LEMMA SevenFields ==
  ASSUME NEW a, NEW b, NEW c, NEW d, NEW e, NEW f, NEW g,
         IsValue(a[2]), IsValue(b[2]), IsValue(c[2]), IsValue(d[2]), IsValue(e[2]),
         IsValue(f[2]), IsValue(g[2])
  PROVE  IsFields(<<a, b, c, d, e, f, g>>)
<1> DEFINE s == <<a, b, c, d, e, f, g>>
<1>1. Len(s) = 7 /\ DOMAIN s = 1 .. 7
  OBVIOUS
<1>2. ASSUME NEW k \in 1 .. 7
      PROVE  IsValue(s[k][2])
  OBVIOUS
<1> HIDE DEF s
<1>3. IsFields(s)
  BY <1>1, <1>2 DEF IsFields
<1> QED
  BY <1>3 DEF s

LEMMA ScalarValues ==
  ASSUME NEW x
  PROVE  IsValue(<<Num(x)>>) /\ IsValue(<<Str(x)>>) /\ IsValue(<<Word(x)>>)
BY TokenKinds, ScalarIsValue

LEMMA NoFields == IsFields(<< >>)
BY DEF IsFields

LEMMA EventIsValue ==
  ASSUME NEW e
  PROVE  IsValue(EventTokens(e))
<1>1. IsValue(ObjectOf(<< >>))
  BY NoFields, ObjectIsValue
<1>2. IsRow(<<e.best_move>>)
  BY DEF IsRow
<1>3. IsValue(StringArray(<<e.best_move>>))
  BY <1>2, StringArrayIsValue
<1> DEFINE a == <<Num(e.ply)>>
           b == <<Str(e.side)>>
           c == <<Str(e.player)>>
           d == <<Str(e.board)>>
           m == <<Str(e.best_move)>>
           o == ObjectOf(<< >>)
           v == StringArray(<<e.best_move>>)
<1>4. IsValue(a) /\ IsValue(b) /\ IsValue(c) /\ IsValue(d) /\ IsValue(m) /\ IsValue(o) /\ IsValue(v)
  BY <1>1, <1>3, ScalarValues
<1>5. EventTokens(e) = ObjectOf(<<<<"ply", a>>, <<"side", b>>, <<"player", c>>, <<"board", d>>,
                                  <<"best_move", m>>, <<"stats", o>>, <<"pv", v>>>>)
  BY DEF EventTokens
<1> HIDE DEF a, b, c, d, m, o, v
<1>6. \A n, x : <<n, x>>[2] = x
  OBVIOUS
<1>7. IsFields(<<<<"ply", a>>, <<"side", b>>, <<"player", c>>, <<"board", d>>,
                 <<"best_move", m>>, <<"stats", o>>, <<"pv", v>>>>)
  BY <1>4, <1>6, SevenFields
<1> QED
  BY <1>5, <1>7, ObjectIsValue

LEMMA EventsAreValue ==
  ASSUME NEW events, IsRow(events)
  PROVE  IsValue(ArrayOf([i \in DOMAIN events |-> EventTokens(events[i])]))
<1> DEFINE parts == [i \in DOMAIN events |-> EventTokens(events[i])]
<1>1. parts \in [1 .. Len(events) -> { EventTokens(events[i]) : i \in DOMAIN events }]
  BY DEF IsRow
<1>2. Len(parts) = Len(events) /\ DOMAIN parts = 1 .. Len(events) /\ Len(events) \in Nat
  BY <1>1, IsASeq DEF IsRow
<1>3. \A k \in DOMAIN parts : IsValue(parts[k])
  BY EventIsValue
<1>4. parts = [k \in DOMAIN parts |-> parts[k]]
  OBVIOUS
<1> HIDE DEF parts
<1> QED
  BY <1>2, <1>3, <1>4, ArrayIsValue DEF parts

\* The field of that name stands among the members once, and reads as the value.
ReadsAs(line, members, name, value) ==
  \E k \in DOMAIN members :
    /\ Named(members, name) = {k}
    /\ HasKind(line, members[k].at, Kinds[name])
    /\ ValueOf(line, members[k].at, Kinds[name]) = value

LEMMA RecordReadBack ==
  ASSUME NEW line, NEW members, DOMAIN members \subseteq Nat, NEW r,
         \A name \in DOMAIN Kinds : ReadsAs(line, members, name, r[name])
  PROVE  RecordOf(line, members) = {[name \in DOMAIN Kinds |-> r[name]]}
<1> DEFINE N == DOMAIN Kinds
<1>1. Required \subseteq N
  BY DEF Required
<1> HIDE DEF N
<1>2. \A name \in N : ReadsAs(line, members, name, r[name])
  BY DEF N
<1>3. \A name \in N : Named(members, name) # {}
  BY <1>2 DEF ReadsAs
<1>4. ASSUME NEW k \in DOMAIN members, members[k].name \in N
      PROVE  HasKind(line, members[k].at, Kinds[members[k].name])
  <2> DEFINE name == members[k].name
  <2>1. PICK j \in DOMAIN members : Named(members, name) = {j} /\ HasKind(line, members[j].at, Kinds[name])
    BY <1>2, <1>4 DEF ReadsAs
  <2>2. k \in Named(members, name)
    BY DEF Named
  <2>3. k = j
    BY <2>1, <2>2
  <2> QED
    BY <2>1, <2>3
<1>5. ASSUME NEW name \in N
      PROVE  Field(line, members, name) = r[name]
  <2>1. PICK k \in DOMAIN members : /\ Named(members, name) = {k}
                                    /\ ValueOf(line, members[k].at, Kinds[name]) = r[name]
    BY <1>2 DEF ReadsAs
  <2>2. k \in Nat
    OBVIOUS
  <2>3. Max({k}) = k
    BY <2>2 DEF Max
  <2> QED
    BY <2>1, <2>3 DEF Field
<1>6. RecordOf(line, members)
        = {[name \in N |-> IF Named(members, name) = {} THEN FALSE ELSE Field(line, members, name)]}
  BY <1>1, <1>3, <1>4 DEF RecordOf, N
<1>7. [name \in N |-> IF Named(members, name) = {} THEN FALSE ELSE Field(line, members, name)]
        = [name \in N |-> r[name]]
  BY <1>3, <1>5
<1> QED
  BY <1>6, <1>7 DEF N

(***************************************************************************)
(* The values, each read as it was written.                                *)
(***************************************************************************)
LEMMA NumberReadBack ==
  ASSUME NEW x, NEW line, NEW i, StandsAt(<<Num(x)>>, line, i)
  PROVE  HasKind(line, i, "int") /\ ValueOf(line, i, "int") = x
<1> DEFINE t == Num(x)
<1>1. t.kind = "int" /\ t.value = x
  BY TokenKinds
<1> HIDE DEF t
<1>2. StandsAt(<<t>>, line, i)
  BY DEF t
<1>3. line[i] = t /\ KindAt(line, i) = "int" /\ Alone(line, i)
  BY <1>1, <1>2, ScalarStands
<1> QED
  BY <1>1, <1>3 DEF HasKind, ValueOf

LEMMA StringReadBack ==
  ASSUME NEW x, NEW line, NEW i, StandsAt(<<Str(x)>>, line, i)
  PROVE  HasKind(line, i, "string") /\ ValueOf(line, i, "string") = x
<1> DEFINE t == Str(x)
<1>1. t.kind = "string" /\ t.value = x
  BY TokenKinds
<1> HIDE DEF t
<1>2. StandsAt(<<t>>, line, i)
  BY DEF t
<1>3. line[i] = t /\ KindAt(line, i) = "string" /\ Alone(line, i)
  BY <1>1, <1>2, ScalarStands
<1> QED
  BY <1>1, <1>3 DEF HasKind, ValueOf

LEMMA FlagReadBack ==
  ASSUME NEW x \in BOOLEAN, NEW line, NEW i, StandsAt(<<Bool(x)>>, line, i)
  PROVE  HasKind(line, i, "bool") /\ ValueOf(line, i, "bool") = x
<1> DEFINE t == Bool(x)
<1>1. t.kind = "word" /\ t.value = IF x THEN "true" ELSE "false"
  BY TokenKinds DEF Bool
<1> HIDE DEF t
<1>2. StandsAt(<<t>>, line, i)
  BY DEF t
<1>3. line[i] = t /\ KindAt(line, i) = "word" /\ Alone(line, i)
  BY <1>1, <1>2, ScalarStands
<1>4. line[i].value \in {"true", "false"}
  BY <1>1, <1>3
<1>5. HasKind(line, i, "bool")
  BY <1>3, <1>4 DEF HasKind
<1>6. (line[i].value = "true") = x
  BY <1>1, <1>3
<1>7. ValueOf(line, i, "bool") = (line[i].value = "true")
  BY DEF ValueOf
<1> QED
  BY <1>5, <1>6, <1>7

LEMMA RowReadBack ==
  ASSUME NEW T, NEW x \in Seq(T), NEW line, Len(line) \in Nat, DOMAIN line = 1 .. Len(line),
         NEW i, StandsAt(StringArray(x), line, i)
  PROVE  HasKind(line, i, "strings") /\ ValueOf(line, i, "strings") = x
<1>1. IsRow(x) /\ x = [k \in 1 .. Len(x) |-> x[k]]
  BY LenProperties DEF IsRow
<1>2. IsStringArray(line, i) /\ StringsAt(line, i) = x
  BY <1>1, StringsStand
<1>3. HasKind(line, i, "strings") = IsStringArray(line, i)
  BY DEF HasKind
<1>4. ValueOf(line, i, "strings") = StringsAt(line, i)
  BY DEF ValueOf
<1> QED
  BY <1>2, <1>3, <1>4

LEMMA ElevenFields ==
  ASSUME NEW a, NEW b, NEW c, NEW d, NEW e, NEW f, NEW g, NEW h, NEW x, NEW y, NEW z
  PROVE  LET s == <<a, b, c, d, e, f, g, h, x, y, z>>
         IN  /\ Len(s) = 11 /\ DOMAIN s = 1 .. 11
             /\ s[1] = a /\ s[2] = b /\ s[3] = c /\ s[4] = d /\ s[5] = e /\ s[6] = f
             /\ s[7] = g /\ s[8] = h /\ s[9] = x /\ s[10] = y /\ s[11] = z
OBVIOUS

\* The fields of a line, by their values.
LineFields(a, b, c, d, e, f, g, h, x, y, z) ==
  <<<<"game_index", a>>, <<"opening_index", b>>, <<"opening_name", c>>, <<"opening_moves", d>>,
    <<"start_board", e>>, <<"black_is_player_a", f>>, <<"score_diff_from_player_a", g>>,
    <<"moves", h>>, <<"exact_root_events", x>>, <<"illegal_or_error", y>>, <<"error_reason", z>>>>

\* Their names, in this order.
NamedInOrder(fields) ==
  /\ Len(fields) = 11 /\ DOMAIN fields = 1 .. 11
  /\ fields[1][1] = "game_index" /\ fields[2][1] = "opening_index"
  /\ fields[3][1] = "opening_name" /\ fields[4][1] = "opening_moves"
  /\ fields[5][1] = "start_board" /\ fields[6][1] = "black_is_player_a"
  /\ fields[7][1] = "score_diff_from_player_a" /\ fields[8][1] = "moves"
  /\ fields[9][1] = "exact_root_events" /\ fields[10][1] = "illegal_or_error"
  /\ fields[11][1] = "error_reason"

LEMMA LineFieldsAre ==
  ASSUME NEW a, NEW b, NEW c, NEW d, NEW e, NEW f, NEW g, NEW h, NEW x, NEW y, NEW z
  PROVE  LET s == LineFields(a, b, c, d, e, f, g, h, x, y, z)
         IN  /\ NamedInOrder(s)
             /\ s[1][2] = a /\ s[2][2] = b /\ s[3][2] = c /\ s[4][2] = d /\ s[5][2] = e /\ s[6][2] = f
             /\ s[7][2] = g /\ s[8][2] = h /\ s[9][2] = x /\ s[10][2] = y /\ s[11][2] = z
<1> DEFINE s == LineFields(a, b, c, d, e, f, g, h, x, y, z)
<1>1. /\ Len(s) = 11 /\ DOMAIN s = 1 .. 11
      /\ s[1] = <<"game_index", a>> /\ s[2] = <<"opening_index", b>> /\ s[3] = <<"opening_name", c>>
      /\ s[4] = <<"opening_moves", d>> /\ s[5] = <<"start_board", e>>
      /\ s[6] = <<"black_is_player_a", f>> /\ s[7] = <<"score_diff_from_player_a", g>>
      /\ s[8] = <<"moves", h>> /\ s[9] = <<"exact_root_events", x>>
      /\ s[10] = <<"illegal_or_error", y>> /\ s[11] = <<"error_reason", z>>
  BY ElevenFields DEF LineFields
<1>2. \A name, v : <<name, v>>[1] = name /\ <<name, v>>[2] = v
  OBVIOUS
<1> HIDE DEF s
<1>3. NamedInOrder(s)
  BY <1>1, <1>2 DEF NamedInOrder
<1>4. /\ s[1][2] = a /\ s[2][2] = b /\ s[3][2] = c /\ s[4][2] = d /\ s[5][2] = e /\ s[6][2] = f
      /\ s[7][2] = g /\ s[8][2] = h /\ s[9][2] = x /\ s[10][2] = y /\ s[11][2] = z
  BY <1>1, <1>2
<1> QED
  BY <1>3, <1>4 DEF s

\* Each name stands among the members once.
Members(members) ==
  /\ DOMAIN members = 1 .. 11
  /\ members[1].name = "game_index" /\ members[2].name = "opening_index"
  /\ members[3].name = "opening_name" /\ members[4].name = "opening_moves"
  /\ members[5].name = "start_board" /\ members[6].name = "black_is_player_a"
  /\ members[7].name = "score_diff_from_player_a" /\ members[8].name = "moves"
  /\ members[9].name = "exact_root_events" /\ members[10].name = "illegal_or_error"
  /\ members[11].name = "error_reason"

LEMMA OneToEleven ==
  ASSUME NEW k \in 1 .. 11
  PROVE  \/ k = 1 \/ k = 2 \/ k = 3 \/ k = 4 \/ k = 5 \/ k = 6 \/ k = 7 \/ k = 8 \/ k = 9
         \/ k = 10 \/ k = 11
OBVIOUS

LEMMA NamesStandOnce ==
  ASSUME NEW members, Members(members)
  PROVE  /\ Named(members, "game_index") = {1} /\ Named(members, "opening_index") = {2}
         /\ Named(members, "opening_name") = {3} /\ Named(members, "opening_moves") = {4}
         /\ Named(members, "start_board") = {5} /\ Named(members, "black_is_player_a") = {6}
         /\ Named(members, "score_diff_from_player_a") = {7} /\ Named(members, "moves") = {8}
         /\ Named(members, "illegal_or_error") = {10}
<1>1. Named(members, "game_index") = {1}
  BY OneToEleven DEF Members, Named
<1>2. Named(members, "opening_index") = {2}
  BY OneToEleven DEF Members, Named
<1>3. Named(members, "opening_name") = {3}
  BY OneToEleven DEF Members, Named
<1>4. Named(members, "opening_moves") = {4}
  BY OneToEleven DEF Members, Named
<1>5. Named(members, "start_board") = {5}
  BY OneToEleven DEF Members, Named
<1>6. Named(members, "black_is_player_a") = {6}
  BY OneToEleven DEF Members, Named
<1>7. Named(members, "score_diff_from_player_a") = {7}
  BY OneToEleven DEF Members, Named
<1>8. Named(members, "moves") = {8}
  BY OneToEleven DEF Members, Named
<1>9. Named(members, "illegal_or_error") = {10}
  BY OneToEleven DEF Members, Named
<1> QED
  BY <1>1, <1>2, <1>3, <1>4, <1>5, <1>6, <1>7, <1>8, <1>9

LEMMA MembersAreNamed ==
  ASSUME NEW fields, NamedInOrder(fields), NEW f
  PROVE  Members(MembersOf(fields, f))
<1>1. /\ DOMAIN MembersOf(fields, f) = 1 .. 11
      /\ \A k \in 1 .. 11 : MembersOf(fields, f)[k].name = fields[k][1]
  BY DEF MembersOf, Note, NamedInOrder
<1>2. /\ 1 \in 1 .. 11 /\ 2 \in 1 .. 11 /\ 3 \in 1 .. 11 /\ 4 \in 1 .. 11 /\ 5 \in 1 .. 11
      /\ 6 \in 1 .. 11 /\ 7 \in 1 .. 11 /\ 8 \in 1 .. 11 /\ 9 \in 1 .. 11 /\ 10 \in 1 .. 11
      /\ 11 \in 1 .. 11
  OBVIOUS
<1> QED
  BY <1>1, <1>2 DEF Members, NamedInOrder

MatchFields(r) ==
  LineFields(<<Num(r.game_index)>>, <<Num(r.opening_index)>>, <<Str(r.opening_name)>>,
             StringArray(r.opening_moves), <<Str(r.start_board)>>, <<Bool(r.black_is_player_a)>>,
             <<Num(r.score_diff_from_player_a)>>, StringArray(r.moves),
             ArrayOf([i \in DOMAIN r.exact_root_events |-> EventTokens(r.exact_root_events[i])]),
             <<Bool(r.illegal_or_error)>>,
             IF r.illegal_or_error THEN <<Str("reason")>> ELSE <<Null>>)

LEMMA LineIsFields ==
  ASSUME NEW r
  PROVE  MatchLine(r) = ObjectOf(MatchFields(r))
BY DEF MatchLine, MatchFields, LineFields

RecordParts(r) ==
  /\ r.opening_moves \in Seq(Squares) /\ r.moves \in Seq(Squares)
  /\ r.exact_root_events \in Seq(Events)
  /\ r.black_is_player_a \in BOOLEAN /\ r.illegal_or_error \in BOOLEAN

LEMMA RecordsHaveParts ==
  ASSUME NEW r \in Records
  PROVE  RecordParts(r)
BY DEF Records, RecordParts

LEMMA BoolIsValue ==
  ASSUME NEW b
  PROVE  IsValue(<<Bool(b)>>)
BY ScalarValues DEF Bool

LEMMA RowsAre ==
  ASSUME NEW T, NEW s \in Seq(T)
  PROVE  IsRow(s)
BY LenProperties DEF IsRow

\* The values of the fields are values, and where they stand.
ValuesOf(fields, r) ==
  /\ fields[1][2] = <<Num(r.game_index)>> /\ fields[2][2] = <<Num(r.opening_index)>>
  /\ fields[3][2] = <<Str(r.opening_name)>> /\ fields[4][2] = StringArray(r.opening_moves)
  /\ fields[5][2] = <<Str(r.start_board)>> /\ fields[6][2] = <<Bool(r.black_is_player_a)>>
  /\ fields[7][2] = <<Num(r.score_diff_from_player_a)>> /\ fields[8][2] = StringArray(r.moves)
  /\ fields[10][2] = <<Bool(r.illegal_or_error)>>

LEMMA MatchFieldsAre ==
  ASSUME NEW r, RecordParts(r)
  PROVE  IsFields(MatchFields(r)) /\ NamedInOrder(MatchFields(r)) /\ ValuesOf(MatchFields(r), r)
<1> DEFINE a == <<Num(r.game_index)>>
           b == <<Num(r.opening_index)>>
           c == <<Str(r.opening_name)>>
           d == StringArray(r.opening_moves)
           e == <<Str(r.start_board)>>
           f == <<Bool(r.black_is_player_a)>>
           g == <<Num(r.score_diff_from_player_a)>>
           h == StringArray(r.moves)
           x == ArrayOf([i \in DOMAIN r.exact_root_events |-> EventTokens(r.exact_root_events[i])])
           y == <<Bool(r.illegal_or_error)>>
           z == IF r.illegal_or_error THEN <<Str("reason")>> ELSE <<Null>>
           s == MatchFields(r)
<1>1. s = LineFields(a, b, c, d, e, f, g, h, x, y, z)
  BY DEF MatchFields
<1>2. IsValue(a) /\ IsValue(b) /\ IsValue(c) /\ IsValue(e) /\ IsValue(f) /\ IsValue(g) /\ IsValue(y)
  BY ScalarValues, BoolIsValue
<1>3. IsValue(d) /\ IsValue(h)
  BY RowsAre, StringArrayIsValue DEF RecordParts
<1>4. IsValue(x)
  <2>1. IsRow(r.exact_root_events)
    BY RowsAre DEF RecordParts
  <2> QED
    BY <2>1, EventsAreValue
<1>5. IsValue(z)
  BY ScalarValues DEF Null
<1> HIDE DEF s
<1>6. ValuesOf(LineFields(a, b, c, d, e, f, g, h, x, y, z), r)
  BY LineFieldsAre, SMTT(30) DEF ValuesOf
<1> HIDE DEF a, b, c, d, e, f, g, h, x, y, z
<1>7. /\ NamedInOrder(s)
      /\ s[1][2] = a /\ s[2][2] = b /\ s[3][2] = c /\ s[4][2] = d /\ s[5][2] = e /\ s[6][2] = f
      /\ s[7][2] = g /\ s[8][2] = h /\ s[9][2] = x /\ s[10][2] = y /\ s[11][2] = z
  BY <1>1, LineFieldsAre
<1>8. ASSUME NEW k \in 1 .. 11
      PROVE  IsValue(s[k][2])
  BY <1>2, <1>3, <1>4, <1>5, <1>7, OneToEleven
<1>9. IsFields(s)
  BY <1>7, <1>8 DEF IsFields, NamedInOrder
<1> QED
  BY <1>1, <1>6, <1>7, <1>9 DEF s

\* Where the values of the members stand.
Places(line, members, fields) ==
  \A k \in 1 .. 11 : StandsAt(fields[k][2], line, members[k].at)

LEMMA MembersReadBack ==
  ASSUME NEW r, RecordParts(r), NEW fields, ValuesOf(fields, r),
         NEW line, Len(line) \in Nat, DOMAIN line = 1 .. Len(line), NEW members, Members(members),
         Places(line, members, fields)
  PROVE  \A name \in DOMAIN Kinds : ReadsAs(line, members, name, r[name])
<1>1. /\ 1 \in DOMAIN members /\ 2 \in DOMAIN members /\ 3 \in DOMAIN members /\ 4 \in DOMAIN members
      /\ 5 \in DOMAIN members /\ 6 \in DOMAIN members /\ 7 \in DOMAIN members /\ 8 \in DOMAIN members
      /\ 10 \in DOMAIN members
  BY DEF Members
<1>2. /\ StandsAt(fields[1][2], line, members[1].at) /\ StandsAt(fields[2][2], line, members[2].at)
      /\ StandsAt(fields[3][2], line, members[3].at) /\ StandsAt(fields[4][2], line, members[4].at)
      /\ StandsAt(fields[5][2], line, members[5].at) /\ StandsAt(fields[6][2], line, members[6].at)
      /\ StandsAt(fields[7][2], line, members[7].at) /\ StandsAt(fields[8][2], line, members[8].at)
      /\ StandsAt(fields[10][2], line, members[10].at)
  BY <1>1 DEF Members, Places
<1>3. /\ DOMAIN Kinds = {"game_index", "opening_index", "opening_name", "opening_moves",
                         "start_board", "black_is_player_a", "score_diff_from_player_a", "moves",
                         "illegal_or_error"}
      /\ Kinds["game_index"] = "int" /\ Kinds["opening_index"] = "int"
      /\ Kinds["opening_name"] = "string" /\ Kinds["opening_moves"] = "strings"
      /\ Kinds["start_board"] = "string" /\ Kinds["black_is_player_a"] = "bool"
      /\ Kinds["score_diff_from_player_a"] = "int" /\ Kinds["moves"] = "strings"
      /\ Kinds["illegal_or_error"] = "bool"
  BY DEF Kinds
<1>4. /\ Named(members, "game_index") = {1} /\ Named(members, "opening_index") = {2}
      /\ Named(members, "opening_name") = {3} /\ Named(members, "opening_moves") = {4}
      /\ Named(members, "start_board") = {5} /\ Named(members, "black_is_player_a") = {6}
      /\ Named(members, "score_diff_from_player_a") = {7} /\ Named(members, "moves") = {8}
      /\ Named(members, "illegal_or_error") = {10}
  BY NamesStandOnce
<1>5. ReadsAs(line, members, "game_index", r.game_index)
  <2>1. StandsAt(<<Num(r.game_index)>>, line, members[1].at)
    BY <1>2 DEF ValuesOf
  <2>2. HasKind(line, members[1].at, "int") /\ ValueOf(line, members[1].at, "int") = r.game_index
    BY <2>1, NumberReadBack
  <2> QED
    BY <1>1, <1>3, <1>4, <2>2 DEF ReadsAs
<1>6. ReadsAs(line, members, "opening_index", r.opening_index)
  <2>1. StandsAt(<<Num(r.opening_index)>>, line, members[2].at)
    BY <1>2 DEF ValuesOf
  <2>2. HasKind(line, members[2].at, "int") /\ ValueOf(line, members[2].at, "int") = r.opening_index
    BY <2>1, NumberReadBack
  <2> QED
    BY <1>1, <1>3, <1>4, <2>2 DEF ReadsAs
<1>7. ReadsAs(line, members, "opening_name", r.opening_name)
  <2>1. StandsAt(<<Str(r.opening_name)>>, line, members[3].at)
    BY <1>2 DEF ValuesOf
  <2>2. HasKind(line, members[3].at, "string") /\ ValueOf(line, members[3].at, "string") = r.opening_name
    BY <2>1, StringReadBack
  <2> QED
    BY <1>1, <1>3, <1>4, <2>2 DEF ReadsAs
<1>8. ReadsAs(line, members, "opening_moves", r.opening_moves)
  <2>1. StandsAt(StringArray(r.opening_moves), line, members[4].at)
    BY <1>2 DEF ValuesOf
  <2>2. HasKind(line, members[4].at, "strings") /\ ValueOf(line, members[4].at, "strings") = r.opening_moves
    BY <2>1, RowReadBack DEF RecordParts
  <2> QED
    BY <1>1, <1>3, <1>4, <2>2 DEF ReadsAs
<1>9. ReadsAs(line, members, "start_board", r.start_board)
  <2>1. StandsAt(<<Str(r.start_board)>>, line, members[5].at)
    BY <1>2 DEF ValuesOf
  <2>2. HasKind(line, members[5].at, "string") /\ ValueOf(line, members[5].at, "string") = r.start_board
    BY <2>1, StringReadBack
  <2> QED
    BY <1>1, <1>3, <1>4, <2>2 DEF ReadsAs
<1>10. ReadsAs(line, members, "black_is_player_a", r.black_is_player_a)
  <2>1. StandsAt(<<Bool(r.black_is_player_a)>>, line, members[6].at)
    BY <1>2 DEF ValuesOf
  <2>2. HasKind(line, members[6].at, "bool") /\ ValueOf(line, members[6].at, "bool") = r.black_is_player_a
    BY <2>1, FlagReadBack DEF RecordParts
  <2> QED
    BY <1>1, <1>3, <1>4, <2>2 DEF ReadsAs
<1>11. ReadsAs(line, members, "score_diff_from_player_a", r.score_diff_from_player_a)
  <2>1. StandsAt(<<Num(r.score_diff_from_player_a)>>, line, members[7].at)
    BY <1>2 DEF ValuesOf
  <2>2. /\ HasKind(line, members[7].at, "int")
        /\ ValueOf(line, members[7].at, "int") = r.score_diff_from_player_a
    BY <2>1, NumberReadBack
  <2> QED
    BY <1>1, <1>3, <1>4, <2>2 DEF ReadsAs
<1>12. ReadsAs(line, members, "moves", r.moves)
  <2>1. StandsAt(StringArray(r.moves), line, members[8].at)
    BY <1>2 DEF ValuesOf
  <2>2. HasKind(line, members[8].at, "strings") /\ ValueOf(line, members[8].at, "strings") = r.moves
    BY <2>1, RowReadBack DEF RecordParts
  <2> QED
    BY <1>1, <1>3, <1>4, <2>2 DEF ReadsAs
<1>13. ReadsAs(line, members, "illegal_or_error", r.illegal_or_error)
  <2>1. StandsAt(<<Bool(r.illegal_or_error)>>, line, members[10].at)
    BY <1>2 DEF ValuesOf
  <2>2. HasKind(line, members[10].at, "bool") /\ ValueOf(line, members[10].at, "bool") = r.illegal_or_error
    BY <2>1, FlagReadBack DEF RecordParts
  <2> QED
    BY <1>1, <1>3, <1>4, <2>2 DEF ReadsAs
<1> QED
  BY <1>3, <1>5, <1>6, <1>7, <1>8, <1>9, <1>10, <1>11, <1>12, <1>13

\* What the replay tool reads of a line, and of one cut short.
LEMMA MatchLineReadsBack ==
  ASSUME NEW r \in Records
  PROVE  /\ ParseMatchRecord(MatchLine(r)) = {[name \in DOMAIN Kinds |-> r[name]]}
         /\ \A cut \in 1 .. Len(MatchLine(r)) - 1 : ParseMatchRecord(SubSeq(MatchLine(r), 1, cut)) = {}
<1> DEFINE fields == MatchFields(r)
           line == MatchLine(r)
<1>1. RecordParts(r) /\ line = ObjectOf(fields)
  BY RecordsHaveParts, LineIsFields
<1>2. IsFields(fields) /\ NamedInOrder(fields) /\ ValuesOf(fields, r)
  BY <1>1, MatchFieldsAre
<1> HIDE DEF fields, line
<1>3. PICK T : Marked(T) /\ GoodFields(fields, T)
  BY <1>2, FieldsAreGood
<1>4. PICK f : Joins(f, PiecesOf(fields), T) /\ f[Len(fields)] = CommaSeparated(PiecesOf(fields))
  <2>1. PiecesOf(fields) \in Seq(Seq(T)) /\ Len(PiecesOf(fields)) = Len(fields)
    BY <1>3, PiecesAre
  <2>2. Comma \in Seq(T)
    BY <1>3, CommaIsGood
  <2>3. \E g : Joins(g, PiecesOf(fields), T)
               /\ g[Len(PiecesOf(fields))] = CommaSeparated(PiecesOf(fields))
    BY <2>1, <2>2, Separated
  <2> QED
    BY <2>1, <2>3
<1> DEFINE members == MembersOf(fields, f)
<1>5. Object(line, TRUE) = {members}
  BY <1>1, <1>3, <1>4, ObjectReadBack
<1>6. Len(line) \in Nat /\ DOMAIN line = 1 .. Len(line)
  BY <1>1, <1>3, LineShape
<1>7. Members(members)
  BY <1>2, MembersAreNamed
<1>8. Places(line, members, fields)
  <2>1. Len(fields) = 11
    BY <1>2 DEF NamedInOrder
  <2> QED
    BY <1>1, <1>3, <1>4, <2>1, ValueStands DEF Places
<1> HIDE DEF members
<1>9. \A name \in DOMAIN Kinds : ReadsAs(line, members, name, r[name])
  BY <1>1, <1>2, <1>6, <1>7, <1>8, MembersReadBack
<1>10. DOMAIN members \subseteq Nat
  BY <1>7 DEF Members
<1>11. RecordOf(line, members) = {[name \in DOMAIN Kinds |-> r[name]]}
  BY <1>9, <1>10, RecordReadBack
<1>12. ParseMatchRecord(line) = {[name \in DOMAIN Kinds |-> r[name]]}
  BY <1>5, <1>11 DEF ParseMatchRecord
<1>13. ASSUME NEW cut \in 1 .. Len(line) - 1
       PROVE  ParseMatchRecord(SubSeq(line, 1, cut)) = {}
  <2>1. Object(SubSeq(line, 1, cut), TRUE) = {}
    BY <1>1, <1>3, CutLineRefused
  <2> QED
    BY <2>1 DEF ParseMatchRecord
<1> QED
  BY <1>12, <1>13 DEF line

\* The line of a game that was just played reads back as that game, and no
\* beginning of it that lacks its end as one.
THEOREM LinesReadBack == Spec => []LineReadsBack
<1>1. RunnerInv => LineReadsBack
  <2> SUFFICES ASSUME RunnerInv, records # << >>
               PROVE  LET r == Last(records)
                          line == MatchLine(r)
                      IN  /\ ParseMatchRecord(line) = {[name \in DOMAIN Kinds |-> r[name]]}
                          /\ \A cut \in 1 .. Len(line) - 1 : ParseMatchRecord(SubSeq(line, 1, cut)) = {}
    BY DEF LineReadsBack
  <2>1. records \in Seq(Records)
    BY DEF RunnerInv
  <2>2. Len(records) \in 1 .. Len(records)
    BY <2>1, EmptySeq, LenProperties
  <2>3. Last(records) \in Records
    BY <2>1, <2>2, ElementOfSeq DEF Last
  <2> QED
    BY <2>3, MatchLineReadsBack
<1>2. RunnerInv /\ [Next]_vars => RunnerInv'
  BY RunnerStep
<1> QED
  BY <1>1, <1>2, RunnerInit, PTL DEF Spec

(***************************************************************************)
(* Games with the same moves, and moves that are replayed.                 *)
(***************************************************************************)
\* Two games that were played alike for k moves.
LikeSoFar(x, t, y, u, k) ==
  t[k] = u[k] /\ \A i \in 1 .. t[k] + 1 : x[i] = y[i]

\* From the i-th board both lists went to the same one, over the same.
Together(x, y, i, j, k) ==
  /\ j = k /\ x[j] = y[j] /\ j \in {i + 1, i + 2}
  /\ j = i + 2 => x[i + 1] = y[i + 1]

LEMMA AdvanceIsSure ==
  ASSUME NEW x, NEW y, NEW m, NEW i \in Nat, NEW j \in Nat, NEW k \in Nat,
         x[i] = y[i], Advances(x, i, j, m), Advances(y, i, k, m)
  PROVE  Together(x, y, i, j, k)
<1>1. CASE Moves[x[i]] = {}
  BY <1>1 DEF Advances, PassDue, Together
<1>2. CASE Moves[x[i]] # {}
  BY <1>2 DEF Advances, PassDue, Together
<1> QED
  BY <1>1, <1>2

LEMMA StepAlike ==
  ASSUME NEW x, NEW y, NEW m, NEW p \in Nat, NEW q \in Nat, NEW r \in Nat,
         \A h \in 1 .. p + 1 : x[h] = y[h], Advances(x, p + 1, q + 1, m), Advances(y, p + 1, r + 1, m)
  PROVE  q = r /\ \A h \in 1 .. q + 1 : x[h] = y[h]
<1>1. p + 1 \in Nat /\ q + 1 \in Nat /\ r + 1 \in Nat /\ x[p + 1] = y[p + 1]
  OBVIOUS
<1>2. /\ q + 1 = r + 1 /\ x[q + 1] = y[q + 1] /\ q + 1 \in {p + 1 + 1, p + 1 + 2}
      /\ q + 1 = p + 1 + 2 => x[p + 1 + 1] = y[p + 1 + 1]
  <2> DEFINE i == p + 1
             j == q + 1
             k == r + 1
  <2>1. i \in Nat /\ j \in Nat /\ k \in Nat /\ x[i] = y[i] /\ Advances(x, i, j, m) /\ Advances(y, i, k, m)
    BY <1>1
  <2> HIDE DEF i, j, k
  <2>2. Together(x, y, i, j, k)
    BY <2>1, AdvanceIsSure
  <2> QED
    BY <2>2 DEF Together, i, j, k
<1>3. q = r
  BY <1>2
<1>4. ASSUME NEW h \in 1 .. q + 1
      PROVE  x[h] = y[h]
  <2>1. h \in 1 .. p + 1 \/ h = q + 1 \/ (q + 1 = p + 1 + 2 /\ h = p + 1 + 1)
    BY <1>2
  <2> QED
    BY <1>2, <2>1
<1> QED
  BY <1>3, <1>4

\* The same moves from the same start lead over the same boards.
LEMMA SameMovesSameBoards ==
  ASSUME NEW start, NEW a \in Seq(Squares), NEW x, NEW t, Played(start, a, x, t),
         NEW b \in Seq(Squares), NEW y, NEW u, Played(start, b, y, u),
         NEW c \in Nat, c <= Len(a), c <= Len(b), \A k \in 1 .. c : a[k] = b[k]
  PROVE  LikeSoFar(x, t, y, u, c)
<1> DEFINE S == { k \in Nat : k <= c => LikeSoFar(x, t, y, u, k) }
<1>1. Len(a) \in Nat /\ Len(b) \in Nat /\ 0 \in 0 .. Len(a) /\ 0 \in 0 .. Len(b)
  BY LenProperties
<1>2. t \in [0 .. Len(a) -> Nat] /\ u \in [0 .. Len(b) -> Nat]
  BY DEF Played
<1>3. 0 \in S
  <2>1. t[0] = 0 /\ u[0] = 0 /\ x[1] = y[1]
    BY DEF Played
  <2>2. \A i \in 1 .. 0 + 1 : i = 1
    OBVIOUS
  <2> QED
    BY <2>1, <2>2 DEF LikeSoFar
<1>4. ASSUME NEW k \in Nat, k \in S
      PROVE  k + 1 \in S
  <2> SUFFICES ASSUME k + 1 <= c
               PROVE  LikeSoFar(x, t, y, u, k + 1)
    OBVIOUS
  <2>1. LikeSoFar(x, t, y, u, k)
    BY <1>1, <1>4
  <2>2. /\ k + 1 \in 1 .. Len(a) /\ k + 1 \in 1 .. Len(b) /\ (k + 1) - 1 = k
        /\ k \in 0 .. Len(a) /\ k \in 0 .. Len(b) /\ k + 1 \in 0 .. Len(a) /\ k + 1 \in 0 .. Len(b)
        /\ k + 1 \in 1 .. c
    BY <1>1
  <2>3. /\ Advances(x, t[k] + 1, t[k + 1] + 1, a[k + 1])
        /\ Advances(y, u[k] + 1, u[k + 1] + 1, a[k + 1])
    BY <2>2 DEF Played
  <2>4. t[k] \in Nat /\ t[k + 1] \in Nat /\ u[k + 1] \in Nat
    BY <1>2, <2>2
  <2>5. u[k] = t[k] /\ \A h \in 1 .. t[k] + 1 : x[h] = y[h]
    BY <2>1 DEF LikeSoFar
  <2> DEFINE p == t[k]
             q == t[k + 1]
             r == u[k + 1]
  <2>6. /\ p \in Nat /\ q \in Nat /\ r \in Nat /\ \A h \in 1 .. p + 1 : x[h] = y[h]
        /\ Advances(x, p + 1, q + 1, a[k + 1]) /\ Advances(y, p + 1, r + 1, a[k + 1])
    BY <2>3, <2>4, <2>5
  <2> HIDE DEF p, q, r
  <2>7. q = r /\ \A h \in 1 .. q + 1 : x[h] = y[h]
    BY <2>6, StepAlike
  <2> QED
    BY <2>7 DEF LikeSoFar, q, r
<1> HIDE DEF S
<1>5. c \in S
  BY <1>3, <1>4, SetInduction
<1> QED
  BY <1>5 DEF S

\* The turns taken when k moves have been made have k moves.
LEMMA MovesAreMade ==
  ASSUME NEW start, NEW moves \in Seq(Squares), NEW boards, NEW turn, Played(start, moves, boards, turn),
         NEW c \in 0 .. Len(moves)
  PROVE  Made(boards, turn[c]) = c
<1> DEFINE S == { k \in Nat : k <= c => Made(boards, turn[k]) = k }
<1>1. Len(moves) \in Nat /\ c \in Nat /\ c <= Len(moves)
  BY LenProperties
<1>2. turn \in [0 .. Len(moves) -> Nat] /\ turn[0] = 0
  BY DEF Played
<1>3. 0 \in S
  BY <1>2, MadeFirst
<1>4. ASSUME NEW k \in Nat, k \in S
      PROVE  k + 1 \in S
  <2> SUFFICES ASSUME k + 1 <= c
               PROVE  Made(boards, turn[k + 1]) = k + 1
    OBVIOUS
  <2>1. Made(boards, turn[k]) = k
    BY <1>1, <1>4
  <2>2. k + 1 \in 1 .. Len(moves) /\ (k + 1) - 1 = k /\ k \in 0 .. Len(moves) /\ k + 1 \in 0 .. Len(moves)
    BY <1>1
  <2> DEFINE p == turn[k]
             q == turn[k + 1]
             m == moves[k + 1]
  <2>3. p \in Nat /\ q \in Nat
    BY <1>2, <2>2
  <2>4. Advances(boards, p + 1, q + 1, m)
    BY <2>2 DEF Played
  <2>5. Made(boards, p) = k
    BY <2>1
  <2> HIDE DEF p, q, m
  <2>6. CASE q + 1 = p + 1 + 1 /\ m \in Moves[boards[p + 1]]
    <3>1. q = p + 1
      BY <2>3, <2>6
    <3>2. Made(boards, p + 1) = k + 1
      BY <2>3, <2>5, <2>6, MadeNext
    <3> QED
      BY <3>1, <3>2 DEF q
  <2>7. CASE /\ q + 1 = p + 1 + 2 /\ Moves[boards[p + 1]] = {} /\ m \in Moves[boards[p + 1 + 1]]
    <3>1. q = p + 1 + 1 /\ p + 1 \in Nat
      BY <2>3, <2>7
    <3>2. Made(boards, p + 1) = k
      BY <2>3, <2>5, <2>7, MadeNext
    <3>3. Made(boards, p + 1 + 1) = k + 1
      BY <2>7, <3>1, <3>2, MadeNext
    <3> QED
      BY <3>1, <3>3 DEF q
  <2> QED
    BY <2>4, <2>6, <2>7 DEF Advances, PassDue
<1> HIDE DEF S
<1>5. c \in S
  BY <1>1, <1>3, <1>4, SetInduction
<1> QED
  BY <1>5 DEF S

\* The move a game went on with after n moves, or none, can be made on the board
\* it had then, unless a pass is due there.
MoveFits(m, b) == Moves[b] # {} => m \in Moves[b] \cup {NoMove}

LEMMA NextMoveFits ==
  ASSUME NEW start, NEW moves \in Seq(Squares), NEW boards, NEW turn, Played(start, moves, boards, turn),
         NEW n \in 0 .. Len(moves)
  PROVE  MoveFits(MoveAt(moves, n + 1), boards[turn[n] + 1])
<1>1. Len(moves) \in Nat /\ DOMAIN moves = 1 .. Len(moves)
  BY LenProperties
<1>2. CASE n + 1 \in 1 .. Len(moves)
  <2>1. (n + 1) - 1 = n
    OBVIOUS
  <2>2. Advances(boards, turn[n] + 1, turn[n + 1] + 1, moves[n + 1])
    BY <1>2, <2>1 DEF Played
  <2>3. MoveAt(moves, n + 1) = moves[n + 1]
    BY <1>1, <1>2 DEF MoveAt
  <2> QED
    BY <2>2, <2>3 DEF Advances, PassDue, MoveFits
<1>3. CASE n + 1 \notin 1 .. Len(moves)
  BY <1>1, <1>3 DEF MoveAt, MoveFits
<1> QED
  BY <1>2, <1>3

\* The state of a replay, and where replaying k moves leads.
Replaying(w, b, t, n) == [ok |-> w, board |-> b, turns |-> t, passes |-> n]
Now(boards, turn, k) ==
  Replaying(TRUE, boards[turn[k] + 1], turn[k], turn[k] - k)

LEMMA NoPassToken == \A m \in Squares : m # PassToken
BY DEF Squares, PassToken

LEMMA ReplayingParts ==
  ASSUME NEW w, NEW b, NEW t, NEW n
  PROVE  /\ Replaying(w, b, t, n).ok = w /\ Replaying(w, b, t, n).board = b
         /\ Replaying(w, b, t, n).turns = t /\ Replaying(w, b, t, n).passes = n
BY DEF Replaying

WithBoard(r, x) == [r EXCEPT !.board = x]
WithTurns(r, x) == [r EXCEPT !.turns = x]
WithPasses(r, x) == [r EXCEPT !.passes = x]

LEMMA ReplayingSteps ==
  ASSUME NEW w, NEW b, NEW t, NEW n, NEW x
  PROVE  /\ WithBoard(Replaying(w, b, t, n), x) = Replaying(w, x, t, n)
         /\ WithTurns(Replaying(w, b, t, n), x) = Replaying(w, b, x, n)
         /\ WithPasses(Replaying(w, b, t, n), x) = Replaying(w, b, t, x)
<1>1. WithBoard(Replaying(w, b, t, n), x) = Replaying(w, x, t, n)
  BY DEF Replaying, WithBoard
<1>2. WithTurns(Replaying(w, b, t, n), x) = Replaying(w, b, x, n)
  BY DEF Replaying, WithTurns
<1>3. WithPasses(Replaying(w, b, t, n), x) = Replaying(w, b, t, x)
  BY DEF Replaying, WithPasses
<1> QED
  BY <1>1, <1>2, <1>3

Moved(r, m) == [r EXCEPT !.board = Play[@][m], !.turns = @ + 1]

LEMMA MovedIs ==
  ASSUME NEW r, NEW m
  PROVE  Moved(r, m) = WithTurns(WithBoard(r, Play[r.board][m]), r.turns + 1)
BY DEF Moved, WithTurns, WithBoard

LEMMA PassedIs ==
  ASSUME NEW r
  PROVE  Passed(r) = WithPasses(WithTurns(WithBoard(r, Pass[r.board]), r.turns + 1), r.passes + 1)
BY DEF Passed, WithPasses, WithTurns, WithBoard

LEMMA MoveReplayed ==
  ASSUME NEW w, NEW b, NEW t, NEW n, NEW m
  PROVE  Moved(Replaying(w, b, t, n), m) = Replaying(w, Play[b][m], t + 1, n)
<1> DEFINE r == Replaying(w, b, t, n)
           x == Play[b][m]
           y == t + 1
<1>1. r.board = b /\ r.turns = t
  BY ReplayingParts
<1> HIDE DEF r
<1>2. Moved(r, m) = WithTurns(WithBoard(r, x), y)
  BY <1>1, MovedIs
<1> HIDE DEF x, y
<1>3. Moved(r, m) = Replaying(w, x, y, n)
  BY <1>2, ReplayingSteps DEF r
<1> QED
  BY <1>3 DEF r, x, y

LEMMA PassReplayed ==
  ASSUME NEW w, NEW b, NEW t, NEW n
  PROVE  Passed(Replaying(w, b, t, n)) = Replaying(w, Pass[b], t + 1, n + 1)
<1> DEFINE r == Replaying(w, b, t, n)
           x == Pass[b]
           y == t + 1
           z == n + 1
<1>1. r.board = b /\ r.turns = t /\ r.passes = n
  BY ReplayingParts
<1> HIDE DEF r
<1>2. Passed(r) = WithPasses(WithTurns(WithBoard(r, x), y), z)
  BY <1>1, PassedIs
<1> HIDE DEF x, y, z
<1>3. Passed(r) = Replaying(w, x, y, z)
  BY <1>2, ReplayingSteps DEF r
<1> QED
  BY <1>3 DEF r, x, y, z

Holds(w) == w = TRUE

LEMMA TokenMoves ==
  ASSUME NEW w, Holds(w), NEW b, NEW t, NEW n, NEW m, m \in Moves[b]
  PROVE  ReplayToken(Replaying(w, b, t, n), m) = Replaying(w, Play[b][m], t + 1, n)
<1> DEFINE r == Replaying(w, b, t, n)
<1>1. r.ok = w /\ r.board = b
  BY ReplayingParts
<1>2. Moved(r, m) = Replaying(w, Play[b][m], t + 1, n)
  BY MoveReplayed
<1> HIDE DEF r
<1>3. ReplayToken(r, m) = Moved(r, m)
  BY <1>1 DEF Holds, ReplayToken, ReplayMove, Moved
<1> QED
  BY <1>2, <1>3 DEF r

LEMMA TokenPasses ==
  ASSUME NEW w, Holds(w), NEW b, NEW t, NEW n, NEW m \in Squares, PassDue(b), m \in Moves[Pass[b]]
  PROVE  ReplayToken(Replaying(w, b, t, n), m) = Replaying(w, Play[Pass[b]][m], t + 1 + 1, n + 1)
<1> DEFINE r == Replaying(w, b, t, n)
           i1 == t + 1
           n1 == n + 1
           p == Pass[b]
           q == Replaying(w, p, i1, n1)
<1>1. r.ok = w /\ r.board = b
  BY ReplayingParts
<1>2. Passed(r) = q
  BY PassReplayed
<1> HIDE DEF i1, n1, p
<1>3. q.board = p /\ m \in Moves[p]
  BY ReplayingParts DEF p
<1>4. Moved(q, m) = Replaying(w, Play[p][m], i1 + 1, n1)
  BY MoveReplayed
<1>5. m # PassToken
  BY NoPassToken
<1> HIDE DEF r, q
<1>6. ReplayToken(r, m) = ReplayMove(Passed(r), m)
  BY <1>1, <1>5 DEF Holds, ReplayToken, PassDue
<1>7. ReplayMove(q, m) = Moved(q, m)
  BY <1>3 DEF ReplayMove, Moved
<1>8. ReplayToken(r, m) = Replaying(w, Play[p][m], i1 + 1, n1)
  BY <1>2, <1>4, <1>6, <1>7
<1> QED
  BY <1>8 DEF r, i1, n1, p

\* One token leads from one board of the game to the board after the move.
Follows(boards, h, j, n, k, m) ==
  ReplayToken(Replaying(TRUE, boards[h + 1], h, n), m) = Replaying(TRUE, boards[j + 1], j, k)

LEMMA TokenFollows ==
  ASSUME NEW boards, NEW m \in Squares, NEW h \in Nat, NEW j \in Nat, NEW n \in Int, NEW k \in Int,
         Advances(boards, h + 1, j + 1, m), k = n + (j - h) - 1
  PROVE  Follows(boards, h, j, n, k, m)
<1> DEFINE w == TRUE
           b == boards[h + 1]
           t == h
           p == n
           x == Play[b][m]
           y == Play[Pass[b]][m]
<1>1. \/ j + 1 = h + 1 + 1 /\ m \in Moves[b] /\ boards[j + 1] = x
      \/ /\ j + 1 = h + 1 + 2 /\ PassDue(b)
         /\ m \in Moves[Pass[b]] /\ boards[j + 1] = y
  BY DEF Advances
<1>2. Holds(w)
  BY DEF Holds
<1> HIDE DEF w, b, t, p
<1>3. m \in Moves[b] => ReplayToken(Replaying(w, b, t, p), m) = Replaying(w, x, t + 1, p)
  BY <1>2, TokenMoves
<1>4. PassDue(b) /\ m \in Moves[Pass[b]]
        => ReplayToken(Replaying(w, b, t, p), m) = Replaying(w, y, t + 1 + 1, p + 1)
  BY <1>2, TokenPasses
<1>5. CASE j + 1 = h + 1 + 1 /\ m \in Moves[b] /\ boards[j + 1] = x
  <2>1. j = t + 1 /\ k = p
    BY <1>5 DEF t, p
  <2>2. ReplayToken(Replaying(w, b, t, p), m) = Replaying(w, boards[j + 1], j, k)
    BY <1>3, <1>5, <2>1
  <2> QED
    BY <2>2 DEF Follows, w, b, t, p
<1>6. CASE /\ j + 1 = h + 1 + 2 /\ PassDue(b)
           /\ m \in Moves[Pass[b]] /\ boards[j + 1] = y
  <2>1. j = t + 1 + 1 /\ k = p + 1
    BY <1>6 DEF t, p
  <2>2. ReplayToken(Replaying(w, b, t, p), m) = Replaying(w, boards[j + 1], j, k)
    BY <1>4, <1>6, <2>1
  <2> QED
    BY <2>2 DEF Follows, w, b, t, p
<1> QED
  BY <1>1, <1>5, <1>6

\* The first c moves of a game replay to the board it had after them.
LEMMA MovesReplay ==
  ASSUME NEW start, NEW moves \in Seq(Squares), NEW boards, NEW turn, Played(start, moves, boards, turn),
         NEW c \in 0 .. Len(moves)
  PROVE  ReplayMoves(start, SubSeq(moves, 1, c)) = Now(boards, turn, c)
<1> DEFINE s == SubSeq(moves, 1, c)
           Body(f) == [i \in 0 .. Len(s) |-> IF i = 0 THEN ReplayStart(start) ELSE ReplayToken(f[i - 1], s[i])]
           at == CHOOSE f : f = Body(f)
           g == [i \in 0 .. c |-> Now(boards, turn, i)]
<1>1. Len(moves) \in Nat /\ c \in Nat /\ c <= Len(moves)
  BY LenProperties
<1>2. Len(s) = c /\ \A i \in 1 .. c : s[i] = moves[i]
  <2>1. \A i \in 1 .. c : moves[i] \in Squares
    BY <1>1, ElementOfSeq
  <2>2. /\ Len(s) = IF 1 <= c THEN c - 1 + 1 ELSE 0
        /\ \A i \in 1 .. c - 1 + 1 : s[i] = moves[1 + i - 1]
    BY <1>1, <2>1, SubSeqProperties
  <2>3. \A i \in 1 .. c : i \in 1 .. c - 1 + 1 /\ 1 + i - 1 = i
    BY <1>1
  <2> QED
    BY <1>1, <2>2, <2>3
<1>3. turn \in [0 .. Len(moves) -> Nat] /\ turn[0] = 0 /\ boards[1] = start
  BY DEF Played
<1>4. Now(boards, turn, 0) = ReplayStart(start)
  BY <1>3 DEF Now, Replaying, ReplayStart
<1>5. ASSUME NEW i \in 1 .. c
      PROVE  Now(boards, turn, i) = ReplayToken(Now(boards, turn, i - 1), s[i])
  <2>1. i \in 1 .. Len(moves) /\ i - 1 \in 0 .. Len(moves) /\ i \in 0 .. Len(moves)
    BY <1>1
  <2>2. Advances(boards, turn[i - 1] + 1, turn[i] + 1, moves[i]) /\ moves[i] \in Squares
    BY <2>1, ElementOfSeq DEF Played
  <2>3. turn[i - 1] \in Nat /\ turn[i] \in Nat
    BY <1>3, <2>1
  <2> DEFINE h == turn[i - 1]
             j == turn[i]
             n == h - (i - 1)
  <2>4. n \in Int /\ n + (j - h) - 1 = j - i
    BY <2>3
  <2>5. Advances(boards, h + 1, j + 1, moves[i])
    BY <2>2
  <2> HIDE DEF h, j, n
  <2>6. Follows(boards, h, j, n, j - i, moves[i])
    <3> DEFINE k == j - i
               m == moves[i]
    <3>1. /\ h \in Nat /\ j \in Nat /\ k \in Int /\ m \in Squares
          /\ k = n + (j - h) - 1 /\ Advances(boards, h + 1, j + 1, m)
      BY <2>2, <2>3, <2>4, <2>5 DEF h, j
    <3> HIDE DEF k, m
    <3>2. Follows(boards, h, j, n, k, m)
      BY <2>4, <3>1, TokenFollows
    <3> QED
      BY <3>2 DEF k, m
  <2>7. Now(boards, turn, i) = Replaying(TRUE, boards[j + 1], j, j - i)
    BY DEF Now, j
  <2>8. Now(boards, turn, i - 1) = Replaying(TRUE, boards[h + 1], h, n)
    BY DEF Now, h, n
  <2> QED
    BY <1>2, <2>6, <2>7, <2>8 DEF Follows
<1> HIDE DEF s
<1>6. g = Body(g)
  <2> DEFINE f == g
  <2>1. f = [i \in 0 .. Len(s) |-> f[i]]
    BY <1>2
  <2>2. ASSUME NEW i \in 0 .. Len(s)
        PROVE  f[i] = IF i = 0 THEN ReplayStart(start) ELSE ReplayToken(f[i - 1], s[i])
    <3>1. CASE i = 0
      BY <1>1, <1>4, <3>1
    <3>2. CASE i # 0
      <4>1. i \in 1 .. c /\ i - 1 \in 0 .. c /\ i \in 0 .. c
        BY <1>1, <1>2, <3>2
      <4>2. f[i] = Now(boards, turn, i) /\ f[i - 1] = Now(boards, turn, i - 1)
        BY <4>1
      <4> HIDE DEF f
      <4> QED
        BY <1>5, <3>2, <4>1, <4>2
    <3> QED
      BY <3>1, <3>2
  <2> HIDE DEF f
  <2>3. f = Body(f)
    BY <2>1, <2>2
  <2> QED
    BY <2>3 DEF f
<1>7. at = Body(at)
  <2> HIDE DEF Body, g
  <2> QED
    BY <1>6
<1>8. \A i \in 0 .. Len(s) : at[i] = IF i = 0 THEN ReplayStart(start) ELSE ReplayToken(at[i - 1], s[i])
  <2> HIDE DEF at
  <2> QED
    BY <1>7
<1>9. ReplayMoves(start, s) = at[Len(s)]
  BY DEF ReplayMoves, at
<1>10. g[0] = ReplayStart(start) /\ g[c] = Now(boards, turn, c)
       /\ \A i \in 1 .. c : g[i] = ReplayToken(g[i - 1], s[i])
  <2>1. 0 \in 0 .. c /\ c \in 0 .. c
    BY <1>1
  <2>2. \A i \in 1 .. c : i \in 0 .. c /\ i - 1 \in 0 .. c
    BY <1>1
  <2>3. g[0] = ReplayStart(start) /\ g[c] = Now(boards, turn, c)
    BY <1>4, <2>1
  <2> QED
    BY <1>5, <2>2, <2>3
<1> HIDE DEF at, g
<1>11. ContinueAlike(g, at, c)
  <2>1. at[0] = ReplayStart(start)
    BY <1>1, <1>2, <1>8
  <2>2. \A i \in 1 .. c : i \in 0 .. Len(s) /\ i # 0
    BY <1>1, <1>2
  <2> QED
    BY <1>8, <1>10, <2>1, <2>2 DEF ContinueAlike
<1>12. g[c] = at[c]
  <2>1. Alike(g, at, c)
    BY <1>1, <1>11, RecursionUnique
  <2> QED
    BY <1>1, <2>1 DEF Alike
<1> QED
  BY <1>2, <1>9, <1>10, <1>12 DEF s

(***************************************************************************)
(* A pair of games.                                                        *)
(***************************************************************************)
\* The moves agree up to the n-th and differ after it.
PartAfter(x, y, n) ==
  /\ n \in 0 .. Len(x) /\ n \in 0 .. Len(y) /\ \A k \in 1 .. n : x[k] = y[k]
  /\ MoveAt(x, n + 1) # MoveAt(y, n + 1)

LEMMA MinIsLeast ==
  ASSUME NEW T \in SUBSET Nat, T # {}
  PROVE  Min(T) \in T /\ \A m \in T : Min(T) <= m
BY LeastElement DEF Min

LEMMA MinOfTwo ==
  ASSUME NEW a \in Nat, NEW b \in Nat
  PROVE  Min({a, b}) \in {a, b} /\ Min({a, b}) <= a /\ Min({a, b}) <= b
BY MinIsLeast

LEMMA CommonMovesAre ==
  ASSUME NEW x \in Seq(Squares), NEW y \in Seq(Squares)
  PROVE  \/ CommonMoves(x, y) = -1 /\ x = y
         \/ PartAfter(x, y, CommonMoves(x, y))
<1> DEFINE limit == Min({Len(x), Len(y)})
           different == { i \in 1 .. limit : x[i] # y[i] }
           n == CommonMoves(x, y)
           a == Len(x)
           b == Len(y)
<1>1. Len(x) \in Nat /\ Len(y) \in Nat /\ DOMAIN x = 1 .. Len(x) /\ DOMAIN y = 1 .. Len(y)
  BY LenProperties
<1>2. limit \in {a, b} /\ limit <= a /\ limit <= b /\ limit \in Nat /\ a \in Nat /\ b \in Nat
      /\ DOMAIN x = 1 .. a /\ DOMAIN y = 1 .. b
  BY <1>1, MinOfTwo
<1>3. n = IF different # {} THEN Min(different) - 1 ELSE IF a # b THEN limit ELSE -1
  BY DEF CommonMoves
<1>4. /\ \A i \in 1 .. Len(x) : x[i] \in Squares
      /\ \A i \in 1 .. Len(y) : y[i] \in Squares
  BY ElementOfSeq
<1>5. NoMove \notin Squares
  BY DEF NoMove, Squares
<1> HIDE DEF limit, n, a, b
<1>6. CASE different # {}
  <2> DEFINE d == Min(different)
  <2>1. different \in SUBSET Nat
    BY <1>2
  <2>2. d \in different /\ \A m \in different : d <= m
    BY <1>6, <2>1, MinIsLeast
  <2> HIDE DEF d
  <2>3. d \in 1 .. limit /\ x[d] # y[d] /\ n = d - 1
    BY <1>3, <1>6, <2>2 DEF d
  <2>4. ASSUME NEW k \in 1 .. n
        PROVE  x[k] = y[k]
    <3>1. k \in 1 .. limit /\ ~(d <= k)
      BY <1>2, <2>3
    <3> QED
      BY <2>2, <3>1
  <2>5. n + 1 = d /\ d \in DOMAIN x /\ d \in DOMAIN y /\ n \in 0 .. a /\ n \in 0 .. b
    BY <1>2, <2>3
  <2>6. MoveAt(x, n + 1) # MoveAt(y, n + 1)
    BY <2>3, <2>5 DEF MoveAt
  <2> QED
    BY <2>4, <2>5, <2>6 DEF PartAfter, n, a, b
<1>7. CASE different = {} /\ a # b
  <2>1. n = limit
    BY <1>3, <1>7
  <2>2. \A k \in 1 .. n : x[k] = y[k]
    BY <1>7, <2>1
  <2>3. n \in 0 .. a /\ n \in 0 .. b
    BY <1>2, <2>1
  <2>4. \/ n + 1 \in DOMAIN x /\ n + 1 \notin DOMAIN y
        \/ n + 1 \notin DOMAIN x /\ n + 1 \in DOMAIN y
    BY <1>2, <1>7, <2>1
  <2>5. MoveAt(x, n + 1) # MoveAt(y, n + 1)
    BY <1>1, <1>4, <1>5, <2>4 DEF MoveAt
  <2> QED
    BY <2>2, <2>3, <2>5 DEF PartAfter, n, a, b
<1>8. CASE different = {} /\ a = b
  <2>1. n = -1
    BY <1>3, <1>8
  <2>2. \A i \in 1 .. a : x[i] = y[i]
    BY <1>2, <1>8
  <2>3. x = y
    BY <1>8, <2>2, SeqEqual DEF a, b
  <2> QED
    BY <2>1, <2>3 DEF n
<1> QED
  BY <1>6, <1>7, <1>8

\* The same moves: the same boards, but for a pass one game was not there for.
PlayedTwice(x, y) == x = y \/ PassAhead(x, y) \/ PassAhead(y, x)

LEMMA PassIsAhead ==
  ASSUME NEW x \in Seq(Positions), NEW y \in Seq(Positions), NEW n \in Nat \ {0}, Len(x) = n, Len(y) = n + 1,
         \A k \in 1 .. n : x[k] = y[k], PassDue(y[n])
  PROVE  PassAhead(x, y)
<1> DEFINE s == SubSeq(x, 1, Len(x))
           t == SubSeq(y, 1, Len(x))
<1>1. \A k \in 1 .. n : x[k] \in Positions /\ y[k] \in Positions
  BY ElementOfSeq
<1>2. /\ s \in Seq(Positions) /\ Len(s) = n - 1 + 1
      /\ \A k \in 1 .. n - 1 + 1 : s[k] = x[1 + k - 1]
  BY <1>1, SubSeqProperties
<1>3. /\ t \in Seq(Positions) /\ Len(t) = n - 1 + 1
      /\ \A k \in 1 .. n - 1 + 1 : t[k] = y[1 + k - 1]
  BY <1>1, SubSeqProperties
<1>4. n - 1 + 1 = n /\ \A k \in 1 .. n : 1 + k - 1 = k
  OBVIOUS
<1> HIDE DEF s, t
<1>5. s = t
  <2>1. Len(s) = Len(t) /\ \A k \in 1 .. Len(s) : s[k] = t[k]
    BY <1>2, <1>3, <1>4
  <2> QED
    BY <1>2, <1>3, <2>1, SeqEqual
<1>6. IsPrefix(x, y)
  BY <1>5 DEF IsPrefix, s, t
<1>7. Last(x) = y[n]
  BY DEF Last
<1> QED
  BY <1>6, <1>7 DEF PassAhead, PassDue

LEMMA SameMovesPlayedTwice ==
  ASSUME NEW start, NEW moves \in Seq(Squares), NEW x \in Seq(Positions), NEW t, Played(start, moves, x, t),
         NEW y \in Seq(Positions), NEW u, Played(start, moves, y, u)
  PROVE  PlayedTwice(x, y)
<1> DEFINE c == Len(moves)
           n == t[c] + 1
<1>1. c \in Nat /\ c \in 0 .. c /\ Len(x) \in Nat /\ Len(y) \in Nat
  BY LenProperties
<1>2. t \in [0 .. c -> Nat] /\ EndsAt(x, t[c] + 1) /\ EndsAt(y, u[c] + 1)
  BY DEF Played
<1>3. LikeSoFar(x, t, y, u, c)
  <2>1. c <= Len(moves) /\ \A k \in 1 .. c : moves[k] = moves[k]
    BY <1>1
  <2> HIDE DEF c
  <2> QED
    BY <1>1, <2>1, SameMovesSameBoards
<1> HIDE DEF c
<1>4. t[c] \in Nat /\ u[c] = t[c]
  BY <1>1, <1>2, <1>3 DEF LikeSoFar
<1>5. n \in Nat \ {0} /\ EndsAt(x, n) /\ EndsAt(y, n) /\ \A k \in 1 .. n : x[k] = y[k]
  BY <1>2, <1>3, <1>4 DEF LikeSoFar
<1> HIDE DEF n
<1>6. n \in 1 .. n
  BY <1>5
<1>7. x[n] = y[n]
  BY <1>5, <1>6
<1>8. CASE Len(x) = n /\ Len(y) = n
  <2>1. x = y
    BY <1>5, <1>8, SeqEqual
  <2> QED
    BY <2>1 DEF PlayedTwice
<1>9. CASE Len(x) = n /\ Len(y) = n + 1
  <2>1. PassDue(y[n])
    BY <1>5, <1>9 DEF EndsAt
  <2> QED
    BY <1>5, <1>9, <2>1, PassIsAhead DEF PlayedTwice
<1>10. CASE Len(y) = n /\ Len(x) = n + 1
  <2>1. PassDue(x[n])
    BY <1>5, <1>10 DEF EndsAt
  <2>2. \A k \in 1 .. n : y[k] = x[k]
    BY <1>5
  <2> QED
    BY <1>5, <1>10, <2>1, <2>2, PassIsAhead DEF PlayedTwice
<1>11. CASE Len(x) = n + 1 /\ Len(y) = n + 1
  <2>1. x[n + 1] = y[n + 1]
    BY <1>5, <1>7, <1>11 DEF EndsAt
  <2>2. \A k \in 1 .. n + 1 : k \in 1 .. n \/ k = n + 1
    BY <1>5
  <2>3. \A k \in 1 .. Len(x) : x[k] = y[k]
    BY <1>5, <1>11, <2>1, <2>2
  <2>4. x = y
    BY <1>11, <2>3, SeqEqual
  <2> QED
    BY <2>4 DEF PlayedTwice
<1> QED
  BY <1>5, <1>8, <1>9, <1>10, <1>11 DEF EndsAt

\* What the replay tool keeps of a record.
Kept(r) == [name \in DOMAIN Kinds |-> r[name]]

LEMMA KeptParts ==
  ASSUME NEW r
  PROVE  /\ Kept(r).game_index = r.game_index /\ Kept(r).opening_index = r.opening_index
         /\ Kept(r).opening_name = r.opening_name /\ Kept(r).opening_moves = r.opening_moves
         /\ Kept(r).start_board = r.start_board /\ Kept(r).black_is_player_a = r.black_is_player_a
         /\ Kept(r).score_diff_from_player_a = r.score_diff_from_player_a /\ Kept(r).moves = r.moves
         /\ Kept(r).illegal_or_error = r.illegal_or_error
BY DEF Kept, Kinds

Pair(ok, found) == [ok |-> ok, found |-> found]
LEMMA PairParts ==
  ASSUME NEW ok, NEW found
  PROVE  Pair(ok, found).ok = ok /\ Pair(ok, found).found = found
BY DEF Pair

\* The divergence after the n common moves, r having replayed them.
Divergence(p, head, base, n, r, moves, common, flag) ==
  [pair_index |-> p, head_game_index |-> head.game_index, base_game_index |-> base.game_index,
   ply |-> Len(moves) + r.turns, side_to_move |-> SideToMove(r.board), board |-> r.board,
   head_move |-> MoveAt(head.moves, n + 1), base_move |-> MoveAt(base.moves, n + 1),
   head_final_diff |-> head.score_diff_from_player_a,
   base_game_head_final_diff |-> base.score_diff_from_player_a, illegal_or_error |-> flag,
   preceding_moves |-> moves \o common]

BrokenOff(first, second) == first.illegal_or_error \/ second.illegal_or_error

\* What becomes of a pair.
LEMMA OtherOpening ==
  ASSUME NEW p, NEW first, NEW second, ~SameOpening(first, second)
  PROVE  PairDivergence(p, first, second) = Pair(FALSE, {})
BY DEF PairDivergence, Pair

LEMMA NoDifference ==
  ASSUME NEW p, NEW first, NEW second, SameOpening(first, second),
         CommonMoves(first.moves, second.moves) < 0
  PROVE  PairDivergence(p, first, second) = Pair(TRUE, {})
BY DEF PairDivergence, Pair

LEMMA SamePlayer ==
  ASSUME NEW p, NEW first, NEW second, SameOpening(first, second), NEW n,
         n = CommonMoves(first.moves, second.moves), ~(n < 0), NEW r,
         r = ReplayMoves(first.start_board, SubSeq(first.moves, 1, n)),
         Player(SideToMove(r.board), first.black_is_player_a)
           = Player(SideToMove(r.board), second.black_is_player_a)
  PROVE  PairDivergence(p, first, second) = Pair(FALSE, {})
BY DEF PairDivergence, Pair

\* Up to the n-th move the first game replays to r, and then the second differs.
Splits(first, second, n, r) ==
  /\ SameOpening(first, second) /\ n = CommonMoves(first.moves, second.moves) /\ ~(n < 0)
  /\ r = ReplayMoves(first.start_board, SubSeq(first.moves, 1, n)) /\ r.ok
ToMove(r, record) == Player(SideToMove(r.board), record.black_is_player_a)
Diverges(p, first, second, d) == PairDivergence(p, first, second) = Pair(TRUE, {d})

LEMMA HeadFirst ==
  ASSUME NEW p, NEW first, NEW second, NEW n, NEW r, Splits(first, second, n, r),
         ToMove(r, first) = "A", ToMove(r, second) = "B"
  PROVE  Diverges(p, first, second,
                  Divergence(p, first, second, n, r, first.opening_moves, SubSeq(first.moves, 1, n),
                             BrokenOff(first, second)))
BY DEF Splits, ToMove, Diverges, PairDivergence, Pair, Divergence, BrokenOff

LEMMA HeadSecond ==
  ASSUME NEW p, NEW first, NEW second, NEW n, NEW r, Splits(first, second, n, r),
         ToMove(r, first) = "B", ToMove(r, second) = "A"
  PROVE  Diverges(p, first, second,
                  Divergence(p, second, first, n, r, first.opening_moves, SubSeq(first.moves, 1, n),
                             BrokenOff(first, second)))
BY DEF Splits, ToMove, Diverges, PairDivergence, Pair, Divergence, BrokenOff

\* The divergence d stands on the games of head and base.
StandsOn(d, head, base) ==
  LET shown == d.ply - Len(head.opening_moves) + 1
      made == Made(head.boards, shown - 1)
  IN  /\ shown \in DOMAIN head.boards \cap DOMAIN base.boards
      /\ head.boards[shown] = d.board /\ base.boards[shown] = d.board
      /\ SubSeq(head.boards, 1, shown) = SubSeq(base.boards, 1, shown)
      /\ d.preceding_moves = head.opening_moves \o SubSeq(head.moves, 1, made)
      /\ d.preceding_moves = base.opening_moves \o SubSeq(base.moves, 1, made)
      /\ d.head_move = MoveAt(head.moves, made + 1) /\ d.base_move = MoveAt(base.moves, made + 1)
      /\ d.head_move # d.base_move
      /\ Moves[d.board] # {} => {d.head_move, d.base_move} \subseteq Moves[d.board] \cup {NoMove}
      /\ Player(d.side_to_move, head.black_is_player_a) = "A"
      /\ d.head_final_diff = head.score_diff_from_player_a
      /\ d.base_game_head_final_diff = base.score_diff_from_player_a
Told(d, p, head, base) ==
  /\ d.pair_index = p /\ d.head_game_index = head.game_index
  /\ d.base_game_index = base.game_index /\ StandsOn(d, head, base)

\* The games of head and base went over the same boards up to the k-th.
BothShow(head, base, k, board) ==
  /\ head.boards \in Seq(Positions) /\ base.boards \in Seq(Positions)
  /\ k \in DOMAIN head.boards /\ k \in DOMAIN base.boards
  /\ head.boards[k] = board /\ base.boards[k] = board
  /\ \A h \in 1 .. k : head.boards[h] = base.boards[h]

LEMMA SameBeginning ==
  ASSUME NEW S, NEW x \in Seq(S), NEW y \in Seq(S), NEW k \in Nat, k <= Len(x), k <= Len(y),
         \A h \in 1 .. k : x[h] = y[h]
  PROVE  SubSeq(x, 1, k) = SubSeq(y, 1, k)
<1> DEFINE s == SubSeq(x, 1, k)
           t == SubSeq(y, 1, k)
<1>1. k - 1 + 1 = k /\ \A h \in 1 .. k : 1 + h - 1 = h
  OBVIOUS
<1>2. \A h \in 1 .. k : x[h] \in S /\ y[h] \in S
  BY LenProperties, ElementOfSeq
<1>3. s \in Seq(S) /\ Len(s) = (IF 1 <= k THEN k - 1 + 1 ELSE 0)
      /\ \A h \in 1 .. k - 1 + 1 : s[h] = x[1 + h - 1]
  BY <1>1, <1>2, SubSeqProperties
<1>4. t \in Seq(S) /\ Len(t) = (IF 1 <= k THEN k - 1 + 1 ELSE 0)
      /\ \A h \in 1 .. k - 1 + 1 : t[h] = y[1 + h - 1]
  BY <1>1, <1>2, SubSeqProperties
<1> HIDE DEF s, t
<1>5. Len(s) = Len(t) /\ \A h \in 1 .. Len(s) : s[h] = t[h]
  BY <1>1, <1>3, <1>4
<1>6. s = t
  BY <1>3, <1>4, <1>5, SeqEqual
<1> QED
  BY <1>6 DEF s, t

LEMMA DivergenceStands ==
  ASSUME NEW p, NEW head, NEW base, NEW n, NEW r, NEW moves, NEW common, NEW flag,
         r.turns \in Nat, BothShow(head, base, r.turns + 1, r.board),
         MoveAt(head.moves, n + 1) # MoveAt(base.moves, n + 1),
         MoveFits(MoveAt(head.moves, n + 1), r.board), MoveFits(MoveAt(base.moves, n + 1), r.board),
         Player(SideToMove(r.board), head.black_is_player_a) = "A",
         Made(head.boards, r.turns) = n, Len(moves) \in Nat,
         moves = head.opening_moves, moves = base.opening_moves,
         common = SubSeq(head.moves, 1, n), common = SubSeq(base.moves, 1, n)
  PROVE  Told(Divergence(p, Kept(head), Kept(base), n, r, moves, common, flag), p, head, base)
<1> DEFINE d == Divergence(p, Kept(head), Kept(base), n, r, moves, common, flag)
           k == r.turns + 1
           x == Kept(head)
           y == Kept(base)
<1>1. /\ x.game_index = head.game_index /\ x.moves = head.moves
      /\ x.score_diff_from_player_a = head.score_diff_from_player_a
      /\ y.game_index = base.game_index /\ y.moves = base.moves
      /\ y.score_diff_from_player_a = base.score_diff_from_player_a
  BY KeptParts
<1> HIDE DEF x, y
<1>2. d = Divergence(p, x, y, n, r, moves, common, flag)
  BY DEF x, y
<1> HIDE DEF d
<1>3. /\ d.pair_index = p /\ d.head_game_index = x.game_index
      /\ d.base_game_index = y.game_index /\ d.ply = Len(moves) + r.turns
      /\ d.side_to_move = SideToMove(r.board) /\ d.board = r.board
      /\ d.head_move = MoveAt(x.moves, n + 1) /\ d.base_move = MoveAt(y.moves, n + 1)
      /\ d.head_final_diff = x.score_diff_from_player_a
      /\ d.base_game_head_final_diff = y.score_diff_from_player_a
      /\ d.preceding_moves = moves \o common
  BY <1>2 DEF Divergence
<1>4. d.ply - Len(head.opening_moves) + 1 = k
  <2> DEFINE m == Len(moves)
  <2>1. m \in Nat /\ d.ply = m + r.turns /\ Len(head.opening_moves) = m
    BY <1>3
  <2> HIDE DEF m
  <2> QED
    BY <2>1
<1>5. SubSeq(head.boards, 1, k) = SubSeq(base.boards, 1, k)
  <2>1. k \in Nat /\ k <= Len(head.boards) /\ k <= Len(base.boards)
    BY LenProperties DEF BothShow
  <2> QED
    BY <2>1, SameBeginning DEF BothShow
<1>6. k - 1 = r.turns
  OBVIOUS
<1> HIDE DEF k
<1>7. k \in DOMAIN head.boards \cap DOMAIN base.boards
  BY DEF BothShow, k
<1>8. head.boards[k] = d.board /\ base.boards[k] = d.board
  BY <1>3 DEF BothShow, k
<1>9. d.head_move = MoveAt(head.moves, n + 1) /\ d.base_move = MoveAt(base.moves, n + 1)
  BY <1>1, <1>3
<1>10. Moves[d.board] # {} => {d.head_move, d.base_move} \subseteq Moves[d.board] \cup {NoMove}
  BY <1>3, <1>9 DEF MoveFits
<1>11. StandsOn(d, head, base)
  BY <1>1, <1>3, <1>4, <1>5, <1>6, <1>7, <1>8, <1>9, <1>10 DEF StandsOn
<1> QED
  BY <1>1, <1>3, <1>11 DEF Told, d

\* The two games of a pair share an opening and swap the sides.
LEMMA HalvesOfPair ==
  ASSUME NEW p \in Nat
  PROVE  /\ (2 * p) \div 2 = p /\ (2 * p + 1) \div 2 = p
         /\ (2 * p) % 2 = 0 /\ (2 * p + 1) % 2 # 0
OBVIOUS

\* A pair as a match with sides swapped plays it.
Swapped(a, b) ==
  /\ SameOpening(Kept(a), Kept(b)) /\ a.black_is_player_a = TRUE /\ b.black_is_player_a = FALSE

LEMMA PairIsSwapped ==
  ASSUME NEW c \in Matches, c.swap_sides, NEW p \in Nat,
         NEW a, SetUp(a, c, 2 * p + 1), NEW b, SetUp(b, c, 2 * p + 2)
  PROVE  Swapped(a, b)
<1>1. c.swap_sides = TRUE
  BY MatchAssumption DEF MatchType
<1>2. 2 * p + 1 - 1 = 2 * p /\ 2 * p + 2 - 1 = 2 * p + 1
  OBVIOUS
<1>3. /\ (2 * p) \div 2 = p /\ (2 * p + 1) \div 2 = p
      /\ (2 * p) % 2 = 0 /\ (2 * p + 1) % 2 # 0
  BY HalvesOfPair
<1>4. IndexOf(c, 2 * p + 1) = p % Len(c.openings) /\ IndexOf(c, 2 * p + 2) = p % Len(c.openings)
  <2> DEFINE m == Len(c.openings)
  <2>1. /\ IndexOf(c, 2 * p + 1) = OpeningIndexForGame(2 * p, TRUE, m)
        /\ IndexOf(c, 2 * p + 2) = OpeningIndexForGame(2 * p + 1, TRUE, m)
    BY <1>1, <1>2 DEF IndexOf
  <2> HIDE DEF m
  <2>2. OpeningIndexForGame(2 * p, TRUE, m) = p % m /\ OpeningIndexForGame(2 * p + 1, TRUE, m) = p % m
    BY <1>3 DEF OpeningIndexForGame
  <2> QED
    BY <2>1, <2>2 DEF m
<1>5. OpeningOf(c, 2 * p + 1) = OpeningOf(c, 2 * p + 2)
  BY <1>4 DEF OpeningOf
<1>6. /\ a.opening_index = b.opening_index /\ a.opening_name = b.opening_name
      /\ a.opening_moves = b.opening_moves /\ a.start_board = b.start_board
  BY <1>4, <1>5 DEF SetUp
<1>7. SameOpening(Kept(a), Kept(b))
  BY <1>6, KeptParts DEF SameOpening
<1>8. a.black_is_player_a = BlackIsPlayerA(2 * p, TRUE) /\ b.black_is_player_a = BlackIsPlayerA(2 * p + 1, TRUE)
  BY <1>1, <1>2 DEF SetUp
<1>9. BlackIsPlayerA(2 * p, TRUE) = TRUE /\ BlackIsPlayerA(2 * p + 1, TRUE) = FALSE
  BY <1>3 DEF BlackIsPlayerA
<1> QED
  BY <1>7, <1>8, <1>9 DEF Swapped

LEMMA PlayersDiffer ==
  ASSUME NEW side
  PROVE  Player(side, TRUE) # Player(side, FALSE)
BY DEF Player

LEMMA TwoPlayers ==
  ASSUME NEW side, NEW w
  PROVE  Player(side, w) = "A" \/ Player(side, w) = "B"
BY DEF Player

\* What becomes of a pair of games with a common opening, or not.
Outcome(pair, p, a, b) ==
  \/ pair.found = {} /\ (pair.ok => PlayedTwice(a.boards, b.boards))
  \/ \E d : pair.found = {d} /\ pair.ok /\ (Told(d, p, a, b) \/ Told(d, p, b, a))

LEMMA OutcomeOfPair ==
  ASSUME NEW p, NEW c, NEW i, NEW j, NEW a, RecordInv(a, c, i), NEW b, RecordInv(b, c, j)
  PROVE  /\ Outcome(PairDivergence(p, Kept(a), Kept(b)), p, a, b)
         /\ Swapped(a, b) => PairDivergence(p, Kept(a), Kept(b)).ok
<1> DEFINE f == Kept(a)
           s == Kept(b)
           pair == PairDivergence(p, f, s)
           n == CommonMoves(f.moves, s.moves)
           r == ReplayMoves(f.start_board, SubSeq(f.moves, 1, n))
           x == Player(SideToMove(r.board), f.black_is_player_a)
           y == Player(SideToMove(r.board), s.black_is_player_a)
           common == SubSeq(f.moves, 1, n)
           flag == BrokenOff(f, s)
<1>1. /\ f.moves = a.moves /\ s.moves = b.moves /\ f.start_board = a.start_board
      /\ s.start_board = b.start_board /\ f.opening_moves = a.opening_moves
      /\ s.opening_moves = b.opening_moves
      /\ f.black_is_player_a = a.black_is_player_a /\ s.black_is_player_a = b.black_is_player_a
  BY KeptParts
<1>3. Swapped(a, b) => SameOpening(f, s) /\ x # y
  BY <1>1, PlayersDiffer DEF Swapped
<1> HIDE DEF f, s
<1>4. CASE ~SameOpening(f, s)
  <2>1. pair = Pair(FALSE, {})
    BY <1>4, OtherOpening
  <2> HIDE DEF pair
  <2>2. pair.found = {} /\ pair.ok = FALSE
    BY <2>1 DEF Pair
  <2>3. Outcome(pair, p, a, b)
    BY <2>2 DEF Outcome
  <2> QED
    BY <1>3, <1>4, <2>3 DEF pair, f, s
<1>5. ASSUME SameOpening(f, s)
      PROVE  a.start_board = b.start_board /\ a.opening_moves = b.opening_moves
  BY <1>1, <1>5 DEF SameOpening
<1>6. /\ a.moves \in Seq(Squares) /\ b.moves \in Seq(Squares)
      /\ a.boards \in Seq(Positions) /\ b.boards \in Seq(Positions)
      /\ a.opening_moves \in Seq(Squares) /\ b.opening_moves \in Seq(Squares)
  BY DEF RecordInv, Records
<1>7. PICK t : Played(a.start_board, a.moves, a.boards, t)
  BY DEF RecordInv
<1>8. PICK u : Played(b.start_board, b.moves, b.boards, u)
  BY DEF RecordInv
<1>9. CASE SameOpening(f, s) /\ n < 0
  <2>1. a.moves = b.moves
    BY <1>1, <1>6, <1>9, CommonMovesAre DEF PartAfter
  <2>2. PlayedTwice(a.boards, b.boards)
    BY <1>5, <1>6, <1>7, <1>8, <1>9, <2>1, SameMovesPlayedTwice
  <2>3. pair = Pair(TRUE, {})
    BY <1>9, NoDifference
  <2>4. pair.found = {} /\ pair.ok = TRUE
    BY <2>3, PairParts
  <2> HIDE DEF pair
  <2>5. Outcome(pair, p, a, b)
    BY <2>2, <2>4 DEF Outcome
  <2> QED
    BY <2>4, <2>5 DEF pair, f, s
<1>10. CASE SameOpening(f, s) /\ ~(n < 0)
  <2>1. PartAfter(a.moves, b.moves, n)
    BY <1>1, <1>6, <1>10, CommonMovesAre
  <2>2. n \in 0 .. Len(a.moves) /\ n \in 0 .. Len(b.moves) /\ n \in Nat /\ n <= Len(a.moves)
        /\ n <= Len(b.moves) /\ \A k \in 1 .. n : a.moves[k] = b.moves[k]
    BY <1>6, <2>1, LenProperties DEF PartAfter
  <2> HIDE DEF n
  <2>3. r = Now(a.boards, t, n)
    BY <1>1, <1>6, <1>7, <2>2, MovesReplay
  <2>4. LikeSoFar(a.boards, t, b.boards, u, n)
    BY <1>5, <1>6, <1>7, <1>8, <1>10, <2>2, SameMovesSameBoards
  <2>5. /\ t \in [0 .. Len(a.moves) -> Nat] /\ t[n] + 1 \in DOMAIN a.boards
        /\ u[n] + 1 \in DOMAIN b.boards
    BY <1>7, <1>8, <2>2 DEF Played
  <2> HIDE DEF r
  <2>6. r.ok = TRUE /\ r.board = a.boards[t[n] + 1] /\ r.turns = t[n]
    BY <2>3 DEF Now, Replaying
  <2>7. r.turns \in Nat /\ r.turns + 1 \in 1 .. r.turns + 1
    BY <2>2, <2>5, <2>6
  <2>8. BothShow(a, b, r.turns + 1, r.board)
    BY <1>6, <2>4, <2>5, <2>6, <2>7 DEF BothShow, LikeSoFar
  <2>9. BothShow(b, a, r.turns + 1, r.board)
    BY <2>8 DEF BothShow
  <2>10. MoveAt(a.moves, n + 1) # MoveAt(b.moves, n + 1)
    BY <2>1 DEF PartAfter
  <2>11. common = SubSeq(a.moves, 1, n) /\ common = SubSeq(b.moves, 1, n)
    BY <1>1, <1>6, <2>2, SameBeginning
  <2> HIDE DEF common
  <2>12. u[n] = t[n]
    BY <2>4 DEF LikeSoFar
  <2>13. Made(a.boards, r.turns) = n /\ Made(b.boards, r.turns) = n
    BY <1>6, <1>7, <1>8, <2>2, <2>6, <2>12, MovesAreMade
  <2>14. MoveFits(MoveAt(a.moves, n + 1), r.board) /\ MoveFits(MoveAt(b.moves, n + 1), r.board)
    <3>1. r.board = b.boards[u[n] + 1]
      BY <2>6, <2>8, <2>12 DEF BothShow
    <3> QED
      BY <1>6, <1>7, <1>8, <2>2, <2>6, <3>1, NextMoveFits
  <2>15. Len(f.opening_moves) \in Nat /\ f.opening_moves = a.opening_moves
         /\ f.opening_moves = b.opening_moves
    BY <1>1, <1>5, <1>6, <1>10, LenProperties
  <2>16. CASE x = y
    <3>1. pair = Pair(FALSE, {})
      BY <1>10, <2>16, SamePlayer DEF n, r
    <3> HIDE DEF pair, x, y
    <3>2. pair.found = {} /\ pair.ok = FALSE
      BY <3>1 DEF Pair
    <3>3. Outcome(pair, p, a, b)
      BY <3>2 DEF Outcome
    <3> QED
      BY <1>3, <2>16, <3>3 DEF pair, f, s
  <2>17. CASE x = "A" /\ y = "B"
    <3> DEFINE d == Divergence(p, f, s, n, r, f.opening_moves, common, flag)
    <3>1. Diverges(p, f, s, Divergence(p, f, s, n, r, f.opening_moves, common, BrokenOff(f, s)))
      <4>1. Splits(f, s, n, r)
        BY <1>10, <2>6 DEF Splits, n, r
      <4>2. ToMove(r, f) = x /\ ToMove(r, s) = y
        BY DEF ToMove
      <4> HIDE DEF x, y
      <4> QED
        BY <4>1, <4>2, <2>17, HeadFirst DEF common
    <3>2. Told(d, p, a, b)
      <4>1. Player(SideToMove(r.board), a.black_is_player_a) = "A"
        BY <1>1, <2>17
      <4> HIDE DEF flag
      <4> QED
        BY <2>7, <2>8, <2>10, <2>15, <2>11, <2>13, <2>14, <4>1, DivergenceStands DEF f, s
    <3>3. pair = Pair(TRUE, {d})
      BY <3>1 DEF Diverges
    <3> HIDE DEF d
    <3>4. pair.found = {d} /\ pair.ok = TRUE
      BY <3>3, PairParts
    <3> HIDE DEF pair
    <3>5. Outcome(pair, p, a, b)
      BY <3>2, <3>4 DEF Outcome
    <3> QED
      BY <3>4, <3>5 DEF pair, f, s
  <2>18. CASE x = "B" /\ y = "A"
    <3> DEFINE d == Divergence(p, s, f, n, r, f.opening_moves, common, flag)
    <3>1. Diverges(p, f, s, Divergence(p, s, f, n, r, f.opening_moves, common, BrokenOff(f, s)))
      <4>1. Splits(f, s, n, r)
        BY <1>10, <2>6 DEF Splits, n, r
      <4>2. ToMove(r, f) = x /\ ToMove(r, s) = y
        BY DEF ToMove
      <4> HIDE DEF x, y
      <4> QED
        BY <4>1, <4>2, <2>18, HeadSecond DEF common
    <3>2. Told(d, p, b, a)
      <4>1. Player(SideToMove(r.board), b.black_is_player_a) = "A"
        BY <1>1, <2>18
      <4>2. MoveAt(b.moves, n + 1) # MoveAt(a.moves, n + 1)
        BY <2>10
      <4> HIDE DEF flag
      <4> QED
        BY <2>7, <2>9, <2>15, <2>11, <2>13, <2>14, <4>1, <4>2, DivergenceStands DEF f, s
    <3>3. pair = Pair(TRUE, {d})
      BY <3>1 DEF Diverges
    <3> HIDE DEF d
    <3>4. pair.found = {d} /\ pair.ok = TRUE
      BY <3>3, PairParts
    <3> HIDE DEF pair
    <3>5. Outcome(pair, p, a, b)
      BY <3>2, <3>4 DEF Outcome
    <3> QED
      BY <3>4, <3>5 DEF pair, f, s
  <2> QED
    BY <2>16, <2>17, <2>18, TwoPlayers
<1> QED
  BY <1>4, <1>9, <1>10

(***************************************************************************)
(* The file.                                                               *)
(***************************************************************************)
FileLines ==
  { MatchLine(r) : r \in Records } \cup { SubSeq(MatchLine(r), 1, n) : r \in Records, n \in Nat }

\* Every line is that of its record, but for a torn last one, which cannot be read.
FileInv ==
  /\ file \in [lines : Seq(FileLines), closed : BOOLEAN, torn : BOOLEAN]
  /\ file.closed \/ file.lines # << >> => MatchOver
  /\ Len(file.lines) <= Len(records)
  /\ file.torn => /\ file.closed /\ file.lines # << >>
                  /\ ParseMatchRecord(file.lines[Len(file.lines)]) = {}
  /\ \A i \in DOMAIN file.lines :
       (file.torn /\ i = Len(file.lines)) \/ file.lines[i] = MatchLine(records[i])

LEMMA FileInit == Init => FileInv
<1> SUFFICES ASSUME Init
             PROVE  FileInv
  OBVIOUS
<1>1. file.lines = << >> /\ file.closed = FALSE /\ file.torn = FALSE /\ records = << >> /\ file = NoFile
  BY DEF Init, NoFile
<1>2. << >> \in Seq(FileLines) /\ Len(<< >>) = 0 /\ DOMAIN << >> = {}
  BY EmptySeq
<1>3. file \in [lines : Seq(FileLines), closed : BOOLEAN, torn : BOOLEAN]
  BY <1>1, <1>2 DEF NoFile
<1> QED
  BY <1>1, <1>2, <1>3 DEF FileInv

\* A line is not empty.
LEMMA LineIsLong ==
  ASSUME NEW r \in Records
  PROVE  Len(MatchLine(r)) \in Nat \ {0}
<1> DEFINE fields == MatchFields(r)
           line == MatchLine(r)
<1>1. RecordParts(r) /\ line = ObjectOf(fields)
  BY RecordsHaveParts, LineIsFields
<1>2. IsFields(fields)
  BY <1>1, MatchFieldsAre
<1> HIDE DEF fields, line
<1>3. PICK T : Marked(T) /\ GoodFields(fields, T)
  BY <1>2, FieldsAreGood
<1>4. Len(line) \in Nat /\ DOMAIN line = 1 .. Len(line) /\ KindAt(line, 1) = "begin_object"
  BY <1>1, <1>3, LineShape
<1>5. 1 \in DOMAIN line
  BY <1>4 DEF KindAt
<1> QED
  BY <1>4, <1>5 DEF line

LEMMA LineIsOne ==
  ASSUME NEW r \in Records
  PROVE  MatchLine(r) \in FileLines /\ \A n \in Nat : SubSeq(MatchLine(r), 1, n) \in FileLines
BY DEF FileLines

LEMMA LinesBefore ==
  ASSUME NEW S, NEW s \in Seq(S), NEW n \in 1 .. Len(s)
  PROVE  /\ SubSeq(s, 1, n - 1) \in Seq(S) /\ Len(SubSeq(s, 1, n - 1)) = n - 1
         /\ \A i \in 1 .. n - 1 : SubSeq(s, 1, n - 1)[i] = s[i]
<1> DEFINE t == SubSeq(s, 1, n - 1)
           l == Len(s)
<1>1. l \in Nat /\ n \in 1 .. l
  BY LenProperties
<1>2. \A i \in 1 .. n - 1 : s[i] \in S
  <2>1. \A i \in 1 .. n - 1 : i \in 1 .. l
    BY <1>1
  <2> QED
    BY <2>1, ElementOfSeq
<1>3. n - 1 \in Int
  BY <1>1
<1>4. /\ t \in Seq(S) /\ Len(t) = (IF 1 <= n - 1 THEN n - 1 - 1 + 1 ELSE 0)
      /\ \A i \in 1 .. n - 1 - 1 + 1 : t[i] = s[1 + i - 1]
  BY <1>2, <1>3, SubSeqProperties
<1> HIDE DEF t, l
<1>5. Len(t) = n - 1
  BY <1>1, <1>4
<1>6. \A i \in 1 .. n - 1 : i \in 1 .. n - 1 - 1 + 1 /\ 1 + i - 1 = i
  BY <1>1
<1> QED
  BY <1>4, <1>5, <1>6 DEF t

\* A row with its tail cut off, and one with a piece left of the next line.
LEMMA TailIsCut ==
  ASSUME NEW S, NEW s \in Seq(S), NEW n \in 1 .. Len(s)
  PROVE  /\ SubSeq(s, 1, n - 1) \o << >> \in Seq(S) /\ Len(SubSeq(s, 1, n - 1) \o << >>) = n - 1
         /\ \A i \in 1 .. n - 1 : (SubSeq(s, 1, n - 1) \o << >>)[i] = s[i]
BY LinesBefore, ConcatEmptySeq

EndsWith(t, S, s, n, x) ==
  t \in Seq(S) /\ Len(t) = n /\ t[n] = x /\ \A i \in 1 .. n - 1 : t[i] = s[i]

LEMMA PieceIsLeft ==
  ASSUME NEW S, NEW s \in Seq(S), NEW n \in 1 .. Len(s), NEW x \in S
  PROVE  EndsWith(SubSeq(s, 1, n - 1) \o <<x>>, S, s, n, x)
<1> DEFINE t == SubSeq(s, 1, n - 1)
           u == <<x>>
<1>1. t \in Seq(S) /\ Len(t) = n - 1 /\ \A i \in 1 .. n - 1 : t[i] = s[i]
  BY LinesBefore
<1>2. u \in Seq(S) /\ Len(u) = 1 /\ u[1] = x
  OBVIOUS
<1> HIDE DEF t, u
<1>3. n \in Nat \ {0}
  BY LenProperties
<1>4. /\ t \o u \in Seq(S) /\ Len(t \o u) = Len(t) + Len(u)
      /\ \A i \in 1 .. Len(t) + Len(u) : (t \o u)[i] = IF i <= Len(t) THEN t[i] ELSE u[i - Len(t)]
  BY <1>1, <1>2, ConcatProperties
<1> DEFINE v == t \o u
<1> HIDE DEF v
<1>5. Len(v) = n
  BY <1>1, <1>2, <1>3, <1>4 DEF v
<1>6. \A i \in 1 .. n : v[i] = IF i <= n - 1 THEN t[i] ELSE u[i - (n - 1)]
  BY <1>1, <1>2, <1>3, <1>4 DEF v
<1>7. v[n] = x
  <2>1. n \in 1 .. n /\ ~(n <= n - 1) /\ n - (n - 1) = 1
    BY <1>3
  <2> QED
    BY <1>2, <1>6, <2>1
<1>8. \A i \in 1 .. n - 1 : v[i] = s[i]
  <2>1. \A i \in 1 .. n - 1 : i \in 1 .. n /\ i <= n - 1
    BY <1>3
  <2> QED
    BY <1>1, <1>6, <2>1
<1> QED
  BY <1>4, <1>5, <1>7, <1>8 DEF EndsWith, t, u, v

\* As long as the match goes on there is no file.
FileWaits == UNCHANGED file /\ ~MatchOver /\ Len(records') \in Nat

LEMMA FileStays ==
  ASSUME FileInv, FileWaits
  PROVE  FileInv'
<1>1. file' = file /\ file.closed = FALSE /\ file.lines = << >> /\ file.torn = FALSE
  BY DEF FileInv, FileWaits
<1>2. Len(<< >>) = 0 /\ DOMAIN << >> = {}
  OBVIOUS
<1>3. file \in [lines : Seq(FileLines), closed : BOOLEAN, torn : BOOLEAN]
  BY DEF FileInv
<1>4. Len(records') \in Nat
  BY DEF FileWaits
<1> QED
  BY <1>1, <1>2, <1>3, <1>4 DEF FileInv

LEMMA FileUnchanged ==
  ASSUME FileInv, UNCHANGED <<match, game, records, file>>
  PROVE  FileInv'
BY DEF FileInv, MatchOver

LEMMA GameIsOn ==
  ASSUME RunnerInv, RunnerInv', StartGame \/ GamePass \/ GameMove \/ GameBreaks \/ FinishGame
  PROVE  FileWaits
<1>1. UNCHANGED file
  BY DEF StartGame, GamePass, GameMove, GameBreaks, FinishGame
<1>2. Len(records') \in Nat
  BY LenProperties DEF RunnerInv
<1>3. ~MatchOver
  <2>1. CASE StartGame
    BY <2>1 DEF StartGame, GamesLeft, MatchOver
  <2>2. CASE GamePass \/ GameMove \/ GameBreaks \/ FinishGame
    <3>1. game.pc \in {"play", "finish"}
      BY <2>2 DEF GamePass, GameMove, GameBreaks, FinishGame
    <3> QED
      BY <3>1 DEF MatchOver, NoGame
  <2> QED
    BY <2>1, <2>2
<1> QED
  BY <1>1, <1>2, <1>3 DEF FileWaits

\* The file, in its three fields.
LEMMA FileFields ==
  ASSUME FileInv
  PROVE  /\ file.lines \in Seq(FileLines) /\ Len(file.lines) \in Nat
         /\ DOMAIN file.lines = 1 .. Len(file.lines)
         /\ file.closed \in BOOLEAN /\ file.torn \in BOOLEAN
         /\ file = [lines |-> file.lines, closed |-> file.closed, torn |-> file.torn]
<1>1. /\ file.lines \in Seq(FileLines) /\ file.closed \in BOOLEAN /\ file.torn \in BOOLEAN
      /\ file = [lines |-> file.lines, closed |-> file.closed, torn |-> file.torn]
  BY DEF FileInv
<1> QED
  BY <1>1, LenProperties

LEMMA RecordIsWritten ==
  ASSUME RunnerInv, FileInv, WriteRecord
  PROVE  FileInv'
<1> DEFINE n == Len(file.lines)
           line == MatchLine(records[n + 1])
           new == Append(file.lines, line)
<1>1. /\ MatchOver /\ file.closed = FALSE /\ n < Len(records) /\ UNCHANGED <<match, game, records, replay>>
      /\ file' = [file EXCEPT !.lines = new]
  BY DEF WriteRecord, FileInv
<1>2. file.lines \in Seq(FileLines) /\ n \in Nat /\ DOMAIN file.lines = 1 .. n /\ file.torn = FALSE
  BY <1>1, FileFields DEF FileInv
<1>3. records \in Seq(Records) /\ Len(records) \in Nat
  BY LenProperties DEF RunnerInv
<1>4. n + 1 \in 1 .. Len(records)
  BY <1>1, <1>2, <1>3
<1>5. line \in FileLines
  BY <1>3, <1>4, ElementOfSeq, LineIsOne
<1> HIDE DEF line
<1>6. /\ new \in Seq(FileLines) /\ Len(new) = n + 1 /\ new # << >>
      /\ \A i \in 1 .. n : new[i] = file.lines[i]
      /\ new[n + 1] = line
  BY <1>2, <1>5, AppendProperties
<1> HIDE DEF new
<1>7. file'.lines = new /\ file'.closed = FALSE /\ file'.torn = FALSE
      /\ file' \in [lines : Seq(FileLines), closed : BOOLEAN, torn : BOOLEAN]
  BY <1>1, <1>2, <1>6 DEF FileInv
<1> HIDE DEF n
<1>8. \A i \in DOMAIN new : new[i] = MatchLine(records[i])
  <2>1. DOMAIN new = 1 .. n + 1
    BY <1>6, LenProperties
  <2>2. \A i \in 1 .. n : file.lines[i] = MatchLine(records[i])
    BY <1>2 DEF FileInv
  <2>3. \A i \in 1 .. n + 1 : i \in 1 .. n \/ i = n + 1
    BY <1>2
  <2> QED
    BY <1>6, <2>1, <2>2, <2>3 DEF line
<1>9. Len(new) <= Len(records)
  BY <1>2, <1>3, <1>4, <1>6
<1>10. MatchOver'
  BY <1>1 DEF MatchOver
<1>11. records' = records
  BY <1>1
<1> QED
  BY <1>7, <1>8, <1>9, <1>10, <1>11 DEF FileInv

LEMMA FileIsClosed ==
  ASSUME RunnerInv, FileInv, CloseFile
  PROVE  FileInv'
<1>1. /\ MatchOver /\ UNCHANGED <<match, game, records, replay>>
      /\ file' = [file EXCEPT !.closed = TRUE] /\ ~file.closed
  BY DEF CloseFile
<1>2. file.torn = FALSE
  BY <1>1 DEF FileInv
<1>3. file'.lines = file.lines /\ file'.closed = TRUE /\ file'.torn = FALSE
      /\ file' \in [lines : Seq(FileLines), closed : BOOLEAN, torn : BOOLEAN]
  BY <1>1, <1>2 DEF FileInv
<1>4. MatchOver' /\ records' = records
  BY <1>1 DEF MatchOver
<1>5. Len(file.lines) <= Len(records) /\ \A i \in DOMAIN file.lines : file.lines[i] = MatchLine(records[i])
  BY <1>2 DEF FileInv
<1> QED
  BY <1>3, <1>4, <1>5 DEF FileInv

LEMMA TailIsLost ==
  ASSUME RunnerInv, FileInv, LoseTail
  PROVE  FileInv'
<1>1. /\ MatchOver /\ UNCHANGED <<match, game, records, replay>> /\ ~file.closed
      /\ Len(file.lines) = Len(records)
  BY DEF LoseTail
<1>2. PICK n \in DOMAIN file.lines :
        \E cut \in 0 .. Len(file.lines[n]) - 1 :
          file' = [lines |-> SubSeq(file.lines, 1, n - 1)
                              \o (IF cut = 0 THEN << >> ELSE <<SubSeq(file.lines[n], 1, cut)>>),
                   closed |-> TRUE, torn |-> cut # 0]
  BY DEF LoseTail
<1> DEFINE s == file.lines
           line == s[n]
<1>3. PICK cut \in 0 .. Len(line) - 1 :
        file' = [lines |-> SubSeq(s, 1, n - 1) \o (IF cut = 0 THEN << >> ELSE <<SubSeq(line, 1, cut)>>),
                 closed |-> TRUE, torn |-> cut # 0]
  BY <1>2
<1>4. s \in Seq(FileLines) /\ Len(s) \in Nat /\ DOMAIN s = 1 .. Len(s) /\ file.torn = FALSE
  BY <1>1, FileFields DEF FileInv
<1>5. records \in Seq(Records) /\ Len(records) = Len(s)
  BY <1>1 DEF RunnerInv
<1>6. n \in 1 .. Len(s) /\ records[n] \in Records
  BY <1>4, <1>5, ElementOfSeq
<1>7. \A i \in DOMAIN s : s[i] = MatchLine(records[i])
  BY <1>4 DEF FileInv
<1>8. line = MatchLine(records[n]) /\ Len(line) \in Nat \ {0}
  BY <1>4, <1>6, <1>7, LineIsLong
<1>9. MatchOver' /\ records' = records
  BY <1>1 DEF MatchOver
<1> DEFINE m == Len(s)
           l == Len(line)
<1>10. n \in 1 .. m /\ m \in Nat /\ l \in Nat \ {0} /\ n <= m /\ n - 1 <= m
  BY <1>4, <1>6, <1>8
<1>11. \A i \in 1 .. n - 1 : i \in DOMAIN s /\ i # n
  BY <1>4, <1>6, <1>10
<1>12. CASE cut = 0
  <2> DEFINE t == SubSeq(s, 1, n - 1) \o << >>
  <2>1. t \in Seq(FileLines) /\ Len(t) = n - 1 /\ \A i \in 1 .. n - 1 : t[i] = s[i]
    BY <1>4, <1>6, TailIsCut
  <2>2. file' = [lines |-> t, closed |-> TRUE, torn |-> FALSE]
    BY <1>3, <1>12
  <2> HIDE DEF t, s, m
  <2>3. DOMAIN t = 1 .. n - 1
    BY <2>1, LenProperties
  <2>4. file'.lines = t /\ file'.closed = TRUE /\ file'.torn = FALSE
        /\ file' \in [lines : Seq(FileLines), closed : BOOLEAN, torn : BOOLEAN]
    BY <2>1, <2>2
  <2>5. Len(t) <= Len(records)
    BY <1>5, <1>10, <2>1 DEF m
  <2>6. \A i \in DOMAIN t : t[i] = MatchLine(records[i])
    BY <1>7, <1>11, <2>1, <2>3
  <2> QED
    BY <1>9, <2>4, <2>5, <2>6 DEF FileInv
<1>13. CASE cut # 0
  <2> DEFINE x == SubSeq(line, 1, cut)
             t == SubSeq(s, 1, n - 1) \o <<x>>
  <2>1. cut \in 1 .. l - 1
    BY <1>10, <1>13
  <2>2. x \in FileLines /\ ParseMatchRecord(x) = {}
    BY <1>6, <1>8, <2>1, LineIsOne, MatchLineReadsBack
  <2>3. file' = [lines |-> t, closed |-> TRUE, torn |-> TRUE]
    BY <1>3, <1>13
  <2> HIDE DEF x
  <2>4. t \in Seq(FileLines) /\ Len(t) = n /\ t[n] = x /\ \A i \in 1 .. n - 1 : t[i] = s[i]
    <3>1. s \in Seq(FileLines) /\ n \in 1 .. Len(s) /\ x \in FileLines
      BY <1>4, <1>6, <2>2
    <3> HIDE DEF s, m, l, line
    <3>2. EndsWith(t, FileLines, s, n, x)
      BY <3>1, PieceIsLeft
    <3> QED
      BY <3>2 DEF EndsWith
  <2> HIDE DEF t, s, m
  <2>5. DOMAIN t = 1 .. n /\ t # << >>
    BY <1>10, <2>4, LenProperties
  <2>6. file'.lines = t /\ file'.closed = TRUE /\ file'.torn = TRUE
        /\ file' \in [lines : Seq(FileLines), closed : BOOLEAN, torn : BOOLEAN]
    BY <2>3, <2>4
  <2>7. Len(t) <= Len(records)
    BY <1>5, <1>10, <2>4 DEF m
  <2>8. \A i \in DOMAIN t : i = Len(t) \/ t[i] = MatchLine(records[i])
    <3>1. \A i \in 1 .. n : i = n \/ i \in 1 .. n - 1
      BY <1>10
    <3> QED
      BY <1>7, <1>11, <2>4, <2>5, <3>1
  <2> QED
    BY <1>9, <2>2, <2>4, <2>5, <2>6, <2>7, <2>8 DEF FileInv
<1> QED
  BY <1>12, <1>13

LEMMA FileStep == RunnerInv /\ RunnerInv' /\ FileInv /\ [Next]_vars => FileInv'
<1> SUFFICES ASSUME RunnerInv, RunnerInv', FileInv, [Next]_vars
             PROVE  FileInv'
  OBVIOUS
<1>1. CASE UNCHANGED vars
  BY <1>1, FileUnchanged DEF vars
<1>2. CASE StartGame \/ GamePass \/ GameMove \/ GameBreaks \/ FinishGame
  BY <1>2, GameIsOn, FileStays
<1>3. CASE WriteRecord
  BY <1>3, RecordIsWritten
<1>4. CASE CloseFile
  BY <1>4, FileIsClosed
<1>5. CASE LoseTail
  BY <1>5, TailIsLost
<1>6. CASE ReplayTool
  BY <1>6, FileUnchanged DEF ReplayTool, StartReplay, ReadRecord, RefuseLine, EndRead, ExtractPair, Render
<1> QED
  BY <1>1, <1>2, <1>3, <1>4, <1>5, <1>6 DEF Next, Runner

(***************************************************************************)
(* The replay tool.                                                        *)
(***************************************************************************)
LEMMA NothingInOrder == SetToSeq({}) = << >>
<1> DEFINE F == [1 .. Cardinality({}) -> {}]
           f == CHOOSE g \in F : IsInjective(g)
<1>1. Cardinality({}) = 0
  BY FS_EmptySet
<1>2. \A g \in F : g = << >>
  <2>1. F = [{} -> {}]
    BY <1>1
  <2> QED
    BY <2>1
<1>3. << >> \in F /\ IsInjective(<< >>)
  BY <1>1 DEF IsInjective
<1>4. f \in F
  BY <1>3
<1> QED
  BY <1>2, <1>4 DEF SetToSeq

LEMMA OneInOrder ==
  ASSUME NEW d
  PROVE  SetToSeq({d}) = <<d>>
<1> DEFINE S == {d}
           F == [1 .. Cardinality(S) -> S]
           f == CHOOSE g \in F : IsInjective(g)
<1>1. Cardinality(S) = 1
  BY FS_Singleton
<1>2. \A g \in F : g = <<d>>
  BY <1>1
<1>3. <<d>> \in F
  BY <1>1
<1>4. IsInjective(<<d>>)
  BY DEF IsInjective
<1>5. f \in F
  BY <1>3, <1>4
<1>6. SetToSeq(S) = f
  BY DEF SetToSeq
<1> QED
  BY <1>2, <1>5, <1>6

KeptRecords == { Kept(r) : r \in Records }
Reported ==
  UNION { PairDivergence(p, a, b).found : p \in Nat, a \in KeptRecords, b \in KeptRecords }

\* The divergence d stands on the games of its pair.
Shown(d) ==
  \E p \in Nat :
    /\ 2 * p + 2 <= Len(records)
    /\ \/ Told(d, p, records[2 * p + 1], records[2 * p + 2])
       \/ Told(d, p, records[2 * p + 2], records[2 * p + 1])

\* The p-th pair has a divergence, or is one game played twice.
PairCovered(p) ==
  \/ \E k \in DOMAIN replay.divergences : replay.divergences[k].pair_index = p
  \/ PlayedTwice(records[2 * p + 1].boards, records[2 * p + 2].boards)

ReplayType ==
  [pc : {"idle", "read", "refused", "extract", "reported"}, read : Nat,
   records : Seq(KeptRecords), pairs : Nat, divergences : Seq(Reported)]

\* The replay tool starts on a closed file, and has the first records of the match.
HasRead ==
  /\ IF replay.pc = "idle" THEN replay = IdleReplay ELSE file.closed
  /\ Len(replay.records) = replay.read /\ replay.read <= Len(file.lines)
  /\ file.torn => replay.read < Len(file.lines)
  /\ \A i \in DOMAIN replay.records : replay.records[i] = Kept(records[i])

\* It pairs them off when it has read them all.
HasPaired ==
  /\ replay.pc \in {"idle", "read"} => replay.pairs = 0
  /\ replay.pc \in {"extract", "reported"} => replay.read = Len(file.lines)
  /\ replay.pc = "extract" => \E n \in Nat : replay.read = 2 * n
  /\ 2 * replay.pairs <= replay.read
  /\ replay.pc = "reported" => 2 * replay.pairs = replay.read

HasFound ==
  /\ \A k \in DOMAIN replay.divergences : Shown(replay.divergences[k])
  /\ \A p \in 0 .. replay.pairs - 1 : PairCovered(p)

ReplayInv ==
  replay \in ReplayType /\ HasRead /\ HasPaired /\ HasFound /\ RefusalsJustified

LEMMA IdleIsType == IdleReplay \in ReplayType
<1>1. << >> \in Seq(KeptRecords) /\ << >> \in Seq(Reported)
  BY EmptySeq
<1> QED
  BY <1>1 DEF IdleReplay, ReplayType

Idle == replay = IdleReplay

LEMMA NothingReplayed == FileInv /\ Idle => ReplayInv
<1> SUFFICES ASSUME FileInv, replay = IdleReplay
             PROVE  ReplayInv
  BY DEF Idle
<1>1. /\ replay.pc = "idle" /\ replay.read = 0 /\ replay.records = << >> /\ replay.pairs = 0
      /\ replay.divergences = << >>
  BY DEF IdleReplay
<1>2. Len(<< >>) = 0 /\ DOMAIN << >> = {}
  OBVIOUS
<1>3. Len(file.lines) \in Nat /\ (file.torn => file.lines # << >>) /\ file.lines \in Seq(FileLines)
  BY FileFields DEF FileInv
<1>4. file.torn => Len(file.lines) # 0
  BY <1>3, EmptySeq, LenProperties
<1>5. HasRead
  BY <1>1, <1>2, <1>3, <1>4 DEF HasRead
<1>6. HasPaired
  BY <1>1 DEF HasPaired
<1>7. HasFound
  BY <1>1, <1>2 DEF HasFound
<1>8. RefusalsJustified
  BY <1>1 DEF RefusalsJustified
<1> QED
  BY <1>5, <1>6, <1>7, <1>8, IdleIsType DEF ReplayInv

LEMMA ReplayInit == Init => ReplayInv
BY FileInit, NothingReplayed DEF Init, Idle

\* While the runner runs, the replay tool waits.
LEMMA RunnerWaitsNot ==
  ASSUME FileInv, Runner
  PROVE  file.closed = FALSE /\ UNCHANGED replay
<1>1. CASE StartGame
  BY <1>1 DEF StartGame, GamesLeft, FileInv, MatchOver
<1>2. CASE GamePass \/ GameMove \/ GameBreaks \/ FinishGame
  <2>1. game.pc \in {"play", "finish"} /\ UNCHANGED <<file, replay>>
    BY <1>2 DEF GamePass, GameMove, GameBreaks, FinishGame
  <2>2. ~MatchOver
    BY <2>1 DEF MatchOver, NoGame
  <2> QED
    BY <2>1, <2>2 DEF FileInv
<1>3. CASE WriteRecord \/ CloseFile \/ LoseTail
  BY <1>3 DEF WriteRecord, CloseFile, LoseTail, FileInv
<1> QED
  BY <1>1, <1>2, <1>3 DEF Runner

LEMMA RunnerLeavesReplay ==
  ASSUME FileInv, FileInv', ReplayInv, Runner
  PROVE  ReplayInv'
<1>1. file.closed = FALSE /\ replay' = replay
  BY RunnerWaitsNot
<1>2. replay = IdleReplay
  BY <1>1 DEF ReplayInv, HasRead
<1>3. Idle'
  BY <1>1, <1>2 DEF Idle
<1> QED
  BY <1>3, NothingReplayed, PTL

LEMMA FoundStays ==
  ASSUME HasFound, UNCHANGED records, replay'.pairs = replay.pairs,
         replay'.divergences = replay.divergences
  PROVE  HasFound'
BY DEF HasFound, Shown, PairCovered

LEMMA ReplayUnchanged ==
  ASSUME ReplayInv, UNCHANGED vars
  PROVE  ReplayInv'
<1>1. HasFound'
  BY FoundStays DEF ReplayInv, vars
<1>2. replay' \in ReplayType /\ HasRead' /\ HasPaired'
  BY DEF ReplayInv, HasRead, HasPaired, vars
<1>3. RefusalsJustified'
  BY DEF ReplayInv, RefusalsJustified, Whole, vars
<1> QED
  BY <1>1, <1>2, <1>3 DEF ReplayInv

LEMMA ReplayFields ==
  ASSUME ReplayInv
  PROVE  /\ replay.pc \in {"idle", "read", "refused", "extract", "reported"} /\ replay.read \in Nat
         /\ replay.records \in Seq(KeptRecords) /\ replay.pairs \in Nat
         /\ replay.divergences \in Seq(Reported)
         /\ DOMAIN replay.records = 1 .. replay.read /\ Len(replay.records) = replay.read
<1>1. /\ replay.pc \in {"idle", "read", "refused", "extract", "reported"} /\ replay.read \in Nat
      /\ replay.records \in Seq(KeptRecords) /\ replay.pairs \in Nat
      /\ replay.divergences \in Seq(Reported)
  BY DEF ReplayInv, ReplayType
<1>2. Len(replay.records) = replay.read
  BY DEF ReplayInv, HasRead
<1> QED
  BY <1>1, <1>2, LenProperties

\* A step that changes nothing but where the tool stands.
LEMMA OnlyPlace ==
  ASSUME ReplayInv, NEW x \in {"read", "refused", "extract", "reported"},
         replay' = [replay EXCEPT !.pc = x]
  PROVE  /\ replay'.pc = x /\ replay'.read = replay.read /\ replay'.records = replay.records
         /\ replay'.pairs = replay.pairs /\ replay'.divergences = replay.divergences
         /\ replay' \in ReplayType
<1>1. replay \in ReplayType
  BY DEF ReplayInv
<1> QED
  BY <1>1 DEF ReplayType

LEMMA ReplayStarts ==
  ASSUME FileInv, ReplayInv, StartReplay
  PROVE  ReplayInv'
<1>1. /\ replay.pc = "idle" /\ file.closed /\ UNCHANGED <<match, game, records, file>>
      /\ replay' = [replay EXCEPT !.pc = "read"]
  BY DEF StartReplay
<1>2. /\ replay'.pc = "read" /\ replay'.read = replay.read /\ replay'.records = replay.records
      /\ replay'.pairs = replay.pairs /\ replay'.divergences = replay.divergences
      /\ replay' \in ReplayType
  BY <1>1, OnlyPlace
<1>3. HasFound'
  BY <1>1, <1>2, FoundStays DEF ReplayInv
<1>4. HasRead'
  BY <1>1, <1>2 DEF ReplayInv, HasRead
<1>5. HasPaired'
  BY <1>1, <1>2 DEF ReplayInv, HasPaired
<1>6. RefusalsJustified'
  BY <1>2 DEF RefusalsJustified
<1> QED
  BY <1>2, <1>3, <1>4, <1>5, <1>6 DEF ReplayInv

\* A whole line is read, and as its record.
LEMMA WholeLine ==
  ASSUME RunnerInv, FileInv, NEW i \in DOMAIN file.lines, ~(file.torn /\ i = Len(file.lines))
  PROVE  /\ records[i] \in Records
         /\ ParseMatchRecord(file.lines[i]) = {Kept(records[i])}
<1>1. file.lines[i] = MatchLine(records[i])
  BY DEF FileInv
<1>2. records \in Seq(Records) /\ Len(records) \in Nat /\ Len(file.lines) <= Len(records)
      /\ Len(file.lines) \in Nat /\ i \in 1 .. Len(file.lines)
  BY FileFields, LenProperties DEF RunnerInv, FileInv
<1>3. i \in 1 .. Len(records)
  BY <1>2
<1>4. records[i] \in Records
  BY <1>2, <1>3, ElementOfSeq
<1> QED
  BY <1>1, <1>4, MatchLineReadsBack DEF Kept

LEMMA LineIsReadBack ==
  ASSUME RunnerInv, FileInv, ReplayInv, ReadRecord
  PROVE  ReplayInv'
<1> DEFINE n == replay.read
           m == Len(file.lines)
<1>1. replay.pc = "read" /\ n < m /\ UNCHANGED <<match, game, records, file>>
  BY DEF ReadRecord, LineToRead
<1>2. PICK r \in ParseMatchRecord(file.lines[n + 1]) :
        replay' = [replay EXCEPT !.read = @ + 1, !.records = Append(@, r)]
  BY DEF ReadRecord, NextLine
<1>3. /\ n \in Nat /\ replay.records \in Seq(KeptRecords) /\ Len(replay.records) = n
      /\ replay \in ReplayType /\ DOMAIN replay.records = 1 .. n
  BY ReplayFields DEF ReplayInv
<1>4. m \in Nat /\ DOMAIN file.lines = 1 .. m
  BY FileFields
<1>5. n + 1 \in DOMAIN file.lines
  BY <1>1, <1>3, <1>4
<1>6. ~(file.torn /\ n + 1 = m)
  <2>1. file.torn => file.lines[m] # file.lines[n + 1]
    <3>1. file.torn => ParseMatchRecord(file.lines[m]) = {}
      BY DEF FileInv
    <3> QED
      BY <1>2, <3>1
  <2> QED
    BY <2>1
<1>7. r = Kept(records[n + 1]) /\ r \in KeptRecords
  BY <1>2, <1>5, <1>6, WholeLine DEF KeptRecords
<1> DEFINE new == Append(replay.records, r)
<1>8. new \in Seq(KeptRecords) /\ Len(new) = n + 1 /\ new[n + 1] = r
      /\ \A i \in 1 .. n : new[i] = replay.records[i]
  BY <1>3, <1>7, AppendProperties
<1>9. DOMAIN new = 1 .. n + 1
  BY <1>8, LenProperties
<1>10. replay' = [replay EXCEPT !.read = n + 1, !.records = new]
  BY <1>2
<1> HIDE DEF new
<1>11. /\ replay'.pc = "read" /\ replay'.read = n + 1 /\ replay'.records = new
       /\ replay'.pairs = replay.pairs /\ replay'.divergences = replay.divergences
       /\ replay' \in ReplayType
  <2>1. n + 1 \in Nat
    BY <1>3
  <2> HIDE DEF n
  <2> QED
    BY <1>1, <1>3, <1>8, <1>10, <2>1 DEF ReplayType
<1>12. HasFound'
  BY <1>1, <1>11, FoundStays DEF ReplayInv
<1>13. \A i \in DOMAIN new : new[i] = Kept(records[i])
  <2>1. \A i \in 1 .. n : replay.records[i] = Kept(records[i])
    BY <1>3 DEF ReplayInv, HasRead
  <2>2. \A i \in 1 .. n + 1 : i \in 1 .. n \/ i = n + 1
    BY <1>3
  <2> QED
    BY <1>7, <1>8, <1>9, <2>1, <2>2
<1>14. file.closed /\ n + 1 <= m /\ (file.torn => n + 1 < m)
  BY <1>1, <1>3, <1>4, <1>6 DEF ReplayInv, HasRead
<1>15. HasRead'
  <2>1. file' = file /\ records' = records
    BY <1>1
  <2> QED
    BY <1>8, <1>11, <1>13, <1>14, <2>1 DEF HasRead
<1>16. HasPaired'
  BY <1>1, <1>3, <1>11 DEF ReplayInv, HasPaired
<1>17. RefusalsJustified'
  BY <1>11 DEF RefusalsJustified
<1> QED
  BY <1>11, <1>12, <1>15, <1>16, <1>17 DEF ReplayInv

LEMMA LineIsRefused ==
  ASSUME RunnerInv, FileInv, ReplayInv, RefuseLine
  PROVE  ReplayInv'
<1> DEFINE n == replay.read
<1>1. /\ replay.pc = "read" /\ n < Len(file.lines) /\ UNCHANGED <<match, game, records, file>>
      /\ ParseMatchRecord(file.lines[n + 1]) = {} /\ replay' = [replay EXCEPT !.pc = "refused"]
  BY DEF RefuseLine, LineToRead, NextLine
<1>2. /\ replay'.pc = "refused" /\ replay'.read = replay.read /\ replay'.records = replay.records
      /\ replay'.pairs = replay.pairs /\ replay'.divergences = replay.divergences
      /\ replay' \in ReplayType
  BY <1>1, OnlyPlace
<1>3. HasFound'
  BY <1>1, <1>2, FoundStays DEF ReplayInv
<1>4. HasRead'
  BY <1>1, <1>2 DEF ReplayInv, HasRead
<1>5. HasPaired'
  BY <1>1, <1>2 DEF ReplayInv, HasPaired
<1>6. n \in Nat /\ Len(file.lines) \in Nat /\ DOMAIN file.lines = 1 .. Len(file.lines)
  BY FileFields, ReplayFields
<1>7. n + 1 \in DOMAIN file.lines
  BY <1>1, <1>6
<1>8. file.torn
  <2>1. SUFFICES ASSUME ~file.torn
                 PROVE  FALSE
    OBVIOUS
  <2>2. ParseMatchRecord(file.lines[n + 1]) = {Kept(records[n + 1])}
    BY <1>7, <2>1, WholeLine
  <2> QED
    BY <1>1, <2>2
<1>9. RefusalsJustified'
  BY <1>1, <1>2, <1>8 DEF RefusalsJustified, Whole
<1> QED
  BY <1>2, <1>3, <1>4, <1>5, <1>9 DEF ReplayInv

LEMMA GamesOfMatch ==
  ASSUME RunnerInv
  PROVE  match \in Matches /\ match.games \in Nat \ {0}
BY MatchAssumption DEF RunnerInv, MatchType

LEMMA EvenOrOdd ==
  ASSUME NEW n \in Nat
  PROVE  n % 2 = 0 => \E k \in Nat : n = 2 * k
<1>1. n % 2 = 0 => n = 2 * (n \div 2) /\ n \div 2 \in Nat
  OBVIOUS
<1> QED
  BY <1>1

LEMMA FileIsRead ==
  ASSUME RunnerInv, FileInv, ReplayInv, EndRead
  PROVE  ReplayInv'
<1> DEFINE n == replay.read
           none == replay.records = << >> \/ Len(replay.records) % 2 # 0
           x == IF none THEN "refused" ELSE "extract"
<1>1. /\ replay.pc = "read" /\ n = Len(file.lines) /\ UNCHANGED <<match, game, records, file>>
      /\ replay' = [replay EXCEPT !.pc = x]
  BY DEF EndRead
<1>2. x \in {"read", "refused", "extract", "reported"}
  OBVIOUS
<1>3. /\ replay'.pc = x /\ replay'.read = replay.read /\ replay'.records = replay.records
      /\ replay'.pairs = replay.pairs /\ replay'.divergences = replay.divergences
      /\ replay' \in ReplayType
  BY <1>1, <1>2, OnlyPlace
<1>4. HasFound'
  BY <1>1, <1>3, FoundStays DEF ReplayInv
<1>5. n \in Nat /\ Len(replay.records) = n /\ replay.records \in Seq(KeptRecords)
  BY ReplayFields
<1>6. ~file.torn
  BY <1>1, <1>5 DEF ReplayInv, HasRead
<1>7. file.closed
  BY <1>1 DEF ReplayInv, HasRead
<1>8. x # "idle" /\ x # "read" /\ x # "reported"
  OBVIOUS
<1>9. x = "extract" => n % 2 = 0
  BY <1>5
<1>10. x = "refused" => n = 0 \/ n % 2 # 0
  BY <1>5
<1> HIDE DEF x
<1>11. HasRead'
  BY <1>1, <1>3, <1>7, <1>8 DEF ReplayInv, HasRead
<1>12. HasPaired'
  <2>1. x = "extract" => \E k \in Nat : n = 2 * k
    BY <1>5, <1>9, EvenOrOdd
  <2> QED
    BY <1>1, <1>3, <1>8, <2>1 DEF ReplayInv, HasPaired
<1>13. RefusalsJustified'
  <2>1. match.games \in Nat \ {0}
    BY GamesOfMatch
  <2>2. x = "refused" => ~(Whole /\ match.swap_sides /\ match.games % 2 = 0)
    BY <1>1, <1>5, <1>10, <2>1 DEF Whole
  <2>3. Whole' <=> Whole
    BY <1>1 DEF Whole
  <2> QED
    BY <1>1, <1>3, <1>6, <2>2, <2>3 DEF RefusalsJustified
<1> QED
  BY <1>3, <1>4, <1>11, <1>12, <1>13 DEF ReplayInv

LEMMA ReportIsRendered ==
  ASSUME RunnerInv, FileInv, ReplayInv, Render
  PROVE  ReplayInv'
<1>1. /\ replay.pc = "extract" /\ 2 * replay.pairs = Len(replay.records)
      /\ UNCHANGED <<match, game, records, file>> /\ replay' = [replay EXCEPT !.pc = "reported"]
  BY DEF Render
<1>2. /\ replay'.pc = "reported" /\ replay'.read = replay.read /\ replay'.records = replay.records
      /\ replay'.pairs = replay.pairs /\ replay'.divergences = replay.divergences
      /\ replay' \in ReplayType
  BY <1>1, OnlyPlace
<1>3. HasFound'
  BY <1>1, <1>2, FoundStays DEF ReplayInv
<1>4. HasRead'
  BY <1>1, <1>2 DEF ReplayInv, HasRead
<1>5. Len(replay.records) = replay.read /\ replay.read \in Nat /\ replay.read = Len(file.lines)
  BY <1>1, ReplayFields DEF ReplayInv, HasPaired
<1>6. HasPaired'
  BY <1>1, <1>2, <1>5 DEF ReplayInv, HasPaired
<1>7. ~file.torn
  BY <1>5 DEF ReplayInv, HasRead
<1>8. RefusalsJustified'
  BY <1>1, <1>2, <1>7 DEF RefusalsJustified
<1> QED
  BY <1>2, <1>3, <1>4, <1>6, <1>8 DEF ReplayInv

\* The records of the next pair, and that there are two.
LEMMA PairIsThere ==
  ASSUME RunnerInv, FileInv, ReplayInv, replay.pc = "extract", 2 * replay.pairs < Len(replay.records),
         NEW p, p = replay.pairs
  PROVE  /\ p \in Nat /\ 2 * p + 2 <= replay.read /\ 2 * p + 2 <= Len(records) /\ match \in Matches
         /\ replay.records[2 * p + 1] = Kept(records[2 * p + 1])
         /\ replay.records[2 * p + 2] = Kept(records[2 * p + 2])
         /\ RecordInv(records[2 * p + 1], match, 2 * p + 1)
         /\ RecordInv(records[2 * p + 2], match, 2 * p + 2)
         /\ records[2 * p + 1] \in Records /\ records[2 * p + 2] \in Records
<1> DEFINE n == replay.read
           l == Len(records)
<1>1. p \in Nat /\ n \in Nat /\ Len(replay.records) = n /\ DOMAIN replay.records = 1 .. n
  BY ReplayFields
<1>2. PICK k \in Nat : n = 2 * k
  BY DEF ReplayInv, HasPaired
<1>3. 2 * p + 2 <= n
  BY <1>1, <1>2
<1>4. Len(file.lines) \in Nat /\ n <= Len(file.lines) /\ Len(file.lines) <= l
  BY FileFields DEF ReplayInv, HasRead, FileInv
<1>5. l \in Nat /\ DOMAIN records = 1 .. l
  BY LenProperties DEF RunnerInv
<1> HIDE DEF n, l
<1>6. /\ 2 * p + 1 \in 1 .. n /\ 2 * p + 2 \in 1 .. n
      /\ 2 * p + 1 \in 1 .. l /\ 2 * p + 2 \in 1 .. l /\ 2 * p + 2 <= l
  BY <1>1, <1>3, <1>4, <1>5
<1>7. \A i \in 1 .. n : replay.records[i] = Kept(records[i])
  BY <1>1 DEF ReplayInv, HasRead
<1>8. \A i \in 1 .. l : RecordInv(records[i], match, i)
  BY <1>5 DEF RunnerInv
<1>9. \A i \in 1 .. l : records[i] \in Records
  BY <1>8 DEF RecordInv
<1>10. match \in Matches
  BY GamesOfMatch
<1> QED
  BY <1>1, <1>3, <1>6, <1>7, <1>8, <1>9, <1>10 DEF n, l

LEMMA PairIsRefused ==
  ASSUME RunnerInv, FileInv, ReplayInv, replay.pc = "extract", UNCHANGED <<match, game, records, file>>,
         ~match.swap_sides, replay' = [replay EXCEPT !.pc = "refused"]
  PROVE  ReplayInv'
<1>1. /\ replay'.pc = "refused" /\ replay'.read = replay.read /\ replay'.records = replay.records
      /\ replay'.pairs = replay.pairs /\ replay'.divergences = replay.divergences
      /\ replay' \in ReplayType
  BY OnlyPlace
<1>2. HasFound'
  BY <1>1, FoundStays DEF ReplayInv
<1>3. HasRead'
  BY <1>1 DEF ReplayInv, HasRead
<1>4. HasPaired'
  BY <1>1 DEF ReplayInv, HasPaired
<1>5. RefusalsJustified'
  BY <1>1 DEF RefusalsJustified
<1> QED
  BY <1>1, <1>2, <1>3, <1>4, <1>5 DEF ReplayInv

\* The report has grown from s to t by what was found of a pair.
Grown(t, s, found, p, a, b) ==
  /\ t \in Seq(Reported)
  /\ \A k \in DOMAIN s : k \in DOMAIN t /\ t[k] = s[k]
  /\ \A k \in DOMAIN t : k \in DOMAIN s \/ Told(t[k], p, a, b) \/ Told(t[k], p, b, a)
  /\ found = {} \/ \E k \in DOMAIN t : t[k].pair_index = p

LEMMA ReportGrows ==
  ASSUME NEW s \in Seq(Reported), NEW p, NEW a, NEW b, NEW pair, Outcome(pair, p, a, b),
         pair.found \subseteq Reported
  PROVE  Grown(s \o SetToSeq(pair.found), s, pair.found, p, a, b)
<1> DEFINE found == pair.found
           t == s \o SetToSeq(found)
<1>1. found = {} \/ \E d : found = {d} /\ (Told(d, p, a, b) \/ Told(d, p, b, a))
  BY DEF Outcome
<1>2. found \subseteq Reported
  OBVIOUS
<1> HIDE DEF found
<1>3. CASE found = {}
  <2>1. SetToSeq(found) = << >>
    BY <1>3, NothingInOrder
  <2>2. t = s
    BY <2>1, ConcatEmptySeq
  <2> HIDE DEF t
  <2>3. Grown(t, s, found, p, a, b)
    BY <1>3, <2>2 DEF Grown
  <2> QED
    BY <2>3 DEF found, t
<1>4. CASE found # {}
  <2>1. PICK d : found = {d} /\ (Told(d, p, a, b) \/ Told(d, p, b, a))
    BY <1>1, <1>4
  <2>2. SetToSeq(found) = <<d>>
    BY <2>1, OneInOrder
  <2>3. d \in Reported
    BY <1>2, <2>1
  <2>4. t = Append(s, d)
    BY <2>2, <2>3, AppendIsConcat
  <2> DEFINE n == Len(s)
  <2>5. /\ Append(s, d) \in Seq(Reported) /\ Len(Append(s, d)) = n + 1
        /\ \A k \in 1 .. n : Append(s, d)[k] = s[k]
        /\ Append(s, d)[n + 1] = d
    BY <2>3, AppendProperties
  <2>6. n \in Nat /\ DOMAIN s = 1 .. n
    BY LenProperties
  <2> HIDE DEF t, n
  <2>7. t \in Seq(Reported) /\ Len(t) = n + 1 /\ t[n + 1] = d /\ \A k \in 1 .. n : t[k] = s[k]
    BY <2>4, <2>5
  <2>8. DOMAIN t = 1 .. n + 1
    BY <2>7, LenProperties
  <2>9. n + 1 \in DOMAIN t /\ \A k \in DOMAIN t : k \in 1 .. n \/ k = n + 1
    BY <2>6, <2>8
  <2>10. \A k \in 1 .. n : k \in DOMAIN t
    BY <2>6, <2>8
  <2>11. d.pair_index = p
    BY <2>1 DEF Told
  <2>12. \E k \in DOMAIN t : t[k].pair_index = p
    BY <2>7, <2>9, <2>11
  <2>13. \A k \in DOMAIN t : k \in DOMAIN s \/ Told(t[k], p, a, b) \/ Told(t[k], p, b, a)
    BY <2>1, <2>6, <2>7, <2>9
  <2>14. \A k \in DOMAIN s : k \in DOMAIN t /\ t[k] = s[k]
    BY <2>6, <2>7, <2>10
  <2>15. Grown(t, s, found, p, a, b)
    BY <2>7, <2>12, <2>13, <2>14 DEF Grown
  <2> QED
    BY <2>15 DEF found, t
<1> QED
  BY <1>3, <1>4

LEMMA FoundIsReported ==
  ASSUME NEW p \in Nat, NEW a \in Records, NEW b \in Records
  PROVE  PairDivergence(p, Kept(a), Kept(b)).found \subseteq Reported
<1>1. Kept(a) \in KeptRecords /\ Kept(b) \in KeptRecords
  BY DEF KeptRecords
<1> QED
  BY <1>1 DEF Reported

LEMMA PairIsFound ==
  ASSUME RunnerInv, FileInv, ReplayInv, replay.pc = "extract", UNCHANGED <<match, game, records, file>>,
         2 * replay.pairs < Len(replay.records), NEW p, p = replay.pairs, NEW pair,
         Outcome(pair, p, records[2 * p + 1], records[2 * p + 2]), pair.ok, pair.found \subseteq Reported,
         replay' = [replay EXCEPT !.pairs = p + 1, !.divergences = @ \o SetToSeq(pair.found)]
  PROVE  ReplayInv'
<1> DEFINE s == replay.divergences
           t == s \o SetToSeq(pair.found)
           a == records[2 * p + 1]
           b == records[2 * p + 2]
<1>1. p \in Nat /\ 2 * p + 2 <= replay.read /\ 2 * p + 2 <= Len(records)
  BY PairIsThere
<1>2. replay \in ReplayType /\ replay.read \in Nat /\ s \in Seq(Reported)
  BY ReplayFields DEF ReplayInv
<1>3. Grown(t, s, pair.found, p, a, b)
  BY <1>2, ReportGrows
<1>4. pair.found = {} => PlayedTwice(a.boards, b.boards)
  BY DEF Outcome
<1>5. replay' = [replay EXCEPT !.pairs = p + 1, !.divergences = t]
  OBVIOUS
<1>6. t \in Seq(Reported)
  BY <1>3 DEF Grown
<1> HIDE DEF t
<1>7. /\ replay'.pc = "extract" /\ replay'.read = replay.read /\ replay'.records = replay.records
      /\ replay'.pairs = p + 1 /\ replay'.divergences = t /\ replay' \in ReplayType
  <2> DEFINE q == p + 1
  <2>1. q \in Nat /\ replay' = [replay EXCEPT !.pairs = q, !.divergences = t]
    BY <1>1, <1>5
  <2> HIDE DEF q
  <2>2. /\ replay'.pc = "extract" /\ replay'.read = replay.read /\ replay'.records = replay.records
        /\ replay'.pairs = q /\ replay'.divergences = t /\ replay' \in ReplayType
    BY <1>2, <1>6, <2>1 DEF ReplayType
  <2> QED
    BY <2>2 DEF q
<1>8. records' = records /\ file' = file
  OBVIOUS
<1>9. HasRead'
  BY <1>7, <1>8 DEF ReplayInv, HasRead
<1>10. HasPaired'
  <2>1. 2 * (p + 1) <= replay.read
    BY <1>1, <1>2
  <2> QED
    BY <1>7, <1>8, <2>1 DEF ReplayInv, HasPaired
<1>11. \A k \in DOMAIN t : \E q \in Nat :
         /\ 2 * q + 2 <= Len(records)
         /\ \/ Told(t[k], q, records[2 * q + 1], records[2 * q + 2])
            \/ Told(t[k], q, records[2 * q + 2], records[2 * q + 1])
  <2>1. \A k \in DOMAIN s : Shown(s[k])
    BY DEF ReplayInv, HasFound
  <2>2. ASSUME NEW k \in DOMAIN t
        PROVE  Shown(t[k])
    <3>1. CASE k \in DOMAIN s
      BY <1>3, <2>1, <3>1 DEF Grown
    <3>2. CASE k \notin DOMAIN s
      <4>1. Told(t[k], p, a, b) \/ Told(t[k], p, b, a)
        BY <1>3, <3>2 DEF Grown
      <4> QED
        BY <1>1, <4>1 DEF Shown
    <3> QED
      BY <3>1, <3>2
  <2> QED
    BY <2>2 DEF Shown
<1>12. ASSUME NEW q \in 0 .. p
       PROVE  \/ \E k \in DOMAIN t : t[k].pair_index = q
              \/ PlayedTwice(records[2 * q + 1].boards, records[2 * q + 2].boards)
  <2>1. CASE q = p
    BY <1>3, <1>4, <2>1 DEF Grown
  <2>2. CASE q # p
    <3>1. q \in 0 .. p - 1
      BY <1>1, <2>2
    <3>2. \/ \E k \in DOMAIN s : s[k].pair_index = q
          \/ PlayedTwice(records[2 * q + 1].boards, records[2 * q + 2].boards)
      BY <3>1 DEF ReplayInv, HasFound, PairCovered
    <3> QED
      BY <1>3, <3>2 DEF Grown
  <2> QED
    BY <2>1, <2>2
<1>13. HasFound'
  <2>1. ASSUME NEW q \in 0 .. p
        PROVE  PairCovered(q)'
    BY <1>7, <1>8, <1>12 DEF PairCovered
  <2>2. \A k \in DOMAIN replay'.divergences : Shown(replay.divergences[k])'
    BY <1>7, <1>8, <1>11 DEF Shown
  <2>3. replay'.pairs - 1 = p
    BY <1>1, <1>7
  <2>4. \A q \in 0 .. replay'.pairs - 1 : PairCovered(q)'
    BY <2>1, <2>3
  <2> QED
    BY <2>2, <2>4 DEF HasFound
<1>14. RefusalsJustified'
  BY <1>7 DEF RefusalsJustified
<1> QED
  BY <1>7, <1>9, <1>10, <1>13, <1>14 DEF ReplayInv

LEMMA PairIsExtracted ==
  ASSUME RunnerInv, FileInv, ReplayInv, ExtractPair
  PROVE  ReplayInv'
<1> DEFINE p == replay.pairs
           a == records[2 * p + 1]
           b == records[2 * p + 2]
           pair == PairDivergence(p, Kept(a), Kept(b))
<1>1. /\ replay.pc = "extract" /\ 2 * p < Len(replay.records)
      /\ UNCHANGED <<match, game, records, file>>
  BY DEF ExtractPair
<1>2. /\ p \in Nat /\ match \in Matches
      /\ replay.records[2 * p + 1] = Kept(a) /\ replay.records[2 * p + 2] = Kept(b)
      /\ RecordInv(a, match, 2 * p + 1) /\ RecordInv(b, match, 2 * p + 2)
      /\ a \in Records /\ b \in Records
  BY <1>1, PairIsThere
<1>3. replay' = IF pair.ok
                THEN [replay EXCEPT !.pairs = @ + 1, !.divergences = @ \o SetToSeq(pair.found)]
                ELSE [replay EXCEPT !.pc = "refused"]
  BY <1>2 DEF ExtractPair
<1>4. Outcome(pair, p, a, b) /\ (Swapped(a, b) => pair.ok)
  <2> HIDE DEF p
  <2> QED
    BY <1>2, OutcomeOfPair
<1>5. pair.found \subseteq Reported
  BY <1>2, FoundIsReported
<1>6. match.swap_sides => Swapped(a, b)
  <2>1. SetUp(a, match, 2 * p + 1) /\ SetUp(b, match, 2 * p + 2)
    BY <1>2 DEF RecordInv
  <2> HIDE DEF p
  <2> QED
    BY <1>2, <2>1, PairIsSwapped
<1>7. CASE pair.ok
  <2>1. replay' = [replay EXCEPT !.pairs = p + 1, !.divergences = @ \o SetToSeq(pair.found)]
    BY <1>3, <1>7
  <2> HIDE DEF pair
  <2> QED
    BY <1>1, <1>4, <1>5, <1>7, <2>1, PairIsFound
<1>8. CASE ~pair.ok
  <2>1. ~match.swap_sides /\ replay' = [replay EXCEPT !.pc = "refused"]
    BY <1>3, <1>4, <1>6, <1>8
  <2> QED
    BY <1>1, <2>1, PairIsRefused
<1> QED
  BY <1>7, <1>8

LEMMA ReplayStep ==
  RunnerInv /\ FileInv /\ FileInv' /\ ReplayInv /\ [Next]_vars => ReplayInv'
<1> SUFFICES ASSUME RunnerInv, FileInv, FileInv', ReplayInv, [Next]_vars
             PROVE  ReplayInv'
  OBVIOUS
<1>1. CASE UNCHANGED vars
  BY <1>1, ReplayUnchanged
<1>2. CASE Runner
  BY <1>2, RunnerLeavesReplay
<1>3. CASE ReplayTool
  BY <1>3, ReplayStarts, LineIsReadBack, LineIsRefused, FileIsRead, PairIsExtracted, ReportIsRendered
     DEF ReplayTool
<1> QED
  BY <1>1, <1>2, <1>3 DEF Next

LEMMA MatchInvariant == Spec => [](RunnerInv /\ FileInv /\ ReplayInv)
<1>1. RunnerInv /\ FileInv /\ ReplayInv /\ [Next]_vars => (RunnerInv /\ FileInv /\ ReplayInv)'
  <2>1. RunnerInv /\ [Next]_vars => RunnerInv'
    BY RunnerStep
  <2> QED
    BY <2>1, FileStep, ReplayStep
<1> QED
  BY <1>1, RunnerInit, FileInit, ReplayInit, PTL DEF Spec

\* The replay tool refuses every file that lost the end of a line, and nothing
\* that a match with sides swapped, an even number of games and a whole file
\* gave it: whatever the games, the openings and where the file was cut.
THEOREM RefusalsAreJustified == Spec => []RefusalsJustified
<1>1. ReplayInv => RefusalsJustified
  BY DEF ReplayInv
<1> QED
  BY <1>1, MatchInvariant, PTL

\* The records of a pair, by their numbers.
LEMMA GamesOfPair ==
  ASSUME RunnerInv, NEW p \in Nat, 2 * p + 2 <= Len(records)
  PROVE  /\ records[2 * p + 1].game_index = 2 * p
         /\ records[2 * p + 2].game_index = 2 * p + 1
<1>1. records \in Seq(Records) /\ Len(records) \in Nat /\ DOMAIN records = 1 .. Len(records)
  BY LenProperties DEF RunnerInv
<1>2. 2 * p + 1 \in 1 .. Len(records) /\ 2 * p + 2 \in 1 .. Len(records)
  BY <1>1
<1>3. /\ records[2 * p + 1].game_index = 2 * p + 1 - 1
      /\ records[2 * p + 2].game_index = 2 * p + 2 - 1
  BY <1>1, <1>2 DEF RunnerInv, RecordInv, SetUp
<1> QED
  BY <1>3

LEMMA DivergencesShown == RunnerInv /\ ReplayInv => OnBothGames
<1> SUFFICES ASSUME RunnerInv, ReplayInv, NEW k \in DOMAIN replay.divergences
             PROVE  LET d == replay.divergences[k]
                        head == records[d.head_game_index + 1]
                        base == records[d.base_game_index + 1]
                    IN  /\ {d.head_game_index, d.base_game_index} = {2 * d.pair_index, 2 * d.pair_index + 1}
                        /\ StandsOn(d, head, base)
  BY DEF OnBothGames, StandsOn
<1> DEFINE d == replay.divergences[k]
<1>1. Shown(d)
  BY DEF ReplayInv, HasFound
<1> HIDE DEF d
<1>2. PICK p \in Nat :
        /\ 2 * p + 2 <= Len(records)
        /\ \/ Told(d, p, records[2 * p + 1], records[2 * p + 2])
           \/ Told(d, p, records[2 * p + 2], records[2 * p + 1])
  BY <1>1 DEF Shown
<1>3. records[2 * p + 1].game_index = 2 * p /\ records[2 * p + 2].game_index = 2 * p + 1
  BY <1>2, GamesOfPair
<1>4. d.pair_index = p
  BY <1>2 DEF Told
<1>5. CASE Told(d, p, records[2 * p + 1], records[2 * p + 2])
  <2>1. /\ d.head_game_index = 2 * p /\ d.base_game_index = 2 * p + 1
        /\ StandsOn(d, records[2 * p + 1], records[2 * p + 2])
    BY <1>3, <1>5 DEF Told
  <2>2. d.head_game_index + 1 = 2 * p + 1 /\ d.base_game_index + 1 = 2 * p + 2
    BY <2>1
  <2>3. StandsOn(d, records[d.head_game_index + 1], records[d.base_game_index + 1])
    BY <2>1, <2>2
  <2>4. {d.head_game_index, d.base_game_index} = {2 * d.pair_index, 2 * d.pair_index + 1}
    BY <1>4, <2>1
  <2> QED
    BY <2>3, <2>4 DEF d
<1>6. CASE Told(d, p, records[2 * p + 2], records[2 * p + 1])
  <2>1. /\ d.head_game_index = 2 * p + 1 /\ d.base_game_index = 2 * p
        /\ StandsOn(d, records[2 * p + 2], records[2 * p + 1])
    BY <1>3, <1>6 DEF Told
  <2>2. d.head_game_index + 1 = 2 * p + 2 /\ d.base_game_index + 1 = 2 * p + 1
    BY <2>1
  <2>3. StandsOn(d, records[d.head_game_index + 1], records[d.base_game_index + 1])
    BY <2>1, <2>2
  <2>4. {d.head_game_index, d.base_game_index} = {2 * d.pair_index, 2 * d.pair_index + 1}
    BY <1>4, <2>1
  <2> QED
    BY <2>3, <2>4 DEF d
<1> QED
  BY <1>2, <1>5, <1>6

LEMMA ReportIsComplete == ReplayInv => SilentPairsAreEqual
<1> SUFFICES ASSUME ReplayInv, replay.pc = "reported"
             PROVE  /\ 2 * replay.pairs = Len(replay.records)
                    /\ \A p \in 0 .. replay.pairs - 1 : PairCovered(p)
  BY DEF SilentPairsAreEqual, PairCovered, PlayedTwice
<1>1. 2 * replay.pairs = Len(replay.records)
  BY DEF ReplayInv, HasRead, HasPaired
<1> QED
  BY <1>1 DEF ReplayInv, HasFound

\* The divergences reported are all there are, and each stands on both games of
\* its pair (extract_pair_divergence), whatever the match.
THEOREM DivergencesAreTrue == Spec => []DivergencesStand
<1>1. RunnerInv /\ ReplayInv => DivergencesStand
  BY DivergencesShown, ReportIsComplete DEF DivergencesStand
<1> QED
  BY <1>1, MatchInvariant, PTL
=============================================================================
