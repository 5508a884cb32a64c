----------------------------- MODULE Evaluation -----------------------------
(***************************************************************************)
(* The evaluator (evaluation.cpp, evaluation_features.cpp,                 *)
(* evaluation_patterns.cpp): features of a board weighted by its phase,    *)
(* two of them rule tables over patterns of squares, one of them tables    *)
(* that were learned.                                                      *)
(*                                                                         *)
(* A configuration has weights for each phase and a bundle of learned      *)
(* tables, or of none, for all phases and for each one: a set of one       *)
(* bundle, or of none.  The entries a bundle does not name are 0.          *)
(***************************************************************************)
EXTENDS OthelloRules, Sequences, FiniteSetsExt

Phases == {"opening", "midgame", "late"}
Features ==
  {"disc_difference", "mobility", "potential_mobility", "corner_occupancy", "corner_access",
   "x_square_danger", "frontier", "corner_local_2x3", "corner_2x3_pattern",
   "edge_stability_lite", "edge_8_pattern", "pattern_table"}
\* compute_when_unweighted_breakdown of evaluation_feature_specs.
ShownUnweighted ==
  {"disc_difference", "mobility", "potential_mobility", "corner_occupancy", "corner_access",
   "x_square_danger", "frontier"}

Weights(named) == [f \in Features |-> IF f \in DOMAIN named THEN named[f] ELSE 0]
DefaultConfig ==
  [weights |->
     [opening |-> Weights([mobility |-> 8, potential_mobility |-> 4, corner_occupancy |-> 35,
        corner_access |-> 30, x_square_danger |-> 25, frontier |-> 5, corner_2x3_pattern |-> 4,
        edge_stability_lite |-> 2, edge_8_pattern |-> 2]),
      midgame |-> Weights([disc_difference |-> 1, mobility |-> 10, potential_mobility |-> 5,
        corner_occupancy |-> 40, corner_access |-> 35, x_square_danger |-> 30, frontier |-> 6,
        corner_2x3_pattern |-> 6, edge_stability_lite |-> 4, edge_8_pattern |-> 4]),
      late |-> Weights([disc_difference |-> 4, mobility |-> 6, potential_mobility |-> 2,
        corner_occupancy |-> 45, corner_access |-> 20, x_square_danger |-> 20, frontier |-> 3,
        corner_2x3_pattern |-> 4, edge_stability_lite |-> 8, edge_8_pattern |-> 6])],
   opening_max_occupied |-> 20, midgame_max_occupied |-> 44,
   pattern_tables |-> {}, phase_tables |-> [phase \in Phases |-> {}]]

(***************************************************************************)
(* Features of the discs alone (evaluation_features.cpp).                  *)
(***************************************************************************)
Corners == {0, 7, 56, 63}
XSquares == {9, 14, 49, 54}
CornerOf(x) == CASE x = 9 -> 0 [] x = 14 -> 7 [] x = 49 -> 56 [] x = 54 -> 63
\* corner_local_specs
CSquares(corner) ==
  CASE corner = 0 -> {1, 8} [] corner = 7 -> {6, 15} [] corner = 56 -> {57, 48}
    [] corner = 63 -> {62, 55}
\* edge_corner_specs: the first square of a ray and its step.
EdgeRays(corner) ==
  CASE corner = 0 -> {<<1, 1>>, <<8, 8>>} [] corner = 7 -> {<<6, -1>>, <<15, 8>>}
    [] corner = 56 -> {<<57, 1>>, <<48, -8>>} [] corner = 63 -> {<<62, -1>>, <<55, -8>>}

AdjacentSquares(bits) == UNION { Shift(bits, d) : d \in Directions }
EmptySquares(player, opp) == Squares \ (player \cup opp)
SumOf(f) == MapThenSumSet(LAMBDA x : f[x], DOMAIN f)

DangerousXSquares(discsOf, occupied) ==
  { x \in XSquares \cap discsOf : CornerOf(x) \notin occupied }

CornerLocalValue(discsOf, occupied) ==
  SumOf([corner \in Corners |->
    LET c_squares == Cardinality(CSquares(corner) \cap discsOf)
        x_square == { x \in XSquares \cap discsOf : CornerOf(x) = corner }
    IN  IF corner \notin occupied THEN -2 * Cardinality(x_square) - c_squares
        ELSE IF corner \in discsOf THEN c_squares ELSE 0])

\* The discs in a row from a corner's neighbour on.
AnchoredRay(discsOf, ray) ==
  { ray[1] + k * ray[2] : k \in { n \in 0 .. 6 : \A j \in 0 .. n : ray[1] + j * ray[2] \in discsOf } }
StableEdgeSquares(discsOf) ==
  UNION { AnchoredRay(discsOf, ray) : ray \in UNION { EdgeRays(c) : c \in Corners \cap discsOf } }

(***************************************************************************)
(* Patterns: a family of instances, each an order of squares.              *)
(***************************************************************************)
Line8(first, step) == [k \in 1 .. 8 |-> first + (k - 1) * step]
\* Corner, c-square and edge, then the same of the next row.
Corner2x3Squares ==
  <<<<0, 1, 2, 8, 9, 10>>, <<7, 6, 5, 15, 14, 13>>, <<56, 57, 58, 48, 49, 50>>,
    <<63, 62, 61, 55, 54, 53>>>>
\* Mutation: the x-squares of one edge are swapped.
EdgeX10SquaresSwapped ==
  <<Line8(0, 1) \o <<9, 14>>, Line8(56, 1) \o <<49, 54>>, Line8(0, 8) \o <<9, 49>>,
    Line8(7, 8) \o <<54, 14>>>>
EdgeX10Squares ==
  <<Line8(0, 1) \o <<9, 14>>, Line8(56, 1) \o <<49, 54>>, Line8(0, 8) \o <<9, 49>>,
    Line8(7, 8) \o <<14, 54>>>>
PatternSquares ==
  [corner_2x3 |-> Corner2x3Squares,
   corner_3x3 |-> <<<<0, 1, 2, 8, 9, 10, 16, 17, 18>>, <<7, 6, 5, 15, 14, 13, 23, 22, 21>>,
                    <<56, 57, 58, 48, 49, 50, 40, 41, 42>>, <<63, 62, 61, 55, 54, 53, 47, 46, 45>>>>,
   edge_8 |-> <<Line8(0, 1), Line8(56, 1), Line8(0, 8), Line8(7, 8)>>,
   edge_x_10 |-> EdgeX10Squares,
   row_8 |-> [r \in 1 .. 8 |-> Line8(8 * (r - 1), 1)],
   column_8 |-> [f \in 1 .. 8 |-> Line8(f - 1, 8)],
   diagonal_4 |-> <<<<4, 13, 22, 31>>, <<32, 41, 50, 59>>, <<3, 10, 17, 24>>, <<39, 46, 53, 60>>>>,
   diagonal_5 |-> <<<<3, 12, 21, 30, 39>>, <<24, 33, 42, 51, 60>>, <<4, 11, 18, 25, 32>>,
                    <<31, 38, 45, 52, 59>>>>,
   diagonal_6 |-> <<<<2, 11, 20, 29, 38, 47>>, <<16, 25, 34, 43, 52, 61>>,
                    <<5, 12, 19, 26, 33, 40>>, <<23, 30, 37, 44, 51, 58>>>>,
   diagonal_7 |-> <<<<1, 10, 19, 28, 37, 46, 55>>, <<8, 17, 26, 35, 44, 53, 62>>,
                    <<6, 13, 20, 27, 34, 41, 48>>, <<15, 22, 29, 36, 43, 50, 57>>>>,
   diagonal_8 |-> <<Line8(0, 9), Line8(7, 7)>>,
   inner_row_8 |-> <<Line8(8, 1), Line8(48, 1), Line8(1, 8), Line8(6, 8)>>,
   corner_2x4 |-> <<<<0, 1, 2, 3, 8, 9, 10, 11>>, <<7, 6, 5, 4, 15, 14, 13, 12>>,
                    <<56, 57, 58, 59, 48, 49, 50, 51>>, <<63, 62, 61, 60, 55, 54, 53, 52>>>>]
Families == DOMAIN PatternSquares
\* corner_2x3_pattern_table_size and its like.
TableSize ==
  [corner_2x3 |-> 729, corner_3x3 |-> 19683, edge_8 |-> 6561, edge_x_10 |-> 59049, row_8 |-> 6561,
   column_8 |-> 6561, diagonal_4 |-> 81, diagonal_5 |-> 243, diagonal_6 |-> 729,
   diagonal_7 |-> 2187, diagonal_8 |-> 6561, inner_row_8 |-> 6561, corner_2x4 |-> 6561]

\* 0 for an empty square, 1 for an own disc, 2 for one of the opponent.
CellState(player, opp, square) == IF square \in player THEN 1 ELSE IF square \in opp THEN 2 ELSE 0

\* pattern_index_for_squares: the first square is the lowest digit to base 3.
PatternIndex(player, opp, squares) ==
  LET index[k \in 0 .. Len(squares)] ==
        IF k = 0 THEN 0 ELSE index[k - 1] + CellState(player, opp, squares[k]) * 3 ^ (k - 1)
  IN  index[Len(squares)]

\* The indexes of a family's instances.
PatternIndexes(player, opp, family) ==
  [i \in DOMAIN PatternSquares[family] |-> PatternIndex(player, opp, PatternSquares[family][i])]
SumOfEntries(indexes, entry(_)) == SumOf([i \in DOMAIN indexes |-> entry(indexes[i])])

\* The entries of the two rule tables: cell k of an index, 1 for an own disc and
\* -1 for one of the opponent (pattern_signed_state).
Digit(index, k) == (index \div 3 ^ k) % 3
Signed(index, k) == LET d == Digit(index, k) IN IF d = 1 THEN 1 ELSE IF d = 2 THEN -1 ELSE 0
Clamp(value, bound) == IF value < -bound THEN -bound ELSE IF value > bound THEN bound ELSE value

\* corner_2x3_rule_value; the cells: corner, c-square, far edge square, c-square,
\* x-square, inner support.
Corner2x3RuleValue(index) ==
  LET c(k) == Signed(index, k)
  IN  Clamp(IF c(0) = 0 THEN -(c(1) + c(3)) - 3 * c(4) - c(2)
            ELSE 4 * c(0) + (c(1) + c(3)) + c(2) + c(5), 6)

\* Mutation: only the side's own discs make a chain.
FromCornerOwnChain(cell) ==
  LET chain == { k \in 1 .. 3 : \A j \in 1 .. k : cell[j] = 1 }
  IN  IF cell[0] # 0 THEN cell[0] * (1 + Cardinality(chain)) + cell[1]
      ELSE -2 * cell[1] - (IF cell[1] = 0 THEN cell[2] ELSE 0)
\* One end of an edge: a chain of the corner's colour counts for four discs at most.
FromCorner(cell) ==
  LET chain == { k \in 1 .. 3 : \A j \in 1 .. k : cell[j] = cell[0] }
  IN  IF cell[0] # 0 THEN cell[0] * (1 + Cardinality(chain)) + cell[1]
      ELSE -2 * cell[1] - (IF cell[1] = 0 THEN cell[2] ELSE 0)

\* edge_8_rule_value
Edge8RuleValue(index) ==
  LET cell == [k \in 0 .. 7 |-> Signed(index, k)]
      reversed == [k \in 0 .. 7 |-> cell[7 - k]]
      inner == IF cell[0] = 0 /\ cell[7] = 0 THEN SumOf([k \in 1 .. 6 |-> cell[k]]) ELSE 0
      full == IF \A k \in 1 .. 7 : cell[k] = cell[0] THEN 3 * cell[0] ELSE 0
  IN  Clamp(2 * (cell[0] + cell[7]) + FromCorner(cell) + FromCorner(reversed) - inner + full, 10)

\* evaluation_pattern_table_score, of the families a bundle has entries of.
TableEntry(bundle, family, index) ==
  IF index \in DOMAIN bundle[family] THEN bundle[family][index] ELSE 0
ActiveFamilies(bundle) == { family \in Families : DOMAIN bundle[family] # {} }
PatternTableScore(player, opp, bundle) ==
  SumOf([family \in ActiveFamilies(bundle) |->
    SumOfEntries(PatternIndexes(player, opp, family), LAMBDA index : TableEntry(bundle, family, index))])

(***************************************************************************)
(* The score.                                                              *)
(***************************************************************************)
\* phase_for_occupied_count
PhaseOf(occupied_count, config) ==
  IF occupied_count <= config.opening_max_occupied THEN "opening"
  ELSE IF occupied_count <= config.midgame_max_occupied THEN "midgame" ELSE "late"
\* pattern_tables_for_phase
TablesFor(config, phase) ==
  IF config.phase_tables[phase] # {} THEN config.phase_tables[phase] ELSE config.pattern_tables

Difference(S, T) == Cardinality(S) - Cardinality(T)

\* compute_feature_raw_value
RawValue(feature, player, opp, config, phase) ==
  LET occupied == player \cup opp
      empty == EmptySquares(player, opp)
  IN  CASE feature = "disc_difference" -> Difference(player, opp)
        [] feature = "mobility" -> Difference(LegalMovesFor(player, opp), LegalMovesFor(opp, player))
        [] feature = "potential_mobility" ->
             Difference(AdjacentSquares(opp) \cap empty, AdjacentSquares(player) \cap empty)
        [] feature = "corner_occupancy" -> Difference(player \cap Corners, opp \cap Corners)
        [] feature = "corner_access" ->
             Difference(LegalMovesFor(player, opp) \cap Corners, LegalMovesFor(opp, player) \cap Corners)
        [] feature = "x_square_danger" ->
             Difference(DangerousXSquares(opp, occupied), DangerousXSquares(player, occupied))
        [] feature = "frontier" ->
             Difference(opp \cap AdjacentSquares(empty), player \cap AdjacentSquares(empty))
        [] feature = "corner_local_2x3" ->
             CornerLocalValue(player, occupied) - CornerLocalValue(opp, occupied)
        [] feature = "corner_2x3_pattern" ->
             SumOfEntries(PatternIndexes(player, opp, "corner_2x3"), Corner2x3RuleValue)
        [] feature = "edge_stability_lite" ->
             Difference(StableEdgeSquares(player), StableEdgeSquares(opp))
        [] feature = "edge_8_pattern" ->
             SumOfEntries(PatternIndexes(player, opp, "edge_8"), Edge8RuleValue)
        [] feature = "pattern_table" ->
             SumOf([b \in TablesFor(config, phase) |-> PatternTableScore(player, opp, b)])

GameOver(player, opp) == LegalMovesFor(player, opp) = {} /\ LegalMovesFor(opp, player) = {}
TerminalScore(player, opp) == 1000 * Difference(player, opp)

\* accumulate_non_terminal_evaluation, of the features in computed.
WeightedSum(player, opp, config, phase, computed) ==
  SumOf([f \in computed |->
    RawValue(f, player, opp, config, phase) * config.weights[phase][f]])
Weighted(config, phase) == { f \in Features : config.weights[phase][f] # 0 }

\* evaluate_basic_breakdown: the values it shows, and the total.
Breakdown(player, opp, config) ==
  LET phase == PhaseOf(Cardinality(player \cup opp), config)
      terminal == GameOver(player, opp)
      computed == IF terminal THEN {} ELSE Weighted(config, phase) \cup ShownUnweighted
  IN  [phase |-> phase, terminal |-> terminal,
       raw |-> [f \in computed |-> RawValue(f, player, opp, config, phase)],
       total |-> IF terminal THEN TerminalScore(player, opp)
                 ELSE WeightedSum(player, opp, config, phase, computed)]

\* Mutation: what the opening's weights allow is done in every phase.
FastPathPhasesOfOpening(config) ==
  { phase \in Phases : Weighted(config, "opening") \subseteq {"pattern_table"} }
\* The phases in which nothing but the tables has a weight; a search finds them
\* once, when it begins (search_context.hpp:59).
FastPathPhases(config) ==
  { phase \in Phases : Weighted(config, phase) \subseteq {"pattern_table"} }
HasPatternTableSurface(config) ==
  \/ \E phase \in Phases : config.weights[phase]["pattern_table"] # 0
  \/ config.pattern_tables # {} \/ \E phase \in Phases : config.phase_tables[phase] # {}

\* evaluate_pattern_table_score_only_fast_path
FastPathScore(player, opp, config, phase) ==
  IF GameOver(player, opp) THEN TerminalScore(player, opp)
  ELSE SumOf([b \in TablesFor(config, phase) |-> PatternTableScore(player, opp, b)])
         * config.weights[phase]["pattern_table"]

\* evaluate_score_only
ScoreOnly(player, opp, config, fast_path_phases) ==
  LET phase == PhaseOf(Cardinality(player \cup opp), config)
  IN  IF phase \in fast_path_phases THEN FastPathScore(player, opp, config, phase)
      ELSE IF GameOver(player, opp) THEN TerminalScore(player, opp)
      ELSE WeightedSum(player, opp, config, phase, Weighted(config, phase))

\* evaluate_with_config
Evaluate(player, opp, config) ==
  ScoreOnly(player, opp, config,
            IF HasPatternTableSurface(config) THEN FastPathPhases(config) ELSE {})
EvaluateFor(b, side, config) == Evaluate(discs(b, side), discs(b, opponent(side)), config)

(***************************************************************************)
(* What the evaluator should satisfy.                                      *)
(***************************************************************************)
FlippedFiles(s) == 8 * Rank(s) + 7 - File(s)
FlippedRanks(s) == 8 * (7 - Rank(s)) + File(s)
Transposed(s) == 8 * File(s) + Rank(s)
Image(squares, symmetry(_)) == { symmetry(s) : s \in squares }

ZeroSum(b, config) == EvaluateFor(b, "Black", config) = -EvaluateFor(b, "White", config)

Mirrored(b, config, symmetry(_)) ==
  EvaluateFor(b, "Black", config) =
    Evaluate(Image(b.black, symmetry), Image(b.white, symmetry), config)
TransposedFeatures == Features \ {"corner_2x3_pattern", "pattern_table"}
TransposedAlike(b, config, phase) ==
  \A f \in TransposedFeatures :
    RawValue(f, b.black, b.white, config, phase) =
      RawValue(f, Image(b.black, Transposed), Image(b.white, Transposed), config, phase)

\* The eight symmetries: flips after a transposition or none.
Turned(s, transpose, files, ranks) ==
  LET s1 == IF transpose THEN Transposed(s) ELSE s
      s2 == IF files THEN FlippedFiles(s1) ELSE s1
  IN  IF ranks THEN FlippedRanks(s2) ELSE s2
\* Through one of them the second instance of a pattern is the first, and has
\* on a board the index the first has on the board seen through it.
Aligned(b, first, second) ==
  \E transpose, files, ranks \in BOOLEAN :
    LET turn(s) == Turned(s, transpose, files, ranks)
        seen(discsOf) == { s \in Squares : turn(s) \in discsOf }
    IN  /\ second = [k \in DOMAIN first |-> turn(first[k])]
        /\ PatternIndex(b.black, b.white, second)
             = PatternIndex(seen(b.black), seen(b.white), first)

\* An index holds the state of each of its squares and no more.
IndexReadsBack(b, family) ==
  \A i \in DOMAIN PatternSquares[family] :
    LET squares == PatternSquares[family][i]
        index == PatternIndex(b.black, b.white, squares)
    IN  /\ index \in 0 .. TableSize[family] - 1
        /\ \A k \in 1 .. Len(squares) :
             Digit(index, k - 1) = CellState(b.black, b.white, squares[k])
=============================================================================
