----------------------------- MODULE ExactLabels -----------------------------
(***************************************************************************)
(* An exact label: what othello_exact_label_dump writes about a position   *)
(* (make_exact_label, write_jsonl_record, exact_label_dump.cpp).  The      *)
(* solver is the one of ExactSolver, known here by what it promises: the   *)
(* value, and some optimal move of a position that has a move.             *)
(***************************************************************************)
EXTENDS PositionSampler, JsonLines

PassMove == 64
SideName(p) == IF Side[p] THEN "B" ELSE "W"

MoveLabels(p) ==
  IF Moves[p] # {} THEN SetToSortSeq(Moves[p], <) ELSE IF Terminal(p) THEN << >> ELSE <<PassMove>>
After(p, move) == IF move = PassMove THEN Pass[p] ELSE Play[p][move]

\* Mutation: the score of a move is left as the opponent sees it.
MoveScoresOfOpponent(p) ==
  [i \in DOMAIN MoveLabels(p) |->
     [move |-> MoveLabels(p)[i], score |-> Value[After(p, MoveLabels(p)[i])]]]
\* compute_move_scores
MoveScores(p) ==
  [i \in DOMAIN MoveLabels(p) |->
     [move |-> MoveLabels(p)[i], score |-> -Value[After(p, MoveLabels(p)[i])]]]

BestOf(scores) ==
  SelectSeq(scores, LAMBDA s : \A i \in DOMAIN scores : scores[i].score <= s.score)
\* best_moves_from_scores, best_moves_from_root_result: the one lists every best
\* move, the other the move the solver chose.
BestMoves(p, include) ==
  IF include THEN LET best == BestOf(MoveScores(p)) IN {[i \in DOMAIN best |-> best[i].move]}
  ELSE IF Moves[p] # {} THEN { <<m>> : m \in Optimal(p) } ELSE {MoveLabels(p)}

\* The labels make_exact_label may give the id-th position.
Labels(id, p, include) ==
  { [position_id |-> id, board |-> p, side_to_move |-> SideName(p), empties |-> Empties[p],
     legal_moves |-> MoveLabels(p), exact_score |-> Value[p], best_moves |-> best,
     move_scores |-> IF include THEN MoveScores(p) ELSE << >>, include |-> include] :
    best \in BestMoves(p, include) }

Schema == "exact_label.v1"
ScoreTokens(scores) ==
  ArrayOf([i \in DOMAIN scores |->
    ObjectOf(<<<<"move", <<Str(scores[i].move)>>>>,
               <<"exact_score_side_to_move", <<Num(scores[i].score)>>>>>>)])

\* The members of a label's line, in the order they are written.
LabelFields(l) ==
  <<<<"schema", <<Str(Schema)>>>>, <<"position_id", <<Str(l.position_id)>>>>,
    <<"board", <<Str(l.board)>>>>, <<"side_to_move", <<Str(l.side_to_move)>>>>,
    <<"occupied", <<Num(64 - l.empties)>>>>, <<"empties", <<Num(l.empties)>>>>,
    <<"legal_moves", StringArray(l.legal_moves)>>,
    <<"exact_score_side_to_move", <<Num(l.exact_score)>>>>,
    <<"best_moves", StringArray(l.best_moves)>>,
    <<"best_move", IF l.best_moves = << >> THEN <<Null>> ELSE <<Str(l.best_moves[1])>>>>>>
  \o (IF l.include THEN <<<<"move_scores", ScoreTokens(l.move_scores)>>>> ELSE << >>)
  \o <<<<"nodes", <<Num(1)>>>>>>
LabelLine(l) == ObjectOf(LabelFields(l))
=============================================================================
