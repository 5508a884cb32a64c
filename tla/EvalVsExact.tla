----------------------------- MODULE EvalVsExact -----------------------------
(***************************************************************************)
(* othello_eval_vs_exact: the labels of a file, read back and compared     *)
(* with the evaluator (analyze_exact_label_jsonl, eval_vs_exact.cpp).      *)
(* The evaluator is known by its scores.                                   *)
(***************************************************************************)
EXTENDS ExactLabels

CONSTANT Eval       \* Eval[p]: the evaluator's score of p for the side to move

ASSUME EvalTypes == Eval \in [Positions -> Int]

(***************************************************************************)
(* One line (JsonParser::parse_record).                                    *)
(***************************************************************************)
LabelKinds ==
  [schema |-> "string", position_id |-> "string", board |-> "string", side_to_move |-> "string",
   empties |-> "int", legal_moves |-> "strings", exact_score_side_to_move |-> "int",
   best_moves |-> "strings", best_move |-> "nullable"]
ScoreKinds == [move |-> "string", exact_score_side_to_move |-> "int"]

\* Mutation: of a member that stands there twice, the last counts.
HasMembersRepeated(line, members, kinds) ==
  \A name \in DOMAIN kinds :
    /\ Named(members, name) # {}
    /\ HasKind(line, members[Max(Named(members, name))].at, kinds[name])
\* Every required member is there once, and of its kind.
HasMembers(line, members, kinds) ==
  \A name \in DOMAIN kinds :
    \E k \in DOMAIN members :
      Named(members, name) = {k} /\ HasKind(line, members[k].at, kinds[name])
Member(line, members, name, kinds) ==
  ValueOf(line, members[Min(Named(members, name))].at, kinds[name])

\* parse_move_score_object: a set of one score, or of none.
ScoreAt(line, i) ==
  IF KindAt(line, i) # "begin_object" THEN {}
  ELSE UNION { { [move |-> Member(line, members, "move", ScoreKinds),
                  score |-> Member(line, members, "exact_score_side_to_move", ScoreKinds)] :
                 ok \in {TRUE} \cap {HasMembers(line, members, ScoreKinds)} } :
               members \in PartsAt(line, i, FALSE) }

\* parse_move_scores_array
ScoresAt(line, i) ==
  IF KindAt(line, i) # "begin_array" THEN {}
  ELSE UNION { { [k \in DOMAIN items |-> CHOOSE s \in ScoreAt(line, items[k].at) : TRUE] :
                 ok \in {TRUE} \cap {\A k \in DOMAIN items : ScoreAt(line, items[k].at) # {}} } :
               items \in PartsAt(line, i, FALSE) }

\* The scores of a line that has them; none of one that has no such member.
LineScores(line, members) ==
  LET named == Named(members, "move_scores")
  IN  IF named = {} THEN {<< >>}
      ELSE UNION { ScoresAt(line, members[k].at) : k \in { k \in named : named = {k} } }

RecordIn(line, members) ==
  IF ~HasMembers(line, members, LabelKinds) THEN {}
  ELSE LET field(name) == Member(line, members, name, LabelKinds)
       IN  { [position_id |-> field("position_id"), board |-> field("board"),
              side_to_move |-> field("side_to_move"), empties |-> field("empties"),
              exact_score |-> field("exact_score_side_to_move"),
              has_move_scores |-> Named(members, "move_scores") # {},
              move_scores |-> scores] :
             scores \in { s \in LineScores(line, members) : field("schema") = Schema } }
ParseLabel(line) == UNION { RecordIn(line, members) : members \in Object(line, FALSE) }

(***************************************************************************)
(* One label against the evaluator (analyze_record).                       *)
(***************************************************************************)
Sign(n) == IF n > 0 THEN 1 ELSE IF n < 0 THEN -1 ELSE 0
WrongDirection(a) == Sign(a.exact_score) * Sign(a.eval_score) = -1
AbsOf(n) == IF n < 0 THEN -n ELSE n

\* The order of the names of squares, "A1" < "A2" < "B1".
ByName(move) == (move % 8) * 8 + move \div 8
\* The higher score first, and of two that are equal the lower name.
RankedBefore(a, b) ==
  a.eval_score > b.eval_score \/ (a.eval_score = b.eval_score /\ ByName(a.move) < ByName(b.move))

ScoredMoves(label) == { s.move : s \in Range(label.move_scores) }
\* Two scores of a move, or the moves that are scored not those of the board.
ScoresMisfit(label) ==
  \/ Len(label.move_scores) # Cardinality(ScoredMoves(label))
  \/ MoveLabels(label.board) # << >> /\ ScoredMoves(label) # Range(MoveLabels(label.board))

RankOf(ranked, score) == 1 + Len(SelectSeq(ranked, LAMBDA m : m.eval_score > score))

\* analyze_move_rank_record, of a label whose scores fit its board.
MoveRank(label) ==
  LET best == Max({ s.score : s \in Range(label.move_scores) })
      ranked == SortSeq([i \in DOMAIN label.move_scores |->
                  LET s == label.move_scores[i]
                  IN  [move |-> s.move, score |-> s.score, exact_best |-> s.score = best,
                       eval_score |-> -Eval[After(label.board, s.move)]]], RankedBefore)
      best_eval == Max({ m.eval_score : m \in { n \in Range(ranked) : n.exact_best } })
      group == SelectSeq(ranked, LAMBDA m : m.eval_score = ranked[1].eval_score)
  IN  [exact_best_score |-> best, rank |-> RankOf(ranked, best_eval), top |-> ranked[1].move,
       top_group_has_exact_best |-> \E m \in Range(group) : m.exact_best,
       eval_gap |-> ranked[1].eval_score - best_eval,
       exact_gap |-> best - Max({ m.score : m \in Range(group) })]

FitsBoard(label) ==
  label.side_to_move = SideName(label.board) /\ label.empties = Empties[label.board]

\* A set of one analysis, or of none: rank is a set of one or none likewise, and
\* skipped says why it is empty.
AnalyzeRecord(label, move_rank) ==
  LET skipped == IF ~move_rank THEN "" ELSE IF ~label.has_move_scores THEN "missing"
                 ELSE IF MoveLabels(label.board) = << >> THEN "no move" ELSE ""
      ranks == move_rank /\ skipped = ""
      misfit == move_rank /\ label.has_move_scores /\ ScoresMisfit(label)
  IN  IF ~FitsBoard(label) \/ misfit THEN {}
      ELSE {[position_id |-> label.position_id, board |-> label.board, empties |-> label.empties,
             exact_score |-> label.exact_score, eval_score |-> Eval[label.board],
             rank |-> { MoveRank(label) : yes \in {TRUE} \cap {ranks} }, skipped |-> skipped]}

(***************************************************************************)
(* The report.  std::ranges::sort leaves cases that are equal in any       *)
(* order; only the first ones of a list are written out.                   *)
(***************************************************************************)
Bool01(b) == IF b THEN 1 ELSE 0

\* Mutation: a draw agrees with any score.
SignsAgreeOnDraws(a) == a.exact_score = 0 \/ Sign(a.exact_score) = Sign(a.eval_score)
SignsAgree(a) == Sign(a.exact_score) = Sign(a.eval_score)

\* update_bucket, which update_summary begins with too.
EmptyBucket ==
  [analyzed |-> 0, exact_wins |-> 0, exact_losses |-> 0, exact_draws |-> 0, eval_positive |-> 0,
   eval_negative |-> 0, eval_zero |-> 0, sign_agreements |-> 0, sign_disagreements |-> 0,
   wrong_direction |-> 0]
UpdateBucket(s, a) ==
  [s EXCEPT !.analyzed = @ + 1,
            !.exact_wins = @ + Bool01(a.exact_score > 0),
            !.exact_losses = @ + Bool01(a.exact_score < 0),
            !.exact_draws = @ + Bool01(a.exact_score = 0),
            !.eval_positive = @ + Bool01(a.eval_score > 0),
            !.eval_negative = @ + Bool01(a.eval_score < 0),
            !.eval_zero = @ + Bool01(a.eval_score = 0),
            !.sign_agreements = @ + Bool01(SignsAgree(a)),
            !.sign_disagreements = @ + Bool01(~SignsAgree(a)),
            !.wrong_direction = @ + Bool01(WrongDirection(a))]

\* update_summary, update_move_rank_summary
EmptySummary ==
  EmptyBucket @@ [with_scores |-> 0, missing_scores |-> 0, no_legal_moves |-> 0, ranked |-> 0,
                  top_exact_best |-> 0, top_non_best |-> 0]
UpdateSummary(s, a) ==
  [UpdateBucket(s, a) EXCEPT
     !.with_scores = @ + Bool01(a.rank # {} \/ a.skipped = "no move"),
     !.missing_scores = @ + Bool01(a.skipped = "missing"),
     !.no_legal_moves = @ + Bool01(a.skipped = "no move"),
     !.ranked = @ + Cardinality(a.rank),
     !.top_exact_best = @ + Cardinality({ r \in a.rank : r.top_group_has_exact_best }),
     !.top_non_best = @ + Cardinality({ r \in a.rank : ~r.top_group_has_exact_best })]

WorseEval(a, b) ==
  \/ AbsOf(a.eval_score) > AbsOf(b.eval_score)
  \/ (AbsOf(a.eval_score) = AbsOf(b.eval_score) /\ AbsOf(a.exact_score) > AbsOf(b.exact_score))
RankIn(a) == CHOOSE r \in a.rank : TRUE
\* Keys are compared one after the other, the greater first.
Lexically(k, l) ==
  \E i \in DOMAIN k : k[i] > l[i] /\ \A j \in 1 .. i - 1 : k[j] = l[j]
MissKey(a) == <<RankIn(a).eval_gap, RankIn(a).exact_gap, -a.empties>>
WorseMiss(a, b) == Lexically(MissKey(a), MissKey(b))
WorseRank(a, b) == Lexically(<<RankIn(a).rank>> \o MissKey(a), <<RankIn(b).rank>> \o MissKey(b))

Top(cases, top) == SubSeq(cases, 1, Min({top, Len(cases)}))
WrongDirectionCases(analyses) == SortSeq(SelectSeq(analyses, WrongDirection), WorseEval)
RankCases(analyses) == SortSeq(SelectSeq(analyses, LAMBDA a : a.rank # {}), WorseRank)
MissCases(analyses) ==
  SortSeq(SelectSeq(analyses, LAMBDA a : \E r \in a.rank : ~r.top_group_has_exact_best), WorseMiss)
\* high_confidence_cases
HighConfidence(analyses, threshold) ==
  SortSeq(SelectSeq(analyses, LAMBDA a : WrongDirection(a) /\ AbsOf(a.eval_score) >= threshold),
          LAMBDA a, b : AbsOf(a.eval_score) > AbsOf(b.eval_score))

\* make_markdown_report: the counts of every bucket of empty squares, the lists.
Report(analyses, analyzer) ==
  [buckets |-> [e \in { a.empties : a \in Range(analyses) } |->
                  FoldLeft(UpdateBucket, EmptyBucket,
                           SelectSeq(analyses, LAMBDA a : a.empties = e))],
   wrong |-> Top(WrongDirectionCases(analyses), analyzer.top),
   high_confidence |-> Top(HighConfidence(analyses, analyzer.threshold), analyzer.top),
   ranks |-> Top(RankCases(analyses), analyzer.top),
   misses |-> Top(MissCases(analyses), analyzer.top)]
=============================================================================
