--------------------------- MODULE LabelPipeline ----------------------------
(***************************************************************************)
(* The three label tools, one after the other, and the files between them: *)
(* the sampler writes positions, the dump reads them and writes a line for *)
(* each label, the analyzer reads those and writes its report.             *)
(*                                                                         *)
(* A tool looks at its output stream before the last of it is written out  *)
(* (position_sampler_main.cpp, exact_label_dump.cpp), so the end of a file *)
(* may be lost unnoticed; and a file of labels is meant to be kept, merged *)
(* and edited by others, here one line of it in one of the ways of Edits.  *)
(***************************************************************************)
EXTENDS EvalVsExact

VARIABLES
  boards,       \* the file of positions; sampled: what it was made of
  dump,         \* the label dump
  labels,       \* the file of labels; made: what it was made of
  analyzer      \* the analyzer

vars == <<job, sampler, boards, dump, labels, analyzer>>

ASSUME JobTools ==
  \A j \in Jobs :
    /\ j.dump.limit \subseteq Nat /\ \A a, b \in j.dump.limit : a = b      \* an optional number
    /\ j.dump.max_empties \in 0 .. 64 /\ j.dump.include \in BOOLEAN
    /\ j.analyzer.move_rank \in BOOLEAN /\ j.analyzer.threshold \in Nat /\ j.analyzer.top \in Nat

NoBoards == [lines |-> << >>, sampled |-> << >>, lost |-> FALSE]
IdleDump == [pc |-> "idle", positions |-> << >>, next |-> 1, labeled |-> 0, skipped |-> 0]
NoLabels == [lines |-> << >>, made |-> << >>, closed |-> FALSE, lost |-> FALSE, edit |-> "none"]
IdleAnalyzer ==
  [pc |-> "idle", next |-> 1, summary |-> EmptySummary, analyses |-> << >>, report |-> {}]

Init ==
  /\ job \in Jobs /\ sampler = NewSampler
  /\ boards = NoBoards /\ dump = IdleDump /\ labels = NoLabels /\ analyzer = IdleAnalyzer

Sampling == SamplerStep /\ UNCHANGED <<boards, dump, labels, analyzer>>

\* The sampler has written the file and is gone.
WritePositions ==
  /\ sampler.pc = "done"
  /\ boards' = [boards EXCEPT !.lines = PositionLines(sampler.samples),
                              !.sampled = sampler.samples]
  /\ sampler' = [NewSampler EXCEPT !.pc = "exited"]
  /\ UNCHANGED <<job, dump, labels, analyzer>>

LosePositionsTail ==
  /\ sampler.pc = "exited" /\ dump = IdleDump /\ ~boards.lost
  /\ \E kept \in 0 .. Len(boards.lines) - 1 : \E torn \in {<< >>, <<TornLine>>} :
       boards' = [boards EXCEPT !.lines = SubSeq(@, 1, kept) \o torn, !.lost = TRUE]
  /\ UNCHANGED <<job, sampler, dump, labels, analyzer>>

(***************************************************************************)
(* The dump (write_exact_label_jsonl).                                     *)
(***************************************************************************)
StartDump ==
  /\ sampler.pc = "exited" /\ dump.pc = "idle"
  /\ \E read \in {ParsePositions(boards.lines)} :
       dump' = IF read = {} THEN [dump EXCEPT !.pc = "refused"]
               ELSE [dump EXCEPT !.pc = "label", !.positions = CHOOSE p \in read : TRUE]
  /\ UNCHANGED <<job, sampler, boards, labels, analyzer>>

AtLimit == \E limit \in job.dump.limit : dump.labeled >= limit
HasPosition == dump.pc = "label" /\ dump.next <= Len(dump.positions) /\ ~AtLimit
InputPosition == dump.positions[dump.next]

SkipTooManyEmpties ==
  /\ HasPosition /\ Empties[InputPosition] > job.dump.max_empties
  /\ dump' = [dump EXCEPT !.next = @ + 1, !.skipped = @ + 1]
  /\ UNCHANGED <<job, sampler, boards, labels, analyzer>>

LabelPosition ==
  /\ HasPosition /\ Empties[InputPosition] <= job.dump.max_empties
  /\ \E label \in Labels(dump.next, InputPosition, job.dump.include) :
       labels' = [labels EXCEPT !.made = Append(@, label), !.lines = Append(@, LabelLine(label))]
  /\ dump' = [dump EXCEPT !.next = @ + 1, !.labeled = @ + 1]
  /\ UNCHANGED <<job, sampler, boards, analyzer>>

\* Mutation: the dump waits for its last position, the limit forgotten.
EndDumpAfterLast ==
  /\ dump.pc = "label" /\ dump.next > Len(dump.positions)
  /\ dump' = [dump EXCEPT !.pc = "exited"]
  /\ labels' = [labels EXCEPT !.closed = TRUE]
  /\ UNCHANGED <<job, sampler, boards, analyzer>>
EndDump ==
  /\ dump.pc = "label" /\ ~HasPosition
  /\ dump' = [dump EXCEPT !.pc = "exited"]
  /\ labels' = [labels EXCEPT !.closed = TRUE]
  /\ UNCHANGED <<job, sampler, boards, analyzer>>

(***************************************************************************)
(* What becomes of the file of labels.                                     *)
(***************************************************************************)
Untouched == labels.closed /\ ~labels.lost /\ labels.edit = "none" /\ analyzer = IdleAnalyzer

\* The end of the file is lost: whole lines, and a part of one more.
LoseLabelsTail ==
  /\ Untouched
  /\ \E kept \in 0 .. Len(labels.lines) - 1 : \E cut \in 0 .. Len(labels.lines[kept + 1]) - 1 :
       labels' = [labels EXCEPT
         !.lines = SubSeq(@, 1, kept)
                     \o (IF cut = 0 THEN << >> ELSE <<SubSeq(labels.lines[kept + 1], 1, cut)>>),
         !.lost = TRUE]
  /\ UNCHANGED <<job, sampler, boards, dump, analyzer>>

Without(fields, name) == SelectSeq(fields, LAMBDA f : f[1] # name)
FieldOf(fields, name) == SelectSeq(fields, LAMBDA f : f[1] = name)
WithValue(fields, name, tokens) ==
  [i \in DOMAIN fields |-> IF fields[i][1] = name THEN <<name, tokens>> ELSE fields[i]]
ScoresOf(l, scores) == LabelLine([l EXCEPT !.move_scores = scores])

\* One line edited, each edit with its name.
Edits(l) ==
  LET fields == LabelFields(l)
      edit(how, line) == [how |-> how, line |-> line]
      scores == l.move_scores
  IN  { edit("member dropped", ObjectOf(Without(fields, name))) : name \in DOMAIN LabelKinds }
      \cup { edit("member repeated", ObjectOf(fields \o FieldOf(fields, name))) :
             name \in DOMAIN LabelKinds }
      \cup { edit("member not of its kind", ObjectOf(WithValue(fields, name, <<Null>>))) :
             name \in DOMAIN LabelKinds \ {"best_move"} }
      \cup { edit("other schema", ObjectOf(WithValue(fields, "schema", <<Str("v0")>>))),
             edit("other side", LabelLine([l EXCEPT !.side_to_move = IF @ = "B" THEN "W" ELSE "B"])),
             edit("other count", LabelLine([l EXCEPT !.empties = @ + 1])),
             edit("other order", ObjectOf(Reverse(fields))) }
      \cup { edit("other board", LabelLine([l EXCEPT !.board = p])) :
             p \in { q \in Positions : Empties[q] # l.empties } }
      \cup (IF scores = << >> THEN {}
            ELSE { edit("scores misfit", ScoresOf(l, Tail(scores))),
                   edit("scores misfit", ScoresOf(l, Append(scores, scores[1]))),
                   edit("scores misfit", ScoresOf(l, [scores EXCEPT ![1].move = 63])) })

EditLine ==
  /\ Untouched
  /\ \E i \in DOMAIN labels.lines : \E e \in Edits(labels.made[i]) :
       labels' = [labels EXCEPT !.lines[i] = e.line, !.edit = e.how]
  /\ UNCHANGED <<job, sampler, boards, dump, analyzer>>

(***************************************************************************)
(* The analyzer (analyze_exact_label_jsonl).                               *)
(***************************************************************************)
StartAnalyzer ==
  /\ labels.closed /\ analyzer.pc = "idle"
  /\ analyzer' = [analyzer EXCEPT !.pc = "read"]
  /\ UNCHANGED <<job, sampler, boards, dump, labels>>

ReadLine ==
  /\ analyzer.pc = "read" /\ analyzer.next <= Len(labels.lines)
  /\ \E read \in {UNION { AnalyzeRecord(label, job.analyzer.move_rank) :
                          label \in ParseLabel(labels.lines[analyzer.next]) }} :
       analyzer' = IF read = {} THEN [analyzer EXCEPT !.pc = "refused"]
                   ELSE [analyzer EXCEPT
                           !.next = @ + 1,
                           !.summary = UpdateSummary(@, CHOOSE a \in read : TRUE),
                           !.analyses = Append(@, CHOOSE a \in read : TRUE)]
  /\ UNCHANGED <<job, sampler, boards, dump, labels>>

WriteReport ==
  /\ analyzer.pc = "read" /\ analyzer.next > Len(labels.lines)
  /\ analyzer' = [analyzer EXCEPT !.pc = "reported",
                                  !.report = {Report(analyzer.analyses, job.analyzer)}]
  /\ UNCHANGED <<job, sampler, boards, dump, labels>>

Sampler == Sampling \/ WritePositions
Dump == StartDump \/ SkipTooManyEmpties \/ LabelPosition \/ EndDump
Analyzer == StartAnalyzer \/ ReadLine \/ WriteReport
Next == Sampler \/ LosePositionsTail \/ Dump \/ LoseLabelsTail \/ EditLine \/ Analyzer

\* Each tool waits for nothing but the file it reads, and runs to its end.
Spec ==
  Init /\ [][Next]_vars /\ WF_vars(Sampler) /\ WF_vars(Dump) /\ WF_vars(Analyzer)

(***************************************************************************)
(* Properties.                                                             *)
(***************************************************************************)

\* A label is the label of the sample its id names, whatever samples were skipped
\* before it and whatever end of their file was lost; no line of that file is
\* passed over, and no position that can be labelled within the limit is.
LabelsAreOfSamples ==
  /\ dump.pc = "refused" => boards.lost
  /\ dump.pc \in {"label", "exited"} =>
       /\ IsPrefix(dump.positions, boards.sampled)
       /\ 9 * Len(dump.positions) = Len(Kept(boards.lines))
  /\ \A k \in DOMAIN labels.made :
       LET l == labels.made[k]
       IN  /\ l.board = boards.sampled[l.position_id]
           /\ \A i \in 1 .. l.position_id - 1 :
                (\E j \in 1 .. k - 1 : labels.made[j].position_id = i)
                  = (Empties[boards.sampled[i]] <= job.dump.max_empties)
  /\ dump.pc = "exited" =>
       \/ job.dump.limit = {Len(labels.made)}
       \/ Len(labels.made) = Cardinality({ i \in DOMAIN dump.positions :
                                Empties[dump.positions[i]] <= job.dump.max_empties })

Written(i) == labels.lines[i] = LabelLine(labels.made[i])

\* The analyzer reads back what the dump wrote, labels with and without the
\* moves' scores, of passes and of finished games, the members of a line in any
\* order; and no report counts a line that was cut or no longer says what it
\* must: a required member gone, there twice or of another kind, another schema,
\* a side, count or board that do not fit each other, scores that are not one
\* for each move, where those are looked at (parse_line).
RefusalsJustified ==
  /\ analyzer.pc = "refused" =>
       labels.edit # "other order" /\ \E i \in DOMAIN labels.lines : ~Written(i)
  /\ analyzer.pc = "reported" =>
       \/ labels.edit = "other order"
       \/ labels.edit = "scores misfit" /\ ~job.analyzer.move_rank
       \/ \A i \in DOMAIN labels.lines : Written(i)

\* The ways to say how far the evaluator is off say one thing: the best move has
\* rank 1 exactly if it is in the top group and if neither score shows a gap; and
\* the best score of a move is the score of the position.
RankRelations ==
  \A i \in DOMAIN analyzer.analyses : \A r \in analyzer.analyses[i].rank :
    LET a == analyzer.analyses[i]
    IN  /\ r.eval_gap >= 0 /\ r.exact_gap >= 0
        /\ (r.rank = 1) = r.top_group_has_exact_best
        /\ (r.eval_gap = 0) = r.top_group_has_exact_best
        /\ (r.exact_gap = 0) = r.top_group_has_exact_best
        /\ r.rank <= Len(MoveLabels(a.board)) - Cardinality(Optimal(a.board)) + 1
        /\ r.exact_best_score = a.exact_score /\ a.exact_score = Value[a.board]

\* The counts of a summary share out the labels, its own ones and those of the
\* report's buckets; wrong directions are the disagreements without a draw.
SharesOut(s, analyses) ==
  LET oneDrawn == SelectSeq(analyses, LAMBDA a : (a.exact_score = 0) # (a.eval_score = 0))
  IN  /\ s.analyzed = Len(analyses)
      /\ s.analyzed = s.exact_wins + s.exact_losses + s.exact_draws
      /\ s.analyzed = s.eval_positive + s.eval_negative + s.eval_zero
      /\ s.analyzed = s.sign_agreements + s.sign_disagreements
      /\ s.sign_disagreements = s.wrong_direction + Len(oneDrawn)
SummaryPartitions ==
  LET s == analyzer.summary
  IN  /\ SharesOut(s, analyzer.analyses)
      /\ job.analyzer.move_rank => s.analyzed = s.with_scores + s.missing_scores
      /\ s.with_scores = s.ranked + s.no_legal_moves
      /\ s.ranked = s.top_exact_best + s.top_non_best
      /\ \A report \in analyzer.report : \A e \in DOMAIN report.buckets :
           SharesOut(report.buckets[e], SelectSeq(analyzer.analyses, LAMBDA a : a.empties = e))

\* Every list of the report shows the worst cases there are, the worst first: by
\* the size of the score, be it for or against the side to move, by the rank and
\* by the gap; the high-confidence cases are as far off as the first cases of a
\* wrong direction, however cases that are equal were sorted.
Shows(list, cases, badness(_)) ==
  /\ Len(list) = Min({job.analyzer.top, Cardinality(cases)})
  /\ \A i, j \in DOMAIN list : i < j => badness(list[i]) >= badness(list[j])
  /\ \A a \in cases \ Range(list) : \A b \in Range(list) : badness(a) <= badness(b)
WorstShown ==
  \A report \in analyzer.report :
    LET analyses == Range(analyzer.analyses)
        wrong == { a \in analyses : WrongDirection(a) }
    IN  /\ Shows(report.wrong, wrong, LAMBDA a : AbsOf(a.eval_score))
        /\ Shows(report.high_confidence,
                 { a \in wrong : AbsOf(a.eval_score) >= job.analyzer.threshold },
                 LAMBDA a : AbsOf(a.eval_score))
        /\ Len(report.high_confidence) <= Len(report.wrong)
        /\ \A i \in DOMAIN report.high_confidence :
             AbsOf(report.high_confidence[i].eval_score) = AbsOf(report.wrong[i].eval_score)
        /\ Shows(report.ranks, { a \in analyses : a.rank # {} }, LAMBDA a : RankIn(a).rank)
        /\ Shows(report.misses, { a \in analyses : \E r \in a.rank : ~r.top_group_has_exact_best },
                 LAMBDA a : RankIn(a).eval_gap)

\* What the report counts and shows is all there is to count and to show
\* (update_summary, the sorted lists of main).
ReportAddsUp == SummaryPartitions /\ WorstShown

\* Each tool comes to an end, and the last one to an answer if it gets a file.
ToolsEnd ==
  <>(\/ sampler.pc = "failed" \/ dump.pc = "refused" \/ analyzer.pc \in {"refused", "reported"})
=============================================================================
