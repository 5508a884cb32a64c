-------------------------- MODULE MCLabelPipeline ---------------------------
(***************************************************************************)
(* A small game for the label tools: a choice of three moves, a forced     *)
(* pass, games that end early, wins, losses and a draw.                    *)
(*                                                                         *)
(*   empties 4   R   9 -> A  18 -> B   2 -> C                              *)
(*   empties 3   A  18 -> E      B   9 -> E   1 -> P    C  9 -> F          *)
(*   empties 2   E  19 -> y  20 -> z     P  passes to P1    F (game over)  *)
(*               P1  2 -> v   3 -> u                                       *)
(*   empties 1   y (game over)   z  3 -> x   v  3 -> w   u  2 -> t         *)
(*   empties 0   x, w, t (game over)                                       *)
(***************************************************************************)
EXTENDS LabelPipeline

GameEdges ==
  [R |-> (9 :> "A" @@ 18 :> "B" @@ 2 :> "C"), A |-> (18 :> "E"), B |-> (9 :> "E" @@ 1 :> "P"),
   C |-> (9 :> "F"), E |-> (19 :> "y" @@ 20 :> "z"), P |-> << >>, P1 |-> (2 :> "v" @@ 3 :> "u"),
   F |-> << >>, y |-> << >>, z |-> (3 :> "x"), v |-> (3 :> "w"), u |-> (2 :> "t"),
   x |-> << >>, w |-> << >>, t |-> << >>]
MCPositions == DOMAIN GameEdges
MCMoves == [p \in MCPositions |-> DOMAIN GameEdges[p]]
MCPass == [p \in MCPositions |-> IF p = "P" THEN "P1" ELSE p]
MCSide == [p \in MCPositions |-> p \in {"R", "E", "P", "F", "v", "u", "x"}]
MCEmpties ==
  [p \in MCPositions |->
    CASE p = "R" -> 4 [] p \in {"A", "B", "C"} -> 3 [] p \in {"E", "P", "P1", "F"} -> 2
      [] p \in {"y", "z", "v", "u"} -> 1 [] OTHER -> 0]
MCMargin ==
  [p \in MCPositions |->
    CASE p = "F" -> -6 [] p = "y" -> 4 [] p = "x" -> 2 [] p = "w" -> 0 [] p = "t" -> -8
      [] OTHER -> 0]
MCValue[p \in MCPositions] ==
  IF MCMoves[p] # {} THEN Max({ -MCValue[GameEdges[p][m]] : m \in MCMoves[p] })
  ELSE IF MCMoves[MCPass[p]] # {} THEN -MCValue[MCPass[p]] ELSE MCMargin[p]

\* The evaluator errs at A and C, by scores of both signs, takes E for a draw, puts
\* two moves of R in its top group and the best one last, and B's best one first.
MCEval ==
  [p \in MCPositions |->
    CASE p = "R" -> 30 [] p = "A" -> 5 [] p \in {"B", "C"} -> -12 [] p = "E" -> 0
      [] p = "P" -> -3 [] p = "P1" -> 3 [] p = "y" -> 4 [] p = "z" -> 9 [] p = "v" -> -7
      [] p = "u" -> -9 [] OTHER -> MCMargin[p]]

SampleFor(count, targets, max_plies, unique, allow_terminal, attempts) ==
  [count |-> count, target_empties |-> targets, max_plies |-> max_plies, unique |-> unique,
   allow_terminal |-> allow_terminal, max_attempts |-> attempts]
DumpOf(limit, max_empties, include) ==
  [limit |-> limit, max_empties |-> max_empties, include |-> include]
AnalyzeBy(move_rank, threshold, top) ==
  [move_rank |-> move_rank, threshold |-> threshold, top |-> top]
Job(s, d, a) == [sampler |-> s, dump |-> d, analyzer |-> a]

\* Every size that can be sampled; unique samples or not, terminal ones or not;
\* attempts and plies that run out; a limit, too many empties; scores or not.
MCJobs ==
  {Job(SampleFor(2, <<2, 3>>, 60, TRUE, FALSE, 3), DumpOf({}, 16, TRUE), AnalyzeBy(TRUE, 10, 2)),
   Job(SampleFor(3, <<3>>, 60, TRUE, FALSE, 5), DumpOf({}, 16, FALSE), AnalyzeBy(FALSE, 0, 1)),
   Job(SampleFor(2, <<0, 1>>, 60, FALSE, TRUE, 2), DumpOf({}, 16, TRUE), AnalyzeBy(TRUE, 0, 2)),
   Job(SampleFor(2, <<4, 2>>, 60, TRUE, TRUE, 4), DumpOf({1}, 3, FALSE), AnalyzeBy(TRUE, 0, 2)),
   Job(SampleFor(3, <<1, 2>>, 3, FALSE, FALSE, 5), DumpOf({2}, 1, TRUE), AnalyzeBy(FALSE, 5, 2)),
   Job(SampleFor(2, <<3, 4>>, 60, TRUE, FALSE, 2), DumpOf({}, 4, TRUE), AnalyzeBy(TRUE, 20, 1))}
=============================================================================
