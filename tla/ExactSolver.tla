----------------------------- MODULE ExactSolver -----------------------------
(***************************************************************************)
(* The exact endgame solver (endgame.cpp, endgame_last_n.hpp) as a state   *)
(* machine.  The C++ call stack is the variable stack, its top last; a     *)
(* call pushes a frame, a return pops one and leaves its NodeResult in     *)
(* ret, where the caller, now on top, picks it up.                         *)
(*                                                                         *)
(* A frame is one activation of solve_node, or, when few squares are       *)
(* empty, of one of the solve_last_n functions, which search the same      *)
(* way without table, heuristic ordering and scout windows.                *)
(***************************************************************************)
EXTENDS ExactTable

CONSTANTS
  OrderScore,                \* OrderScore[p][m]: the ordering heuristic of a move
  Roots,                     \* the positions solve_exact_endgame is asked for
  LastNSpecializedEmpties,   \* last_n_specialized_empties: 4 in the code
  RootPvsMinEmpties          \* root_pvs_min_empties: 16 in the code

ASSUME SolverAssumption ==
  /\ Roots \subseteq Positions
  /\ \A p \in Positions : \A m \in Moves[p] : OrderScore[p][m] \in Int
  /\ LastNSpecializedEmpties \in Nat \ {0}
  /\ RootPvsMinEmpties \in Nat
  /\ RootPvsMinEmpties > LastNSpecializedEmpties
  \* the last empty square is the only move there can be
  /\ \A p \in Positions : Empties[p] = 1 => \A m, n \in Moves[p] : m = n

VARIABLES
  root,    \* the position being solved
  stack,   \* the activations, the running one last
  ret,     \* the result just returned, or NoResult
  tt       \* context.transpositions

vars == <<root, stack, ret, tt>>

ScoreMin == -1000
ScoreMax == 1000
NoResult == [score |-> 0, best_move |-> -2, pv |-> << >>]

Waiting == {"pass", "root_scout", "root_full", "full", "scout", "research"}
Frames ==
  [pos : Positions, alpha : Int, beta : Int, original_alpha : Int,
   is_root : BOOLEAN, hint : Squares \cup {NoMove}, todo : SUBSET Squares,
   best : NodeResults, cur : Squares \cup {NoMove},
   stage : {"enter", "loop"} \cup Waiting]

NewFrame(p, alpha, beta, is_root) ==
  [pos |-> p, alpha |-> alpha, beta |-> beta, original_alpha |-> alpha,
   is_root |-> is_root, hint |-> NoMove, todo |-> {}, best |-> NoCandidate,
   cur |-> NoMove, stage |-> "enter"]

Init ==
  /\ root \in Roots
  /\ stack = <<NewFrame(root, ScoreMin, ScoreMax, TRUE)>>
  /\ ret = NoResult
  /\ tt = EmptyTable

Running == stack # << >>
Done    == stack = << >>
Top     == stack[Len(stack)]
InTail(f) == Empties[f.pos] <= LastNSpecializedEmpties

\* Mutation: a root candidate must always beat the best one.
RequiredScoreNoTie(f) == f.best.score + 1

\* root_candidate_required_score: what a root candidate must reach to replace
\* the best one; at a lower index a tie is enough.
RequiredScore(f) ==
  IF f.cur < f.best.best_move THEN f.best.score ELSE f.best.score + 1

\* The call a waiting frame has made: its position and its window.
ChildPos(f) == IF f.stage = "pass" THEN Pass[f.pos] ELSE Play[f.pos][f.cur]
ChildAlpha(f) ==
  CASE f.stage = "root_full"  -> ScoreMin
    [] f.stage = "root_scout" -> -RequiredScore(f)
    [] f.stage = "scout"      -> -(f.alpha + 1)
    [] OTHER                  -> -f.beta
ChildBeta(f) ==
  CASE f.stage = "root_full"  -> ScoreMax
    [] f.stage = "root_scout" -> -RequiredScore(f) + 1
    [] OTHER                  -> -f.alpha

\* Only the child of a root pass goes on as a root, and only far from the end.
ChildIsRoot(f) ==
  /\ f.stage = "pass" /\ f.is_root /\ ~InTail(f)
  /\ Empties[Pass[f.pos]] >= RootPvsMinEmpties

SetTop(f) == [stack EXCEPT ![Len(stack)] = f]
Popped    == SubSeq(stack, 1, Len(stack) - 1)

Call(f) ==
  /\ stack' = Append(SetTop(f), NewFrame(ChildPos(f), ChildAlpha(f),
                                         ChildBeta(f), ChildIsRoot(f)))
  /\ ret' = NoResult
  /\ UNCHANGED <<root, tt>>

Continue(f) ==
  /\ stack' = SetTop(f)
  /\ ret' = NoResult
  /\ UNCHANGED <<root, tt>>

Return(r) ==
  /\ stack' = Popped
  /\ ret' = r
  /\ UNCHANGED root

\* Mutation: the bound is judged by the raised alpha.
StoreAndReturnRaisedAlpha(f, r) ==
  /\ Return(r)
  /\ tt' = IF InTail(f) THEN tt
           ELSE Store(tt, f.pos, Empties[f.pos], r.score, f.alpha, f.beta, r.best_move)

\* A node returns the result it stores, except in the table-less tail.
StoreAndReturn(f, r) ==
  /\ Return(r)
  /\ tt' = IF InTail(f) THEN tt
           ELSE Store(tt, f.pos, Empties[f.pos], r.score, f.original_alpha,
                      f.beta, r.best_move)

Leaf(score) == [score |-> score, best_move |-> NoMove, pv |-> << >>]

(***************************************************************************)
(* Entering a node.                                                        *)
(***************************************************************************)
Entering == Running /\ Top.stage = "enter"

\* solve_last_1, with no empty square solve_last_0: no window, no search.
SolveLast1Result(p) ==
  LET sq(q) == CHOOSE m \in Moves[q] : TRUE
      last(q) == Play[q][sq(q)]
  IN  IF Moves[p] # {} THEN
        [score |-> -Margin[last(p)], best_move |-> sq(p), pv |-> <<sq(p)>>]
      ELSE IF Moves[Pass[p]] # {} THEN
        [score |-> Margin[last(Pass[p])], best_move |-> NoMove,
         pv |-> <<sq(Pass[p])>>]
      ELSE Leaf(Margin[p])

SolveLast1 ==
  /\ Entering
  /\ Empties[Top.pos] <= 1
  /\ Return(SolveLast1Result(Top.pos))
  /\ UNCHANGED tt

NodeCutoffs(f) ==
  IF InTail(f) THEN {} ELSE Cutoffs(tt, f.pos, Empties[f.pos], f.alpha, f.beta)

Cutoff ==
  /\ Entering
  /\ \E e \in NodeCutoffs(Top) : Return(CutoffResult(e))
  /\ UNCHANGED tt

Searches == Entering /\ Empties[Top.pos] > 1 /\ NodeCutoffs(Top) = {}

GameOver ==
  /\ Searches
  /\ Terminal(Top.pos)
  /\ StoreAndReturn(Top, Leaf(Margin[Top.pos]))

SearchPass ==
  /\ Searches
  /\ Moves[Top.pos] = {} /\ ~Terminal(Top.pos)
  /\ Call([Top EXCEPT !.stage = "pass"])

\* The preferred move is the one a lower bound was stored with.
StartMoves ==
  /\ Searches
  /\ Moves[Top.pos] # {}
  /\ Continue([Top EXCEPT !.stage = "loop", !.todo = Moves[Top.pos],
                 !.hint = IF InTail(Top) THEN NoMove
                          ELSE BestMoveHint(tt, Top.pos, Empties[Top.pos])])

(***************************************************************************)
(* The loop over the moves.                                                *)
(***************************************************************************)
\* ordered_legal_move_indexes: the preferred move, then by heuristic score,
\* then by index; the tail takes the squares by index.
Before(f, m, n) ==
  LET score == OrderScore[f.pos]
  IN  IF InTail(f) THEN m < n
      ELSE \/ m = f.hint
           \/ n # f.hint /\ (score[m] > score[n] \/ (score[m] = score[n] /\ m < n))

IsNext(f, m) == m \in f.todo /\ \A n \in f.todo \ {m} : Before(f, m, n)

InLoop == Running /\ Top.stage = "loop"
MoreMoves == InLoop /\ Top.todo # {} /\ Top.alpha < Top.beta

\* Mutation: the move stays in the list.
PickAgain(m, stage) == [Top EXCEPT !.cur = m, !.stage = stage]
Pick(m, stage) ==
  [Top EXCEPT !.todo = @ \ {m}, !.cur = m, !.stage = stage]

FirstMove(f) == f.best.best_move = NoMove
UsesRootPvs(f) == /\ Empties[f.pos] >= RootPvsMinEmpties
                  /\ \E m, n \in Moves[f.pos] : m # n

IsRootLoop(f) == f.is_root /\ ~InTail(f)

\* Full window for every root candidate; with root PVS only for the first.
RootCandidateFull ==
  /\ MoreMoves
  /\ IsRootLoop(Top)
  /\ FirstMove(Top) \/ ~UsesRootPvs(Top)
  /\ \E m \in Top.todo : IsNext(Top, m) /\ Call(Pick(m, "root_full"))

RootScouts == MoreMoves /\ IsRootLoop(Top) /\ ~FirstMove(Top) /\ UsesRootPvs(Top)

\* No margin exceeds 64, so nothing can reach this required score.
RootCandidateHopeless ==
  /\ RootScouts
  /\ \E m \in Top.todo :
       /\ IsNext(Top, m)
       /\ RequiredScore(Pick(m, "root_scout")) > FinalDiscMarginMax
       /\ Continue([Top EXCEPT !.todo = @ \ {m}])

RootCandidateScout ==
  /\ RootScouts
  /\ \E m \in Top.todo :
       /\ IsNext(Top, m)
       /\ RequiredScore(Pick(m, "root_scout")) <= FinalDiscMarginMax
       /\ Call(Pick(m, "root_scout"))

\* interior_candidate_needs_full_search, the guard on a possible tie.
NeedsFullSearch(f, m) == m < f.best.best_move /\ f.best.score <= f.alpha

InteriorFull ==
  /\ MoreMoves
  /\ ~IsRootLoop(Top)
  /\ \E m \in Top.todo :
       /\ IsNext(Top, m)
       /\ InTail(Top) \/ FirstMove(Top) \/ NeedsFullSearch(Top, m)
       /\ Call(Pick(m, "full"))

InteriorScout ==
  /\ MoreMoves
  /\ ~IsRootLoop(Top) /\ ~InTail(Top) /\ ~FirstMove(Top)
  /\ \E m \in Top.todo : /\ IsNext(Top, m)
                         /\ ~NeedsFullSearch(Top, m)
                         /\ Call(Pick(m, "scout"))

\* The loop is over, by exhaustion or by the beta cut.
Finish ==
  /\ InLoop
  /\ Top.todo = {} \/ Top.alpha >= Top.beta
  /\ StoreAndReturn(Top, Top.best)

(***************************************************************************)
(* Resuming a caller with its child's result.                              *)
(***************************************************************************)
Resumed(stage) == Running /\ ret # NoResult /\ Top.stage = stage

\* The line of a pass is its child's: the pass itself is not shown.
PassResult(r) == [score |-> -r.score, best_move |-> NoMove, pv |-> r.pv]

ResumePass ==
  /\ Resumed("pass")
  /\ StoreAndReturn(Top, PassResult(ret))

\* best and alpha after the candidate cur scored -ret.score.
AfterCandidate(f) ==
  LET score == -ret.score
  IN [f EXCEPT
        !.best = IF IsBetterBestMove(score, f.cur, f.best)
                 THEN [score |-> score, best_move |-> f.cur, pv |-> <<f.cur>> \o ret.pv]
                 ELSE f.best,
        !.alpha = MaxOf(f.alpha, score),
        !.cur = NoMove,
        !.stage = "loop"]

\* root_scout_rejects_candidate: the scout proved the candidate too low.
RootScoutReject ==
  /\ Resumed("root_scout")
  /\ -ret.score < RequiredScore(Top)
  /\ Continue([Top EXCEPT !.cur = NoMove, !.stage = "loop"])

RootScoutPromising ==
  /\ Resumed("root_scout")
  /\ -ret.score >= RequiredScore(Top)
  /\ Call([Top EXCEPT !.stage = "root_full"])

\* A scout inside the window says only "above alpha": search again.
ScoutInside ==
  /\ Resumed("scout")
  /\ -ret.score > Top.alpha /\ -ret.score < Top.beta
  /\ Call([Top EXCEPT !.stage = "research"])

ScoutOutside ==
  /\ Resumed("scout")
  /\ -ret.score <= Top.alpha \/ -ret.score >= Top.beta
  /\ Continue(AfterCandidate(Top))

ResumeFull ==
  /\ \E s \in {"root_full", "full", "research"} : Resumed(s)
  /\ Continue(AfterCandidate(Top))

Enter  == SolveLast1 \/ Cutoff \/ GameOver \/ SearchPass \/ StartMoves
Loop   == \/ RootCandidateFull \/ RootCandidateHopeless \/ RootCandidateScout
          \/ InteriorFull \/ InteriorScout \/ Finish
Resume == \/ ResumePass \/ RootScoutReject \/ RootScoutPromising
          \/ ScoutInside \/ ScoutOutside \/ ResumeFull

Next == Enter \/ Loop \/ Resume

Spec == Init /\ [][Next]_vars

\* The solver is a plain recursive function on one thread: it keeps running.
FairSpec == Spec /\ WF_vars(Next)

(***************************************************************************)
(* Properties.                                                             *)
(***************************************************************************)
TypeOK ==
  /\ root \in Roots
  /\ stack \in Seq(Frames)
  /\ ret \in NodeResults \cup {NoResult}
  /\ tt \in Tables

\* Every score a node returns keeps the fail-soft contract of the window its
\* caller asked for, table cutoffs and re-searches included (solve_node).
ReturnsKeepContract ==
  (Running /\ ret # NoResult) =>
    Contract(Value[ChildPos(Top)], ret.score, ChildAlpha(Top), ChildBeta(Top))

\* Whatever mixture of windows the entries were stored under and whichever
\* slots were replaced, each stored bound holds of the position's true value.
TableSound ==
  \A b \in Buckets : \A i \in Slots :
    tt[b][i].occupied =>
      BoundHolds(Value[tt[b][i].hash], tt[b][i].bound, tt[b][i].score)

\* No node is ever entered or resumed with an empty window.
WindowsProper ==
  \A i \in 1 .. Len(stack) :
    /\ stack[i].original_alpha < stack[i].beta
    /\ stack[i].stage # "loop" => stack[i].alpha < stack[i].beta

\* ExactEndgameResult.disc_margin is the game-theoretic margin.
MarginExact == Done => ret.score = Value[root]

\* ExactEndgameResult.best_move is the lowest square among the moves that
\* keep the margin, whatever the ordering, the scouts and the table did.
BestMoveDeterministic ==
  (Done /\ Moves[root] # {}) =>
     ret.best_move \in Optimal(root) /\ \A m \in Optimal(root) : ret.best_move <= m

\* ExactEndgameResult.principal_variation, played from the root with the
\* forced passes it does not show, is a legal line that starts with best_move;
\* without a table, whose entries cut it short, it ends where the game is over.
LineLegal ==
  Done => /\ LineEnd(root, ret.pv) # {}
          /\ ret.best_move # NoMove => ret.pv # << >> /\ Head(ret.pv) = ret.best_move
          /\ root \in Tableless => \A p \in LineEnd(root, ret.pv) : Terminal(p)

\* solve_exact_endgame returns.
Termination == <>Done
=============================================================================
