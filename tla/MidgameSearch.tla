--------------------------- MODULE MidgameSearch ----------------------------
(***************************************************************************)
(* The depth-limited search of search_node.cpp, as a machine of the same   *)
(* kind as ExactSolver: stack holds the activations of search_node, its    *)
(* top last, and ret the result just returned to the activation below, or, *)
(* when the stack is empty, to search_with_context.                        *)
(*                                                                         *)
(* The table tt and the session outlive the search; module SearchSession   *)
(* starts one search after another on them.  The line of a frame is the    *)
(* PrincipalVariationHint: what is left of the previous line, if the moves *)
(* so far have followed it.                                                *)
(***************************************************************************)
EXTENDS MidgameTable, MoveHistory

CONSTANTS
  Evaluators,         \* the evaluation configurations
  IdentityOf,         \* IdentityOf[e]: evaluation_config_identity of e
  Evaluate,           \* Evaluate[e][p]: evaluate_with_config
  SearchValues,       \* what a search may answer; see SearchValuesEquation
  PvsMinDepth,        \* 3 in the code
  DynamicScore,       \* DynamicScore[p][m]: move_order_score, without the bonus
  DynamicMinDepth,    \* dynamic_min_depth: 3
  DynamicMinMoves     \* dynamic_min_moves: 5

ASSUME MidgameAssumption ==
  /\ IdentityOf \in [Evaluators -> Identities]
  /\ \A e \in Evaluators : Evaluate[e] \in [Positions -> Int]
  /\ \A p \in Positions : DynamicScore[p] \in [Moves[p] -> Int]
  /\ {DynamicMinDepth, DynamicMinMoves} \subseteq Nat
  /\ PvsMinDepth \in Nat \ {0}

(***************************************************************************)
(* SearchValues[e][p][d] holds the values of the game trees below p that   *)
(* look at least d plies ahead along every line, evaluated by e: a table   *)
(* that answers with deeper entries mixes depths, so a search to depth d   *)
(* may see any of them.                                                    *)
(***************************************************************************)
MaxOfMoves(p, v, scores) ==
  /\ \A m \in Moves[p] : v >= -scores[m]
  /\ \E m \in Moves[p] : v = -scores[m]

ASSUME SearchValuesEquation ==
  \A e \in Evaluators : \A p \in Positions : \A d \in Depths :
    LET values(q, k) == SearchValues[e][q][k] IN
    /\ values(p, d) \subseteq Int
    /\ values(p, d) # {}
    /\ d > 0 => values(p, d) \subseteq values(p, d - 1)
    /\ d = 0 \/ Terminal(p) => Evaluate[e][p] \in values(p, d)
    /\ d > 0 /\ Moves[p] = {} /\ ~Terminal(p) =>
         \A v \in values(Pass[p], d - 1) : -v \in values(p, d)
    /\ d > 0 /\ Moves[p] # {} =>
         \A scores \in [Moves[p] -> UNION { values(Play[p][m], d - 1) : m \in Moves[p] }] :
           (\A m \in Moves[p] : scores[m] \in values(Play[p][m], d - 1)) =>
             \A v \in { -scores[m] : m \in Moves[p] } :
               MaxOfMoves(p, v, scores) => v \in values(p, d)

VARIABLES
  stack,     \* the activations of search_node
  ret,       \* the result just returned, or NoResult
  tt,        \* session.transpositions
  session    \* the rest of SearchSessionState, and the SearchOptions of the
             \* search in progress

Options      == session.options
UsePvs       == Options.use_pvs
UseLazyFirst == Options.use_lazy_first_move_ordering
StoreLeaves  == Options.store_leaf_tt_entries
ShallowHints == Options.use_shallow_tt_move_ordering_hint

NoResult == [score |-> 0, best_move |-> -2, pv |-> << >>]
Squares0 == Squares \cup {NoMove}
MidWaiting == {"pass", "full", "scout", "research"}

MidFrame(p, depth, alpha, beta, line) ==
  [pos |-> p, depth |-> depth, alpha |-> alpha, beta |-> beta,
   original_alpha |-> alpha, is_root |-> FALSE, root_move |-> NoMove,
   line |-> line, hint |-> NoMove, todo |-> {}, order |-> << >>, best |-> NoCandidate,
   cur |-> NoMove, stage |-> "enter"]

RootFrame(p, depth, alpha, beta, line, root_move) ==
  [MidFrame(p, depth, alpha, beta, line) EXCEPT !.is_root = TRUE,
                                                !.root_move = root_move]

Running == stack # << >>
Top     == stack[Len(stack)]
SetTop(f) == [stack EXCEPT ![Len(stack)] = f]
Popped    == SubSeq(stack, 1, Len(stack) - 1)
Scope == [mode |-> session.mode, eval_identity |-> IdentityOf[session.evaluator]]
Evaluated(f) == [score |-> Evaluate[session.evaluator][f.pos],
                 best_move |-> NoMove, pv |-> << >>]

\* child_hint_after_move_index, child_hint_after_pass.
ChildLine(f) ==
  IF f.stage = "pass" THEN f.line
  ELSE IF f.line # << >> /\ Head(f.line) = f.cur THEN Tail(f.line) ELSE << >>

\* The call a waiting frame has made.
ChildPos(f) == IF f.stage = "pass" THEN Pass[f.pos] ELSE Play[f.pos][f.cur]

ChildAlpha(f) == IF f.stage = "scout" THEN -(f.alpha + 1) ELSE -f.beta
ChildBeta(f) == -f.alpha

Call(f) ==
  /\ stack' = Append(SetTop(f), MidFrame(ChildPos(f), f.depth - 1, ChildAlpha(f),
                                         ChildBeta(f), ChildLine(f)))
  /\ ret' = NoResult
  /\ UNCHANGED <<tt, session>>

Continue(f) ==
  /\ stack' = SetTop(f)
  /\ ret' = NoResult
  /\ UNCHANGED <<tt, session>>

Return(r) ==
  /\ stack' = Popped
  /\ ret' = r
  /\ UNCHANGED session

\* Mutation: the bound is judged by the raised alpha.
StoreNodeRaisedAlpha(f, r) ==
  IF f.depth < Options.tt_min_store_depth THEN tt
  ELSE StoreEntry(tt, session.bucket_count,
         [occupied |-> TRUE, hash |-> f.pos, scope |-> Scope,
          generation |-> session.generation, depth |-> f.depth, score |-> r.score,
          best_move_index |-> r.best_move,
          bound |-> BoundForScore(r.score, f.alpha, f.beta)])

\* store_transposition.
StoreNode(f, r) ==
  IF f.depth < Options.tt_min_store_depth THEN tt
  ELSE StoreEntry(tt, session.bucket_count,
         [occupied |-> TRUE, hash |-> f.pos, scope |-> Scope,
          generation |-> session.generation, depth |-> f.depth, score |-> r.score,
          best_move_index |-> r.best_move,
          bound |-> BoundForScore(r.score, f.original_alpha, f.beta)])

StoreAndReturn(f, r) == Return(r) /\ tt' = StoreNode(f, r)

(***************************************************************************)
(* Entering a node.                                                        *)
(***************************************************************************)
Entering == Running /\ Top.stage = "enter"

\* probe_transposition.
Probed(f) == IF f.depth < Options.tt_min_probe_depth THEN {}
             ELSE Found(tt, session.bucket_count, f.pos, Scope)
NodeAnswers(f) == { e \in Probed(f) : Answers(e, f.depth, f.alpha, f.beta) }

\* node_result_from_transposition_entry.
EntryResult(e) ==
  [score |-> e.score, best_move |-> e.best_move_index,
   pv |-> IF e.best_move_index = NoMove THEN << >> ELSE <<e.best_move_index>>]

\* The table answers, at the root as anywhere else.
Cutoff ==
  /\ Entering
  /\ \E e \in NodeAnswers(Top) : Return(EntryResult(e))
  /\ UNCHANGED tt

Missed == Entering /\ NodeAnswers(Top) = {}

\* At depth 0 the position is evaluated, whoever can move.
LeafNode ==
  /\ Missed
  /\ Top.depth = 0
  /\ Return(Evaluated(Top))
  /\ tt' = IF StoreLeaves THEN StoreNode(Top, Evaluated(Top)) ELSE tt

GameOver ==
  /\ Missed
  /\ Top.depth > 0
  /\ Terminal(Top.pos)
  /\ StoreAndReturn(Top, Evaluated(Top))

\* A pass takes a ply of the depth.
SearchPass ==
  /\ Missed
  /\ Top.depth > 0
  /\ Moves[Top.pos] = {} /\ ~Terminal(Top.pos)
  /\ Call([Top EXCEPT !.stage = "pass"])

\* The move a matching entry offers to the ordering, from a shallower entry
\* only if the options allow it.
CollectsHint(f) == ~f.is_root /\ (f.depth >= DynamicMinDepth \/ UseLazyFirst)
HintOf(f) ==
  LET useful == { e \in Probed(f) : CollectsHint(f) /\ (e.depth >= f.depth \/ ShallowHints) }
  IN  IF useful = {} THEN NoMove ELSE (CHOOSE e \in useful : TRUE).best_move_index

(***************************************************************************)
(* The order of the moves.                                                 *)
(***************************************************************************)

\* The previous line, else at the root the preferred move; a move of neither
\* that is not legal here is passed over.
Promoted(f) ==
  IF f.line # << >> THEN Head(f.line) ELSE IF f.is_root THEN f.root_move ELSE NoMove

\* preferred_move_for_node: the move searched before the others are ordered.
LazyFirst(f) ==
  LET preferred == IF Promoted(f) # NoMove THEN Promoted(f) ELSE f.hint
  IN  UseLazyFirst /\ preferred \in Moves[f.pos]

Corners  == {0, 7, 56, 63}
XSquares == {9, 14, 49, 54}
IsEdge(m) == m \div 8 \in {0, 7} \/ m % 8 \in {0, 7}
StaticScore(m) ==
  IF m \in Corners THEN 3000 ELSE IF IsEdge(m) THEN 2000
  ELSE IF m \in XSquares THEN 0 ELSE 1000

\* should_use_dynamic_move_ordering
DynamicallyOrdered(f) ==
  ~f.is_root /\ f.depth >= DynamicMinDepth /\ Cardinality(f.todo) >= DynamicMinMoves

\* The moves to do are scored once, with the history and killers of then.
Scored(f) ==
  [f EXCEPT !.order = [m \in f.todo |->
     IF DynamicallyOrdered(f)
     THEN DynamicScore[f.pos][m] + HistoryKillerBonus(session.history_killers, m, f.depth)
     ELSE StaticScore(m)]]

Rank(f, m) == IF m = Promoted(f) THEN 0 ELSE IF m = f.hint THEN 1 ELSE 2

Before(f, m, n) ==
  \/ Rank(f, m) < Rank(f, n)
  \/ /\ Rank(f, m) = Rank(f, n)
     /\ \/ f.order[m] > f.order[n]
        \/ f.order[m] = f.order[n] /\ m < n

IsNext(f, m) == m \in f.todo /\ \A n \in f.todo \ {m} : Before(f, m, n)

StartMoves ==
  /\ Missed
  /\ Top.depth > 0
  /\ Moves[Top.pos] # {}
  /\ Continue(Scored([Top EXCEPT !.hint = HintOf(Top), !.todo = Moves[Top.pos],
                                 !.stage = "loop"]))

(***************************************************************************)
(* The move loop.                                                          *)
(***************************************************************************)
InLoop == Running /\ Top.stage = "loop"
MoreMoves == InLoop /\ Top.todo # {} /\ Top.alpha < Top.beta

\* Mutation: the move stays in the list.
PickAgain(m, stage) == [Top EXCEPT !.cur = m, !.stage = stage]
Pick(m, stage) == [Top EXCEPT !.todo = @ \ {m}, !.cur = m, !.stage = stage]

\* Scouts need a move already searched and a node that is not too shallow.
Scouts(f) ==
  /\ UsePvs
  /\ f.depth >= PvsMinDepth
  /\ f.best.best_move # NoMove

SearchFull ==
  /\ MoreMoves
  /\ ~Scouts(Top)
  /\ \E m \in Top.todo : IsNext(Top, m) /\ Call(Pick(m, "full"))

SearchScout ==
  /\ MoreMoves
  /\ Scouts(Top)
  /\ \E m \in Top.todo : IsNext(Top, m) /\ Call(Pick(m, "scout"))

FinishNode ==
  /\ InLoop
  /\ Top.todo = {} \/ Top.alpha >= Top.beta
  /\ StoreAndReturn(Top, Top.best)

(***************************************************************************)
(* Resuming a caller with its child's result.                              *)
(***************************************************************************)
Resumed(stage) == Running /\ ret # NoResult /\ Top.stage = stage

ResumePass ==
  /\ Resumed("pass")
  /\ StoreAndReturn(Top, [score |-> -ret.score, best_move |-> NoMove, pv |-> ret.pv])

\* The moves left by a lazy first move are scored after its search.
AfterCandidate(f) ==
  LET score == -ret.score
      after ==
        [f EXCEPT
           !.best = IF IsBetterBestMove(score, f.cur, f.best)
                    THEN [score |-> score, best_move |-> f.cur, pv |-> <<f.cur>> \o ret.pv]
                    ELSE f.best,
           !.alpha = MaxOf(f.alpha, score),
           !.cur = NoMove,
           !.stage = "loop"]
  IN  IF f.best = NoCandidate /\ LazyFirst(f) THEN Scored(after) ELSE after

\* A move that cuts off is remembered.
TryNext(f) ==
  /\ stack' = SetTop(f)
  /\ ret' = NoResult
  /\ session' = IF f.alpha >= f.beta
                THEN [session EXCEPT !.history_killers = RecordCutoff(@, Top.cur, f.depth)]
                ELSE session
  /\ UNCHANGED tt

Inside(f) == -ret.score > f.alpha /\ -ret.score < f.beta

ResumeScoutInside ==
  /\ Resumed("scout")
  /\ Inside(Top)
  /\ Call([Top EXCEPT !.stage = "research"])

ResumeScoutOutside ==
  /\ Resumed("scout")
  /\ ~Inside(Top)
  /\ TryNext(AfterCandidate(Top))

ResumeFull ==
  /\ \E s \in {"full", "research"} : Resumed(s)
  /\ TryNext(AfterCandidate(Top))

NodeStep ==
  \/ Cutoff \/ LeafNode \/ GameOver \/ SearchPass \/ StartMoves
  \/ SearchFull \/ SearchScout \/ FinishNode
  \/ ResumePass \/ ResumeScoutInside \/ ResumeScoutOutside \/ ResumeFull
=============================================================================
