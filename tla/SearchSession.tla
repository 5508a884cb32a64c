--------------------------- MODULE SearchSession ----------------------------
(***************************************************************************)
(* SearchSession (search.cpp, search_session.cpp, search_aspiration.cpp):  *)
(* fixed-depth and iterative searches of one position after another with   *)
(* one table.  The job is the body of search or search_iterative that      *)
(* waits for the root search; answer is what the caller got last.          *)
(***************************************************************************)
EXTENDS MidgameSearch, ExactGame

CONSTANTS
  Callers,              \* the owners of a session
  NoRoot,               \* no position: a session that has not searched
  RequestsOf,           \* RequestsOf[c]: the searches c may ask for
  MaxSearches,          \* MaxSearches[c] bounds their number
  SearchScoreMax,       \* search_score_max: 1000000000 in the code
  AlwaysExactEmpties,   \* ExactRootPolicyParams: 14
  AdaptiveMaxEmpties,   \* 16
  MaxRootMoves,         \* max_legal_moves, max_opponent_legal_moves: 10
  OpponentMoves,        \* OpponentMoves[p]: how many moves the other side has
  ExactScale,           \* exact_endgame_score_scale: 1000
  ExactLines,           \* ExactLines[p]: lines solve_exact_endgame may report
  DepthValue,           \* DepthValue[e][p][d]: plain negamax to depth d
  PassFree              \* PassFree[p]: no line from p meets a pass

SearchOptions ==
  [use_pvs : BOOLEAN, store_leaf_tt_entries : BOOLEAN,
   use_lazy_first_move_ordering : BOOLEAN,
   use_shallow_tt_move_ordering_hint : BOOLEAN,
   tt_min_probe_depth : Int, tt_min_store_depth : Int,
   use_aspiration_window : BOOLEAN, aspiration_window : Int,
   aspiration_max_researches : Int, aspiration_profile : {"Fixed", "ScoreDeltaAware"},
   exact_endgame_empty_threshold : Int,
   exact_endgame_root_policy : {"FixedThreshold", "Adaptive16"}]

\* Of the options, depth, evaluator and table size are kept apart; no entries
\* is a search without a table.
RequestType ==
  [root : Positions, max_depth : Int, mode : {"FixedDepth", "Iterative"},
   evaluator : Evaluators, entries : Nat, options : SearchOptions]

Requests == UNION { RequestsOf[c] : c \in Callers }

ASSUME SessionAssumption ==
  /\ Requests \subseteq RequestType
  /\ \A r \in Requests : r.max_depth <= MaxDepth
  /\ NoRoot \notin Positions
  /\ MaxSearches \in [Callers -> Nat]
  /\ \A r \in Requests : BucketCountFor(r.entries, MidBucketWidth) \in Nat
  /\ SearchScoreMax \in Nat \ {0}
  /\ \A e \in Evaluators : \A p \in Positions :
       -SearchScoreMax < Evaluate[e][p] /\ Evaluate[e][p] < SearchScoreMax
  /\ {AlwaysExactEmpties, AdaptiveMaxEmpties, MaxRootMoves, ExactScale} \subseteq Nat
  /\ OpponentMoves \in [Positions -> Nat]

\* What the exact solver promises of its line (LineLegal in ExactSolver).
LowestOptimal(p) ==
  IF Moves[p] = {} THEN {NoMove}
  ELSE { m \in Optimal(p) : \A n \in Optimal(p) : m <= n }
ASSUME ExactLinesLegal ==
  \A p \in Positions :
    /\ ExactLines[p] # {} /\ ExactLines[p] \subseteq Seq(Squares)
    /\ \A line \in ExactLines[p] :
         /\ LineEnd(p, line) # {}
         /\ Moves[p] # {} => line # << >> /\ Head(line) \in LowestOptimal(p)

ASSUME DepthValueEquation ==
  \A e \in Evaluators : \A p \in Positions : \A d \in Depths :
    LET value(q, k) == DepthValue[e][q][k] IN
    IF d = 0 \/ Terminal(p) THEN value(p, d) = Evaluate[e][p]
    ELSE IF Moves[p] = {} THEN value(p, d) = -value(Pass[p], d - 1)
    ELSE MaxOfMoves(p, value(p, d), [m \in Moves[p] |-> value(Play[p][m], d - 1)])

ASSUME PassFreeClosed ==
  \A p \in Positions : PassFree[p] =>
    /\ Moves[p] = {} => Terminal(p)
    /\ \A m \in Moves[p] : PassFree[Play[p][m]]

VARIABLES
  caller,    \* who owns the session
  job,       \* the search in progress, or Idle
  answer,    \* the last SearchResult, with the request it answers, or NoAnswer
  searches   \* how many searches were begun

vars == <<stack, ret, tt, session, caller, job, answer, searches>>

SearchScoreMin == -SearchScoreMax
Idle     == [root |-> NoRoot]
NoAnswer == [request |-> NoRoot]

\* SearchSessionState::reset, and a SearchSession made without options.
ResetSession(e, o) ==
  [generation |-> 0, mode |-> "FixedDepth", evaluator |-> e, options |-> o, entries |-> 0,
   bucket_count |-> 0, root_hash |-> NoRoot, best_move |-> NoMove, score |-> 0,
   pv |-> << >>, history_killers |-> NoCutoffs]

Init ==
  /\ caller \in Callers
  /\ stack = << >>
  /\ ret = NoResult
  /\ \E r \in RequestsOf[caller] : session = ResetSession(r.evaluator, r.options)
  /\ tt = NewTable(0)
  /\ job = Idle
  /\ answer = NoAnswer
  /\ searches = 0

Reset ==
  /\ job = Idle
  /\ session.root_hash # NoRoot
  /\ session' = ResetSession(session.evaluator, session.options)
  /\ tt' = NewTable(0)
  /\ UNCHANGED <<stack, ret, caller, job, answer, searches>>

\* The table the search will use; with other options, a new one.
TableAfter(count, entries) == IF entries = session.entries THEN tt ELSE NewTable(count)

\* A new table that cannot be allocated is disabled.
Counts(r) == IF r.entries = session.entries THEN {session.bucket_count}
             ELSE {0, BucketCountFor(r.entries, MidBucketWidth)}

\* begin_session_search.
Begun(r, count) ==
  [session EXCEPT !.generation = IF @ = 0 THEN 1 ELSE NextGeneration(@),
                  !.mode = r.mode, !.evaluator = r.evaluator, !.options = r.options,
                  !.entries = r.entries, !.bucket_count = count]
BeginTable(r, count) ==
  /\ searches < MaxSearches[caller]
  /\ searches' = searches + 1
  /\ tt' = TableAfter(count, r.entries)

\* finish_session_search.
Finished(s, root, result) ==
  [s EXCEPT !.root_hash = root, !.best_move = result.best_move,
            !.score = result.score, !.pv = result.pv]

\* decide_exact_endgame_root.  Adaptive16 solves the middling roots only
\* where few moves branch; a threshold of 0 disables either policy.
LowBranching(p) ==
  /\ Moves[p] # {} \/ Terminal(p)
  /\ Cardinality(Moves[p]) <= MaxRootMoves
  /\ OpponentMoves[p] <= MaxRootMoves
SolvesExactly(p, o) ==
  /\ o.exact_endgame_empty_threshold > 0
  /\ IF o.exact_endgame_root_policy = "FixedThreshold"
     THEN Empties[p] <= o.exact_endgame_empty_threshold
     ELSE \/ Empties[p] <= AlwaysExactEmpties
          \/ Empties[p] <= AdaptiveMaxEmpties /\ LowBranching(p)

\* A result, with what it answers and on what kind of session.
Answered(r, result, exact, fresh, count) ==
  [exact |-> exact, request |-> r, result |-> result, fresh |-> fresh, bucket_count |-> count]

\* The exact solver's answer, by what module ExactSolver shows of it.
ExactResults(p) ==
  [score : {Value[p] * ExactScale}, best_move : LowestOptimal(p), pv : ExactLines[p]]

SolveExactRoot ==
  /\ job = Idle
  /\ \E r \in RequestsOf[caller] : \E count \in Counts(r), result \in ExactResults(r.root) :
       /\ SolvesExactly(r.root, r.options)
       /\ BeginTable(r, count)
       /\ session' = Finished([Begun(r, count) EXCEPT !.mode = "ExactEndgame"], r.root, result)
       /\ answer' = Answered(r, result, TRUE, session.generation = 0, count)
  /\ UNCHANGED <<stack, ret, caller, job>>

(***************************************************************************)
(* The root search: search_with_context.                                   *)
(***************************************************************************)

\* search and search_iterative treat a negative depth as 0.
SearchDepth(r) == IF r.max_depth < 0 THEN 0 ELSE r.max_depth

\* A search at depth 0 in search_iterative gets no line to follow.
Begin ==
  /\ job = Idle
  /\ \E r \in RequestsOf[caller] : \E count \in Counts(r) :
       LET depth == IF r.mode = "FixedDepth" \/ SearchDepth(r) = 0 THEN SearchDepth(r) ELSE 1
           line  == IF r.mode = "Iterative" /\ SearchDepth(r) = 0 THEN << >> ELSE session.pv
       IN  /\ ~SolvesExactly(r.root, r.options)
           /\ BeginTable(r, count)
           /\ session' = Begun(r, count)
           /\ job' = [root |-> r.root, request |-> r, depth |-> depth,
                      fresh |-> session.generation = 0,
                      alpha |-> SearchScoreMin, beta |-> SearchScoreMax,
                      aspirated |-> FALSE, window |-> 0, researches |-> 0,
                      move |-> session.best_move, line |-> line, scores |-> << >>]
           /\ stack' = <<RootFrame(r.root, depth, SearchScoreMin, SearchScoreMax,
                                   line, session.best_move)>>
  /\ UNCHANGED <<ret, caller, answer>>

\* search_node at work.
SearchNode == NodeStep /\ UNCHANGED <<caller, job, answer, searches>>

RootReturned == job # Idle /\ stack = << >>

\* Where the session's last search was of the same root and came to the same
\* result with a longer line, that line is reported.
RootResult ==
  IF /\ Len(ret.pv) < Len(session.pv)
     /\ session.root_hash = job.root
     /\ session.score = ret.score
     /\ session.best_move = ret.best_move
  THEN [ret EXCEPT !.pv = session.pv] ELSE ret

SearchRoot(j) ==
  /\ job' = j
  /\ stack' = <<RootFrame(j.root, j.depth, j.alpha, j.beta, j.line, j.move)>>
  /\ ret' = NoResult
  /\ UNCHANGED <<tt, session, caller, answer, searches>>

(***************************************************************************)
(* Aspiration windows (search_aspiration.cpp).                             *)
(***************************************************************************)
Clamp(score) == IF score < SearchScoreMin THEN SearchScoreMin
                ELSE IF score > SearchScoreMax THEN SearchScoreMax ELSE score
Lesser(a, b) == IF a <= b THEN a ELSE b
AbsOf(a) == IF a < 0 THEN -a ELSE a

PositiveWindow(w) == IF w <= 0 THEN 1 ELSE w
WidenedWindow(w) == IF w >= SearchScoreMax \div 2 THEN SearchScoreMax ELSE w * 2

\* aspiration_initial_window; scores holds the scores of the depths completed.
InitialWindow(scores) ==
  LET base == PositiveWindow(Options.aspiration_window)
      delta == AbsOf(scores[Len(scores)] - scores[Len(scores) - 1])
  IN  IF Options.aspiration_profile = "Fixed" \/ Len(scores) < 2 THEN base
      ELSE IF delta <= 2 * base THEN base
      ELSE Clamp(Lesser(delta + base \div 2, 2 * base))

Aspirated(j, window, researches) ==
  LET previous == j.scores[Len(j.scores)]
  IN  [j EXCEPT !.alpha = Clamp(previous - window), !.beta = Clamp(previous + window),
                !.aspirated = TRUE, !.window = window, !.researches = researches]

FullWindow(j) ==
  [j EXCEPT !.alpha = SearchScoreMin, !.beta = SearchScoreMax, !.aspirated = FALSE]

\* Mutation: a score on the edge of the window is accepted.
FailedOutside(j) == j.aspirated /\ (ret.score < j.alpha \/ ret.score > j.beta)
Failed(j) == j.aspirated /\ (ret.score <= j.alpha \/ ret.score >= j.beta)

ReSearchWider ==
  /\ RootReturned
  /\ Failed(job)
  /\ job.researches < Options.aspiration_max_researches
  /\ SearchRoot(Aspirated(job, WidenedWindow(job.window), job.researches + 1))

ReSearchFull ==
  /\ RootReturned
  /\ Failed(job)
  /\ job.researches >= Options.aspiration_max_researches
  /\ SearchRoot(FullWindow(job))

NextDepth ==
  /\ RootReturned
  /\ ~Failed(job)
  /\ job.depth < SearchDepth(job.request)
  /\ LET j == [job EXCEPT !.depth = @ + 1, !.scores = Append(@, ret.score),
                          !.move = RootResult.best_move, !.line = RootResult.pv]
     IN  SearchRoot(IF Options.use_aspiration_window THEN Aspirated(j, InitialWindow(j.scores), 0)
                    ELSE FullWindow(j))

FinishSearch ==
  /\ RootReturned
  /\ ~Failed(job)
  /\ job.depth = SearchDepth(job.request)
  /\ session' = Finished(session, job.root, RootResult)
  /\ answer' = Answered(job.request, RootResult, FALSE, job.fresh, session.bucket_count)
  /\ job' = Idle
  /\ ret' = NoResult
  /\ UNCHANGED <<stack, tt, caller, searches>>

Next ==
  \/ Begin \/ SolveExactRoot \/ Reset
  \/ SearchNode
  \/ ReSearchWider \/ ReSearchFull \/ NextDepth \/ FinishSearch

Spec == Init /\ [][Next]_vars

\* A search runs on its caller's thread until it returns; nobody has to ask.
Working == SearchNode \/ ReSearchWider \/ ReSearchFull \/ NextDepth \/ FinishSearch
FairSpec == Spec /\ WF_vars(Working)

(***************************************************************************)
(* Properties.                                                             *)
(***************************************************************************)

\* Every score search_node returns keeps the fail-soft contract of the window
\* it was called with, for one of the trees at least as deep as it was asked
\* to look, evaluated by this search's evaluator: scouts, re-searches and
\* table entries of other depths, windows and searches included.
ReturnsKeepContract ==
  (Running /\ ret # NoResult) =>
    \E v \in SearchValues[session.evaluator][ChildPos(Top)][Top.depth - 1] :
      Contract(v, ret.score, ChildAlpha(Top), ChildBeta(Top))

\* A stored bound holds for every evaluator that will match its scope,
\* whatever searches of whatever roots went by since it was stored; and the
\* table has the size the session believes it has (begin_session_search).
TableSound ==
  /\ session.generation \in Generations \cup {0}
  /\ tt \in MidTables(session.bucket_count)
  /\ \A b \in DOMAIN tt : \A i \in MidSlots :
       LET entry == tt[b][i] IN
       entry.occupied =>
         \A e \in Evaluators : IdentityOf[e] = entry.scope.eval_identity =>
           \E v \in SearchValues[e][entry.hash][entry.depth] :
             BoundHolds(v, entry.bound, entry.score)

\* A cutoff moves no square but its own ahead of another: when the counters
\* near the cap they are halved together, in this search or a later one of the
\* session, and keep their order (record_history_cutoff); and no move is both
\* killers of a depth, so the second slot remembers another (record_killer_cutoff).
PlayedSquares == UNION { Moves[p] : p \in Positions }
KeepsOrder(before, after) ==
  \E cutting \in Squares : \A m \in PlayedSquares, n \in PlayedSquares \ {cutting} :
    before[m] >= before[n] => after[m] >= after[n]
KillersDiffer(killers) ==
  \A b \in Buckets : killers[b][1] = killers[b][2] => killers[b][1] = NoMove
CutoffsKeepOrder ==
  [][LET before == session.history_killers
         after == session'.history_killers
     IN  /\ before.history # after.history => KeepsOrder(before.history, after.history)
         /\ KillersDiffer(after.killers)]_session

\* The score is the one plain negamax gives, neither a bound left by a scout or
\* an aspiration window nor an earlier search's, wherever the code can promise
\* it: without a table, passes or not, and with one in a new session where no
\* pass mixes the depths.
NegamaxExact ==
  (answer # NoAnswer /\ ~answer.exact) =>
    LET r == answer.request IN
    answer.bucket_count = 0 \/ (answer.fresh /\ PassFree[r.root]) =>
      answer.result.score = DepthValue[r.evaluator][r.root][SearchDepth(r)]

\* The score reported for a depth-limited search is the value of a tree of at
\* least the requested depth under the requested evaluator, never a bound left
\* by an aspiration window and never another evaluator's (search_iterative).
RightScore(r, a) ==
  IF a.exact THEN a.result.score = Value[r.root] * ExactScale
  ELSE a.result.score \in SearchValues[r.evaluator][r.root][SearchDepth(r)]
AnswerIsASearchValue ==
  answer # NoAnswer => RightScore(answer.request, answer)

\* The line can be played from the root and starts with the best move (at a
\* root that must pass there is none), though tables, sessions and passes cut
\* it and earlier searches lend theirs; in a new session it is no longer than
\* the depth.
RightLine(r, a) ==
  /\ LineEnd(r.root, a.result.pv) # {}
  /\ a.result.best_move \in Moves[r.root] \cup {NoMove}
  /\ a.result.best_move # NoMove => a.result.pv # << >> /\ Head(a.result.pv) = a.result.best_move
  /\ a.fresh /\ ~a.exact => Len(a.result.pv) <= SearchDepth(r)

\* The session is a SearchService: each answer is right for its own request.
Service == INSTANCE SearchService WITH
  Right <- LAMBDA r, a : /\ a # NoAnswer /\ a.request = r
                         /\ RightScore(r, a) /\ RightLine(r, a),
  None <- NoAnswer,
  asked <- IF job = Idle THEN NoAnswer ELSE job.request,
  answered <- answer
ServiceSpec == Service!Spec
ServiceResponds == Service!Responds

\* search and search_iterative come to the same best move and score, table and
\* session apart (tests/search_tests.cpp:774).
FixedAndIterativeAgree ==
  [][ \A r, s \in Requests :
        ( /\ answer # NoAnswer /\ answer' # answer
          /\ answer.request = r /\ answer'.request = s
          /\ r.root = s.root /\ r.evaluator = s.evaluator /\ r.max_depth = s.max_depth
          /\ answer.fresh /\ answer'.fresh
          /\ answer.bucket_count = 0 /\ answer'.bucket_count = 0 )
        => /\ answer'.result.best_move = answer.result.best_move
           /\ answer'.result.score = answer.result.score ]_answer
=============================================================================
