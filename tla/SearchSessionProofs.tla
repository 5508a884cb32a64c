------------------------ MODULE SearchSessionProofs -------------------------
(***************************************************************************)
(* The midgame search answers with the value of a tree of at least the     *)
(* depth asked for, and with plain negamax's wherever the code can promise *)
(* it, for every game, evaluator, table geometry, search option and        *)
(* sequence of searches.                                                   *)
(*                                                                         *)
(* The argument is that of ExactSolverProofs, with two differences.  A     *)
(* position searched to a depth has no single value: Good holds those the  *)
(* search in progress may find, which is the one of plain negamax where    *)
(* nothing can mix depths (Plain) and the SearchValues elsewhere, and all  *)
(* the argument needs of it is that it is closed under the moves of the    *)
(* game (Closed).  And the table outlives the search, so what it holds is  *)
(* true of every evaluator of its scope (EntrySound) and, in a new session *)
(* without passes, no deeper than the search in progress (EntryStraight).  *)
(*                                                                         *)
(* The second part is about the lines reported (LineInv), and ends with    *)
(* the session as a SearchService.                                         *)
(***************************************************************************)
EXTENDS SearchSession, GameTreeProofs

(***************************************************************************)
(* Values.                                                                 *)
(***************************************************************************)

\* What a score may be, without the ends of the full window.
Bounded == { v \in Int : SearchScoreMin < v /\ v < SearchScoreMax }
DeepValues(e, p, d) == { v \in SearchValues[e][p][d] : v \in Bounded }

\* No two evaluators have the same identity.  Nothing in the code makes it so:
\* evaluation_config_identity leaves out part of the configuration.
IdentitiesTell ==
  \A e1, e2 \in Evaluators : IdentityOf[e1] = IdentityOf[e2] => e1 = e2

\* What a search that shares its table with others may find: where identities
\* collide, no more is known of it than its range.
ProperValues(e, p, d) == IF IdentitiesTell THEN DeepValues(e, p, d) ELSE Bounded

\* All that the search needs of the values it may find, and of the positions
\* and depths it may be called with.
Closed(e, values, calls) ==
  \A p \in Positions : \A d \in Depths :
    /\ values[p][d] # {} /\ values[p][d] \subseteq Bounded
    /\ d = 0 \/ Terminal(p) => Evaluate[e][p] \in values[p][d]
    /\ d > 0 /\ Moves[p] = {} /\ ~Terminal(p) =>
         /\ \A v \in values[Pass[p]][d - 1] : -v \in values[p][d]
         /\ <<p, d>> \in calls => <<Pass[p], d - 1>> \in calls
    /\ d > 0 /\ Moves[p] # {} =>
         /\ \A scores \in [Moves[p] -> Int] :
              (\A m \in Moves[p] : scores[m] \in values[Play[p][m]][d - 1]) =>
                \E v \in values[p][d] : MaxOfMoves(p, v, scores)
         /\ <<p, d>> \in calls => \A m \in Moves[p] : <<Play[p][m], d - 1>> \in calls

LEMMA ScoreRange ==
  /\ SearchScoreMax \in Nat \ {0} /\ SearchScoreMin \in Int /\ SearchScoreMin < 0
  /\ \A e \in Evaluators, p \in Positions : Evaluate[e][p] \in Bounded
  /\ \A v \in Bounded : v \in Int /\ -v \in Bounded
<1>1. SearchScoreMax \in Nat \ {0} /\ SearchScoreMin = -SearchScoreMax
  BY SessionAssumption DEF SearchScoreMin
<1>2. \A e \in Evaluators, p \in Positions : Evaluate[e][p] \in Int
  BY MidgameAssumption
<1>3. \A e \in Evaluators, p \in Positions :
        -SearchScoreMax < Evaluate[e][p] /\ Evaluate[e][p] < SearchScoreMax
  BY SessionAssumption
<1> QED
  BY <1>1, <1>2, <1>3 DEF Bounded

\* A set of moves has one whose score is least.
LEMMA LeastScore ==
  ASSUME NEW M \in SUBSET Squares, M # {}, NEW s \in [M -> Int]
  PROVE  \E m \in M : \A n \in M : s[m] <= s[n]
<1> DEFINE S == { k \in Nat : (\E m \in M : m < k) =>
                    \E m \in M : m < k /\ \A n \in M : n < k => s[m] <= s[n] }
<1>1. M \subseteq Nat /\ \A m \in M : m < 64
  BY DEF Squares
<1>2. 0 \in S
  BY <1>1
<1>3. ASSUME NEW k \in Nat, k \in S
      PROVE  k + 1 \in S
  <2> SUFFICES ASSUME \E m \in M : m < k + 1
               PROVE  \E m \in M : m < k + 1 /\ \A n \in M : n < k + 1 => s[m] <= s[n]
    OBVIOUS
  <2>1. \A m \in M : s[m] \in Int /\ m \in Nat /\ (m < k + 1 <=> m < k \/ m = k)
    <3> TAKE m \in M
    <3>1. m \in Nat
      BY <1>1
    <3> QED
      BY <3>1
  <2>2. CASE \A m \in M : ~(m < k)
    BY <2>1, <2>2
  <2>3. CASE \E m \in M : m < k
    <3>1. PICK m \in M : m < k /\ \A n \in M : n < k => s[m] <= s[n]
      BY <1>3, <2>3
    <3>2. CASE k \notin M
      BY <2>1, <3>1, <3>2
    <3>3. CASE k \in M /\ s[m] <= s[k]
      BY <2>1, <3>1, <3>3
    <3>4. CASE k \in M /\ s[k] < s[m]
      BY <2>1, <3>1, <3>4
    <3> QED
      BY <2>1, <3>2, <3>3, <3>4
  <2> QED
    BY <2>2, <2>3
<1> HIDE DEF S
<1>4. 64 \in S
  BY <1>2, <1>3, SetInduction
<1> QED
  BY <1>1, <1>4 DEF S

LEMMA MaximumExists ==
  ASSUME NEW p \in Positions, Moves[p] # {}, NEW s \in [Moves[p] -> Int]
  PROVE  \E m \in Moves[p] : MaxOfMoves(p, -s[m], s)
<1>1. Moves[p] \subseteq Squares
  BY GameTypes
<1>2. PICK m \in Moves[p] : \A n \in Moves[p] : s[m] <= s[n]
  BY <1>1, LeastScore
<1>3. \A n \in Moves[p] : s[n] \in Int /\ -s[m] >= -s[n]
  BY <1>2
<1> QED
  BY <1>3 DEF MaxOfMoves

\* Plain negamax is one of the searches that look at least so far ahead.
LEMMA PlainIsDeep ==
  \A d \in Depths : \A e \in Evaluators : \A p \in Positions :
    DepthValue[e][p][d] \in DeepValues(e, p, d)
<1> DEFINE Holds(k) == \A e \in Evaluators : \A p \in Positions :
                         DepthValue[e][p][k] \in DeepValues(e, p, k)
           S == { k \in Nat : k \in Depths => Holds(k) }
<1>0. ASSUME NEW d \in Depths, NEW e \in Evaluators, NEW p \in Positions,
             d = 0 \/ Terminal(p)
      PROVE  DepthValue[e][p][d] \in DeepValues(e, p, d)
  <2>1. DepthValue[e][p][d] = Evaluate[e][p]
    BY <1>0, DepthValueEquation
  <2>2. Evaluate[e][p] \in SearchValues[e][p][d]
    BY <1>0, SearchValuesEquation
  <2> QED
    BY <2>1, <2>2, ScoreRange DEF DeepValues
<1>1. 0 \in S
  BY <1>0
<1>2. ASSUME NEW k \in Nat, k \in S
      PROVE  k + 1 \in S
  <2> SUFFICES ASSUME k + 1 \in Depths, NEW e \in Evaluators, NEW p \in Positions
               PROVE  DepthValue[e][p][k + 1] \in DeepValues(e, p, k + 1)
    OBVIOUS
  <2> DEFINE d == k + 1
  <2>1. k \in Depths /\ d \in Depths /\ d # 0 /\ d > 0 /\ d - 1 = k
    BY MidTableAssumption DEF Depths
  <2>2. \A q \in Positions : DepthValue[e][q][k] \in DeepValues(e, q, k)
    BY <1>2, <2>1
  <2> HIDE DEF d
  <2>3. CASE Terminal(p)
    BY <1>0, <2>1, <2>3 DEF d
  <2>4. CASE Moves[p] = {} /\ ~Terminal(p)
    <3>1. DepthValue[e][p][d] = -DepthValue[e][Pass[p]][k]
      BY <2>1, <2>4, DepthValueEquation
    <3>2. Pass[p] \in Positions
      BY <2>4, GameTypes
    <3>3. \A v \in SearchValues[e][Pass[p]][k] : -v \in SearchValues[e][p][d]
      BY <2>1, <2>4, SearchValuesEquation
    <3>4. DepthValue[e][Pass[p]][k] \in DeepValues(e, Pass[p], k)
      BY <2>2, <3>2
    <3> QED
      BY <3>1, <3>3, <3>4, ScoreRange DEF DeepValues, d
  <2>5. CASE Moves[p] # {}
    <3> DEFINE scores == [m \in Moves[p] |-> DepthValue[e][Play[p][m]][k]]
               v == DepthValue[e][p][d]
               U == UNION { SearchValues[e][Play[p][m]][d - 1] : m \in Moves[p] }
    <3>1. ~Terminal(p)
      BY <2>5 DEF Terminal
    <3>2. MaxOfMoves(p, v, scores)
      BY <2>1, <2>5, <3>1, DepthValueEquation
    <3>3. \A m \in Moves[p] : scores[m] \in SearchValues[e][Play[p][m]][k] /\ scores[m] \in Bounded
      BY <2>2, GameTypes DEF DeepValues
    <3>4. scores \in [Moves[p] -> U]
      BY <2>1, <3>3
    <3>5. PICK m \in Moves[p] : v = -scores[m]
      BY <3>2 DEF MaxOfMoves
    <3>6. v \in { -scores[n] : n \in Moves[p] }
      BY <3>5
    <3> HIDE DEF scores, v
    <3>7. v \in SearchValues[e][p][d]
      <4>1. \A sc \in [Moves[p] -> U] :
              (\A n \in Moves[p] : sc[n] \in SearchValues[e][Play[p][n]][d - 1]) =>
                \A w \in { -sc[n] : n \in Moves[p] } :
                  MaxOfMoves(p, w, sc) => w \in SearchValues[e][p][d]
        BY <2>1, <2>5, SearchValuesEquation
      <4> HIDE DEF U
      <4>2. \A n \in Moves[p] : scores[n] \in SearchValues[e][Play[p][n]][d - 1]
        BY <2>1, <3>3
      <4> QED
        BY <3>2, <3>4, <3>6, <4>1, <4>2
    <3>8. v \in Bounded
      BY <3>3, <3>5, ScoreRange
    <3> QED
      BY <3>7, <3>8 DEF DeepValues, v, d
  <2> QED
    BY <2>3, <2>4, <2>5 DEF Terminal
<1> HIDE DEF S
<1>3. Nat \subseteq S
  BY <1>1, <1>2, SetInduction
<1>4. \A d \in Depths : d \in Nat
  BY MidTableAssumption DEF Depths
<1> QED
  BY <1>3, <1>4 DEF S

LEMMA PlainIsProper ==
  ASSUME NEW e \in Evaluators, NEW p \in Positions, NEW d \in Depths
  PROVE  DepthValue[e][p][d] \in Bounded /\ DepthValue[e][p][d] \in ProperValues(e, p, d)
BY PlainIsDeep DEF ProperValues, DeepValues

LEMMA ProperIsBounded ==
  ASSUME NEW e, NEW p, NEW d
  PROVE  ProperValues(e, p, d) \subseteq Bounded
BY DEF ProperValues, DeepValues

\* Looking deeper is looking at least so deep.
LEMMA DeeperValues ==
  ASSUME NEW e \in Evaluators, NEW p \in Positions, NEW d \in Depths, NEW k \in Depths, d <= k
  PROVE  ProperValues(e, p, k) \subseteq ProperValues(e, p, d)
<1> DEFINE S == { n \in Nat : d + n \in Depths =>
                    SearchValues[e][p][d + n] \subseteq SearchValues[e][p][d] }
<1>1. d \in Nat /\ k - d \in Nat /\ d + (k - d) = k
  BY MidTableAssumption DEF Depths
<1>2. 0 \in S
  BY <1>1
<1>3. ASSUME NEW n \in Nat, n \in S
      PROVE  n + 1 \in S
  <2> SUFFICES ASSUME d + (n + 1) \in Depths
               PROVE  SearchValues[e][p][d + (n + 1)] \subseteq SearchValues[e][p][d]
    OBVIOUS
  <2>1. d + n \in Depths /\ d + (n + 1) > 0 /\ (d + (n + 1)) - 1 = d + n
    BY <1>1, MidTableAssumption DEF Depths
  <2>2. SearchValues[e][p][d + (n + 1)] \subseteq SearchValues[e][p][d + n]
    <3> DEFINE j == d + (n + 1)
    <3>1. j \in Depths /\ j > 0 /\ j - 1 = d + n
      BY <2>1
    <3> HIDE DEF j
    <3>2. SearchValues[e][p][j] \subseteq SearchValues[e][p][j - 1]
      BY <3>1, SearchValuesEquation
    <3> QED
      BY <3>1, <3>2 DEF j
  <2> QED
    BY <1>3, <2>1, <2>2
<1> HIDE DEF S
<1>4. k - d \in S
  BY <1>1, <1>2, <1>3, SetInduction
<1>5. SearchValues[e][p][k] \subseteq SearchValues[e][p][d]
  BY <1>1, <1>4 DEF S
<1> QED
  BY <1>5 DEF ProperValues, DeepValues

(***************************************************************************)
(* The values and the calls of the search in progress.                     *)
(***************************************************************************)

\* A new session and a game without passes: every position is searched to one
\* depth in each iteration.  Nothing can mix depths there, or without a table.
Straight == job.fresh /\ PassFree[job.root]
Plain == session.bucket_count = 0 \/ Straight

ValuesOf(plain, e) ==
  [p \in Positions |-> [d \in Depths |->
     IF plain THEN {DepthValue[e][p][d]} ELSE ProperValues(e, p, d)]]
CallsOf(straight, root, depth) ==
  { c \in Positions \X Depths :
      straight => /\ PassFree[c[1]]
                  /\ c[2] - Empties[c[1]] = depth - Empties[root] }

Good == ValuesOf(Plain, session.evaluator)
Calls == CallsOf(Straight, job.root, job.depth)

LEMMA ChildTypes ==
  ASSUME NEW p \in Positions, NEW d \in Depths, d > 0
  PROVE  /\ d - 1 \in Depths
         /\ Moves[p] = {} => Pass[p] \in Positions
         /\ \A m \in Moves[p] : m \in Squares /\ Play[p][m] \in Positions
BY GameTypes, MidTableAssumption DEF Depths

\* Both families of values are closed.
LEMMA ValuesClosed ==
  ASSUME NEW plain, NEW e \in Evaluators, NEW p \in Positions, NEW d \in Depths
  PROVE  LET values == ValuesOf(plain, e) IN
         /\ values[p][d] # {} /\ values[p][d] \subseteq Bounded
         /\ d = 0 \/ Terminal(p) => Evaluate[e][p] \in values[p][d]
         /\ d > 0 /\ Moves[p] = {} /\ ~Terminal(p) =>
              \A v \in values[Pass[p]][d - 1] : -v \in values[p][d]
         /\ d > 0 /\ Moves[p] # {} =>
              \A scores \in [Moves[p] -> Int] :
                (\A m \in Moves[p] : scores[m] \in values[Play[p][m]][d - 1]) =>
                  \E v \in values[p][d] : MaxOfMoves(p, v, scores)
<1> DEFINE values == ValuesOf(plain, e)
<1>1. \A q \in Positions : \A k \in Depths :
        /\ plain => values[q][k] = {DepthValue[e][q][k]}
        /\ ~plain /\ IdentitiesTell => values[q][k] = DeepValues(e, q, k)
        /\ ~plain /\ ~IdentitiesTell => values[q][k] = Bounded
  BY DEF ValuesOf, ProperValues
<1>2. \A q \in Positions : \A k \in Depths :
        DepthValue[e][q][k] \in Bounded /\ DepthValue[e][q][k] \in DeepValues(e, q, k)
  BY PlainIsDeep DEF DeepValues
<1> HIDE DEF values
<1>3. values[p][d] # {} /\ values[p][d] \subseteq Bounded
  BY <1>1, <1>2 DEF DeepValues
<1>4. ASSUME d = 0 \/ Terminal(p)
      PROVE  Evaluate[e][p] \in values[p][d]
  <2>1. DepthValue[e][p][d] = Evaluate[e][p]
    BY <1>4, DepthValueEquation
  <2> QED
    BY <2>1, <1>1, <1>2
<1>5. ASSUME d > 0, Moves[p] = {}, ~Terminal(p), NEW v \in values[Pass[p]][d - 1]
      PROVE  -v \in values[p][d]
  <2>1. d - 1 \in Depths /\ Pass[p] \in Positions /\ d # 0
    BY <1>5, ChildTypes
  <2>2. CASE plain
    <3>1. DepthValue[e][p][d] = -DepthValue[e][Pass[p]][d - 1]
      BY <1>5, <2>1, DepthValueEquation
    <3>2. v = DepthValue[e][Pass[p]][d - 1]
      BY <1>1, <1>5, <2>1, <2>2
    <3> QED
      BY <1>1, <2>2, <3>1, <3>2
  <2>3. CASE ~plain /\ IdentitiesTell
    <3>1. v \in SearchValues[e][Pass[p]][d - 1] /\ v \in Bounded
      BY <1>1, <1>5, <2>1, <2>3 DEF DeepValues
    <3>2. -v \in SearchValues[e][p][d]
      BY <1>5, <3>1, SearchValuesEquation
    <3> QED
      BY <1>1, <2>3, <3>1, <3>2, ScoreRange DEF DeepValues
  <2>4. CASE ~plain /\ ~IdentitiesTell
    <3>1. v \in Bounded
      BY <1>1, <1>5, <2>1, <2>4
    <3> QED
      BY <1>1, <2>4, <3>1, ScoreRange
  <2> QED
    BY <2>2, <2>3, <2>4
<1>6. ASSUME d > 0, Moves[p] # {}, NEW scores \in [Moves[p] -> Int],
             \A m \in Moves[p] : scores[m] \in values[Play[p][m]][d - 1]
      PROVE  \E v \in values[p][d] : MaxOfMoves(p, v, scores)
  <2>1. d - 1 \in Depths /\ d # 0 /\ \A m \in Moves[p] : Play[p][m] \in Positions
    BY <1>6, ChildTypes
  <2>2. CASE plain
    <3> DEFINE known == [m \in Moves[p] |-> DepthValue[e][Play[p][m]][d - 1]]
    <3>1. \A m \in Moves[p] : scores[m] = known[m]
      BY <1>1, <1>6, <2>1, <2>2
    <3>2. ~Terminal(p)
      BY <1>6 DEF Terminal
    <3>3. MaxOfMoves(p, DepthValue[e][p][d], known)
      BY <1>6, <2>1, <3>2, DepthValueEquation
    <3> HIDE DEF known
    <3>4. MaxOfMoves(p, DepthValue[e][p][d], scores)
      BY <3>1, <3>3 DEF MaxOfMoves
    <3> QED
      BY <1>1, <2>2, <3>4
  <2>3. CASE ~plain /\ IdentitiesTell
    <3> DEFINE U == UNION { SearchValues[e][Play[p][m]][d - 1] : m \in Moves[p] }
    <3>1. \A m \in Moves[p] :
            scores[m] \in SearchValues[e][Play[p][m]][d - 1] /\ scores[m] \in Bounded
      BY <1>1, <1>6, <2>1, <2>3 DEF DeepValues
    <3>2. scores \in [Moves[p] -> U]
      BY <3>1
    <3>3. PICK m \in Moves[p] : MaxOfMoves(p, -scores[m], scores)
      BY <1>6, MaximumExists
    <3>4. \A sc \in [Moves[p] -> U] :
            (\A n \in Moves[p] : sc[n] \in SearchValues[e][Play[p][n]][d - 1]) =>
              \A w \in { -sc[n] : n \in Moves[p] } :
                MaxOfMoves(p, w, sc) => w \in SearchValues[e][p][d]
      BY <1>6, SearchValuesEquation
    <3> HIDE DEF U
    <3>5. -scores[m] \in SearchValues[e][p][d]
      BY <3>1, <3>2, <3>3, <3>4
    <3>6. -scores[m] \in Bounded
      BY <3>1, ScoreRange
    <3> QED
      BY <1>1, <2>3, <3>3, <3>5, <3>6 DEF DeepValues
  <2>4. CASE ~plain /\ ~IdentitiesTell
    <3>1. \A m \in Moves[p] : scores[m] \in Bounded
      BY <1>1, <1>6, <2>1, <2>4
    <3>2. PICK m \in Moves[p] : MaxOfMoves(p, -scores[m], scores)
      BY <1>6, MaximumExists
    <3>3. -scores[m] \in Bounded
      BY <3>1, ScoreRange
    <3> QED
      BY <1>1, <2>4, <3>2, <3>3
  <2> QED
    BY <2>2, <2>3, <2>4
<1> QED
  BY <1>3, <1>4, <1>5, <1>6 DEF values

\* In a game without passes a ply takes one from the depth and one from the
\* empty squares.
LEMMA CallsClosed ==
  ASSUME NEW straight, NEW root \in Positions, NEW depth \in Depths,
         NEW p \in Positions, NEW d \in Depths, d > 0, NEW calls,
         calls = CallsOf(straight, root, depth), <<p, d>> \in calls
  PROVE  /\ Moves[p] = {} /\ ~Terminal(p) => <<Pass[p], d - 1>> \in calls
         /\ \A m \in Moves[p] : <<Play[p][m], d - 1>> \in calls
<1>1. d - 1 \in Depths /\ d \in Int
  BY ChildTypes, MidTableAssumption DEF Depths
<1>2. \A q \in Positions : Empties[q] \in Int
  BY GameTypes
<1>3. straight => PassFree[p] /\ d - Empties[p] = depth - Empties[root]
  BY DEF CallsOf
<1>4. ASSUME Moves[p] = {}, ~Terminal(p)
      PROVE  <<Pass[p], d - 1>> \in calls
  <2>1. Pass[p] \in Positions /\ ~straight
    BY <1>3, <1>4, GameTypes, PassFreeClosed
  <2> QED
    BY <1>1, <2>1 DEF CallsOf
<1>5. ASSUME NEW m \in Moves[p]
      PROVE  <<Play[p][m], d - 1>> \in calls
  <2>1. Play[p][m] \in Positions /\ Empties[Play[p][m]] = Empties[p] - 1
    BY GameTypes, GameProgress
  <2>2. straight => PassFree[Play[p][m]]
    BY <1>3, PassFreeClosed
  <2>3. straight => (d - 1) - Empties[Play[p][m]] = depth - Empties[root]
    BY <1>1, <1>2, <1>3, <2>1
  <2> QED
    BY <1>1, <2>1, <2>2, <2>3 DEF CallsOf
<1> QED
  BY <1>4, <1>5

LEMMA ContextClosed ==
  ASSUME NEW plain, NEW e \in Evaluators,
         NEW straight, NEW root \in Positions, NEW depth \in Depths
  PROVE  Closed(e, ValuesOf(plain, e), CallsOf(straight, root, depth))
<1> DEFINE values == ValuesOf(plain, e)
           calls == CallsOf(straight, root, depth)
<1> SUFFICES ASSUME NEW p \in Positions, NEW d \in Depths
             PROVE  /\ values[p][d] # {} /\ values[p][d] \subseteq Bounded
                    /\ d = 0 \/ Terminal(p) => Evaluate[e][p] \in values[p][d]
                    /\ d > 0 /\ Moves[p] = {} /\ ~Terminal(p) =>
                         /\ \A v \in values[Pass[p]][d - 1] : -v \in values[p][d]
                         /\ <<p, d>> \in calls => <<Pass[p], d - 1>> \in calls
                    /\ d > 0 /\ Moves[p] # {} =>
                         /\ \A scores \in [Moves[p] -> Int] :
                              (\A m \in Moves[p] : scores[m] \in values[Play[p][m]][d - 1]) =>
                                \E v \in values[p][d] : MaxOfMoves(p, v, scores)
                         /\ <<p, d>> \in calls =>
                              \A m \in Moves[p] : <<Play[p][m], d - 1>> \in calls
  BY DEF Closed
<1>1. /\ values[p][d] # {} /\ values[p][d] \subseteq Bounded
      /\ d = 0 \/ Terminal(p) => Evaluate[e][p] \in values[p][d]
      /\ d > 0 /\ Moves[p] = {} /\ ~Terminal(p) =>
           \A v \in values[Pass[p]][d - 1] : -v \in values[p][d]
      /\ d > 0 /\ Moves[p] # {} =>
           \A scores \in [Moves[p] -> Int] :
             (\A m \in Moves[p] : scores[m] \in values[Play[p][m]][d - 1]) =>
               \E v \in values[p][d] : MaxOfMoves(p, v, scores)
  BY ValuesClosed
<1>2. d > 0 /\ <<p, d>> \in calls =>
        /\ Moves[p] = {} /\ ~Terminal(p) => <<Pass[p], d - 1>> \in calls
        /\ \A m \in Moves[p] : <<Play[p][m], d - 1>> \in calls
  BY CallsClosed
<1> HIDE DEF values, calls
<1> QED
  BY <1>1, <1>2

(***************************************************************************)
(* Types.                                                                  *)
(***************************************************************************)

\* The scores the moves of a node are ordered by, once it has scored them.
Orders == {<< >>} \cup (UNION { [S -> Int] : S \in SUBSET Squares })

MidFrames ==
  [pos : Positions, depth : Depths, alpha : Int, beta : Int, original_alpha : Int,
   is_root : BOOLEAN, root_move : Squares0, line : Seq(Squares), hint : Squares0,
   todo : SUBSET Squares, order : Orders, best : NodeResults, cur : Squares0,
   stage : {"enter", "loop"} \cup MidWaiting]

SessionStates ==
  [generation : Generations \cup {0}, mode : Modes, evaluator : Evaluators,
   options : SearchOptions, entries : Nat, bucket_count : Nat,
   root_hash : Positions \cup {NoRoot}, best_move : Squares0, score : Int,
   pv : Seq(Squares), history_killers : HistoryKillerStates]

Jobs ==
  [root : Positions, request : Requests, depth : Depths, fresh : BOOLEAN,
   alpha : Int, beta : Int, aspirated : BOOLEAN, window : Int, researches : Int,
   move : Squares0, line : Seq(Squares), scores : Seq(Bounded)]

TypeOK ==
  /\ stack \in Seq(MidFrames)
  /\ ret \in NodeResults \cup {NoResult}
  /\ session \in SessionStates
  /\ tt \in MidTables(session.bucket_count)
  /\ caller \in Callers
  /\ job \in Jobs \cup {Idle}
  /\ searches \in Nat

(***************************************************************************)
(* The inductive invariant.                                                *)
(***************************************************************************)
CandidateStages == MidWaiting \ {"pass"}

\* The moves the loop of f is done with.
Searched(f) ==
  Moves[f.pos] \ (f.todo \cup IF f.stage = "loop" THEN {} ELSE {f.cur})

\* What a move adds to the value of f, if its position has the value v.
ChildValues(values, f, m) == values[Play[f.pos][m]][f.depth - 1]

\* What the loop of f has established.  Below beta, every move searched may
\* be worth no more than the best score; above alpha, one is worth as much.
LoopInv(values, f) ==
  IF f.best.best_move = NoMove
  THEN Searched(f) = {} /\ f.alpha = f.original_alpha
  ELSE /\ f.alpha = MaxOf(f.original_alpha, f.best.score)
       /\ f.best.best_move \in Searched(f)
       /\ f.alpha < f.beta =>
            \A m \in Searched(f) : \E v \in ChildValues(values, f, m) : -v <= f.best.score
       /\ f.best.score > f.original_alpha =>
            \E m \in Searched(f) : \E v \in ChildValues(values, f, m) :
              -v >= f.best.score /\ (f.alpha < f.beta => -v <= f.best.score)

FrameInv(values, calls, f) ==
  /\ f.original_alpha < f.beta
  /\ f.todo \subseteq Moves[f.pos]
  /\ <<f.pos, f.depth>> \in calls
  /\ f.stage \in {"enter", "pass"} => f.alpha = f.original_alpha /\ f.best = NoCandidate
  /\ f.stage # "enter" => f.depth > 0
  /\ f.stage = "pass" => Moves[f.pos] = {} /\ ~Terminal(f.pos)
  /\ f.stage \in CandidateStages =>
       f.cur \in Moves[f.pos] \ f.todo /\ f.alpha < f.beta
  /\ f.stage \in CandidateStages \cup {"loop"} => LoopInv(values, f) /\ Moves[f.pos] # {}

CalledBy(c, f) ==
  /\ f.stage \in MidWaiting
  /\ c.pos = ChildPos(f)
  /\ c.depth = f.depth - 1
  /\ c.original_alpha = ChildAlpha(f)
  /\ c.beta = ChildBeta(f)

SameCall(f, g) ==
  /\ f.pos = g.pos /\ f.depth = g.depth
  /\ f.original_alpha = g.original_alpha /\ f.beta = g.beta

CallOfJob(j, f) ==
  f.pos = j.root /\ f.depth = j.depth /\ f.original_alpha = j.alpha /\ f.beta = j.beta

\* A score that keeps the contract of a call, for a value it may find.
Kept(values, score, p, d, alpha, beta) ==
  \E v \in values[p][d] : Contract(v, score, alpha, beta)

StackInv ==
  /\ \A i \in 1 .. Len(stack) : FrameInv(Good, Calls, stack[i])
  /\ \A i \in 1 .. Len(stack) - 1 : CalledBy(stack[i + 1], stack[i])
  /\ stack # << >> => CallOfJob(job, stack[1])
  /\ ret = NoResult => stack # << >> /\ Top.stage \in {"enter", "loop"}
  /\ ret # NoResult /\ stack # << >> =>
       /\ Top.stage \in MidWaiting
       /\ Kept(Good, ret.score, ChildPos(Top), Top.depth - 1, ChildAlpha(Top), ChildBeta(Top))
  /\ ret # NoResult /\ stack = << >> =>
       Kept(Good, ret.score, job.root, job.depth, job.alpha, job.beta)

ControlInv == IF job = Idle THEN stack = << >> /\ ret = NoResult ELSE StackInv

\* The window of a root search: the full one, or one around the score of the
\* depth before.
WindowProper(j) ==
  /\ SearchScoreMin <= j.alpha /\ j.alpha < j.beta /\ j.beta <= SearchScoreMax
  /\ IF j.aspirated THEN j.window > 0 /\ j.scores # << >>
     ELSE j.alpha = SearchScoreMin /\ j.beta = SearchScoreMax

JobInv ==
  job # Idle =>
    /\ job.root = job.request.root /\ session.evaluator = job.request.evaluator
    /\ session.generation # 0
    /\ job.depth <= SearchDepth(job.request)
    /\ WindowProper(job)

\* The entries of a table, and what each says.
Stored(t) == { x \in MidEntries : \E b \in DOMAIN t : \E i \in MidSlots : t[b][i] = x }

EntrySound(x) ==
  \A e \in Evaluators : IdentityOf[e] = x.scope.eval_identity =>
    \E v \in ProperValues(e, x.hash, x.depth) : BoundHolds(v, x.bound, x.score)

EntryStraight(e, reach, x) ==
  /\ x.depth - Empties[x.hash] <= reach
  /\ BoundHolds(DepthValue[e][x.hash][x.depth], x.bound, x.score)

TableInv ==
  /\ session.generation = 0 => Stored(tt) = {}
  /\ \A x \in Stored(tt) : EntrySound(x)
  /\ job # Idle /\ Straight =>
       \A x \in Stored(tt) :
         EntryStraight(session.evaluator, job.depth - Empties[job.root], x)

AnswerSound == NegamaxExact /\ (IdentitiesTell => AnswerIsASearchValue)

Inv ==
  /\ TypeOK /\ ControlInv /\ JobInv /\ TableInv
  /\ AnswerSound
  /\ KillersDiffer(session.history_killers.killers)

(***************************************************************************)
(* Bounds.                                                                 *)
(***************************************************************************)
LEMMA BoundSound ==
  ASSUME NEW v \in Int, NEW s \in Int, NEW a \in Int, NEW b \in Int,
         Contract(v, s, a, b)
  PROVE  BoundHolds(v, BoundForScore(s, a, b), s)
BY DEF Contract, BoundHolds, BoundForScore

LEMMA CutoffSound ==
  ASSUME NEW v \in Int, NEW s \in Int, NEW a \in Int, NEW b \in Int, a < b,
         NEW bound \in Bounds, BoundHolds(v, bound, s), ProvesCutoff(bound, s, a, b)
  PROVE  Contract(v, s, a, b)
BY DEF Contract, BoundHolds, ProvesCutoff, Bounds

LEMMA ContractNegated ==
  ASSUME NEW v \in Int, NEW s \in Int, NEW a \in Int, NEW b \in Int,
         Contract(v, s, -b, -a)
  PROVE  Contract(-v, -s, a, b)
BY DEF Contract

\* Strictly inside its window, or in the full one, a score is the value.
LEMMA InsideExact ==
  ASSUME NEW v \in Bounded, NEW s \in Int, NEW a \in Int, NEW b \in Int,
         Contract(v, s, a, b),
         (a < s /\ s < b) \/ (a = SearchScoreMin /\ b = SearchScoreMax)
  PROVE  s = v
BY ScoreRange DEF Contract, Bounded

(***************************************************************************)
(* The call stack.                                                         *)
(***************************************************************************)
LEMMA TopType ==
  ASSUME stack \in Seq(MidFrames), stack # << >>
  PROVE  Top \in MidFrames /\ Len(stack) \in Nat \ {0}
BY EmptySeq, ElementOfSeq DEF Top

LEMMA SetTopFacts ==
  ASSUME stack \in Seq(MidFrames), stack # << >>, NEW f \in MidFrames
  PROVE  /\ SetTop(f) \in Seq(MidFrames)
         /\ Len(SetTop(f)) = Len(stack)
         /\ SetTop(f)[Len(stack)] = f
         /\ \A i \in 1 .. Len(stack) - 1 : SetTop(f)[i] = stack[i]
<1>1. Len(stack) \in Nat \ {0}
  BY EmptySeq
<1>2. Len(stack) \in 1 .. Len(stack)
  BY <1>1
<1> QED
  BY <1>1, <1>2, ExceptSeq DEF SetTop

LEMMA PushFacts ==
  ASSUME stack \in Seq(MidFrames), stack # << >>, NEW f \in MidFrames, NEW g \in MidFrames
  PROVE  LET s == Append(SetTop(f), g)
         IN  /\ s \in Seq(MidFrames)
             /\ Len(s) = Len(stack) + 1
             /\ s[Len(stack) + 1] = g
             /\ s[Len(stack)] = f
             /\ \A i \in 1 .. Len(stack) - 1 : s[i] = stack[i]
<1>1. Len(stack) \in Nat \ {0}
  BY EmptySeq
<1> QED
  BY <1>1, SetTopFacts, AppendProperties

LEMMA PopFacts ==
  ASSUME stack \in Seq(MidFrames), stack # << >>
  PROVE  /\ Popped \in Seq(MidFrames)
         /\ Len(Popped) = Len(stack) - 1
         /\ \A i \in 1 .. Len(stack) - 1 : Popped[i] = stack[i]
<1>1. Len(stack) \in Nat \ {0}
  BY EmptySeq
<1>2. \A i \in 1 .. Len(stack) - 1 : stack[i] \in MidFrames
  BY <1>1, ElementOfSeq
<1> DEFINE n == Len(stack) - 1
<1>3. /\ SubSeq(stack, 1, n) \in Seq(MidFrames)
      /\ Len(SubSeq(stack, 1, n)) = IF 1 <= n THEN n - 1 + 1 ELSE 0
      /\ \A i \in 1 .. n - 1 + 1 : SubSeq(stack, 1, n)[i] = stack[1 + i - 1]
  <2>1. 1 \in Int /\ n \in Int
    BY <1>1
  <2> HIDE DEF n
  <2>2. \A i \in 1 .. n : stack[i] \in MidFrames
    BY <1>2 DEF n
  <2> QED
    BY <2>1, <2>2, SubSeqProperties
<1>4. Popped = SubSeq(stack, 1, n)
  BY DEF Popped
<1>5. n \in Nat
  BY <1>1
<1> HIDE DEF n
<1>6. Len(Popped) = n
  BY <1>3, <1>4, <1>5
<1>7. \A i \in 1 .. n : Popped[i] = stack[i]
  <2> TAKE i \in 1 .. n
  <2>1. i \in 1 .. n - 1 + 1 /\ 1 + i - 1 = i
    BY <1>5
  <2> QED
    BY <2>1, <1>3, <1>4
<1> QED
  BY <1>3, <1>4, <1>6, <1>7 DEF n

(***************************************************************************)
(* The table.                                                              *)
(***************************************************************************)
LEMMA NewTableFacts ==
  ASSUME NEW count \in Nat
  PROVE  NewTable(count) \in MidTables(count) /\ Stored(NewTable(count)) = {}
<1>1. \A x \in MidEntries : x.occupied
  BY DEF MidEntries
<1> QED
  BY <1>1 DEF NewTable, MidTables, Stored, FreeSlot

LEMMA BucketInTable ==
  ASSUME NEW count \in Nat, count # 0, NEW p \in Positions
  PROVE  BucketOf(count, p) \in 0 .. count - 1
<1>1. HashBits[p] \in Nat
  BY MidTableAssumption
<1> QED
  BY <1>1 DEF BucketOf

\* A store puts in the new entry and nothing else; a disabled table keeps none.
LEMMA StoreFacts ==
  ASSUME NEW count \in Nat, NEW t \in MidTables(count), NEW x \in MidEntries
  PROVE  /\ StoreEntry(t, count, x) \in MidTables(count)
         /\ Stored(StoreEntry(t, count, x)) \subseteq Stored(t) \cup {x}
         /\ count = 0 => StoreEntry(t, count, x) = t
<1>1. CASE count = 0
  BY <1>1 DEF StoreEntry
<1>2. CASE count # 0
  <2> DEFINE b == BucketOf(count, x.hash)
             row == [i \in MidSlots |->
                       IF ReplacedSlot(t[b], x.hash, x.scope, x.generation, x.depth, i)
                       THEN x ELSE t[b][i]]
             s == StoreEntry(t, count, x)
  <2>1. b \in 0 .. count - 1
    <3>1. x.hash \in Positions
      BY DEF MidEntries
    <3> QED
      BY <1>2, <3>1, BucketInTable
  <2>2. s = [t EXCEPT ![b] = row]
    BY <1>2 DEF StoreEntry
  <2>3. /\ DOMAIN t = 0 .. count - 1
        /\ \A k \in 0 .. count - 1 : \A i \in MidSlots : t[k][i] \in MidEntries \cup {FreeSlot}
    BY DEF MidTables
  <2>4. \A i \in MidSlots : row[i] \in {x, t[b][i]}
    OBVIOUS
  <2>5. row \in [MidSlots -> MidEntries \cup {FreeSlot}]
    BY <2>1, <2>3
  <2> HIDE DEF row, b
  <2>6. s \in MidTables(count)
    BY <2>1, <2>2, <2>5 DEF MidTables
  <2>7. \A k \in 0 .. count - 1 : \A i \in MidSlots : s[k][i] \in {x, t[k][i]}
    BY <2>1, <2>2, <2>3, <2>4
  <2>8. DOMAIN s = 0 .. count - 1
    BY <2>2, <2>3
  <2> HIDE DEF s
  <2>9. Stored(s) \subseteq Stored(t) \cup {x}
    BY <2>3, <2>7, <2>8 DEF Stored
  <2> QED
    BY <1>2, <2>6, <2>9 DEF s
<1> QED
  BY <1>1, <1>2

LEMMA FoundFacts ==
  ASSUME NEW count \in Nat, NEW t \in MidTables(count), NEW p \in Positions, NEW scope,
         NEW x \in Found(t, count, p, scope)
  PROVE  count # 0 /\ x \in Stored(t) /\ x.hash = p /\ x.scope = scope
<1>1. count # 0
  BY DEF Found
<1>2. BucketOf(count, p) \in DOMAIN t /\ DOMAIN t = 0 .. count - 1
  BY <1>1, BucketInTable DEF MidTables
<1>3. PICK i \in MidSlots : /\ x = t[BucketOf(count, p)][i]
                            /\ SameKey(t[BucketOf(count, p)][i], p, scope)
  BY <1>1 DEF Found, FirstSlot
<1>4. x.occupied /\ x.hash = p /\ x.scope = scope
  BY <1>3 DEF SameKey
<1>5. x \in MidEntries \cup {FreeSlot}
  BY <1>2, <1>3 DEF MidTables
<1>6. x \in MidEntries
  BY <1>4, <1>5 DEF FreeSlot
<1> QED
  BY <1>1, <1>2, <1>3, <1>4, <1>6 DEF Stored

(***************************************************************************)
(* Frames and the calls between them.                                      *)
(***************************************************************************)
LEMMA FrameTypes ==
  ASSUME NEW f \in MidFrames
  PROVE  /\ f.pos \in Positions /\ f.depth \in Depths /\ f.depth \in Nat
         /\ f.alpha \in Int /\ f.beta \in Int /\ f.original_alpha \in Int
         /\ f.best \in NodeResults /\ f.best.score \in Int
         /\ f.best.best_move \in Squares0 /\ f.best.pv \in Seq(Squares)
         /\ f.line \in Seq(Squares) /\ f.cur \in Squares0
         /\ Moves[f.pos] \subseteq Squares
<1>1. /\ f.pos \in Positions /\ f.depth \in Depths
      /\ f.alpha \in Int /\ f.beta \in Int /\ f.original_alpha \in Int
      /\ f.best \in NodeResults /\ f.line \in Seq(Squares) /\ f.cur \in Squares0
  BY DEF MidFrames
<1>2. f.depth \in Nat
  BY <1>1, MidTableAssumption DEF Depths
<1>3. /\ f.best.score \in Int /\ f.best.best_move \in Squares0 /\ f.best.pv \in Seq(Squares)
  BY <1>1 DEF NodeResults, Squares0
<1> QED
  BY <1>1, <1>2, <1>3, GameTypes

LEMMA ChildFrame ==
  ASSUME NEW e, NEW values, NEW calls, Closed(e, values, calls),
         NEW f \in MidFrames, FrameInv(values, calls, f), f.stage \in MidWaiting
  PROVE  /\ ChildPos(f) \in Positions /\ f.depth - 1 \in Depths
         /\ <<ChildPos(f), f.depth - 1>> \in calls
         /\ ChildAlpha(f) \in Int /\ ChildBeta(f) \in Int
         /\ ChildAlpha(f) < ChildBeta(f)
         /\ ChildLine(f) \in Seq(Squares)
<1>1. /\ f.pos \in Positions /\ f.depth \in Depths /\ f.depth > 0
      /\ <<f.pos, f.depth>> \in calls
      /\ f.alpha \in Int /\ f.beta \in Int /\ f.original_alpha < f.beta
      /\ f.original_alpha \in Int
      /\ f.stage = "pass" => /\ Moves[f.pos] = {} /\ ~Terminal(f.pos)
                             /\ f.alpha = f.original_alpha
      /\ f.stage # "pass" => f.cur \in Moves[f.pos] /\ f.alpha < f.beta
  BY FrameTypes DEF FrameInv, CandidateStages, MidWaiting
<1>2. ChildPos(f) \in Positions /\ f.depth - 1 \in Depths
  BY <1>1, ChildTypes DEF ChildPos
<1>3. <<ChildPos(f), f.depth - 1>> \in calls
  <2>1. CASE f.stage = "pass"
    BY <1>1, <2>1 DEF Closed, ChildPos
  <2>2. CASE f.stage # "pass"
    <3>1. Moves[f.pos] # {}
      BY <1>1, <2>2
    <3> QED
      BY <1>1, <2>2, <3>1 DEF Closed, ChildPos
  <2> QED
    BY <2>1, <2>2
<1>4. /\ ChildAlpha(f) \in Int /\ ChildBeta(f) \in Int
      /\ ChildAlpha(f) < ChildBeta(f)
  BY <1>1 DEF ChildAlpha, ChildBeta
<1>5. ChildLine(f) \in Seq(Squares)
  <2>1. f.line \in Seq(Squares) /\ << >> \in Seq(Squares)
    BY FrameTypes, EmptySeq
  <2>2. f.line # << >> => Tail(f.line) \in Seq(Squares)
    BY <2>1, HeadTailProperties
  <2> QED
    BY <2>1, <2>2 DEF ChildLine
<1> QED
  BY <1>2, <1>3, <1>4, <1>5

\* A frame that begins a call.
Begins(f, values, calls, p, d, a, b) ==
  /\ f \in MidFrames /\ FrameInv(values, calls, f) /\ f.stage = "enter"
  /\ f.pos = p /\ f.depth = d /\ f.original_alpha = a /\ f.beta = b

LEMMA NewFrameInv ==
  ASSUME NEW p \in Positions, NEW d \in Depths, NEW a \in Int, NEW b \in Int, a < b,
         NEW line \in Seq(Squares), NEW values, NEW calls, <<p, d>> \in calls
  PROVE  /\ Begins(MidFrame(p, d, a, b, line), values, calls, p, d, a, b)
         /\ \A move \in Squares0 :
              Begins(RootFrame(p, d, a, b, line, move), values, calls, p, d, a, b)
<1>1. NoCandidate \in NodeResults /\ NoMove \in Squares0
  BY EmptySeq DEF NoCandidate, NodeResults, Squares0
<1> DEFINE g == MidFrame(p, d, a, b, line)
           Like(f) == /\ f.pos = p /\ f.depth = d /\ f.original_alpha = a /\ f.beta = b
                      /\ f.alpha = a /\ f.stage = "enter" /\ f.todo = {}
                      /\ f.best = NoCandidate /\ f \in MidFrames
<1>2. Like(g)
  <2>1. << >> \in Orders
    BY DEF Orders
  <2> QED
    BY <1>1, <2>1 DEF MidFrame, MidFrames
<1>3. ASSUME NEW move \in Squares0
      PROVE  Like(RootFrame(p, d, a, b, line, move))
  <2> DEFINE r == RootFrame(p, d, a, b, line, move)
  <2>1. r = [g EXCEPT !.is_root = TRUE, !.root_move = move]
    BY DEF RootFrame
  <2> HIDE DEF g, r
  <2>2. Like(r)
    BY <1>2, <2>1 DEF MidFrames
  <2> QED
    BY <2>2 DEF r
<1>4. ASSUME NEW f, Like(f)
      PROVE  Begins(f, values, calls, p, d, a, b)
  BY <1>4 DEF Begins, FrameInv, MidWaiting, CandidateStages
<1> HIDE DEF Like
<1> QED
  BY <1>2, <1>3, <1>4

\* What the search in progress looks for does not change as it goes.
LEMMA ContextSame ==
  ASSUME session'.evaluator = session.evaluator, job' = job,
         session'.bucket_count = session.bucket_count
  PROVE  Good' = Good /\ Calls' = Calls /\ (Straight <=> Straight')
BY DEF Good, Calls, Plain, Straight

LEMMA Context ==
  ASSUME TypeOK, job # Idle
  PROVE  /\ Closed(session.evaluator, Good, Calls)
         /\ session.evaluator \in Evaluators /\ job \in Jobs
         /\ job.root \in Positions /\ job.depth \in Depths
         /\ \A p \in Positions : \A d \in Depths :
              /\ Good[p][d] \subseteq Bounded
              /\ Good[p][d] \subseteq ProperValues(session.evaluator, p, d)
              /\ DepthValue[session.evaluator][p][d] \in Good[p][d]
              /\ Plain => Good[p][d] = {DepthValue[session.evaluator][p][d]}
<1>1. session.evaluator \in Evaluators /\ job \in Jobs
  BY DEF TypeOK, SessionStates
<1>2. job.root \in Positions /\ job.depth \in Depths
  BY <1>1 DEF Jobs
<1>3. Closed(session.evaluator, Good, Calls)
  BY <1>1, <1>2, ContextClosed DEF Good, Calls
<1>4. ASSUME NEW p \in Positions, NEW d \in Depths
      PROVE  /\ Good[p][d] \subseteq Bounded
             /\ Good[p][d] \subseteq ProperValues(session.evaluator, p, d)
             /\ DepthValue[session.evaluator][p][d] \in Good[p][d]
             /\ Plain => Good[p][d] = {DepthValue[session.evaluator][p][d]}
  <2>1. Good[p][d] = IF Plain THEN {DepthValue[session.evaluator][p][d]}
                     ELSE ProperValues(session.evaluator, p, d)
    BY <1>4 DEF Good, ValuesOf
  <2>2. DepthValue[session.evaluator][p][d] \in ProperValues(session.evaluator, p, d)
    BY <1>1, PlainIsProper
  <2> QED
    BY <2>1, <2>2, ProperIsBounded
<1> QED
  BY <1>1, <1>2, <1>3, <1>4

(***************************************************************************)
(* The three ways a step moves control: a call, a loop step, a return.     *)
(***************************************************************************)
SameSearch ==
  /\ session' \in SessionStates
  /\ session'.evaluator = session.evaluator
  /\ session'.bucket_count = session.bucket_count
  /\ session'.generation = session.generation
  /\ tt' \in MidTables(session.bucket_count)
  /\ job' = job /\ caller' = caller /\ searches' = searches

LEMMA CallStep ==
  ASSUME TypeOK, StackInv, job # Idle, stack # << >>, SameSearch,
         NEW f \in MidFrames, SameCall(f, Top), FrameInv(Good, Calls, f),
         f.stage \in MidWaiting, Call(f)
  PROVE  TypeOK' /\ StackInv'
<1> DEFINE n == Len(stack)
           g == MidFrame(ChildPos(f), f.depth - 1, ChildAlpha(f), ChildBeta(f), ChildLine(f))
<1>1. n \in Nat \ {0} /\ Top = stack[n]
  BY TopType DEF Top, TypeOK
<1>2. /\ g \in MidFrames /\ FrameInv(Good, Calls, g) /\ g.stage = "enter"
      /\ CalledBy(g, f)
  <2>1. Closed(session.evaluator, Good, Calls)
    BY Context
  <2>2. /\ ChildPos(f) \in Positions /\ f.depth - 1 \in Depths
        /\ <<ChildPos(f), f.depth - 1>> \in Calls
        /\ ChildAlpha(f) \in Int /\ ChildBeta(f) \in Int
        /\ ChildAlpha(f) < ChildBeta(f)
        /\ ChildLine(f) \in Seq(Squares)
    BY <2>1, ChildFrame
  <2>4. /\ g \in MidFrames /\ FrameInv(Good, Calls, g)
        /\ g.pos = ChildPos(f) /\ g.depth = f.depth - 1 /\ g.original_alpha = ChildAlpha(f)
        /\ g.beta = ChildBeta(f) /\ g.stage = "enter"
    BY <2>2, NewFrameInv DEF Begins
  <2> QED
    BY <2>4 DEF CalledBy
<1>3. /\ stack' \in Seq(MidFrames)
      /\ Len(stack') = n + 1
      /\ stack'[n + 1] = g
      /\ stack'[n] = f
      /\ \A i \in 1 .. n - 1 : stack'[i] = stack[i]
  <2>1. stack' = Append(SetTop(f), g) /\ stack \in Seq(MidFrames) /\ g \in MidFrames
    BY <1>2 DEF Call, TypeOK
  <2> HIDE DEF g
  <2> QED
    BY <2>1, PushFacts
<1>4. Top' = g /\ ret' = NoResult /\ stack' # << >>
  BY <1>1, <1>3, EmptySeq DEF Call, Top
<1>5. Good' = Good /\ Calls' = Calls
  BY ContextSame DEF SameSearch
<1>6. \A i \in 1 .. n : FrameInv(Good, Calls, stack[i])
  BY DEF StackInv
<1>7. \A i \in 1 .. n - 1 : CalledBy(stack[i + 1], stack[i])
  BY DEF StackInv
<1> HIDE DEF n, g
<1>8. \A i \in 1 .. n + 1 : FrameInv(Good, Calls, stack'[i])
  <2> TAKE i \in 1 .. n + 1
  <2>1. CASE i = n + 1
    BY <2>1, <1>2, <1>3
  <2>2. CASE i = n
    BY <2>2, <1>3
  <2>3. CASE i \in 1 .. n - 1
    <3>1. i \in 1 .. n
      BY <1>1, <2>3
    <3> QED
      BY <2>3, <3>1, <1>3, <1>6
  <2> QED
    BY <1>1, <2>1, <2>2, <2>3
<1>9. \A i \in 1 .. n : CalledBy(stack'[i + 1], stack'[i])
  <2> TAKE i \in 1 .. n
  <2>1. CASE i = n
    BY <2>1, <1>2, <1>3
  <2>2. CASE i \in 1 .. n - 1 /\ i + 1 = n
    <3>1. CalledBy(Top, stack[i])
      BY <2>2, <1>1, <1>7
    <3>2. CalledBy(f, stack[i])
      BY <3>1 DEF CalledBy, SameCall
    <3> QED
      BY <3>2, <2>2, <1>3
  <2>3. CASE i \in 1 .. n - 1 /\ i + 1 # n
    <3>1. i + 1 \in 1 .. n - 1
      BY <2>3, <1>1
    <3> QED
      BY <3>1, <2>3, <1>3, <1>7
  <2> QED
    BY <1>1, <2>1, <2>2, <2>3
<1>10. CallOfJob(job', stack'[1])
  <2>1. CallOfJob(job, stack[1]) /\ job' = job
    BY DEF StackInv, SameSearch
  <2>2. CASE n = 1
    BY <2>1, <2>2, <1>1, <1>3 DEF SameCall, CallOfJob
  <2>3. CASE n # 1
    <3>1. 1 \in 1 .. n - 1
      BY <2>3, <1>1
    <3> QED
      BY <3>1, <2>1, <1>3
  <2> QED
    BY <2>2, <2>3
<1>11. TypeOK'
  BY <1>3, <1>4 DEF TypeOK, SameSearch
<1>12. Len(stack') - 1 = n
  BY <1>1, <1>3
<1>13. StackInv'
  <2>1. (\A i \in 1 .. Len(stack) : FrameInv(Good, Calls, stack[i]))'
    BY <1>3, <1>5, <1>8
  <2>2. (\A i \in 1 .. Len(stack) - 1 : CalledBy(stack[i + 1], stack[i]))'
    BY <1>9, <1>12
  <2> QED
    BY <1>2, <1>4, <1>10, <2>1, <2>2 DEF StackInv
<1> QED
  BY <1>11, <1>13

LEMMA ContinueStep ==
  ASSUME TypeOK, StackInv, job # Idle, stack # << >>, SameSearch,
         NEW f \in MidFrames, SameCall(f, Top), FrameInv(Good, Calls, f), f.stage = "loop",
         stack' = SetTop(f), ret' = NoResult
  PROVE  TypeOK' /\ StackInv'
<1> DEFINE n == Len(stack)
<1>1. n \in Nat \ {0} /\ Top = stack[n]
  BY TopType DEF Top, TypeOK
<1>3. /\ stack' \in Seq(MidFrames)
      /\ Len(stack') = n
      /\ stack'[n] = f
      /\ \A i \in 1 .. n - 1 : stack'[i] = stack[i]
  BY SetTopFacts DEF TypeOK
<1>4. Top' = f /\ ret' = NoResult /\ f.stage = "loop" /\ stack' # << >>
  BY <1>1, <1>3, EmptySeq DEF Top
<1>5. Good' = Good /\ Calls' = Calls
  BY ContextSame DEF SameSearch
<1>6. \A i \in 1 .. n : FrameInv(Good, Calls, stack[i])
  BY DEF StackInv
<1>7. \A i \in 1 .. n - 1 : CalledBy(stack[i + 1], stack[i])
  BY DEF StackInv
<1> HIDE DEF n
<1>8. \A i \in 1 .. n : FrameInv(Good, Calls, stack'[i])
  <2> TAKE i \in 1 .. n
  <2>1. CASE i = n
    BY <2>1, <1>3
  <2>2. CASE i \in 1 .. n - 1
    BY <2>2, <1>3, <1>6
  <2> QED
    BY <1>1, <2>1, <2>2
<1>9. \A i \in 1 .. n - 1 : CalledBy(stack'[i + 1], stack'[i])
  <2> TAKE i \in 1 .. n - 1
  <2>2. CASE i + 1 = n
    <3>1. CalledBy(Top, stack[i])
      BY <2>2, <1>1, <1>7
    <3>2. CalledBy(f, stack[i])
      BY <3>1 DEF CalledBy, SameCall
    <3> QED
      BY <3>2, <2>2, <1>3
  <2>3. CASE i + 1 # n
    <3>1. i + 1 \in 1 .. n - 1
      BY <2>3, <1>1
    <3> QED
      BY <3>1, <2>3, <1>3, <1>7
  <2> QED
    BY <2>2, <2>3
<1>10. CallOfJob(job', stack'[1])
  <2>1. CallOfJob(job, stack[1]) /\ job' = job
    BY DEF StackInv, SameSearch
  <2>2. CASE n = 1
    BY <2>1, <2>2, <1>1, <1>3 DEF SameCall, CallOfJob
  <2>3. CASE n # 1
    <3>1. 1 \in 1 .. n - 1
      BY <2>3, <1>1
    <3> QED
      BY <3>1, <2>1, <1>3
  <2> QED
    BY <2>2, <2>3
<1>11. TypeOK'
  BY <1>3, <1>4 DEF TypeOK, SameSearch
<1>13. StackInv'
  <2>1. (\A i \in 1 .. Len(stack) : FrameInv(Good, Calls, stack[i]))'
    BY <1>3, <1>5, <1>8
  <2>2. (\A i \in 1 .. Len(stack) - 1 : CalledBy(stack[i + 1], stack[i]))'
    BY <1>3, <1>9
  <2> QED
    BY <1>4, <1>10, <2>1, <2>2 DEF StackInv
<1> QED
  BY <1>11, <1>13

LEMMA ReturnStep ==
  ASSUME TypeOK, StackInv, job # Idle, stack # << >>, SameSearch,
         NEW r \in NodeResults, Return(r),
         Kept(Good, r.score, Top.pos, Top.depth, Top.original_alpha, Top.beta)
  PROVE  TypeOK' /\ StackInv'
<1> DEFINE n == Len(stack)
<1>1. n \in Nat \ {0} /\ Top = stack[n] /\ Top \in MidFrames
  BY TopType DEF Top, TypeOK
<1>2. /\ stack' \in Seq(MidFrames)
      /\ Len(stack') = n - 1
      /\ \A i \in 1 .. n - 1 : stack'[i] = stack[i]
  BY PopFacts DEF Return, TypeOK
<1>3. ret' = r /\ ret' # NoResult
  <2>1. r.best_move # NoResult.best_move
    <3>1. r.best_move \in Squares \cup {NoMove}
      BY DEF NodeResults
    <3>2. NoResult.best_move = -2
      BY DEF NoResult
    <3>3. \A m \in Squares \cup {NoMove} : m # -2
      BY DEF Squares, NoMove
    <3> QED
      BY <3>1, <3>2, <3>3
  <2> QED
    BY <2>1 DEF Return
<1>4. \A i \in 1 .. n : FrameInv(Good, Calls, stack[i])
  BY DEF StackInv
<1>5. \A i \in 1 .. n - 1 : CalledBy(stack[i + 1], stack[i])
  BY DEF StackInv
<1>6. CallOfJob(job, stack[1]) /\ job' = job
  BY DEF StackInv, SameSearch
<1> HIDE DEF n
<1>7. \A i \in 1 .. n - 1 : FrameInv(Good, Calls, stack'[i])
  <2> TAKE i \in 1 .. n - 1
  <2>1. i \in 1 .. n
    BY <1>1
  <2> QED
    BY <2>1, <1>2, <1>4
<1>8. \A i \in 1 .. n - 1 - 1 : CalledBy(stack'[i + 1], stack'[i])
  <2> TAKE i \in 1 .. n - 1 - 1
  <2>1. i \in 1 .. n - 1 /\ i + 1 \in 1 .. n - 1
    BY <1>1
  <2> QED
    BY <2>1, <1>2, <1>5
<1>9. TypeOK'
  BY <1>2, <1>3 DEF TypeOK, SameSearch
<1>12. Good' = Good /\ Calls' = Calls
  BY ContextSame DEF SameSearch
<1>13. /\ (\A i \in 1 .. Len(stack) : FrameInv(Good, Calls, stack[i]))'
       /\ (\A i \in 1 .. Len(stack) - 1 : CalledBy(stack[i + 1], stack[i]))'
  BY <1>2, <1>7, <1>8, <1>12
<1>10. CASE n = 1
  <2>1. stack' = << >>
    BY <1>10, <1>2, EmptySeq
  <2>2. CallOfJob(job, Top)
    BY <1>1, <1>6, <1>10
  <2>3. Kept(Good, r.score, job.root, job.depth, job.alpha, job.beta)
    BY <2>2 DEF CallOfJob
  <2>4. Kept(Good', ret'.score, job'.root, job'.depth, job'.alpha, job'.beta)
    BY <2>3, <1>3, <1>6, <1>12
  <2> QED
    BY <1>3, <1>9, <1>13, <2>1, <2>4 DEF StackInv
<1>11. CASE n # 1
  <2>1. n - 1 \in 1 .. n - 1 /\ 1 \in 1 .. n - 1 /\ n - 1 + 1 = n
    BY <1>1, <1>11
  <2>2. stack' # << >>
    BY <1>2, <1>11, <1>1, EmptySeq
  <2>3. Top' = stack[n - 1]
    BY <2>1, <1>2 DEF Top
  <2>4. CalledBy(Top, stack[n - 1])
    BY <2>1, <1>1, <1>5
  <2>5. /\ Top'.stage \in MidWaiting
        /\ Kept(Good, r.score, ChildPos(Top'), Top'.depth - 1, ChildAlpha(Top'), ChildBeta(Top'))
    BY <2>3, <2>4 DEF CalledBy
  <2>6. Kept(Good, ret.score, ChildPos(Top), Top.depth - 1, ChildAlpha(Top), ChildBeta(Top))'
    BY <2>5, <1>3, <1>12
  <2>7. CallOfJob(job', stack'[1])
    BY <2>1, <1>2, <1>6
  <2> QED
    BY <1>3, <1>9, <1>13, <2>2, <2>5, <2>6, <2>7 DEF StackInv
<1> QED
  BY <1>10, <1>11

(***************************************************************************)
(* What a candidate's score adds to the loop, and what the loop finds.     *)
(***************************************************************************)

\* Frames that differ at most in how their moves are ordered.
SameLoop(f, g) ==
  /\ SameCall(f, g) /\ f.alpha = g.alpha /\ f.todo = g.todo /\ f.best = g.best
  /\ f.cur = g.cur /\ f.stage = g.stage

LEMMA SameLoopInv ==
  ASSUME NEW values, NEW calls, NEW f, NEW g, SameLoop(g, f), FrameInv(values, calls, f)
  PROVE  FrameInv(values, calls, g)
<1>1. Searched(g) = Searched(f)
  BY DEF SameLoop, SameCall, Searched
<1>2. \A m : ChildValues(values, g, m) = ChildValues(values, f, m)
  BY DEF SameLoop, SameCall, ChildValues
<1>3. LoopInv(values, f) => LoopInv(values, g)
  BY <1>1, <1>2 DEF LoopInv, SameLoop, SameCall
<1> QED
  BY <1>3 DEF FrameInv, SameLoop, SameCall

LEMMA ScoredFacts ==
  ASSUME session \in SessionStates, NEW f \in MidFrames, f.todo \subseteq Moves[f.pos]
  PROVE  Scored(f) \in MidFrames /\ SameLoop(Scored(f), f)
<1> DEFINE score(m) == IF DynamicallyOrdered(f)
                       THEN DynamicScore[f.pos][m]
                              + HistoryKillerBonus(session.history_killers, m, f.depth)
                       ELSE StaticScore(m)
           order == [m \in f.todo |-> score(m)]
<1>1. ASSUME NEW m \in f.todo
      PROVE  score(m) \in Int
  <2>1. m \in Moves[f.pos] /\ m \in Squares /\ f.pos \in Positions
    BY FrameTypes
  <2>2. DynamicScore[f.pos][m] \in Int
    BY <2>1, MidgameAssumption
  <2>3. session.history_killers.history[m] \in Int
    BY <2>1 DEF SessionStates, HistoryKillerStates, Histories
  <2>4. HistoryKillerBonus(session.history_killers, m, f.depth) \in Int
    BY <2>3, HistoryAssumption DEF HistoryKillerBonus, AtMost
  <2>5. StaticScore(m) \in Int
    BY DEF StaticScore
  <2> QED
    BY <2>2, <2>4, <2>5
<1>2. f.todo \in SUBSET Squares
  BY FrameTypes
<1>3. order \in Orders
  BY <1>1, <1>2 DEF Orders
<1>4. Scored(f) = [f EXCEPT !.order = order]
  BY DEF Scored
<1> HIDE DEF order
<1>5. Scored(f) \in MidFrames
  BY <1>3, <1>4 DEF MidFrames
<1>6. SameLoop(Scored(f), f)
  BY <1>4 DEF SameLoop, SameCall, MidFrames
<1> QED
  BY <1>5, <1>6

LEMMA CandidateScore ==
  ASSUME NEW e, NEW values, NEW calls, Closed(e, values, calls),
         NEW f \in MidFrames, FrameInv(values, calls, f), ret \in NodeResults,
         Kept(values, ret.score, ChildPos(f), f.depth - 1, ChildAlpha(f), ChildBeta(f)),
         \/ f.stage \in {"full", "research"}
         \/ f.stage = "scout" /\ ~Inside(f)
  PROVE  /\ ret.score \in Int
         /\ \E v \in ChildValues(values, f, f.cur) :
              /\ v \in Int
              /\ -ret.score > f.alpha => -v >= -ret.score
              /\ -ret.score < f.beta => -v <= -ret.score
<1>1. /\ f.stage \in CandidateStages /\ f.alpha < f.beta /\ f.cur \in Moves[f.pos]
      /\ f.depth > 0
  BY DEF FrameInv, CandidateStages, MidWaiting
<1>2. ChildPos(f) = Play[f.pos][f.cur] /\ ChildPos(f) \in Positions /\ f.depth - 1 \in Depths
  BY <1>1, FrameTypes, ChildTypes DEF ChildPos, CandidateStages
<1>3. PICK v \in values[ChildPos(f)][f.depth - 1] :
        Contract(v, ret.score, ChildAlpha(f), ChildBeta(f))
  BY DEF Kept
<1>4. v \in Int /\ v \in ChildValues(values, f, f.cur)
  BY <1>2 DEF Closed, Bounded, ChildValues
<1>5. f.alpha \in Int /\ f.beta \in Int /\ ret.score \in Int
  BY FrameTypes DEF NodeResults
<1>6. /\ -ret.score > f.alpha => -v >= -ret.score
      /\ -ret.score < f.beta => -v <= -ret.score
  <2>1. CASE f.stage \in {"full", "research"}
    <3>1. Contract(v, ret.score, -f.beta, -f.alpha)
      BY <1>3, <2>1 DEF ChildAlpha, ChildBeta
    <3> QED
      BY <1>1, <1>4, <1>5, <3>1 DEF Contract
  <2>2. CASE f.stage = "scout" /\ ~Inside(f)
    <3>1. Contract(v, ret.score, -(f.alpha + 1), -f.alpha)
      BY <1>3, <2>2 DEF ChildAlpha, ChildBeta
    <3> QED
      BY <1>1, <1>4, <1>5, <2>2, <3>1 DEF Contract, Inside
  <2> QED
    BY <2>1, <2>2
<1> QED
  BY <1>4, <1>5, <1>6

LEMMA AfterCandidateInv ==
  ASSUME NEW e, NEW values, NEW calls, Closed(e, values, calls), session \in SessionStates,
         NEW f \in MidFrames, FrameInv(values, calls, f), ret \in NodeResults,
         Kept(values, ret.score, ChildPos(f), f.depth - 1, ChildAlpha(f), ChildBeta(f)),
         \/ f.stage \in {"full", "research"}
         \/ f.stage = "scout" /\ ~Inside(f)
  PROVE  LET g == AfterCandidate(f)
         IN  /\ g \in MidFrames /\ FrameInv(values, calls, g)
             /\ SameCall(g, f) /\ g.stage = "loop"
<1> DEFINE c == -ret.score
           new == [score |-> c, best_move |-> f.cur, pv |-> <<f.cur>> \o ret.pv]
           better == IsBetterBestMove(c, f.cur, f.best)
           g == [f EXCEPT !.best = IF better THEN new ELSE f.best,
                          !.alpha = MaxOf(f.alpha, c), !.cur = NoMove, !.stage = "loop"]
<1>1. /\ f.stage \in CandidateStages /\ f.alpha < f.beta /\ LoopInv(values, f)
      /\ f.depth > 0 /\ Moves[f.pos] # {} /\ f.todo \subseteq Moves[f.pos]
      /\ f.original_alpha < f.beta /\ <<f.pos, f.depth>> \in calls
  BY DEF FrameInv, CandidateStages, MidWaiting
<1>2. f.cur \in Moves[f.pos] \ f.todo /\ f.cur \in Squares
  BY <1>1, FrameTypes DEF FrameInv
<1>3. PICK v \in ChildValues(values, f, f.cur) :
        /\ v \in Int /\ c \in Int
        /\ c > f.alpha => -v >= c
        /\ c < f.beta => -v <= c
  BY CandidateScore
<1>4. new \in NodeResults
  <2>1. <<f.cur>> \in Seq(Squares) /\ ret.pv \in Seq(Squares)
    BY <1>2 DEF NodeResults
  <2>2. <<f.cur>> \o ret.pv \in Seq(Squares)
    BY <2>1, ConcatProperties
  <2> QED
    BY <1>2, <1>3, <2>2 DEF NodeResults
<1>5. /\ f.alpha \in Int /\ f.beta \in Int /\ f.original_alpha \in Int
      /\ f.best \in NodeResults /\ f.best.score \in Int
      /\ f.best.best_move \in Int
  <2>1. \A m \in Squares0 : m \in Int
    BY DEF Squares0, Squares, NoMove
  <2> QED
    BY <2>1, FrameTypes
<1>6. /\ g.best = IF better THEN new ELSE f.best
      /\ g.alpha = MaxOf(f.alpha, c)
      /\ g.stage = "loop" /\ g.cur = NoMove /\ g.pos = f.pos /\ g.depth = f.depth
      /\ g.original_alpha = f.original_alpha /\ g.beta = f.beta /\ g.todo = f.todo
  BY DEF MidFrames
<1>7. g \in MidFrames
  <2>1. MaxOf(f.alpha, c) \in Int /\ NoMove \in Squares0
    BY <1>3, <1>5 DEF MaxOf, Squares0
  <2>2. (IF better THEN new ELSE f.best) \in NodeResults
    BY <1>4, <1>5
  <2> HIDE DEF better, new, c
  <2> QED
    BY <2>1, <2>2 DEF MidFrames
<1>8. Searched(g) = Searched(f) \cup {f.cur}
  BY <1>1, <1>2, <1>6 DEF Searched, CandidateStages, MidWaiting
<1>9. new.score = c /\ new.best_move = f.cur /\ f.cur # NoMove /\ f.cur \in Int
  BY <1>2 DEF Squares, NoMove
<1>10. g.best.best_move # NoMove
  BY <1>6, <1>9 DEF IsBetterBestMove
<1>11. \A m : ChildValues(values, g, m) = ChildValues(values, f, m)
  BY <1>6 DEF ChildValues
<1>12. \A m \in Searched(f) : \A w \in ChildValues(values, f, m) : w \in Int
  <2> TAKE m \in Searched(f)
  <2>1. Play[f.pos][m] \in Positions /\ f.depth - 1 \in Depths
    BY <1>1, FrameTypes, ChildTypes DEF Searched
  <2> QED
    BY <2>1 DEF Closed, ChildValues, Bounded
<1>13. AfterCandidate(f) \in {g, Scored(g)}
  BY DEF AfterCandidate
<1> HIDE DEF c, new, g, better
<1>14. LoopInv(values, g)
  <2>1. CASE f.best.best_move = NoMove
    <3>1. better
      BY <2>1 DEF IsBetterBestMove, better
    <3>2. Searched(f) = {} /\ f.alpha = f.original_alpha
      BY <1>1, <2>1 DEF LoopInv
    <3>3. Searched(g) = {f.cur}
      BY <3>2, <1>8
    <3>4. g.best.score = c /\ g.best.best_move = f.cur
      BY <3>1, <1>6, <1>9
    <3>5. v \in ChildValues(values, g, f.cur)
      BY <1>11
    <3>6. g.alpha < g.beta => -v <= c
      BY <1>3, <1>5, <1>6 DEF MaxOf
    <3>7. c > g.original_alpha => -v >= c
      BY <1>3, <1>6, <3>2
    <3>8. g.alpha = MaxOf(g.original_alpha, g.best.score)
      BY <1>6, <3>2, <3>4
    <3> QED
      BY <3>3, <3>4, <3>5, <3>6, <3>7, <3>8, <1>10 DEF LoopInv
  <2>2. CASE f.best.best_move # NoMove
    <3>1. /\ f.alpha = MaxOf(f.original_alpha, f.best.score)
          /\ f.best.best_move \in Searched(f)
          /\ \A m \in Searched(f) : \E w \in ChildValues(values, f, m) : -w <= f.best.score
          /\ f.best.score > f.original_alpha =>
               \E m \in Searched(f) : \E w \in ChildValues(values, f, m) :
                 -w >= f.best.score /\ -w <= f.best.score
      BY <1>1, <2>2 DEF LoopInv
    <3>2. better <=> c > f.best.score \/ (c = f.best.score /\ f.cur < f.best.best_move)
      BY <2>2 DEF IsBetterBestMove, better
    <3>3. /\ g.best.score >= f.best.score /\ g.best.score >= c
          /\ g.best.score \in {f.best.score, c}
      BY <3>2, <1>3, <1>5, <1>6, <1>9
    <3>4. g.alpha = MaxOf(g.original_alpha, g.best.score)
      BY <3>1, <3>2, <1>3, <1>5, <1>6, <1>9 DEF MaxOf
    <3>5. g.best.best_move \in Searched(g)
      BY <3>1, <1>6, <1>8, <1>9
    <3>6. ASSUME g.alpha < g.beta, NEW m \in Searched(g)
          PROVE  \E w \in ChildValues(values, g, m) : -w <= g.best.score
      <4>1. CASE m = f.cur
        <5>1. c < f.beta
          BY <3>6, <1>3, <1>5, <1>6 DEF MaxOf
        <5>2. -v <= g.best.score
          BY <5>1, <3>3, <1>3, <1>5
        <5> QED
          BY <4>1, <5>2, <1>11
      <4>2. CASE m \in Searched(f)
        <5>1. PICK w \in ChildValues(values, f, m) : -w <= f.best.score
          BY <3>1, <4>2
        <5>2. -w <= g.best.score
          BY <5>1, <3>3, <4>2, <1>3, <1>5, <1>12
        <5> QED
          BY <5>2, <1>11
      <4> QED
        BY <4>1, <4>2, <1>8
    <3>7. ASSUME g.best.score > g.original_alpha
          PROVE  \E m \in Searched(g) : \E w \in ChildValues(values, g, m) :
                   -w >= g.best.score /\ (g.alpha < g.beta => -w <= g.best.score)
      <4>1. CASE c > f.alpha
        <5>1. g.best.score = c
          BY <4>1, <3>1, <3>3, <1>3, <1>5 DEF MaxOf
        <5>2. -v >= c /\ (g.alpha < g.beta => -v <= c)
          BY <4>1, <1>3, <1>5, <1>6 DEF MaxOf
        <5>3. f.cur \in Searched(g) /\ v \in ChildValues(values, g, f.cur)
          BY <1>8, <1>11
        <5> QED
          BY <5>1, <5>2, <5>3
      <4>2. CASE ~(c > f.alpha)
        <5>1. g.best.score = f.best.score
          BY <4>2, <3>1, <3>3, <3>7, <1>3, <1>5, <1>6 DEF MaxOf
        <5>2. PICK m \in Searched(f) : \E w \in ChildValues(values, f, m) :
                -w >= f.best.score /\ -w <= f.best.score
          BY <5>1, <3>1, <3>7, <1>6
        <5>3. m \in Searched(g)
          BY <1>8
        <5> QED
          BY <5>1, <5>2, <5>3, <1>11
      <4> QED
        BY <4>1, <4>2
    <3> QED
      BY <3>4, <3>5, <3>6, <3>7, <1>10 DEF LoopInv
  <2> QED
    BY <2>1, <2>2
<1>15. FrameInv(values, calls, g)
  BY <1>1, <1>6, <1>14 DEF FrameInv, CandidateStages, MidWaiting
<1>16. SameCall(g, f) /\ g.stage = "loop" /\ g.todo \subseteq Moves[g.pos]
  BY <1>1, <1>6 DEF SameCall
<1>17. Scored(g) \in MidFrames /\ SameLoop(Scored(g), g)
  BY <1>7, <1>16, ScoredFacts
<1>18. /\ FrameInv(values, calls, Scored(g)) /\ SameCall(Scored(g), f)
       /\ Scored(g).stage = "loop"
  <2>1. FrameInv(values, calls, Scored(g))
    BY <1>15, <1>17, SameLoopInv
  <2> QED
    BY <2>1, <1>16, <1>17 DEF SameLoop, SameCall
<1> QED
  BY <1>7, <1>13, <1>15, <1>16, <1>17, <1>18

\* A loop that ends has kept the contract of its window.
LEMMA LoopResult ==
  ASSUME NEW e, NEW values, NEW calls, Closed(e, values, calls),
         NEW f \in MidFrames, FrameInv(values, calls, f), f.stage = "loop",
         f.todo = {} \/ f.alpha >= f.beta
  PROVE  Kept(values, f.best.score, f.pos, f.depth, f.original_alpha, f.beta)
<1> DEFINE s == f.best.score
           M == Moves[f.pos]
           Low(v) == f.alpha < f.beta => -v <= s
           Child(m) == ChildValues(values, f, m)
<1>1. /\ f.alpha \in Int /\ f.beta \in Int /\ f.original_alpha \in Int /\ s \in Int
      /\ f.pos \in Positions /\ f.depth \in Depths
  BY FrameTypes
<1>2. LoopInv(values, f) /\ f.original_alpha < f.beta /\ M # {} /\ f.depth > 0
  BY DEF FrameInv
<1>3. Searched(f) \subseteq M /\ (f.alpha < f.beta => Searched(f) = M)
  BY <1>1 DEF Searched
<1>4. f.best.best_move # NoMove
  BY <1>1, <1>2, <1>3 DEF LoopInv
<1>5. /\ f.alpha = MaxOf(f.original_alpha, s)
      /\ f.alpha < f.beta => \A m \in Searched(f) : \E v \in Child(m) : -v <= s
      /\ s > f.original_alpha =>
           \E m \in Searched(f) : \E v \in Child(m) : -v >= s /\ Low(v)
  BY <1>2, <1>4 DEF LoopInv
<1>6. \A m \in M : Child(m) # {} /\ \A v \in Child(m) : v \in Int
  <2> TAKE m \in M
  <2>1. Play[f.pos][m] \in Positions /\ f.depth - 1 \in Depths
    BY <1>1, <1>2, ChildTypes
  <2> QED
    BY <2>1 DEF Closed, ChildValues, Bounded
<1>7. \A m \in M : \E v \in Child(m) : Low(v)
  BY <1>3, <1>5, <1>6
<1>8. \A scores \in [M -> Int] : (\A m \in M : scores[m] \in Child(m)) =>
        \E v \in values[f.pos][f.depth] : MaxOfMoves(f.pos, v, scores)
  BY <1>1, <1>2 DEF Closed, ChildValues
<1>9. \A v \in values[f.pos][f.depth] : v \in Int
  BY <1>1 DEF Closed, Bounded
<1> HIDE DEF Child, Low
<1>10. CASE s > f.original_alpha
  <2>1. PICK best \in Searched(f) : \E v \in Child(best) : -v >= s /\ Low(v)
    BY <1>5, <1>10
  <2>2. PICK w \in Child(best) : -w >= s /\ Low(w)
    BY <2>1
  <2> DEFINE scores == [m \in M |-> IF m = best THEN w ELSE CHOOSE v \in Child(m) : Low(v)]
  <2>3. \A m \in M : scores[m] \in Child(m) /\ Low(scores[m])
    BY <1>7, <2>2
  <2>4. scores \in [M -> Int]
    BY <1>6, <2>3
  <2>5. best \in M /\ scores[best] = w
    BY <1>3
  <2> HIDE DEF scores
  <2>6. PICK v \in values[f.pos][f.depth] : MaxOfMoves(f.pos, v, scores)
    BY <1>8, <2>3, <2>4
  <2>7. v >= s
    BY <1>1, <1>9, <2>2, <2>4, <2>5, <2>6 DEF MaxOfMoves
  <2>8. f.alpha < f.beta => v <= s
    BY <2>3, <2>6 DEF MaxOfMoves, Low
  <2>9. Contract(v, s, f.original_alpha, f.beta)
    BY <1>1, <1>2, <1>5, <1>9, <1>10, <2>7, <2>8 DEF MaxOf, Contract
  <2> QED
    BY <2>9 DEF Kept
<1>11. CASE ~(s > f.original_alpha)
  <2>1. f.alpha < f.beta
    BY <1>1, <1>2, <1>5, <1>11 DEF MaxOf
  <2> DEFINE scores == [m \in M |-> CHOOSE v \in Child(m) : Low(v)]
  <2>2. \A m \in M : scores[m] \in Child(m) /\ Low(scores[m])
    BY <1>7
  <2>3. scores \in [M -> Int]
    BY <1>6, <2>2
  <2> HIDE DEF scores
  <2>4. PICK v \in values[f.pos][f.depth] : MaxOfMoves(f.pos, v, scores)
    BY <1>8, <2>2, <2>3
  <2>5. v <= s
    BY <2>1, <2>2, <2>4 DEF MaxOfMoves, Low
  <2>6. Contract(v, s, f.original_alpha, f.beta)
    BY <1>1, <1>2, <1>9, <1>11, <2>5 DEF Contract
  <2> QED
    BY <2>6 DEF Kept
<1> QED
  BY <1>10, <1>11

(***************************************************************************)
(* Looking up, storing and returning.                                      *)
(***************************************************************************)

\* An entry deep enough bounds a value the search in progress may find.
LEMMA LookupSound ==
  ASSUME TypeOK, TableInv, job # Idle, NEW f \in MidFrames, <<f.pos, f.depth>> \in Calls,
         NEW x \in Probed(f)
  PROVE  /\ x \in MidEntries
         /\ x.depth >= f.depth =>
              \E v \in Good[f.pos][f.depth] : BoundHolds(v, x.bound, x.score)
<1> DEFINE e == session.evaluator
<1>1. /\ session.bucket_count \in Nat /\ tt \in MidTables(session.bucket_count)
      /\ e \in Evaluators /\ f.pos \in Positions /\ f.depth \in Depths
  BY FrameTypes DEF TypeOK, SessionStates
<1>2. x \in Found(tt, session.bucket_count, f.pos, Scope)
  BY DEF Probed
<1>3. session.bucket_count # 0 /\ x \in Stored(tt) /\ x.hash = f.pos /\ x.scope = Scope
  BY <1>1, <1>2, FoundFacts
<1>4. x \in MidEntries /\ x.depth \in Depths /\ f.depth \in Int /\ x.depth \in Int
  <2>1. x \in MidEntries
    BY <1>3 DEF Stored
  <2>2. x.depth \in Depths
    BY <2>1 DEF MidEntries
  <2> QED
    BY <1>1, <2>1, <2>2, MidTableAssumption DEF Depths
<1>5. ASSUME x.depth >= f.depth, Straight
      PROVE  \E v \in Good[f.pos][f.depth] : BoundHolds(v, x.bound, x.score)
  <2>1. EntryStraight(e, job.depth - Empties[job.root], x)
    BY <1>3, <1>5 DEF TableInv
  <2>2. f.depth - Empties[f.pos] = job.depth - Empties[job.root]
    BY <1>5 DEF Calls, CallsOf
  <2>3. Empties[f.pos] \in Int
    BY <1>1, GameTypes
  <2>4. x.depth = f.depth
    BY <2>1, <2>2, <2>3, <1>3, <1>4, <1>5 DEF EntryStraight
  <2>5. BoundHolds(DepthValue[e][f.pos][f.depth], x.bound, x.score)
    BY <2>1, <2>4, <1>3 DEF EntryStraight
  <2> QED
    BY <2>5, <1>1, Context
<1>6. ASSUME x.depth >= f.depth, ~Straight
      PROVE  \E v \in Good[f.pos][f.depth] : BoundHolds(v, x.bound, x.score)
  <2>1. x.scope.eval_identity = IdentityOf[e]
    BY <1>3 DEF Scope
  <2>2. PICK v \in ProperValues(e, f.pos, x.depth) : BoundHolds(v, x.bound, x.score)
    BY <2>1, <1>1, <1>3 DEF TableInv, EntrySound
  <2>3. v \in ProperValues(e, f.pos, f.depth)
    BY <1>1, <1>4, <1>6, DeeperValues
  <2>4. Good[f.pos][f.depth] = ProperValues(e, f.pos, f.depth)
    BY <1>1, <1>3, <1>6 DEF Good, ValuesOf, Plain
  <2> QED
    BY <2>2, <2>3, <2>4
<1> QED
  BY <1>4, <1>5, <1>6

\* What a node stores is sound.
LEMMA StoreKeepsTable ==
  ASSUME TypeOK, TableInv, JobInv, job # Idle,
         NEW f \in MidFrames, <<f.pos, f.depth>> \in Calls, NEW r \in NodeResults,
         Kept(Good, r.score, f.pos, f.depth, f.original_alpha, f.beta),
         tt' \in {tt, StoreNode(f, r)}, session' = session, job' = job
  PROVE  tt' \in MidTables(session.bucket_count) /\ TableInv'
<1> DEFINE e == session.evaluator
           x == [occupied |-> TRUE, hash |-> f.pos, scope |-> Scope,
                 generation |-> session.generation, depth |-> f.depth, score |-> r.score,
                 best_move_index |-> r.best_move,
                 bound |-> BoundForScore(r.score, f.original_alpha, f.beta)]
<1>1. /\ session.bucket_count \in Nat /\ tt \in MidTables(session.bucket_count)
      /\ e \in Evaluators /\ f.pos \in Positions /\ f.depth \in Depths
      /\ f.original_alpha \in Int /\ f.beta \in Int /\ r.score \in Int
      /\ r.best_move \in Squares \cup {NoMove}
      /\ session.generation \in Generations /\ session.mode \in Modes
  BY FrameTypes DEF TypeOK, SessionStates, NodeResults, JobInv
<1>2. Scope \in Scopes /\ Scope.eval_identity = IdentityOf[e]
  BY <1>1, MidgameAssumption DEF Scope, Scopes
<1>3. x \in MidEntries
  <2>1. BoundForScore(r.score, f.original_alpha, f.beta) \in Bounds
    BY DEF BoundForScore, Bounds
  <2> QED
    BY <2>1, <1>1, <1>2 DEF MidEntries
<1>4. /\ x.hash = f.pos /\ x.depth = f.depth /\ x.score = r.score
      /\ x.scope.eval_identity = IdentityOf[e]
      /\ x.bound = BoundForScore(r.score, f.original_alpha, f.beta)
  BY <1>2
<1>5. tt' = tt \/ tt' = StoreEntry(tt, session.bucket_count, x)
  BY DEF StoreNode
<1> HIDE DEF x
<1>6. tt' \in MidTables(session.bucket_count) /\ Stored(tt') \subseteq Stored(tt) \cup {x}
  BY <1>1, <1>3, <1>5, StoreFacts
<1>7. PICK v \in Good[f.pos][f.depth] : Contract(v, r.score, f.original_alpha, f.beta)
  BY DEF Kept
<1>8. v \in ProperValues(e, f.pos, f.depth) /\ v \in Int
  BY <1>1, Context DEF Bounded
<1>9. BoundHolds(v, x.bound, x.score)
  BY <1>1, <1>4, <1>7, <1>8, BoundSound
<1>10. EntrySound(x)
  BY <1>1, <1>4, <1>8, <1>9 DEF EntrySound, IdentitiesTell, ProperValues
<1>11. ASSUME Straight
       PROVE  EntryStraight(e, job.depth - Empties[job.root], x)
  <2>1. Plain
    BY <1>11 DEF Plain
  <2>2. v = DepthValue[e][f.pos][f.depth]
    BY <1>1, <2>1, Context
  <2>3. f.depth - Empties[f.pos] = job.depth - Empties[job.root]
    BY <1>11 DEF Calls, CallsOf
  <2>4. f.depth - Empties[f.pos] \in Int
    BY <1>1, GameTypes, MidTableAssumption DEF Depths
  <2> QED
    BY <2>2, <2>3, <2>4, <1>4, <1>9 DEF EntryStraight
<1>12. Straight' <=> Straight
  BY ContextSame
<1>13. session.generation # 0
  BY DEF JobInv
<1> HIDE DEF e
<1>14. \A y \in Stored(tt') : EntrySound(y)
  BY <1>6, <1>10 DEF TableInv
<1>15. Straight => \A y \in Stored(tt') :
         EntryStraight(session.evaluator, job.depth - Empties[job.root], y)
  BY <1>6, <1>11 DEF TableInv, e
<1> QED
  BY <1>6, <1>12, <1>13, <1>14, <1>15 DEF TableInv

LEMMA TableSame ==
  ASSUME TableInv, tt' = tt, job' = job, session'.evaluator = session.evaluator,
         session'.generation = session.generation
  PROVE  TableInv'
BY DEF TableInv, Straight

\* A step of a search that keeps the stack and the table keeps the rest.
LEMMA SearchKeepsInv ==
  ASSUME Inv, SameSearch, job # Idle, answer' = answer, TypeOK', StackInv', TableInv',
         KillersDiffer(session'.history_killers.killers)
  PROVE  Inv'
<1>1. JobInv'
  BY DEF Inv, JobInv, SameSearch
<1>2. ControlInv'
  BY DEF ControlInv, SameSearch
<1>3. AnswerSound'
  BY DEF Inv, AnswerSound, NegamaxExact, AnswerIsASearchValue
<1> QED
  BY <1>1, <1>2, <1>3 DEF Inv

LEMMA StoreReturnStep ==
  ASSUME Inv, job # Idle, stack # << >>, UNCHANGED <<caller, job, answer, searches>>,
         NEW r \in NodeResults, Return(r), tt' \in {tt, StoreNode(Top, r)},
         Kept(Good, r.score, Top.pos, Top.depth, Top.original_alpha, Top.beta)
  PROVE  Inv'
<1>1. TypeOK /\ StackInv /\ TableInv /\ JobInv
  BY DEF Inv, ControlInv
<1>2. Len(stack) \in 1 .. Len(stack) /\ Top \in MidFrames
  BY <1>1, TopType DEF TypeOK
<1>3. <<Top.pos, Top.depth>> \in Calls
  BY <1>1, <1>2 DEF StackInv, FrameInv, Top
<1>4. session' = session /\ job' = job
  BY DEF Return
<1>5. tt' \in MidTables(session.bucket_count) /\ TableInv'
  BY <1>1, <1>2, <1>3, <1>4, StoreKeepsTable
<1>6. SameSearch
  BY <1>1, <1>4, <1>5 DEF SameSearch, TypeOK
<1>7. TypeOK' /\ StackInv'
  BY <1>1, <1>6, ReturnStep
<1>8. KillersDiffer(session'.history_killers.killers)
  BY <1>4 DEF Inv
<1> QED
  BY <1>5, <1>6, <1>7, <1>8, SearchKeepsInv

(***************************************************************************)
(* The steps of search_node.                                               *)
(***************************************************************************)
LEMMA TopFacts ==
  ASSUME Inv, Running
  PROVE  /\ job # Idle /\ TypeOK /\ StackInv /\ TableInv /\ JobInv
         /\ stack # << >> /\ session \in SessionStates
         /\ Top \in MidFrames /\ FrameInv(Good, Calls, Top) /\ SameCall(Top, Top)
         /\ <<Top.pos, Top.depth>> \in Calls
         /\ Closed(session.evaluator, Good, Calls)
         /\ KillersDiffer(session.history_killers.killers)
<1>1. /\ job # Idle /\ TypeOK /\ StackInv /\ TableInv /\ JobInv /\ stack # << >>
      /\ KillersDiffer(session.history_killers.killers) /\ session \in SessionStates
  BY DEF Inv, ControlInv, Running, TypeOK
<1>2. Len(stack) \in 1 .. Len(stack) /\ Top \in MidFrames
  BY <1>1, TopType DEF TypeOK
<1>3. FrameInv(Good, Calls, Top)
  BY <1>1, <1>2 DEF StackInv, Top
<1> QED
  BY <1>1, <1>2, <1>3, Context DEF SameCall, FrameInv

LEMMA CallKeepsInv ==
  ASSUME Inv, Running, UNCHANGED <<caller, job, answer, searches>>,
         NEW f \in MidFrames, SameCall(f, Top), FrameInv(Good, Calls, f),
         f.stage \in MidWaiting, Call(f)
  PROVE  Inv'
<1>1. /\ job # Idle /\ TypeOK /\ StackInv /\ TableInv /\ stack # << >>
      /\ KillersDiffer(session.history_killers.killers)
  BY TopFacts
<1>2. SameSearch /\ tt' = tt /\ session' = session
  BY <1>1 DEF SameSearch, TypeOK, Call
<1>3. TypeOK' /\ StackInv'
  BY <1>1, <1>2, CallStep
<1>4. TableInv'
  BY <1>1, <1>2, TableSame
<1> QED
  BY <1>1, <1>2, <1>3, <1>4, SearchKeepsInv

LEMMA ContinueKeepsInv ==
  ASSUME Inv, Running, UNCHANGED <<caller, job, answer, searches>>,
         NEW f \in MidFrames, SameCall(f, Top), FrameInv(Good, Calls, f), f.stage = "loop",
         stack' = SetTop(f), ret' = NoResult, tt' = tt,
         session' \in SessionStates, session'.evaluator = session.evaluator,
         session'.bucket_count = session.bucket_count,
         session'.generation = session.generation,
         KillersDiffer(session'.history_killers.killers)
  PROVE  Inv'
<1>1. job # Idle /\ TypeOK /\ StackInv /\ TableInv /\ stack # << >>
  BY TopFacts
<1>2. SameSearch
  BY <1>1 DEF SameSearch, TypeOK
<1>3. TypeOK' /\ StackInv'
  BY <1>1, <1>2, ContinueStep
<1>4. TableInv'
  BY <1>1, <1>2, TableSame DEF SameSearch
<1> QED
  BY <1>1, <1>2, <1>3, <1>4, SearchKeepsInv

LEMMA EnterKeepsInv ==
  ASSUME Inv, UNCHANGED <<caller, job, answer, searches>>,
         Cutoff \/ LeafNode \/ GameOver \/ SearchPass \/ StartMoves
  PROVE  Inv'
<1> DEFINE e == session.evaluator
<1>1. Running /\ Top.stage = "enter"
  BY DEF Cutoff, LeafNode, GameOver, SearchPass, StartMoves, Missed, Entering
<1>2. /\ job # Idle /\ TypeOK /\ StackInv /\ TableInv /\ JobInv
      /\ stack # << >> /\ session \in SessionStates
      /\ Top \in MidFrames /\ FrameInv(Good, Calls, Top) /\ SameCall(Top, Top)
      /\ <<Top.pos, Top.depth>> \in Calls
      /\ Closed(session.evaluator, Good, Calls)
      /\ KillersDiffer(session.history_killers.killers)
  BY <1>1, TopFacts
<1>3. /\ Top.pos \in Positions /\ Top.depth \in Depths /\ Top.depth \in Nat
      /\ Top.alpha \in Int /\ Top.beta \in Int /\ Top.original_alpha \in Int
  BY <1>2, FrameTypes
<1>4. Top.alpha = Top.original_alpha /\ Top.original_alpha < Top.beta /\ Top.best = NoCandidate
  BY <1>1, <1>2 DEF FrameInv
<1>5. ASSUME Top.depth = 0 \/ Terminal(Top.pos)
      PROVE  /\ Evaluated(Top) \in NodeResults
             /\ Kept(Good, Evaluated(Top).score, Top.pos, Top.depth, Top.original_alpha, Top.beta)
  <2>1. Evaluate[e][Top.pos] \in Good[Top.pos][Top.depth]
    BY <1>2, <1>3, <1>5 DEF Closed
  <2>2. Evaluate[e][Top.pos] \in Int
    BY <1>2, <1>3, MidgameAssumption DEF SessionStates
  <2>3. Evaluated(Top) \in NodeResults /\ Evaluated(Top).score = Evaluate[e][Top.pos]
    BY <2>2, EmptySeq DEF Evaluated, NodeResults
  <2>4. Contract(Evaluate[e][Top.pos], Evaluated(Top).score, Top.original_alpha, Top.beta)
    BY <2>2, <2>3 DEF Contract
  <2> QED
    BY <2>1, <2>3, <2>4 DEF Kept
<1>6. CASE Cutoff
  <2>1. PICK x \in NodeAnswers(Top) : Return(EntryResult(x)) /\ tt' = tt
    BY <1>6 DEF Cutoff
  <2>2. /\ x \in Probed(Top) /\ x.depth >= Top.depth
        /\ ProvesCutoff(x.bound, x.score, Top.alpha, Top.beta)
    BY DEF NodeAnswers, Answers
  <2>3. x \in MidEntries
    BY <2>2, <1>2, LookupSound
  <2>4. PICK v \in Good[Top.pos][Top.depth] : BoundHolds(v, x.bound, x.score)
    BY <2>2, <1>2, LookupSound
  <2>5. /\ x.score \in Int /\ x.bound \in Bounds
        /\ x.best_move_index \in Squares \cup {NoMove}
    BY <2>3 DEF MidEntries
  <2>6. v \in Int
    BY <1>2, <1>3, Context DEF Bounded
  <2>7. Contract(v, x.score, Top.original_alpha, Top.beta)
    BY <2>2, <2>4, <2>5, <2>6, <1>3, <1>4, CutoffSound
  <2>8. EntryResult(x) \in NodeResults /\ EntryResult(x).score = x.score
    <3>1. << >> \in Seq(Squares) /\ \A m \in Squares : <<m>> \in Seq(Squares)
      BY EmptySeq
    <3> QED
      BY <2>5, <3>1 DEF EntryResult, NodeResults
  <2>9. Kept(Good, EntryResult(x).score, Top.pos, Top.depth, Top.original_alpha, Top.beta)
    BY <2>7, <2>8 DEF Kept
  <2> QED
    BY <1>2, <2>1, <2>8, <2>9, StoreReturnStep
<1>7. CASE LeafNode
  <2>1. /\ Top.depth = 0 /\ Return(Evaluated(Top))
        /\ tt' \in {tt, StoreNode(Top, Evaluated(Top))}
    BY <1>7 DEF LeafNode
  <2> QED
    BY <1>2, <1>5, <2>1, StoreReturnStep
<1>8. CASE GameOver
  <2>1. /\ Terminal(Top.pos) /\ Return(Evaluated(Top))
        /\ tt' \in {tt, StoreNode(Top, Evaluated(Top))}
    BY <1>8 DEF GameOver, StoreAndReturn
  <2> QED
    BY <1>2, <1>5, <2>1, StoreReturnStep
<1>9. CASE SearchPass
  <2> DEFINE f == [Top EXCEPT !.stage = "pass"]
  <2>1. /\ f.stage = "pass" /\ f.pos = Top.pos /\ f.depth = Top.depth /\ f.alpha = Top.alpha
        /\ f.beta = Top.beta /\ f.original_alpha = Top.original_alpha
        /\ f.todo = Top.todo /\ f.best = Top.best
        /\ f \in MidFrames
    BY <1>2 DEF MidFrames, MidWaiting
  <2>2. Moves[Top.pos] = {} /\ ~Terminal(Top.pos) /\ Top.depth > 0 /\ Call(f)
    BY <1>9 DEF SearchPass
  <2> HIDE DEF f
  <2>3. FrameInv(Good, Calls, f)
    BY <1>2, <1>4, <2>1, <2>2 DEF FrameInv, CandidateStages, MidWaiting
  <2>4. SameCall(f, Top) /\ f.stage \in MidWaiting
    BY <2>1 DEF SameCall, MidWaiting
  <2> QED
    BY <1>1, <2>1, <2>2, <2>3, <2>4, CallKeepsInv
<1>10. CASE StartMoves
  <2> DEFINE hint == HintOf(Top)
             f == [Top EXCEPT !.hint = hint, !.todo = Moves[Top.pos], !.stage = "loop"]
  <2>1. hint \in Squares0
    <3> DEFINE useful == { x \in Probed(Top) :
                             CollectsHint(Top) /\ (x.depth >= Top.depth \/ ShallowHints) }
    <3>1. hint = IF useful = {} THEN NoMove ELSE (CHOOSE x \in useful : TRUE).best_move_index
      BY DEF HintOf
    <3>2. \A x \in useful : x.best_move_index \in Squares0
      <4> TAKE x \in useful
      <4>1. x \in MidEntries
        BY <1>2, LookupSound
      <4> QED
        BY <4>1 DEF MidEntries, Squares0
    <3>3. useful # {} => (CHOOSE x \in useful : TRUE) \in useful
      OBVIOUS
    <3> HIDE DEF useful
    <3> QED
      BY <3>1, <3>2, <3>3 DEF Squares0
  <2>2. /\ Moves[Top.pos] # {} /\ Top.depth > 0
        /\ stack' = SetTop(Scored(f)) /\ ret' = NoResult /\ tt' = tt /\ session' = session
    BY <1>10 DEF StartMoves, Continue
  <2> HIDE DEF hint
  <2>3. Moves[Top.pos] \subseteq Squares
    BY <1>2, FrameTypes
  <2>4. /\ f.stage = "loop" /\ f.pos = Top.pos /\ f.depth = Top.depth /\ f.alpha = Top.alpha
        /\ f.beta = Top.beta /\ f.original_alpha = Top.original_alpha
        /\ f.todo = Moves[Top.pos] /\ f.best = NoCandidate
        /\ f \in MidFrames
    BY <1>2, <1>4, <2>1, <2>3 DEF MidFrames
  <2> HIDE DEF f
  <2>5. LoopInv(Good, f)
    BY <2>4, <1>4 DEF LoopInv, Searched, NoCandidate
  <2>6. FrameInv(Good, Calls, f)
    BY <1>2, <1>4, <2>2, <2>4, <2>5 DEF FrameInv, CandidateStages, MidWaiting
  <2>7. Scored(f) \in MidFrames /\ SameLoop(Scored(f), f)
    BY <1>2, <2>4, ScoredFacts
  <2>8. FrameInv(Good, Calls, Scored(f))
    BY <2>6, <2>7, SameLoopInv
  <2>9. SameCall(Scored(f), Top) /\ Scored(f).stage = "loop"
    BY <2>4, <2>7 DEF SameLoop, SameCall
  <2> QED
    BY <1>1, <1>2, <2>2, <2>7, <2>8, <2>9, ContinueKeepsInv
<1> QED
  BY <1>6, <1>7, <1>8, <1>9, <1>10

(***************************************************************************)
(* History and killers.                                                    *)
(***************************************************************************)
LEMMA RecordHistoryFacts ==
  ASSUME NEW history \in Histories, NEW m \in Squares, NEW d \in Nat
  PROVE  /\ RecordHistory(history, m, d) \in Histories
         /\ KeepsOrder(history, RecordHistory(history, m, d))
<1> DEFINE inc == HistoryIncrement(d)
           kept == IF history[m] > HistoryCap - inc THEN Decayed(history) ELSE history
           after == RecordHistory(history, m, d)
<1>1. inc \in Nat
  <2>1. d * d \in Nat
    OBVIOUS
  <2> QED
    BY <2>1 DEF HistoryIncrement
<1>2. HistoryCap \in Nat
  BY HistoryAssumption
<1> HIDE DEF inc
<1>3. /\ kept \in Histories
      /\ \A a, b \in Squares : history[a] >= history[b] => kept[a] >= kept[b]
  BY <1>2 DEF Histories, Decayed
<1>4. after = [kept EXCEPT ![m] = AtMost(kept[m] + inc, HistoryCap)]
  <2>1. after = [kept EXCEPT ![m] = AtMost(@ + inc, HistoryCap)]
    BY DEF RecordHistory, inc
  <2> HIDE DEF kept, after
  <2> QED
    BY <2>1
<1> HIDE DEF kept, after
<1>5. \A a \in Squares : kept[a] \in Int /\ 0 <= kept[a] /\ kept[a] <= HistoryCap
  BY <1>2, <1>3 DEF Histories
<1>6. /\ AtMost(kept[m] + inc, HistoryCap) \in 0 .. HistoryCap
      /\ AtMost(kept[m] + inc, HistoryCap) >= kept[m]
  BY <1>1, <1>2, <1>5 DEF AtMost
<1>7. after \in Histories
  BY <1>3, <1>4, <1>6 DEF Histories
<1>8. PlayedSquares \subseteq Squares
  BY GameTypes DEF PlayedSquares
<1>9. \A a \in Squares : after[a] = IF a = m THEN AtMost(kept[m] + inc, HistoryCap) ELSE kept[a]
  BY <1>3, <1>4 DEF Histories
<1>10. ASSUME NEW a \in PlayedSquares, NEW b \in PlayedSquares \ {m}, history[a] >= history[b]
       PROVE  after[a] >= after[b]
  <2>1. a \in Squares /\ b \in Squares /\ kept[a] >= kept[b] /\ after[b] = kept[b]
    BY <1>3, <1>8, <1>9, <1>10
  <2>2. CASE a = m
    <3>1. after[a] = AtMost(kept[m] + inc, HistoryCap)
      BY <2>1, <2>2, <1>9
    <3> QED
      BY <2>1, <2>2, <3>1, <1>5, <1>6
  <2>3. CASE a # m
    BY <2>1, <2>3, <1>9
  <2> QED
    BY <2>2, <2>3
<1>11. KeepsOrder(history, after)
  BY <1>10 DEF KeepsOrder
<1> QED
  BY <1>7, <1>11 DEF after

LEMMA RecordCutoffFacts ==
  ASSUME NEW s \in HistoryKillerStates, KillersDiffer(s.killers), NEW m \in Squares, NEW d \in Nat
  PROVE  /\ RecordCutoff(s, m, d) \in HistoryKillerStates
         /\ KillersDiffer(RecordCutoff(s, m, d).killers)
         /\ KeepsOrder(s.history, RecordCutoff(s, m, d).history)
<1> DEFINE k == DepthBucket(d)
           pair == s.killers[k]
           new == [s.killers EXCEPT ![k] = RecordKiller(pair, m)]
<1>1. s.history \in Histories /\ s.killers \in [Buckets -> KillerPairs]
  BY DEF HistoryKillerStates
<1>2. k \in Buckets
  BY HistoryAssumption DEF DepthBucket, Buckets
<1>3. pair \in KillerPairs
  BY <1>1, <1>2
<1>4. RecordKiller(pair, m) \in KillerPairs
  BY <1>3 DEF RecordKiller, KillerPairs
<1>5. RecordKiller(pair, m)[1] = RecordKiller(pair, m)[2] => RecordKiller(pair, m)[1] = NoMove
  <2>1. pair[1] = pair[2] => pair[1] = NoMove
    BY <1>2 DEF KillersDiffer
  <2> HIDE DEF pair
  <2> QED
    BY <2>1 DEF RecordKiller
<1>6. RecordCutoff(s, m, d) = [history |-> RecordHistory(s.history, m, d), killers |-> new]
  BY DEF RecordCutoff
<1> HIDE DEF k, pair
<1>7. new \in [Buckets -> KillerPairs]
  BY <1>1, <1>2, <1>4
<1>8. KillersDiffer(new)
  <2> SUFFICES ASSUME NEW b \in Buckets, new[b][1] = new[b][2]
               PROVE  new[b][1] = NoMove
    BY DEF KillersDiffer
  <2>1. CASE b = k
    <3>1. new[b] = RecordKiller(pair, m)
      BY <2>1, <1>1, <1>2
    <3> HIDE DEF new
    <3> QED
      BY <3>1, <1>5
  <2>2. CASE b # k
    <3>1. new[b] = s.killers[b]
      BY <2>2, <1>1, <1>2
    <3> HIDE DEF new
    <3> QED
      BY <3>1 DEF KillersDiffer
  <2> QED
    BY <2>1, <2>2
<1> HIDE DEF new
<1>9. RecordHistory(s.history, m, d) \in Histories
      /\ KeepsOrder(s.history, RecordHistory(s.history, m, d))
  BY <1>1, RecordHistoryFacts
<1> QED
  BY <1>6, <1>7, <1>8, <1>9 DEF HistoryKillerStates

(***************************************************************************)
(* The move loop.                                                          *)
(***************************************************************************)
LEMMA PickInv ==
  ASSUME Inv, MoreMoves, NEW m \in Top.todo, NEW stage \in CandidateStages
  PROVE  /\ Pick(m, stage) \in MidFrames /\ FrameInv(Good, Calls, Pick(m, stage))
         /\ SameCall(Pick(m, stage), Top) /\ Pick(m, stage).stage \in MidWaiting
<1> DEFINE f == Pick(m, stage)
<1>1. /\ Top \in MidFrames /\ FrameInv(Good, Calls, Top) /\ Top.stage = "loop"
      /\ Top.alpha < Top.beta
  BY TopFacts DEF MoreMoves, InLoop
<1>2. /\ m \in Moves[Top.pos] /\ m \in Squares /\ LoopInv(Good, Top)
      /\ Moves[Top.pos] # {} /\ Top.depth > 0
  BY <1>1, FrameTypes DEF FrameInv
<1>3. stage \in MidWaiting /\ stage \notin {"loop", "enter", "pass"}
  BY DEF CandidateStages, MidWaiting
<1>4. /\ f.stage = stage /\ f.cur = m /\ f.todo = Top.todo \ {m}
      /\ f.pos = Top.pos /\ f.depth = Top.depth /\ f.alpha = Top.alpha /\ f.beta = Top.beta
      /\ f.original_alpha = Top.original_alpha /\ f.best = Top.best
  BY <1>1 DEF Pick, MidFrames
<1>5. f \in MidFrames
  BY <1>1, <1>2, <1>3 DEF Pick, MidFrames, Squares0
<1> HIDE DEF f
<1>6. Searched(f) = Searched(Top)
  BY <1>1, <1>2, <1>3, <1>4 DEF Searched
<1>7. \A q : ChildValues(Good, f, q) = ChildValues(Good, Top, q)
  BY <1>4 DEF ChildValues
<1>8. LoopInv(Good, f)
  BY <1>2, <1>4, <1>6, <1>7 DEF LoopInv
<1>9. FrameInv(Good, Calls, f)
  <2>1. /\ f.original_alpha < f.beta /\ f.todo \subseteq Moves[f.pos]
        /\ <<f.pos, f.depth>> \in Calls
    BY <1>1, <1>4 DEF FrameInv
  <2>2. f.cur \in Moves[f.pos] \ f.todo /\ f.alpha < f.beta /\ f.depth > 0
    BY <1>1, <1>2, <1>4
  <2>3. f.stage \notin {"enter", "pass"} /\ Moves[f.pos] # {}
    BY <1>2, <1>3, <1>4
  <2> QED
    BY <1>8, <2>1, <2>2, <2>3 DEF FrameInv
<1>10. SameCall(f, Top) /\ f.stage \in MidWaiting
  BY <1>3, <1>4 DEF SameCall
<1> QED
  BY <1>5, <1>9, <1>10 DEF f

LEMMA LoopKeepsInv ==
  ASSUME Inv, UNCHANGED <<caller, job, answer, searches>>,
         SearchFull \/ SearchScout \/ FinishNode
  PROVE  Inv'
<1>1. Running /\ Top.stage = "loop"
  BY DEF SearchFull, SearchScout, FinishNode, MoreMoves, InLoop
<1>2. CASE SearchFull
  <2>1. MoreMoves
    BY <1>2 DEF SearchFull
  <2>2. PICK m \in Top.todo : Call(Pick(m, "full"))
    BY <1>2 DEF SearchFull
  <2>3. "full" \in CandidateStages
    BY DEF CandidateStages, MidWaiting
  <2> QED
    BY <1>1, <2>1, <2>2, <2>3, PickInv, CallKeepsInv
<1>3. CASE SearchScout
  <2>1. MoreMoves
    BY <1>3 DEF SearchScout
  <2>2. PICK m \in Top.todo : Call(Pick(m, "scout"))
    BY <1>3 DEF SearchScout
  <2>3. "scout" \in CandidateStages
    BY DEF CandidateStages, MidWaiting
  <2> QED
    BY <1>1, <2>1, <2>2, <2>3, PickInv, CallKeepsInv
<1>4. CASE FinishNode
  <2>1. /\ job # Idle /\ stack # << >> /\ Top \in MidFrames /\ FrameInv(Good, Calls, Top)
        /\ Closed(session.evaluator, Good, Calls)
    BY <1>1, TopFacts
  <2>2. Kept(Good, Top.best.score, Top.pos, Top.depth, Top.original_alpha, Top.beta)
    BY <2>1, <1>1, <1>4, LoopResult DEF FinishNode
  <2>3. Top.best \in NodeResults
    BY <2>1, FrameTypes
  <2>4. Return(Top.best) /\ tt' \in {tt, StoreNode(Top, Top.best)}
    BY <1>4 DEF FinishNode, StoreAndReturn
  <2> QED
    BY <2>1, <2>2, <2>3, <2>4, StoreReturnStep
<1> QED
  BY <1>2, <1>3, <1>4

LEMMA ResumeKeepsInv ==
  ASSUME Inv, UNCHANGED <<caller, job, answer, searches>>,
         ResumePass \/ ResumeScoutInside \/ ResumeScoutOutside \/ ResumeFull
  PROVE  Inv'
<1>1. Running /\ ret # NoResult /\ Top.stage \in MidWaiting
  BY DEF ResumePass, ResumeScoutInside, ResumeScoutOutside, ResumeFull, Resumed, MidWaiting
<1>2. /\ job # Idle /\ TypeOK /\ StackInv /\ stack # << >> /\ session \in SessionStates
      /\ Top \in MidFrames /\ FrameInv(Good, Calls, Top) /\ SameCall(Top, Top)
      /\ Closed(session.evaluator, Good, Calls)
      /\ KillersDiffer(session.history_killers.killers)
  BY <1>1, TopFacts
<1>3. Kept(Good, ret.score, ChildPos(Top), Top.depth - 1, ChildAlpha(Top), ChildBeta(Top))
  BY <1>1, <1>2 DEF StackInv
<1>4. ret \in NodeResults /\ ret.score \in Int /\ ret.pv \in Seq(Squares)
  BY <1>1, <1>2 DEF TypeOK, NodeResults
<1>5. /\ Top.alpha \in Int /\ Top.beta \in Int /\ Top.original_alpha \in Int
      /\ Top.pos \in Positions /\ Top.depth \in Depths /\ Top.depth \in Nat
  BY <1>2, FrameTypes
<1>6. CASE ResumePass
  <2> DEFINE r == [score |-> -ret.score, best_move |-> NoMove, pv |-> ret.pv]
  <2>1. Top.stage = "pass" /\ Return(r) /\ tt' \in {tt, StoreNode(Top, r)}
    BY <1>6 DEF ResumePass, Resumed, StoreAndReturn
  <2>2. /\ Moves[Top.pos] = {} /\ ~Terminal(Top.pos) /\ Pass[Top.pos] \in Positions
        /\ Top.alpha = Top.original_alpha /\ Top.depth > 0 /\ Top.depth - 1 \in Depths
    BY <2>1, <1>2, <1>5, ChildTypes DEF FrameInv
  <2>3. PICK v \in Good[Pass[Top.pos]][Top.depth - 1] :
          Contract(v, ret.score, -Top.beta, -Top.original_alpha)
    BY <2>1, <2>2, <1>3 DEF ChildPos, ChildAlpha, ChildBeta, Kept
  <2>4. v \in Int /\ -v \in Good[Top.pos][Top.depth]
    BY <2>2, <1>2, <1>5 DEF Closed, Bounded
  <2>5. Contract(-v, -ret.score, Top.original_alpha, Top.beta)
    BY <2>3, <2>4, <1>4, <1>5, ContractNegated
  <2>6. r \in NodeResults /\ r.score = -ret.score
    BY <1>4 DEF NodeResults
  <2> HIDE DEF r
  <2>7. Kept(Good, r.score, Top.pos, Top.depth, Top.original_alpha, Top.beta)
    BY <2>4, <2>5, <2>6 DEF Kept
  <2> QED
    BY <1>2, <2>1, <2>6, <2>7, StoreReturnStep
<1>7. CASE ResumeScoutInside
  <2> DEFINE f == [Top EXCEPT !.stage = "research"]
  <2>1. Call(f) /\ Top.stage = "scout"
    BY <1>7 DEF ResumeScoutInside, Resumed
  <2>2. /\ f.stage = "research" /\ f.todo = Top.todo /\ f.cur = Top.cur
        /\ f.pos = Top.pos /\ f.depth = Top.depth /\ f.alpha = Top.alpha
        /\ f.beta = Top.beta /\ f.original_alpha = Top.original_alpha
        /\ f.best = Top.best /\ f \in MidFrames
    BY <1>2 DEF MidFrames, MidWaiting
  <2>3. /\ LoopInv(Good, Top) /\ Top.cur \in Moves[Top.pos] \ Top.todo
        /\ Top.alpha < Top.beta /\ Moves[Top.pos] # {} /\ Top.depth > 0
    BY <2>1, <1>2 DEF FrameInv, CandidateStages, MidWaiting
  <2> HIDE DEF f
  <2>4. Searched(f) = Searched(Top)
    BY <2>1, <2>2 DEF Searched
  <2>5. \A q : ChildValues(Good, f, q) = ChildValues(Good, Top, q)
    BY <2>2 DEF ChildValues
  <2>6. LoopInv(Good, f)
    BY <2>2, <2>3, <2>4, <2>5 DEF LoopInv
  <2>7. FrameInv(Good, Calls, f)
    BY <1>2, <2>2, <2>3, <2>6 DEF FrameInv, CandidateStages, MidWaiting
  <2>8. SameCall(f, Top) /\ f.stage \in MidWaiting
    BY <2>2 DEF SameCall, MidWaiting
  <2> QED
    BY <1>1, <2>1, <2>2, <2>7, <2>8, CallKeepsInv
<1>8. CASE ResumeScoutOutside \/ ResumeFull
  <2> DEFINE g == AfterCandidate(Top)
  <2>1. /\ TryNext(g)
        /\ \/ Top.stage \in {"full", "research"}
           \/ Top.stage = "scout" /\ ~Inside(Top)
    BY <1>8 DEF ResumeScoutOutside, ResumeFull, Resumed
  <2>2. /\ g \in MidFrames /\ FrameInv(Good, Calls, g)
        /\ SameCall(g, Top) /\ g.stage = "loop"
    BY <2>1, <1>2, <1>3, <1>4, AfterCandidateInv
  <2>3. Top.cur \in Squares
    BY <1>2, <2>1, FrameTypes DEF FrameInv, CandidateStages, MidWaiting
  <2> HIDE DEF g
  <2>4. g.depth \in Nat
    BY <2>2, FrameTypes
  <2>5. session.history_killers \in HistoryKillerStates
    BY <1>2 DEF SessionStates
  <2> DEFINE after == RecordCutoff(session.history_killers, Top.cur, g.depth)
  <2>6. after \in HistoryKillerStates /\ KillersDiffer(after.killers)
    BY <1>2, <2>3, <2>4, <2>5, RecordCutoffFacts
  <2>7. session' = session \/ session' = [session EXCEPT !.history_killers = after]
    BY <2>1 DEF TryNext
  <2> HIDE DEF after
  <2>8. /\ session' \in SessionStates /\ session'.evaluator = session.evaluator
        /\ session'.bucket_count = session.bucket_count
        /\ session'.generation = session.generation
        /\ session'.history_killers \in {session.history_killers, after}
    BY <1>2, <2>6, <2>7 DEF SessionStates
  <2>9. KillersDiffer(session'.history_killers.killers)
    BY <1>2, <2>6, <2>8
  <2>10. stack' = SetTop(g) /\ ret' = NoResult /\ tt' = tt
    BY <2>1 DEF TryNext
  <2> QED
    BY <1>1, <2>2, <2>8, <2>9, <2>10, ContinueKeepsInv
<1> QED
  BY <1>6, <1>7, <1>8

LEMMA SearchNodeKeepsInv ==
  ASSUME Inv, SearchNode
  PROVE  Inv'
BY EnterKeepsInv, LoopKeepsInv, ResumeKeepsInv DEF SearchNode, NodeStep

(***************************************************************************)
(* The root searches: windows and depths.                                  *)
(***************************************************************************)
LEMMA RequestFacts ==
  ASSUME NEW r \in Requests
  PROVE  /\ r \in RequestType /\ r.root \in Positions /\ r.evaluator \in Evaluators
         /\ r.options \in SearchOptions /\ r.entries \in Nat /\ r.mode \in Modes
         /\ SearchDepth(r) \in Depths /\ SearchDepth(r) \in Nat
         /\ BucketCountFor(r.entries, MidBucketWidth) \in Nat
<1>1. r \in RequestType
  BY SessionAssumption
<1>2. /\ r.root \in Positions /\ r.evaluator \in Evaluators /\ r.max_depth \in Int
      /\ r.options \in SearchOptions /\ r.entries \in Nat /\ r.mode \in Modes
  BY <1>1 DEF RequestType, Modes
<1>3. r.max_depth <= MaxDepth /\ BucketCountFor(r.entries, MidBucketWidth) \in Nat
  BY SessionAssumption
<1> QED
  BY <1>1, <1>2, <1>3, MidTableAssumption DEF SearchDepth, Depths

LEMMA JobTypes ==
  ASSUME NEW j \in Jobs
  PROVE  /\ j.root \in Positions /\ j.request \in Requests /\ j.depth \in Depths
         /\ j.depth \in Nat /\ j.alpha \in Int /\ j.beta \in Int /\ j.window \in Int
         /\ j.researches \in Int /\ j.move \in Squares0 /\ j.line \in Seq(Squares)
         /\ j.scores \in Seq(Bounded) /\ j # Idle
<1>1. j.root \in Positions /\ j.depth \in Depths
  BY DEF Jobs
<1>2. j # Idle
  BY <1>1, SessionAssumption DEF Idle
<1> QED
  BY <1>1, <1>2, MidTableAssumption DEF Jobs, Depths

\* The first frame of a root search.
LEMMA RootStackInv ==
  ASSUME NEW j \in Jobs, WindowProper(j), job' = j, ret' = NoResult,
         stack' = <<RootFrame(j.root, j.depth, j.alpha, j.beta, j.line, j.move)>>
  PROVE  stack' \in Seq(MidFrames) /\ StackInv' /\ ControlInv'
<1> DEFINE f == RootFrame(j.root, j.depth, j.alpha, j.beta, j.line, j.move)
<1>1. /\ j.root \in Positions /\ j.depth \in Depths /\ j.alpha \in Int /\ j.beta \in Int
      /\ j.move \in Squares0 /\ j.line \in Seq(Squares) /\ j.alpha < j.beta /\ j # Idle
  BY JobTypes DEF WindowProper
<1>2. <<j.root, j.depth>> \in Calls'
  BY <1>1 DEF Calls, CallsOf, Straight
<1>3. Begins(f, Good', Calls', j.root, j.depth, j.alpha, j.beta)
  BY <1>1, <1>2, NewFrameInv
<1>4. stack' = <<f>>
  OBVIOUS
<1> HIDE DEF f
<1>5. f \in MidFrames /\ FrameInv(Good', Calls', f) /\ f.stage = "enter" /\ CallOfJob(j, f)
  BY <1>3 DEF Begins, CallOfJob
<1>6. stack' \in Seq(MidFrames) /\ Len(stack') = 1 /\ stack'[1] = f /\ stack' # << >>
  BY <1>4, <1>5
<1>7. Top' = f
  BY <1>6 DEF Top
<1>8. StackInv'
  BY <1>5, <1>6, <1>7 DEF StackInv
<1>9. ControlInv'
  BY <1>1, <1>8 DEF ControlInv
<1> QED
  BY <1>6, <1>8, <1>9

\* A window around a score within bounds has the score strictly inside.
LEMMA AspiratedFacts ==
  ASSUME NEW j \in Jobs, j.scores # << >>, NEW w \in Int, w > 0, NEW n \in Int
  PROVE  LET k == Aspirated(j, w, n) IN
         /\ k \in Jobs /\ WindowProper(k)
         /\ k.root = j.root /\ k.request = j.request /\ k.depth = j.depth
         /\ k.fresh = j.fresh
<1> DEFINE score == j.scores[Len(j.scores)]
           a == Clamp(score - w)
           b == Clamp(score + w)
           k == [j EXCEPT !.alpha = a, !.beta = b, !.aspirated = TRUE, !.window = w,
                          !.researches = n]
<1>1. score \in Bounded
  <2>1. j.scores \in Seq(Bounded)
    BY JobTypes
  <2>2. Len(j.scores) \in 1 .. Len(j.scores)
    BY <2>1, EmptySeq
  <2> QED
    BY <2>1, <2>2, ElementOfSeq
<1>2. k = Aspirated(j, w, n)
  BY DEF Aspirated
<1> HIDE DEF score
<1>3. /\ a \in Int /\ b \in Int /\ SearchScoreMin <= a /\ a < b /\ b <= SearchScoreMax
  BY <1>1, ScoreRange DEF Clamp, Bounded, SearchScoreMin
<1> HIDE DEF a, b
<1>4. /\ k \in Jobs /\ k.alpha = a /\ k.beta = b /\ k.aspirated = TRUE /\ k.window = w
      /\ k.scores = j.scores /\ k.root = j.root /\ k.request = j.request
      /\ k.depth = j.depth /\ k.fresh = j.fresh
  BY <1>3 DEF Jobs
<1> HIDE DEF k
<1>5. WindowProper(k)
  BY <1>3, <1>4 DEF WindowProper
<1> QED
  BY <1>2, <1>4, <1>5

LEMMA FullWindowFacts ==
  ASSUME NEW j \in Jobs
  PROVE  LET k == FullWindow(j) IN
         /\ k \in Jobs /\ WindowProper(k)
         /\ k.root = j.root /\ k.request = j.request /\ k.depth = j.depth
         /\ k.fresh = j.fresh
<1> DEFINE k == FullWindow(j)
<1>1. SearchScoreMin \in Int /\ SearchScoreMax \in Int /\ SearchScoreMin < SearchScoreMax
  BY ScoreRange
<1>2. /\ k \in Jobs /\ k.alpha = SearchScoreMin /\ k.beta = SearchScoreMax
      /\ k.aspirated = FALSE /\ k.root = j.root /\ k.request = j.request
      /\ k.depth = j.depth /\ k.fresh = j.fresh
  BY <1>1 DEF FullWindow, Jobs
<1> HIDE DEF k
<1>3. WindowProper(k)
  BY <1>1, <1>2 DEF WindowProper
<1> QED
  BY <1>2, <1>3 DEF k

LEMMA WindowsWiden ==
  ASSUME NEW w \in Int, w > 0
  PROVE  WidenedWindow(w) \in Int /\ WidenedWindow(w) > 0
BY ScoreRange DEF WidenedWindow

LEMMA InitialWindowFacts ==
  ASSUME session \in SessionStates, NEW scores \in Seq(Bounded), scores # << >>
  PROVE  InitialWindow(scores) \in Int /\ InitialWindow(scores) > 0
<1> DEFINE base == PositiveWindow(Options.aspiration_window)
           n == Len(scores)
           delta == AbsOf(scores[n] - scores[n - 1])
<1>1. base \in Int /\ base > 0
  <2>1. session.options \in SearchOptions
    BY DEF SessionStates
  <2>2. Options.aspiration_window \in Int
    BY <2>1 DEF Options, SearchOptions
  <2> QED
    BY <2>2 DEF PositiveWindow
<1>2. n \in Nat
  BY EmptySeq
<1>3. n >= 2 => delta \in Int
  <2> SUFFICES ASSUME n >= 2
               PROVE  delta \in Int
    OBVIOUS
  <2>1. n \in 1 .. n /\ n - 1 \in 1 .. n
    BY <1>2
  <2>2. scores[n] \in Bounded /\ scores[n - 1] \in Bounded
    BY <2>1, ElementOfSeq
  <2> QED
    BY <2>2 DEF AbsOf, Bounded
<1>4. InitialWindow(scores) =
        IF Options.aspiration_profile = "Fixed" \/ n < 2 THEN base
        ELSE IF delta <= 2 * base THEN base
        ELSE Clamp(Lesser(delta + base \div 2, 2 * base))
  BY DEF InitialWindow
<1> HIDE DEF base, n, delta
<1>5. ASSUME delta \in Int, delta > 2 * base
      PROVE  /\ Clamp(Lesser(delta + base \div 2, 2 * base)) \in Int
             /\ Clamp(Lesser(delta + base \div 2, 2 * base)) > 0
  <2>1. Lesser(delta + base \div 2, 2 * base) \in Int /\ Lesser(delta + base \div 2, 2 * base) > 0
    BY <1>1, <1>5 DEF Lesser
  <2> QED
    BY <2>1, ScoreRange DEF Clamp
<1>6. CASE Options.aspiration_profile = "Fixed" \/ n < 2
  BY <1>1, <1>4, <1>6
<1>7. CASE ~(Options.aspiration_profile = "Fixed" \/ n < 2)
  BY <1>1, <1>2, <1>3, <1>4, <1>5, <1>7
<1> QED
  BY <1>6, <1>7

\* A root search that did not fail has found a value of its root.
LEMMA RootScore ==
  ASSUME Inv, RootReturned, ~Failed(job)
  PROVE  ret.score \in Good[job.root][job.depth]
<1>1. job # Idle /\ TypeOK /\ StackInv /\ JobInv /\ stack = << >>
  BY DEF Inv, ControlInv, RootReturned
<1>2. ret # NoResult /\ ret \in NodeResults
  BY <1>1 DEF StackInv, TypeOK
<1>3. PICK v \in Good[job.root][job.depth] : Contract(v, ret.score, job.alpha, job.beta)
  BY <1>1, <1>2 DEF StackInv, Kept
<1>4. v \in Bounded
  BY <1>1, Context
<1>5. job.alpha \in Int /\ job.beta \in Int /\ ret.score \in Int
  BY <1>1, <1>2, Context, JobTypes DEF NodeResults
<1>6. \/ job.alpha < ret.score /\ ret.score < job.beta
      \/ job.alpha = SearchScoreMin /\ job.beta = SearchScoreMax
  BY <1>1, <1>5 DEF JobInv, WindowProper, Failed
<1> QED
  BY <1>3, <1>4, <1>5, <1>6, InsideExact

LEMMA RootResultFacts ==
  ASSUME Inv, RootReturned
  PROVE  /\ ret \in NodeResults /\ RootResult \in NodeResults
         /\ RootResult.score = ret.score
<1>1. ret \in NodeResults /\ session.pv \in Seq(Squares)
  BY DEF Inv, ControlInv, RootReturned, StackInv, TypeOK, SessionStates
<1> QED
  BY <1>1 DEF RootResult, NodeResults

\* The next root search of the same job, no shallower.
LEMMA SearchRootKeepsInv ==
  ASSUME Inv, RootReturned, NEW j \in Jobs, WindowProper(j), SearchRoot(j),
         j.root = job.root, j.request = job.request, j.fresh = job.fresh,
         j.depth >= job.depth, j.depth <= SearchDepth(j.request)
  PROVE  Inv'
<1>1. /\ job # Idle /\ TypeOK /\ JobInv /\ TableInv /\ job \in Jobs
      /\ AnswerSound
      /\ KillersDiffer(session.history_killers.killers)
  BY DEF Inv, RootReturned, TypeOK
<1>2. /\ job' = j /\ ret' = NoResult /\ j # Idle
      /\ stack' = <<RootFrame(j.root, j.depth, j.alpha, j.beta, j.line, j.move)>>
      /\ tt' = tt /\ session' = session /\ caller' = caller
      /\ answer' = answer /\ searches' = searches
  BY JobTypes DEF SearchRoot
<1>3. stack' \in Seq(MidFrames) /\ ControlInv'
  BY <1>2, RootStackInv
<1>4. TypeOK'
  BY <1>1, <1>2, <1>3 DEF TypeOK
<1>5. JobInv'
  BY <1>1, <1>2 DEF JobInv
<1>6. TableInv'
  <2>1. Straight' <=> Straight
    BY <1>2 DEF Straight
  <2>2. ASSUME Straight, NEW x \in Stored(tt)
        PROVE  EntryStraight(session.evaluator, j.depth - Empties[j.root], x)
    <3>1. EntryStraight(session.evaluator, job.depth - Empties[job.root], x)
      BY <1>1, <2>2 DEF TableInv
    <3>2. x \in MidEntries
      BY DEF Stored
    <3>3. x.hash \in Positions /\ x.depth \in Depths
      BY <3>2 DEF MidEntries
    <3>4. job.depth \in Nat /\ j.depth \in Nat /\ job.root \in Positions
      BY <1>1, JobTypes
    <3>5. \A q \in Positions : Empties[q] \in Int
      BY GameTypes
    <3>6. \A k \in Depths : k \in Int
      BY MidTableAssumption DEF Depths
    <3>7. x.depth \in Int /\ Empties[x.hash] \in Int /\ Empties[job.root] \in Int
      BY <3>3, <3>4, <3>5, <3>6
    <3>8. x.depth - Empties[x.hash] <= j.depth - Empties[job.root]
      BY <3>1, <3>4, <3>7 DEF EntryStraight
    <3> QED
      BY <3>1, <3>8 DEF EntryStraight
  <2> QED
    BY <1>1, <1>2, <2>1, <2>2 DEF TableInv
<1>7. AnswerSound'
  BY <1>1, <1>2 DEF AnswerSound, NegamaxExact, AnswerIsASearchValue
<1> QED
  BY <1>1, <1>2, <1>3, <1>4, <1>5, <1>6, <1>7 DEF Inv

RootCall(j) ==
  /\ j \in Jobs /\ WindowProper(j) /\ SearchRoot(j)
  /\ j.root = job.root /\ j.request = job.request /\ j.fresh = job.fresh
  /\ j.depth >= job.depth /\ j.depth <= SearchDepth(j.request)

LEMMA NextRoot ==
  ASSUME Inv, ReSearchWider \/ ReSearchFull \/ NextDepth
  PROVE  RootReturned /\ \E j : RootCall(j)
<1>1. /\ RootReturned /\ job # Idle /\ job \in Jobs /\ TypeOK /\ JobInv
      /\ session \in SessionStates
  BY DEF Inv, TypeOK, RootReturned, ReSearchWider, ReSearchFull, NextDepth
<1>2. /\ job.depth \in Nat /\ job.window \in Int /\ job.researches \in Int
      /\ job.scores \in Seq(Bounded) /\ job.depth \in Depths
      /\ job.request \in Requests /\ job.depth <= SearchDepth(job.request)
  BY <1>1, JobTypes DEF JobInv
<1>3. CASE ReSearchWider
  <2> DEFINE w == WidenedWindow(job.window)
             n == job.researches + 1
             k == Aspirated(job, w, n)
  <2>1. job.window > 0 /\ job.scores # << >> /\ SearchRoot(k)
    BY <1>1, <1>3 DEF ReSearchWider, Failed, JobInv, WindowProper
  <2>2. w \in Int /\ w > 0 /\ n \in Int
    BY <1>2, <2>1, WindowsWiden
  <2> HIDE DEF w, n
  <2>3. /\ k \in Jobs /\ WindowProper(k)
        /\ k.root = job.root /\ k.request = job.request /\ k.depth = job.depth
        /\ k.fresh = job.fresh
    BY <1>1, <2>1, <2>2, AspiratedFacts
  <2> HIDE DEF k
  <2>4. k.depth >= job.depth
    BY <1>2, <2>3
  <2> QED
    BY <1>1, <1>2, <2>1, <2>3, <2>4 DEF RootCall
<1>4. CASE ReSearchFull
  <2> DEFINE k == FullWindow(job)
  <2>1. SearchRoot(k)
    BY <1>4 DEF ReSearchFull
  <2>2. /\ k \in Jobs /\ WindowProper(k)
        /\ k.root = job.root /\ k.request = job.request /\ k.depth = job.depth
        /\ k.fresh = job.fresh
    BY <1>1, FullWindowFacts
  <2> HIDE DEF k
  <2>3. k.depth >= job.depth
    BY <1>2, <2>2
  <2> QED
    BY <1>1, <1>2, <2>1, <2>2, <2>3 DEF RootCall
<1>5. CASE NextDepth
  <2> DEFINE scores == Append(job.scores, ret.score)
             j == [job EXCEPT !.depth = @ + 1, !.scores = scores,
                              !.move = RootResult.best_move, !.line = RootResult.pv]
             w == InitialWindow(j.scores)
             k == IF Options.use_aspiration_window THEN Aspirated(j, w, 0) ELSE FullWindow(j)
  <2>1. job.depth < SearchDepth(job.request) /\ ~Failed(job)
    BY <1>5 DEF NextDepth
  <2>2. SearchRoot(k)
    BY <1>5 DEF NextDepth
  <2>3. job.depth + 1 \in Depths /\ job.depth + 1 <= SearchDepth(job.request)
    <3>1. SearchDepth(job.request) \in Depths
      BY <1>2, RequestFacts
    <3> QED
      BY <1>2, <2>1, <3>1, MidTableAssumption DEF Depths
  <2>4. ret.score \in Bounded
    <3>1. ret.score \in Good[job.root][job.depth]
      BY <1>1, <2>1, RootScore
    <3> QED
      BY <1>1, <3>1, Context
  <2>5. scores \in Seq(Bounded) /\ scores # << >>
    BY <1>2, <2>4, AppendProperties
  <2>6. RootResult.best_move \in Squares0 /\ RootResult.pv \in Seq(Squares)
    BY <1>1, RootResultFacts DEF NodeResults, Squares0
  <2> HIDE DEF scores
  <2>7. /\ j \in Jobs /\ j.depth = job.depth + 1 /\ j.scores = scores /\ j.root = job.root
        /\ j.request = job.request /\ j.fresh = job.fresh
    BY <1>1, <2>3, <2>5, <2>6 DEF Jobs
  <2> HIDE DEF j
  <2>8. w \in Int /\ w > 0
    BY <1>1, <2>5, <2>7, InitialWindowFacts
  <2> HIDE DEF w
  <2>9. /\ k \in Jobs /\ WindowProper(k)
        /\ k.root = j.root /\ k.request = j.request /\ k.depth = j.depth
        /\ k.fresh = j.fresh
    <3> DEFINE narrow == Aspirated(j, w, 0)
               full == FullWindow(j)
    <3>1. /\ narrow \in Jobs /\ WindowProper(narrow)
          /\ narrow.root = j.root /\ narrow.request = j.request /\ narrow.depth = j.depth
          /\ narrow.fresh = j.fresh
      BY <2>5, <2>7, <2>8, AspiratedFacts
    <3>2. /\ full \in Jobs /\ WindowProper(full)
          /\ full.root = j.root /\ full.request = j.request /\ full.depth = j.depth
          /\ full.fresh = j.fresh
      BY <2>7, FullWindowFacts
    <3>3. k = narrow \/ k = full
      OBVIOUS
    <3> HIDE DEF narrow, full, k
    <3> QED
      BY <3>1, <3>2, <3>3
  <2> HIDE DEF k
  <2>10. k.depth >= job.depth /\ k.depth <= SearchDepth(k.request)
    BY <1>2, <2>3, <2>7, <2>9
  <2> QED
    BY <1>1, <2>2, <2>7, <2>9, <2>10 DEF RootCall
<1> QED
  BY <1>3, <1>4, <1>5

LEMMA AnotherRootKeepsInv ==
  ASSUME Inv, ReSearchWider \/ ReSearchFull \/ NextDepth
  PROVE  Inv'
<1>1. PICK j : RootCall(j)
  BY NextRoot
<1> QED
  BY <1>1, NextRoot, SearchRootKeepsInv DEF RootCall

(***************************************************************************)
(* Beginning and ending a search.                                          *)
(***************************************************************************)
LEMMA FinishKeepsInv ==
  ASSUME Inv, FinishSearch
  PROVE  Inv'
<1>1. /\ RootReturned /\ job # Idle /\ job \in Jobs /\ TypeOK /\ JobInv /\ TableInv
      /\ session \in SessionStates /\ ~Failed(job) /\ stack = << >>
      /\ KillersDiffer(session.history_killers.killers)
  BY DEF Inv, TypeOK, RootReturned, FinishSearch
<1>2. /\ session' = Finished(session, job.root, RootResult)
      /\ answer' = Answered(job.request, RootResult, FALSE, job.fresh, session.bucket_count)
      /\ job' = Idle /\ ret' = NoResult /\ stack' = stack /\ tt' = tt /\ caller' = caller
      /\ searches' = searches /\ job.depth = SearchDepth(job.request)
  BY DEF FinishSearch
<1>3. RootResult \in NodeResults /\ RootResult.score = ret.score
  BY <1>1, RootResultFacts
<1>4. ret.score \in Good[job.root][job.depth]
  BY <1>1, RootScore
<1>5. job.root \in Positions /\ job.depth \in Depths
  BY <1>1, JobTypes
<1> DEFINE s == session'
           r == RootResult
<1>6. /\ s \in SessionStates /\ s.bucket_count = session.bucket_count
      /\ s.generation = session.generation
      /\ s.history_killers = session.history_killers
  <2>1. r.best_move \in Squares0 /\ r.score \in Int /\ r.pv \in Seq(Squares)
    BY <1>3 DEF NodeResults, Squares0
  <2> HIDE DEF r
  <2>2. s = [session EXCEPT !.root_hash = job.root, !.best_move = r.best_move,
                            !.score = r.score, !.pv = r.pv]
    BY <1>2 DEF Finished, r
  <2> HIDE DEF s
  <2> QED
    BY <1>1, <1>5, <2>1, <2>2 DEF SessionStates
<1> HIDE DEF s
<1>7. TypeOK'
  BY <1>1, <1>2, <1>6 DEF TypeOK, s
<1>8. ControlInv' /\ JobInv'
  BY <1>1, <1>2 DEF ControlInv, JobInv
<1>9. TableInv'
  BY <1>1, <1>2, <1>6 DEF TableInv, s
<1>10. /\ answer'.exact = FALSE /\ answer'.request = job.request
       /\ answer'.result.score = ret.score /\ answer'.fresh = job.fresh
       /\ answer'.bucket_count = session.bucket_count
  BY <1>2, <1>3 DEF Answered
<1>11. job.root = job.request.root /\ session.evaluator = job.request.evaluator
  BY <1>1 DEF JobInv
<1>12. IdentitiesTell => AnswerIsASearchValue'
  <2> SUFFICES ASSUME IdentitiesTell
               PROVE  AnswerIsASearchValue'
    OBVIOUS
  <2>1. ret.score \in ProperValues(session.evaluator, job.root, job.depth)
    BY <1>1, <1>4, <1>5, Context
  <2>2. ret.score \in SearchValues[session.evaluator][job.root][job.depth]
    BY <2>1 DEF ProperValues, DeepValues
  <2> QED
    BY <1>2, <1>10, <1>11, <2>2 DEF AnswerIsASearchValue, RightScore
<1>13. NegamaxExact'
  <2>1. SUFFICES ASSUME \/ session.bucket_count = 0
                        \/ job.fresh /\ PassFree[job.root]
                 PROVE  ret.score = DepthValue[session.evaluator][job.root][job.depth]
    BY <1>2, <1>10, <1>11 DEF NegamaxExact
  <2>2. Plain
    BY <2>1 DEF Plain, Straight
  <2> QED
    BY <1>1, <1>4, <1>5, <2>2, Context
<1> QED
  BY <1>1, <1>6, <1>7, <1>8, <1>9, <1>12, <1>13 DEF Inv, AnswerSound, s

LEMMA CallerRequests ==
  ASSUME TypeOK, NEW r \in RequestsOf[caller]
  PROVE  r \in Requests
BY DEF TypeOK, Requests

\* A session that begins a search has a table of the size it believes, with
\* what was stored before or nothing.
LEMMA BeginFacts ==
  ASSUME TypeOK, TableInv, NEW r \in Requests, NEW count \in Counts(r), BeginTable(r, count)
  PROVE  LET s == Begun(r, count) IN
         /\ s \in SessionStates /\ s.bucket_count = count
         /\ s.evaluator = r.evaluator /\ s.options = r.options
         /\ s.history_killers = session.history_killers
         /\ s.generation # 0 /\ count \in Nat
         /\ tt' \in MidTables(count) /\ searches' \in Nat
         /\ \A x \in Stored(tt') : EntrySound(x)
         /\ session.generation = 0 => Stored(tt') = {}
<1> DEFINE generation == IF session.generation = 0 THEN 1 ELSE NextGeneration(session.generation)
           s == Begun(r, count)
<1>1. /\ session \in SessionStates /\ tt \in MidTables(session.bucket_count)
      /\ searches \in Nat
      /\ session.bucket_count \in Nat /\ session.generation \in Generations \cup {0}
  BY DEF TypeOK, SessionStates
<1>2. /\ r.evaluator \in Evaluators /\ r.options \in SearchOptions /\ r.entries \in Nat
      /\ r.mode \in Modes /\ BucketCountFor(r.entries, MidBucketWidth) \in Nat
  BY RequestFacts
<1>3. count \in Nat
  BY <1>1, <1>2 DEF Counts
<1>4. generation \in Generations /\ generation # 0
  BY <1>1, MidTableAssumption DEF NextGeneration, Generations
<1>5. s = [session EXCEPT !.generation = generation,
                          !.mode = r.mode, !.evaluator = r.evaluator, !.options = r.options,
                          !.entries = r.entries, !.bucket_count = count]
  BY <1>1 DEF Begun, SessionStates
<1> HIDE DEF generation, s
<1>6. /\ s \in SessionStates /\ s.bucket_count = count /\ s.generation = generation
      /\ s.evaluator = r.evaluator /\ s.options = r.options
      /\ s.history_killers = session.history_killers
  BY <1>1, <1>2, <1>3, <1>4, <1>5 DEF SessionStates
<1>7. tt' \in MidTables(count) /\ (Stored(tt') = {} \/ Stored(tt') = Stored(tt))
  <2>1. CASE r.entries = session.entries
    BY <1>1, <2>1 DEF Counts, BeginTable, TableAfter
  <2>2. CASE r.entries # session.entries
    <3>1. tt' = NewTable(count)
      BY <2>2 DEF BeginTable, TableAfter
    <3> QED
      BY <1>3, <3>1, NewTableFacts
  <2> QED
    BY <2>1, <2>2
<1>8. searches' \in Nat
  BY <1>1 DEF BeginTable
<1> QED
  BY <1>3, <1>4, <1>6, <1>7, <1>8 DEF TableInv, s

LEMMA BeginKeepsInv ==
  ASSUME Inv, Begin
  PROVE  Inv'
<1>1. /\ TypeOK /\ ControlInv /\ TableInv /\ job = Idle /\ session \in SessionStates
      /\ AnswerSound
      /\ KillersDiffer(session.history_killers.killers)
  BY DEF Inv, TypeOK, Begin
<1> DEFINE Depth(q) == IF q.mode = "FixedDepth" \/ SearchDepth(q) = 0 THEN SearchDepth(q) ELSE 1
           Line(q) == IF q.mode = "Iterative" /\ SearchDepth(q) = 0 THEN << >> ELSE session.pv
           JobOf(q) == [root |-> q.root, request |-> q, depth |-> Depth(q),
                        fresh |-> session.generation = 0,
                        alpha |-> SearchScoreMin, beta |-> SearchScoreMax,
                        aspirated |-> FALSE, window |-> 0, researches |-> 0,
                        move |-> session.best_move, line |-> Line(q), scores |-> << >>]
<1>2. PICK r \in RequestsOf[caller] : \E count \in Counts(r) :
        /\ BeginTable(r, count) /\ session' = Begun(r, count) /\ job' = JobOf(r)
        /\ stack' = <<RootFrame(r.root, Depth(r), SearchScoreMin, SearchScoreMax, Line(r),
                                session.best_move)>>
  BY DEF Begin
<1>3. PICK count \in Counts(r) :
        /\ BeginTable(r, count) /\ session' = Begun(r, count) /\ job' = JobOf(r)
        /\ stack' = <<RootFrame(r.root, Depth(r), SearchScoreMin, SearchScoreMax, Line(r),
                                session.best_move)>>
  BY <1>2
<1>4. r \in Requests
  BY <1>1, CallerRequests
<1>5. /\ r.root \in Positions /\ SearchDepth(r) \in Depths /\ SearchDepth(r) \in Nat
  BY <1>4, RequestFacts
<1>6. Depth(r) \in Depths /\ Depth(r) <= SearchDepth(r)
  BY <1>5, MidTableAssumption DEF Depths
<1>7. Line(r) \in Seq(Squares) /\ session.best_move \in Squares0
  BY <1>1, EmptySeq DEF SessionStates
<1>8. SearchScoreMin \in Int /\ SearchScoreMax \in Int /\ SearchScoreMin < SearchScoreMax
      /\ << >> \in Seq(Bounded)
  BY ScoreRange, EmptySeq
<1> DEFINE j == JobOf(r)
<1> HIDE DEF Depth, Line
<1>9. /\ j \in Jobs /\ j.root = r.root /\ j.request = r /\ j.depth = Depth(r)
      /\ j.alpha = SearchScoreMin /\ j.beta = SearchScoreMax /\ j.aspirated = FALSE
      /\ j.line = Line(r) /\ j.move = session.best_move
      /\ j.fresh = (session.generation = 0)
  BY <1>4, <1>5, <1>6, <1>7, <1>8 DEF Jobs
<1>10. job' = j
  BY <1>3
<1> HIDE DEF j, JobOf
<1>11. WindowProper(j) /\ j # Idle
  BY <1>8, <1>9, JobTypes DEF WindowProper
<1>12. ret' = NoResult /\ caller' = caller /\ answer' = answer
  BY <1>1 DEF Begin, ControlInv
<1>13. stack' = <<RootFrame(j.root, j.depth, j.alpha, j.beta, j.line, j.move)>>
  BY <1>3, <1>9
<1>14. stack' \in Seq(MidFrames) /\ ControlInv'
  BY <1>9, <1>10, <1>11, <1>12, <1>13, RootStackInv
<1> DEFINE s == session'
<1>15. /\ s \in SessionStates /\ s.bucket_count = count
       /\ s.evaluator = r.evaluator /\ s.generation # 0
       /\ s.history_killers = session.history_killers
       /\ tt' \in MidTables(count) /\ searches' \in Nat
       /\ \A x \in Stored(tt') : EntrySound(x)
       /\ session.generation = 0 => Stored(tt') = {}
  BY <1>1, <1>3, <1>4, BeginFacts
<1> HIDE DEF s
<1>16. TypeOK'
  BY <1>1, <1>9, <1>10, <1>12, <1>14, <1>15 DEF TypeOK, s
<1>17. JobInv'
  BY <1>6, <1>9, <1>10, <1>11, <1>15 DEF JobInv, s
<1>18. TableInv'
  BY <1>9, <1>10, <1>15 DEF TableInv, Straight, s
<1>19. AnswerSound'
  BY <1>1, <1>12 DEF AnswerSound, NegamaxExact, AnswerIsASearchValue
<1> QED
  BY <1>1, <1>14, <1>15, <1>16, <1>17, <1>18, <1>19 DEF Inv, s

LEMMA SolveKeepsInv ==
  ASSUME Inv, SolveExactRoot
  PROVE  Inv'
<1>1. /\ TypeOK /\ ControlInv /\ TableInv /\ job = Idle /\ session \in SessionStates
      /\ KillersDiffer(session.history_killers.killers)
  BY DEF Inv, TypeOK, SolveExactRoot
<1> DEFINE Solved(q, n) == [Begun(q, n) EXCEPT !.mode = "ExactEndgame"]
<1>2. PICK r \in RequestsOf[caller] : \E count \in Counts(r), result \in ExactResults(r.root) :
        /\ BeginTable(r, count)
        /\ session' = Finished(Solved(r, count), r.root, result)
        /\ answer' = Answered(r, result, TRUE, session.generation = 0, count)
  BY DEF SolveExactRoot
<1>3. PICK count \in Counts(r) : \E result \in ExactResults(r.root) :
        /\ BeginTable(r, count)
        /\ session' = Finished(Solved(r, count), r.root, result)
        /\ answer' = Answered(r, result, TRUE, session.generation = 0, count)
  BY <1>2
<1>4. PICK result \in ExactResults(r.root) :
        /\ BeginTable(r, count)
        /\ session' = Finished(Solved(r, count), r.root, result)
        /\ answer' = Answered(r, result, TRUE, session.generation = 0, count)
  BY <1>3
<1>5. r \in Requests /\ r.root \in Positions
  BY <1>1, CallerRequests, RequestFacts
<1>6. /\ result.score = Value[r.root] * ExactScale /\ result.score \in Int
      /\ result.best_move \in Squares0 /\ result.pv \in Seq(Squares)
  <2>1. /\ result.score = Value[r.root] * ExactScale
        /\ result.best_move \in LowestOptimal(r.root) /\ result.pv \in ExactLines[r.root]
    BY DEF ExactResults
  <2>2. Value[r.root] \in Int /\ ExactScale \in Int
    BY <1>5, ValueEquation, SessionAssumption DEF FinalDiscMarginMax
  <2>3. LowestOptimal(r.root) \subseteq Squares0
    <3>1. Moves[r.root] \subseteq Squares
      BY <1>5, GameTypes
    <3> QED
      BY <3>1 DEF LowestOptimal, Optimal, Squares0
  <2>4. ExactLines[r.root] \subseteq Seq(Squares)
    BY <1>5, ExactLinesLegal
  <2>5. result.score \in Int
    BY <2>1, <2>2
  <2> QED
    BY <2>1, <2>3, <2>4, <2>5
<1> DEFINE s == Begun(r, count)
           u == Solved(r, count)
           t == session'
<1>7. /\ s \in SessionStates /\ s.bucket_count = count /\ s.generation # 0
      /\ s.history_killers = session.history_killers
      /\ tt' \in MidTables(count) /\ searches' \in Nat
      /\ \A x \in Stored(tt') : EntrySound(x)
  BY <1>1, <1>4, <1>5, BeginFacts
<1>8. u = [s EXCEPT !.mode = "ExactEndgame"]
  OBVIOUS
<1>9. t = [u EXCEPT !.root_hash = r.root, !.best_move = result.best_move,
                    !.score = result.score, !.pv = result.pv]
  BY <1>4 DEF Finished
<1> HIDE DEF s, u, t
<1>10. /\ u \in SessionStates /\ u.bucket_count = count /\ u.generation # 0
       /\ u.history_killers = session.history_killers
  BY <1>7, <1>8 DEF SessionStates, Modes
<1>11. /\ t \in SessionStates /\ t.bucket_count = count /\ t.generation # 0
       /\ t.history_killers = session.history_killers
  BY <1>5, <1>6, <1>9, <1>10 DEF SessionStates
<1>12. /\ stack' = stack /\ ret' = ret /\ caller' = caller /\ job' = job
  BY DEF SolveExactRoot
<1>13. TypeOK'
  BY <1>1, <1>7, <1>11, <1>12 DEF TypeOK, t
<1>14. ControlInv' /\ JobInv'
  BY <1>1, <1>12 DEF ControlInv, JobInv
<1>15. TableInv'
  BY <1>1, <1>7, <1>11, <1>12 DEF TableInv, t
<1>16. /\ answer'.exact = TRUE /\ answer'.request = r /\ answer'.result = result
  BY <1>4 DEF Answered
<1>17. AnswerSound'
  BY <1>6, <1>16 DEF AnswerSound, NegamaxExact, AnswerIsASearchValue, RightScore
<1> QED
  BY <1>1, <1>11, <1>13, <1>14, <1>15, <1>17 DEF Inv, t

LEMMA FreshSession ==
  ASSUME NEW e \in Evaluators, NEW o \in SearchOptions
  PROVE  LET s == ResetSession(e, o) IN
         /\ s \in SessionStates /\ s.bucket_count = 0 /\ s.generation = 0
         /\ s.evaluator = e /\ s.options = o
         /\ s.history_killers = NoCutoffs
         /\ KillersDiffer(NoCutoffs.killers)
         /\ NewTable(0) \in MidTables(0) /\ Stored(NewTable(0)) = {}
<1>1. NoCutoffs \in HistoryKillerStates /\ KillersDiffer(NoCutoffs.killers)
  <2>1. 0 \in 0 .. HistoryCap
    BY HistoryAssumption
  <2> QED
    BY <2>1 DEF NoCutoffs, HistoryKillerStates, Histories, KillerPairs, KillersDiffer
<1>2. << >> \in Seq(Squares)
  BY EmptySeq
<1> HIDE DEF NoCutoffs
<1>3. /\ ResetSession(e, o) \in SessionStates
  <2>1. NoMove \in Squares0
    BY DEF Squares0
  <2>2. 0 \in Generations \cup {0} /\ "FixedDepth" \in Modes /\ 0 \in Nat
        /\ NoRoot \in Positions \cup {NoRoot} /\ 0 \in Int
    BY DEF Modes
  <2> QED
    BY <1>1, <1>2, <2>1, <2>2 DEF ResetSession, SessionStates
<1> QED
  BY <1>1, <1>3, NewTableFacts DEF ResetSession

LEMMA ResetKeepsInv ==
  ASSUME Inv, Reset
  PROVE  Inv'
<1>1. /\ TypeOK /\ ControlInv /\ job = Idle /\ session \in SessionStates
      /\ AnswerSound
  BY DEF Inv, TypeOK, Reset
<1>2. /\ session' = ResetSession(session.evaluator, session.options) /\ tt' = NewTable(0)
      /\ stack' = stack /\ ret' = ret /\ caller' = caller /\ job' = job
      /\ answer' = answer /\ searches' = searches
  BY DEF Reset
<1>3. session.evaluator \in Evaluators /\ session.options \in SearchOptions
  BY <1>1 DEF SessionStates
<1> DEFINE s == session'
<1>4. /\ s \in SessionStates /\ s.bucket_count = 0
      /\ KillersDiffer(s.history_killers.killers)
      /\ tt' \in MidTables(0) /\ Stored(tt') = {}
  BY <1>2, <1>3, FreshSession
<1> HIDE DEF s
<1>5. TypeOK'
  BY <1>1, <1>2, <1>4 DEF TypeOK, s
<1>6. ControlInv' /\ JobInv'
  BY <1>1, <1>2 DEF ControlInv, JobInv
<1>7. TableInv'
  BY <1>4 DEF TableInv
<1>8. AnswerSound'
  BY <1>1, <1>2 DEF AnswerSound, NegamaxExact, AnswerIsASearchValue
<1> QED
  BY <1>4, <1>5, <1>6, <1>7, <1>8 DEF Inv, s

LEMMA InitInv ==
  ASSUME Init
  PROVE  Inv
<1>1. PICK r \in RequestsOf[caller] : session = ResetSession(r.evaluator, r.options)
  BY DEF Init
<1>2. /\ caller \in Callers /\ stack = << >> /\ ret = NoResult /\ tt = NewTable(0)
      /\ job = Idle /\ answer = NoAnswer /\ searches = 0
  BY DEF Init
<1>3. r \in Requests
  BY <1>1, <1>2 DEF Requests
<1>4. r.evaluator \in Evaluators /\ r.options \in SearchOptions
  BY <1>3, RequestFacts
<1> DEFINE s == session
<1>5. /\ s \in SessionStates /\ s.bucket_count = 0
      /\ KillersDiffer(s.history_killers.killers)
      /\ tt \in MidTables(0) /\ Stored(tt) = {}
  BY <1>1, <1>2, <1>4, FreshSession
<1>6. stack \in Seq(MidFrames)
  BY <1>2, EmptySeq
<1> HIDE DEF s
<1>7. TypeOK
  BY <1>2, <1>5, <1>6 DEF TypeOK, s
<1>8. ControlInv /\ JobInv /\ AnswerSound
  BY <1>2 DEF ControlInv, JobInv, AnswerSound, NegamaxExact, AnswerIsASearchValue
<1>9. TableInv
  BY <1>5 DEF TableInv
<1> QED
  BY <1>5, <1>7, <1>8, <1>9 DEF Inv, s

LEMMA StepInv ==
  ASSUME Inv, [Next]_vars
  PROVE  Inv'
<1>1. CASE UNCHANGED vars
  <2>1. TypeOK' /\ ControlInv' /\ JobInv' /\ TableInv'
    <3>1. TypeOK'
      BY <1>1 DEF vars, Inv, TypeOK
    <3>2. Good' = Good /\ Calls' = Calls
      BY <1>1 DEF vars, Good, Calls, Plain, Straight
    <3>3. StackInv => StackInv'
      BY <1>1, <3>2 DEF vars, StackInv, Top
    <3>4. ControlInv' /\ JobInv'
      BY <1>1, <3>3 DEF vars, Inv, ControlInv, JobInv
    <3>5. TableInv'
      BY <1>1 DEF vars, Inv, TableInv, Straight
    <3> QED
      BY <3>1, <3>4, <3>5
  <2>2. AnswerSound' /\ session' = session
    BY <1>1 DEF vars, Inv, AnswerSound, NegamaxExact, AnswerIsASearchValue
  <2> QED
    BY <2>1, <2>2 DEF Inv
<1>2. CASE Next
  BY <1>2, BeginKeepsInv, SolveKeepsInv, ResetKeepsInv, SearchNodeKeepsInv,
     AnotherRootKeepsInv, FinishKeepsInv DEF Next
<1> QED
  BY <1>1, <1>2

(***************************************************************************)
(* What the search shows.                                                  *)
(***************************************************************************)

\* The invariant the other theorems rest on: every frame of the search has
\* established what its loop needs, every result on its way down keeps the
\* contract of its call, and the table holds only true bounds (search_node,
\* TranspositionTable, search_iterative).
THEOREM SearchInvariant ==
  Spec => []Inv
<1>1. Init => Inv
  BY InitInv
<1>2. Inv /\ [Next]_vars => Inv'
  BY StepInv
<1> QED
  BY <1>1, <1>2, PTL DEF Spec

\* Every score search_node returns keeps the fail-soft contract of its window,
\* through scouts, re-searches, passes and table answers of other searches.
THEOREM ReturnsSound ==
  ASSUME IdentitiesTell
  PROVE  Spec => []ReturnsKeepContract
<1>1. Inv => ReturnsKeepContract
  <2> SUFFICES ASSUME Inv, Running, ret # NoResult
               PROVE  \E v \in SearchValues[session.evaluator][ChildPos(Top)][Top.depth - 1] :
                        Contract(v, ret.score, ChildAlpha(Top), ChildBeta(Top))
    BY DEF ReturnsKeepContract
  <2>1. /\ TypeOK /\ job # Idle /\ StackInv /\ Top \in MidFrames
        /\ FrameInv(Good, Calls, Top) /\ Closed(session.evaluator, Good, Calls)
    BY TopFacts
  <2>2. /\ Top.stage \in MidWaiting
        /\ Kept(Good, ret.score, ChildPos(Top), Top.depth - 1, ChildAlpha(Top), ChildBeta(Top))
    BY <2>1 DEF StackInv, Running
  <2>3. ChildPos(Top) \in Positions /\ Top.depth - 1 \in Depths
    BY <2>1, <2>2, ChildFrame
  <2>4. Good[ChildPos(Top)][Top.depth - 1]
          \subseteq ProperValues(session.evaluator, ChildPos(Top), Top.depth - 1)
    BY <2>1, <2>3, Context
  <2> QED
    BY <2>2, <2>4 DEF Kept, ProperValues, DeepValues
<1> QED
  BY <1>1, SearchInvariant, PTL

\* A bound stored by one search is true for every later one whose evaluator
\* matches its scope, and the table has the size the session believes.
THEOREM TableStaysSound ==
  ASSUME IdentitiesTell
  PROVE  Spec => []TableSound
<1>1. Inv => TableSound
  <2> SUFFICES ASSUME Inv
               PROVE  TableSound
    OBVIOUS
  <2>1. /\ session.generation \in Generations \cup {0}
        /\ tt \in MidTables(session.bucket_count)
        /\ \A x \in Stored(tt) : EntrySound(x)
    BY DEF Inv, TypeOK, SessionStates, TableInv
  <2>2. ASSUME NEW b \in DOMAIN tt, NEW i \in MidSlots, tt[b][i].occupied,
               NEW e \in Evaluators, IdentityOf[e] = tt[b][i].scope.eval_identity
        PROVE  \E v \in SearchValues[e][tt[b][i].hash][tt[b][i].depth] :
                 BoundHolds(v, tt[b][i].bound, tt[b][i].score)
    <3>1. tt[b][i] \in MidEntries \cup {FreeSlot}
      BY <2>1 DEF MidTables
    <3>2. tt[b][i] \in Stored(tt)
      BY <2>2, <3>1 DEF Stored, FreeSlot
    <3> DEFINE x == tt[b][i]
    <3>3. EntrySound(x) /\ IdentityOf[e] = x.scope.eval_identity
      BY <2>1, <2>2, <3>2
    <3> HIDE DEF x
    <3>4. \E v \in ProperValues(e, x.hash, x.depth) : BoundHolds(v, x.bound, x.score)
      BY <3>3 DEF EntrySound
    <3>5. \E v \in SearchValues[e][x.hash][x.depth] : BoundHolds(v, x.bound, x.score)
      BY <3>4 DEF ProperValues, DeepValues
    <3> QED
      BY <3>5 DEF x
  <2> QED
    BY <2>1, <2>2 DEF TableSound
<1> QED
  BY <1>1, SearchInvariant, PTL

\* Without a table, or in a new session on a game without passes, the score of
\* search and search_iterative is plain negamax's.
THEOREM ScoresAreNegamax ==
  Spec => []NegamaxExact
<1>1. Inv => NegamaxExact
  BY DEF Inv, AnswerSound
<1> QED
  BY <1>1, SearchInvariant, PTL

\* Elsewhere the score is still the value of a tree at least as deep as asked
\* for, under the evaluator asked for, and the exact value of a solved root.
THEOREM AnswersAreSearchValues ==
  ASSUME IdentitiesTell
  PROVE  Spec => []AnswerIsASearchValue
<1>1. Inv => AnswerIsASearchValue
  BY DEF Inv, AnswerSound
<1> QED
  BY <1>1, SearchInvariant, PTL

\* Only a cutoff and a reset touch the history and killers.
LEMMA CutoffStep ==
  ASSUME Inv, [Next]_vars
  PROVE  LET before == session.history_killers
             after  == session'.history_killers
         IN  before.history # after.history => KeepsOrder(before.history, after.history)
<1> DEFINE before == session.history_killers
           after  == session'.history_killers
<1>1. TypeOK /\ session \in SessionStates /\ KillersDiffer(before.killers)
  BY DEF Inv, TypeOK
<1>2. CASE UNCHANGED vars
  BY <1>2 DEF vars
<1>3. CASE Begin
  <2>1. PICK r \in RequestsOf[caller] : \E count \in Counts(r) : session' = Begun(r, count)
    BY <1>3 DEF Begin
  <2>2. after = before
    BY <1>1, <2>1 DEF Begun, SessionStates
  <2> QED
    BY <2>2
<1>4. CASE SolveExactRoot
  <2>1. PICK r \in RequestsOf[caller] : \E count \in Counts(r), result \in ExactResults(r.root) :
          session' = Finished([Begun(r, count) EXCEPT !.mode = "ExactEndgame"], r.root, result)
    BY <1>4 DEF SolveExactRoot
  <2>2. after = before
    BY <1>1, <2>1 DEF Begun, Finished, SessionStates
  <2> QED
    BY <2>2
<1>5. CASE Reset
  <2>1. after.history = [m \in Squares |-> 0]
    BY <1>5 DEF Reset, ResetSession, NoCutoffs
  <2>2. \A m \in PlayedSquares : m \in Squares
    BY GameTypes DEF PlayedSquares
  <2>3. 0 \in Squares /\ \A m, n \in PlayedSquares : after.history[m] >= after.history[n]
    BY <2>1, <2>2 DEF Squares
  <2> QED
    BY <2>3 DEF KeepsOrder
<1>6. CASE SearchNode
  <2>1. CASE session' = session
    BY <2>1
  <2>2. CASE session' # session
    <3>1. Running /\ Top.stage \in CandidateStages /\ TryNext(AfterCandidate(Top))
      BY <1>6, <2>2 DEF SearchNode, NodeStep, Cutoff, LeafNode, GameOver, SearchPass, StartMoves,
        SearchFull, SearchScout, FinishNode, ResumePass, ResumeScoutInside, ResumeScoutOutside,
        ResumeFull, Return, StoreAndReturn, Call, Continue, Resumed, CandidateStages, MidWaiting
    <3> DEFINE g == AfterCandidate(Top)
    <3>2. session' = [session EXCEPT !.history_killers =
                        RecordCutoff(session.history_killers, Top.cur, g.depth)]
      BY <2>2, <3>1 DEF TryNext
    <3>3. /\ Top \in MidFrames /\ FrameInv(Good, Calls, Top)
      BY <3>1, TopFacts
    <3>4. Top.cur \in Squares /\ Top.depth \in Nat
      BY <3>1, <3>3, FrameTypes DEF FrameInv
    <3>5. g.depth = Top.depth
      BY <3>3 DEF AfterCandidate, Scored, MidFrames
    <3> HIDE DEF g
    <3>6. before \in HistoryKillerStates /\ after = RecordCutoff(before, Top.cur, Top.depth)
      BY <1>1, <3>2, <3>5 DEF SessionStates
    <3> HIDE DEF before, after
    <3>7. KeepsOrder(before.history, after.history)
      BY <1>1, <3>4, <3>6, RecordCutoffFacts
    <3> QED
      BY <3>7 DEF before, after
  <2> QED
    BY <2>1, <2>2
<1>7. CASE ReSearchWider \/ ReSearchFull \/ NextDepth
  BY <1>7 DEF ReSearchWider, ReSearchFull, NextDepth, SearchRoot
<1>8. CASE FinishSearch
  <2>1. after = before
    BY <1>1, <1>8 DEF FinishSearch, Finished, SessionStates
  <2> QED
    BY <2>1
<1> QED
  BY <1>2, <1>3, <1>4, <1>5, <1>6, <1>7, <1>8 DEF Next

\* A cutoff moves no square but its own ahead of another, and no move is both
\* killers of a depth (record_history_cutoff, record_killer_cutoff).
THEOREM OrderSurvivesCutoffs ==
  Spec => CutoffsKeepOrder
<1> DEFINE Kept1 == LET before == session.history_killers
                        after  == session'.history_killers
                    IN  /\ before.history # after.history =>
                             KeepsOrder(before.history, after.history)
                        /\ KillersDiffer(after.killers)
<1>1. Inv /\ Inv' /\ [Next]_vars => [Kept1]_session
  <2> SUFFICES ASSUME Inv, Inv', [Next]_vars
               PROVE  Kept1
    OBVIOUS
  <2>1. KillersDiffer(session'.history_killers.killers)
    BY DEF Inv
  <2> QED
    BY <2>1, CutoffStep
<1> QED
  BY <1>1, SearchInvariant, PTL DEF Spec, CutoffsKeepOrder

(***************************************************************************)
(* Lines.  What a node reports for its position can be played from there   *)
(* and begins with its best move.                                          *)
(***************************************************************************)
LineOK(q, r) ==
  /\ LineEnd(q, r.pv) # {}
  /\ r.best_move \in Moves[q] \cup {NoMove}
  /\ r.best_move # NoMove => r.pv # << >> /\ Head(r.pv) = r.best_move

\* In a new session no more moves can follow q than the search has plies left
\* for: surplus is the depth of the root search less the empties of its root.
Fresh == job # Idle /\ job.fresh
Surplus == job.depth - Empties[job.root]
LineFits(fresh, surplus, q, r) ==
  LineOK(q, r) /\ (fresh => Len(r.pv) <= surplus + Empties[q])
FrameLine(fresh, surplus, f) ==
  /\ LineFits(fresh, surplus, f.pos, f.best)
  /\ fresh => f.depth <= surplus + Empties[f.pos]
EntryLine(fresh, surplus, x) ==
  /\ x.best_move_index \in Moves[x.hash] \cup {NoMove}
  /\ x.best_move_index # NoMove => x.depth > 0
  /\ fresh => x.depth <= surplus + Empties[x.hash]

FrameLines == \A i \in 1 .. Len(stack) : FrameLine(Fresh, Surplus, stack[i])
RetLine ==
  ret # NoResult =>
    LineFits(Fresh, Surplus, IF stack = << >> THEN job.root ELSE ChildPos(Top), ret)
TableLines == \A x \in Stored(tt) : EntryLine(Fresh, Surplus, x)
SessionLine ==
  /\ session.generation = 0 \/ Fresh => session.root_hash = NoRoot
  /\ session.root_hash # NoRoot =>
       LineOK(session.root_hash, [best_move |-> session.best_move, pv |-> session.pv])
LineInv == FrameLines /\ RetLine /\ TableLines /\ SessionLine

LEMMA EmptiesOf ==
  /\ \A p \in Positions : Empties[p] \in Int
  /\ \A p \in Positions : \A m \in Moves[p] :
       m \in Squares /\ Play[p][m] \in Positions /\ Empties[Play[p][m]] = Empties[p] - 1
  /\ \A p \in Positions : Moves[p] = {} => Pass[p] \in Positions /\ Empties[Pass[p]] = Empties[p]
<1>1. ASSUME NEW p \in Positions
      PROVE  Empties[p] \in Int
  <2>1. Empties \in [Positions -> 0 .. 60]
    BY GameTypes
  <2>2. Empties[p] \in 0 .. 60
    BY <2>1
  <2> QED
    BY <2>2
<1>2. \A p \in Positions : Moves[p] \subseteq Squares
  BY GameTypes
<1> QED
  BY <1>1, <1>2, GameTypes, GameProgress

LEMMA NoLineFits ==
  ASSUME NEW q \in Positions, NEW fresh, NEW surplus \in Int, NEW r,
         r.pv = << >>, r.best_move = NoMove, fresh => 0 <= surplus + Empties[q]
  PROVE  LineFits(fresh, surplus, q, r)
<1>1. Len(<< >>) = 0 /\ LineEnd(q, << >>) = {q}
  BY LineEmpty, EmptySeq
<1> QED
  BY <1>1 DEF LineFits, LineOK

\* A move and a line from where it leads.
LEMMA MoveFits ==
  ASSUME NEW p \in Positions, NEW m \in Moves[p], NEW fresh, NEW surplus \in Int,
         NEW r, r.pv \in Seq(Squares), LineFits(fresh, surplus, Play[p][m], r), NEW score
  PROVE  LineFits(fresh, surplus, p,
                  [score |-> score, best_move |-> m, pv |-> <<m>> \o r.pv])
<1> DEFINE q == Play[p][m]
           new == [score |-> score, best_move |-> m, pv |-> <<m>> \o r.pv]
<1>1. /\ q \in Positions /\ m \in Squares /\ Follow(p, m) = {q}
      /\ Empties[q] = Empties[p] - 1 /\ Empties[p] \in Int
  BY EmptiesOf DEF Follow
<1>2. /\ new.best_move = m /\ new.pv = <<m>> \o r.pv
  OBVIOUS
<1> HIDE DEF q, new
<1>3. /\ LineEnd(p, new.pv) = LineEnd(q, r.pv) /\ new.pv # << >> /\ Head(new.pv) = m
      /\ Len(new.pv) = Len(r.pv) + 1 /\ Len(r.pv) \in Int
  BY <1>1, <1>2, LineCons, LenProperties
<1>4. LineFits(fresh, surplus, q, r)
  BY DEF q
<1>5. LineOK(p, new)
  BY <1>2, <1>3, <1>4 DEF LineFits, LineOK
<1>6. fresh => Len(new.pv) <= surplus + Empties[p]
  BY <1>1, <1>3, <1>4 DEF LineFits
<1>7. LineFits(fresh, surplus, p, new)
  BY <1>5, <1>6 DEF LineFits
<1> QED
  BY <1>7 DEF new

\* The line of a position reached by a pass is one of the position before.
LEMMA PassFits ==
  ASSUME NEW p \in Positions, Moves[p] = {}, ~Terminal(p), NEW fresh, NEW surplus \in Int,
         NEW r, r.pv \in Seq(Squares), LineFits(fresh, surplus, Pass[p], r), NEW score
  PROVE  LineFits(fresh, surplus, p, [score |-> score, best_move |-> NoMove, pv |-> r.pv])
<1> DEFINE new == [score |-> score, best_move |-> NoMove, pv |-> r.pv]
<1>1. Pass[p] \in Positions /\ Empties[Pass[p]] = Empties[p]
  BY EmptiesOf
<1>2. new.best_move = NoMove /\ new.pv = r.pv
  OBVIOUS
<1> HIDE DEF new
<1>3. LineEnd(p, r.pv) # {}
  <2>1. CASE r.pv = << >>
    BY <2>1, LineEmpty
  <2>2. CASE r.pv # << >>
    <3>1. LineEnd(p, r.pv) = LineEnd(Pass[p], r.pv)
      BY <2>2, LineThroughPass
    <3> QED
      BY <3>1 DEF LineFits, LineOK
  <2> QED
    BY <2>1, <2>2
<1>4. LineFits(fresh, surplus, p, new)
  BY <1>1, <1>2, <1>3 DEF LineFits, LineOK
<1> QED
  BY <1>4 DEF new

LEMMA SurplusFacts ==
  ASSUME TypeOK, job # Idle
  PROVE  /\ Surplus \in Int /\ job.root \in Positions /\ job.depth \in Nat
         /\ Surplus + Empties[job.root] = job.depth /\ (Fresh <=> job.fresh)
         /\ \A p \in Positions : Empties[p] \in Int
<1>1. job.root \in Positions /\ job.depth \in Nat
  BY JobTypes DEF TypeOK
<1>2. \A p \in Positions : Empties[p] \in Int
  BY EmptiesOf
<1>3. Empties[job.root] \in Int
  BY <1>1, <1>2
<1> QED
  BY <1>1, <1>2, <1>3 DEF Surplus, Fresh

(***************************************************************************)
(* The lines of a call, a loop step and a return.                          *)
(***************************************************************************)
SameLines ==
  /\ job' = job
  /\ session'.generation = session.generation /\ session'.root_hash = session.root_hash
  /\ session'.best_move = session.best_move /\ session'.pv = session.pv

LEMMA SameLinesFacts ==
  ASSUME SameLines, LineInv
  PROVE  /\ (Fresh' <=> Fresh) /\ Surplus' = Surplus /\ SessionLine'
         /\ tt' = tt => TableLines'
<1>1. Fresh' = Fresh /\ Surplus' = Surplus
  BY DEF SameLines, Fresh, Surplus
<1>2. SessionLine'
  BY <1>1 DEF SameLines, LineInv, SessionLine
<1>3. tt' = tt => TableLines'
  BY <1>1 DEF LineInv, TableLines
<1> QED
  BY <1>1, <1>2, <1>3

LEMMA CallLines ==
  ASSUME Inv, LineInv, Running, job' = job, NEW f \in MidFrames,
         FrameInv(Good, Calls, f), f.stage \in MidWaiting,
         FrameLine(Fresh, Surplus, f), Call(f)
  PROVE  LineInv'
<1> DEFINE n == Len(stack)
           g == MidFrame(ChildPos(f), f.depth - 1, ChildAlpha(f), ChildBeta(f), ChildLine(f))
<1>1. /\ job # Idle /\ TypeOK /\ Closed(session.evaluator, Good, Calls)
      /\ stack # << >> /\ stack \in Seq(MidFrames)
  BY TopFacts DEF TypeOK
<1>2. /\ ChildPos(f) \in Positions /\ f.depth - 1 \in Depths
      /\ ChildAlpha(f) \in Int /\ ChildBeta(f) \in Int /\ ChildLine(f) \in Seq(Squares)
      /\ ChildAlpha(f) < ChildBeta(f) /\ <<ChildPos(f), f.depth - 1>> \in Calls
  BY <1>1, ChildFrame
<1>3. /\ g \in MidFrames /\ g.pos = ChildPos(f) /\ g.depth = f.depth - 1
  <2>1. Begins(g, Good, Calls, ChildPos(f), f.depth - 1, ChildAlpha(f), ChildBeta(f))
    BY <1>2, NewFrameInv
  <2> HIDE DEF g
  <2> QED
    BY <2>1 DEF Begins
<1>4. g.best = NoCandidate
  BY DEF MidFrame
<1> HIDE DEF g
<1>5. Surplus \in Int /\ \A p \in Positions : Empties[p] \in Int
  BY <1>1, SurplusFacts
<1>6. Empties[f.pos] - 1 <= Empties[ChildPos(f)]
  <2>1. f.pos \in Positions
    BY FrameTypes
  <2>2. CASE f.stage = "pass"
    BY <1>5, <2>1, <2>2, EmptiesOf DEF FrameInv, ChildPos
  <2>3. CASE f.stage # "pass"
    <3>1. f.cur \in Moves[f.pos]
      BY <2>3 DEF FrameInv, CandidateStages
    <3>2. Empties[ChildPos(f)] = Empties[f.pos] - 1
      BY <2>1, <2>3, <3>1, EmptiesOf DEF ChildPos
    <3> QED
      BY <1>5, <2>1, <3>2
  <2> QED
    BY <2>2, <2>3
<1>7. FrameLine(Fresh, Surplus, g)
  <2>1. f.depth - 1 \in Nat /\ f.depth \in Int /\ f.pos \in Positions
    BY <1>2, FrameTypes, MidTableAssumption DEF Depths
  <2>2. Fresh => f.depth - 1 <= Surplus + Empties[ChildPos(f)]
    <3>1. Empties[f.pos] \in Int /\ Empties[ChildPos(f)] \in Int
      BY <1>2, <1>5, <2>1
    <3>2. Fresh => f.depth <= Surplus + Empties[f.pos]
      BY DEF FrameLine
    <3> QED
      BY <1>5, <1>6, <2>1, <3>1, <3>2
  <2>3. Fresh => 0 <= Surplus + Empties[ChildPos(f)]
    BY <1>2, <1>5, <2>1, <2>2
  <2>4. LineFits(Fresh, Surplus, ChildPos(f), NoCandidate)
    BY <1>2, <1>5, <2>3, NoLineFits DEF NoCandidate
  <2> QED
    BY <1>3, <1>4, <2>2, <2>4 DEF FrameLine
<1>8. /\ Len(stack') = n + 1 /\ stack'[n + 1] = g /\ stack'[n] = f
      /\ \A i \in 1 .. n - 1 : stack'[i] = stack[i]
  <2>1. stack' = Append(SetTop(f), g) /\ stack \in Seq(MidFrames) /\ g \in MidFrames
    BY <1>1, <1>3 DEF Call, g
  <2> QED
    BY <1>1, <2>1, PushFacts
<1>9. n \in Nat
  BY <1>1, EmptySeq
<1>10. SameLines /\ tt' = tt /\ ret' = NoResult
  BY DEF Call, SameLines
<1>11. /\ (Fresh' <=> Fresh) /\ Surplus' = Surplus /\ SessionLine' /\ TableLines'
  BY <1>10, SameLinesFacts
<1>12. \A i \in 1 .. n : FrameLine(Fresh, Surplus, stack[i])
  BY DEF LineInv, FrameLines
<1> HIDE DEF n
<1>13. \A i \in 1 .. n + 1 : FrameLine(Fresh, Surplus, stack'[i])
  <2> TAKE i \in 1 .. n + 1
  <2>1. \/ i \in 1 .. n - 1 /\ i \in 1 .. n
        \/ i = n \/ i = n + 1
    BY <1>9
  <2> QED
    BY <2>1, <1>7, <1>8, <1>12
<1>14. FrameLines'
  BY <1>8, <1>11, <1>13 DEF FrameLines, FrameLine, LineFits
<1>15. RetLine'
  BY <1>10 DEF RetLine
<1> QED
  BY <1>11, <1>14, <1>15 DEF LineInv

LEMMA ContinueLines ==
  ASSUME Inv, LineInv, Running, SameLines, NEW f \in MidFrames,
         FrameLine(Fresh, Surplus, f), stack' = SetTop(f), ret' = NoResult, tt' = tt
  PROVE  LineInv'
<1> DEFINE n == Len(stack)
<1>1. stack # << >> /\ stack \in Seq(MidFrames) /\ n \in Nat
  BY TopFacts, EmptySeq DEF TypeOK
<1>2. /\ Len(stack') = n /\ stack'[n] = f
      /\ \A i \in 1 .. n - 1 : stack'[i] = stack[i]
  BY <1>1, SetTopFacts
<1>3. /\ (Fresh' <=> Fresh) /\ Surplus' = Surplus /\ SessionLine' /\ TableLines'
  BY SameLinesFacts
<1>4. \A i \in 1 .. n : FrameLine(Fresh, Surplus, stack[i])
  BY DEF LineInv, FrameLines
<1> HIDE DEF n
<1>5. \A i \in 1 .. n : FrameLine(Fresh, Surplus, stack'[i])
  <2> TAKE i \in 1 .. n
  <2>1. i \in 1 .. n - 1 \/ i = n
    BY <1>1
  <2> QED
    BY <2>1, <1>2, <1>4
<1>6. FrameLines'
  BY <1>2, <1>3, <1>5 DEF FrameLines, FrameLine, LineFits
<1>7. RetLine'
  BY DEF RetLine
<1> QED
  BY <1>3, <1>6, <1>7 DEF LineInv

LEMMA ReturnLines ==
  ASSUME Inv, LineInv, Running, job' = job, NEW r \in NodeResults, Return(r),
         tt' \in {tt, StoreNode(Top, r)}, LineFits(Fresh, Surplus, Top.pos, r),
         r.best_move # NoMove => tt' = tt \/ Top.depth > 0
  PROVE  LineInv'
<1> DEFINE n == Len(stack)
           x == [occupied |-> TRUE, hash |-> Top.pos, scope |-> Scope,
                 generation |-> session.generation, depth |-> Top.depth, score |-> r.score,
                 best_move_index |-> r.best_move,
                 bound |-> BoundForScore(r.score, Top.original_alpha, Top.beta)]
<1>1. /\ job # Idle /\ TypeOK /\ StackInv /\ JobInv /\ Top \in MidFrames
      /\ stack # << >> /\ stack \in Seq(MidFrames) /\ n \in Nat \ {0} /\ Top = stack[n]
  BY TopFacts, EmptySeq DEF TypeOK, Top
<1>2. /\ Len(stack') = n - 1 /\ stack' \in Seq(MidFrames)
      /\ \A i \in 1 .. n - 1 : stack'[i] = stack[i]
  BY <1>1, PopFacts DEF Return
<1>3. SameLines /\ ret' = r /\ session' = session
  BY DEF Return, SameLines
<1>4. /\ (Fresh' <=> Fresh) /\ Surplus' = Surplus /\ SessionLine'
      /\ tt' = tt => TableLines'
  BY <1>3, SameLinesFacts
<1>5. \A i \in 1 .. n : FrameLine(Fresh, Surplus, stack[i])
  BY DEF LineInv, FrameLines
<1>6. \A i \in 1 .. n - 1 : CalledBy(stack[i + 1], stack[i])
  BY <1>1 DEF StackInv
<1> HIDE DEF n
<1>7. \A i \in 1 .. n - 1 : FrameLine(Fresh, Surplus, stack'[i])
  <2> TAKE i \in 1 .. n - 1
  <2>1. i \in 1 .. n
    BY <1>1
  <2> QED
    BY <2>1, <1>2, <1>5
<1>8. FrameLines'
  BY <1>2, <1>4, <1>7 DEF FrameLines, FrameLine, LineFits
<1>9. (IF stack' = << >> THEN job'.root ELSE ChildPos(Top')) = Top.pos
  <2>1. CASE n = 1
    <3>1. stack' = << >>
      BY <1>2, <2>1, EmptySeq
    <3>2. CallOfJob(job, Top)
      BY <1>1, <2>1 DEF StackInv
    <3> QED
      BY <3>1, <3>2 DEF CallOfJob
  <2>2. CASE n # 1
    <3>1. n - 1 \in 1 .. n - 1 /\ n - 1 + 1 = n
      BY <1>1, <2>2
    <3>2. stack' # << >> /\ Top' = stack[n - 1]
      BY <1>1, <1>2, <2>2, <3>1, EmptySeq DEF Top
    <3>3. CalledBy(Top, stack[n - 1])
      BY <1>1, <1>6, <3>1
    <3> QED
      BY <3>2, <3>3 DEF CalledBy
  <2> QED
    BY <2>1, <2>2
<1>10. RetLine'
  BY <1>3, <1>4, <1>9 DEF RetLine, LineFits
<1>11. CASE tt' = tt
  BY <1>4, <1>8, <1>10, <1>11 DEF LineInv
<1>12. CASE tt' # tt
  <2>1. tt' = StoreEntry(tt, session.bucket_count, x)
    BY <1>12 DEF StoreNode
  <2>2. /\ session.bucket_count \in Nat /\ tt \in MidTables(session.bucket_count)
        /\ session.evaluator \in Evaluators /\ Top.pos \in Positions /\ Top.depth \in Depths
        /\ Top.original_alpha \in Int /\ Top.beta \in Int /\ r.score \in Int
        /\ r.best_move \in Squares \cup {NoMove}
        /\ session.generation \in Generations /\ session.mode \in Modes
    BY <1>1, FrameTypes DEF TypeOK, SessionStates, NodeResults, JobInv
  <2>3. Scope \in Scopes
    BY <2>2, MidgameAssumption DEF Scope, Scopes
  <2>4. BoundForScore(r.score, Top.original_alpha, Top.beta) \in Bounds
    BY DEF BoundForScore, Bounds
  <2>5. x \in MidEntries /\ x.hash = Top.pos /\ x.depth = Top.depth
        /\ x.best_move_index = r.best_move
    BY <2>2, <2>3, <2>4 DEF MidEntries
  <2> HIDE DEF x
  <2>6. Stored(tt') \subseteq Stored(tt) \cup {x}
    BY <2>1, <2>2, <2>5, StoreFacts
  <2>7. FrameLine(Fresh, Surplus, Top)
    <3>1. n \in 1 .. n
      BY <1>1
    <3> QED
      BY <1>1, <1>5, <3>1
  <2>8. EntryLine(Fresh, Surplus, x)
    BY <1>12, <2>5, <2>7 DEF EntryLine, FrameLine, LineFits, LineOK
  <2>9. \A y \in Stored(tt') : EntryLine(Fresh, Surplus, y)
    BY <2>6, <2>8 DEF LineInv, TableLines
  <2>10. TableLines'
    BY <1>4, <2>9 DEF TableLines, EntryLine
  <2> QED
    BY <1>4, <1>8, <1>10, <2>10 DEF LineInv
<1> QED
  BY <1>11, <1>12

(***************************************************************************)
(* The lines of the steps of search_node.                                  *)
(***************************************************************************)
LEMMA TopLines ==
  ASSUME Inv, LineInv, Running
  PROVE  /\ FrameLine(Fresh, Surplus, Top) /\ LineFits(Fresh, Surplus, Top.pos, Top.best)
         /\ Surplus \in Int /\ Top.pos \in Positions /\ Top.depth \in Nat
         /\ Empties[Top.pos] \in Int
         /\ ret # NoResult => LineFits(Fresh, Surplus, ChildPos(Top), ret)
<1>1. job # Idle /\ TypeOK /\ stack # << >> /\ Top \in MidFrames
  BY TopFacts
<1>2. Len(stack) \in 1 .. Len(stack)
  BY <1>1, TopType DEF TypeOK
<1>3. FrameLine(Fresh, Surplus, Top)
  BY <1>2 DEF LineInv, FrameLines, Top
<1>4. ret # NoResult => LineFits(Fresh, Surplus, ChildPos(Top), ret)
  BY <1>1 DEF LineInv, RetLine
<1>5. Top.pos \in Positions /\ Top.depth \in Nat
  BY <1>1, FrameTypes
<1>6. Surplus \in Int
  BY <1>1, SurplusFacts
<1> QED
  BY <1>3, <1>4, <1>5, <1>6, EmptiesOf DEF FrameLine

LEMMA EnterLines ==
  ASSUME Inv, LineInv, UNCHANGED <<caller, job, answer, searches>>,
         Cutoff \/ LeafNode \/ GameOver \/ SearchPass \/ StartMoves
  PROVE  LineInv'
<1>1. Running /\ Top.stage = "enter"
  BY DEF Cutoff, LeafNode, GameOver, SearchPass, StartMoves, Missed, Entering
<1>2. /\ TypeOK /\ Top \in MidFrames /\ FrameInv(Good, Calls, Top)
      /\ session \in SessionStates /\ job' = job
  BY <1>1, TopFacts
<1>3. /\ FrameLine(Fresh, Surplus, Top) /\ LineFits(Fresh, Surplus, Top.pos, Top.best)
      /\ Surplus \in Int /\ Top.pos \in Positions /\ Top.depth \in Nat
      /\ Empties[Top.pos] \in Int
  BY <1>1, TopLines
<1>4. Fresh => 0 <= Surplus + Empties[Top.pos]
  BY <1>3 DEF FrameLine
<1>5. /\ Evaluated(Top) \in NodeResults /\ Evaluated(Top).best_move = NoMove
      /\ LineFits(Fresh, Surplus, Top.pos, Evaluated(Top))
  <2>1. Evaluate[session.evaluator][Top.pos] \in Int
    BY <1>2, <1>3, MidgameAssumption DEF SessionStates
  <2>2. Evaluated(Top) \in NodeResults /\ Evaluated(Top).best_move = NoMove
        /\ Evaluated(Top).pv = << >>
    BY <2>1, EmptySeq DEF Evaluated, NodeResults
  <2> QED
    BY <1>3, <1>4, <2>2, NoLineFits
<1>6. CASE Cutoff
  <2>1. PICK x \in NodeAnswers(Top) : Return(EntryResult(x)) /\ tt' = tt
    BY <1>6 DEF Cutoff
  <2>2. x \in Found(tt, session.bucket_count, Top.pos, Scope)
    BY DEF NodeAnswers, Probed
  <2>3. session.bucket_count \in Nat /\ tt \in MidTables(session.bucket_count)
    BY <1>2 DEF TypeOK, SessionStates
  <2>4. x \in Stored(tt) /\ x.hash = Top.pos
    BY <1>3, <2>2, <2>3, FoundFacts
  <2>5. x.score \in Int /\ x.depth \in Nat /\ x.best_move_index \in Squares \cup {NoMove}
    <3>1. x \in MidEntries
      BY <2>4 DEF Stored
    <3>2. x.depth \in Depths /\ x.score \in Int /\ x.best_move_index \in Squares \cup {NoMove}
      BY <3>1 DEF MidEntries
    <3> QED
      BY <3>2, MidTableAssumption DEF Depths
  <2>6. /\ x.best_move_index \in Moves[Top.pos] \cup {NoMove}
        /\ x.best_move_index # NoMove => x.depth > 0
        /\ Fresh => x.depth <= Surplus + Empties[Top.pos]
    BY <2>4 DEF LineInv, TableLines, EntryLine
  <2> DEFINE r == EntryResult(x)
  <2>7. /\ r \in NodeResults /\ LineFits(Fresh, Surplus, Top.pos, r)
    <3>1. CASE x.best_move_index = NoMove
      <4>1. r \in NodeResults /\ r.pv = << >> /\ r.best_move = NoMove
        BY <2>5, <3>1, EmptySeq DEF EntryResult, NodeResults
      <4> HIDE DEF r
      <4> QED
        BY <1>3, <1>4, <4>1, NoLineFits
    <3>2. CASE x.best_move_index # NoMove
      <4> DEFINE m == x.best_move_index
      <4>1. m \in Moves[Top.pos] /\ m \in Squares /\ x.depth > 0
        BY <2>5, <2>6, <3>2
      <4>2. /\ r = [score |-> x.score, best_move |-> m, pv |-> <<m>>]
        BY <3>2 DEF EntryResult
      <4>3. <<m>> = <<m>> \o << >> /\ << >> \in Seq(Squares) /\ <<m>> \in Seq(Squares)
        BY <4>1
      <4> DEFINE none == [score |-> 0, best_move |-> NoMove, pv |-> << >>]
      <4> HIDE DEF m, r
      <4>4. Play[Top.pos][m] \in Positions /\ Empties[Play[Top.pos][m]] = Empties[Top.pos] - 1
        BY <1>3, <4>1, EmptiesOf
      <4>5. Fresh => 0 <= Surplus + Empties[Play[Top.pos][m]]
        BY <1>3, <2>5, <2>6, <4>1, <4>4
      <4>6. none.pv = << >> /\ none.best_move = NoMove
        OBVIOUS
      <4> HIDE DEF none
      <4>7. LineFits(Fresh, Surplus, Play[Top.pos][m], none)
        BY <1>3, <4>4, <4>5, <4>6, NoLineFits
      <4>8. LineFits(Fresh, Surplus, Top.pos,
                     [score |-> x.score, best_move |-> m, pv |-> <<m>> \o none.pv])
        BY <1>3, <4>1, <4>3, <4>6, <4>7, MoveFits
      <4>9. r \in NodeResults
        BY <2>5, <4>1, <4>2, <4>3 DEF NodeResults
      <4> QED
        BY <4>2, <4>3, <4>6, <4>8, <4>9
    <3> QED
      BY <3>1, <3>2
  <2> HIDE DEF r
  <2> QED
    BY <1>1, <1>2, <2>1, <2>7, ReturnLines DEF r
<1>7. CASE LeafNode
  <2>1. Return(Evaluated(Top)) /\ tt' \in {tt, StoreNode(Top, Evaluated(Top))}
    BY <1>7 DEF LeafNode
  <2> QED
    BY <1>1, <1>2, <1>5, <2>1, ReturnLines
<1>8. CASE GameOver
  <2>1. Return(Evaluated(Top)) /\ tt' \in {tt, StoreNode(Top, Evaluated(Top))}
    BY <1>8 DEF GameOver, StoreAndReturn
  <2> QED
    BY <1>1, <1>2, <1>5, <2>1, ReturnLines
<1>9. CASE SearchPass
  <2> DEFINE f == [Top EXCEPT !.stage = "pass"]
  <2>1. /\ f.stage = "pass" /\ f.pos = Top.pos /\ f.depth = Top.depth /\ f.alpha = Top.alpha
        /\ f.beta = Top.beta /\ f.original_alpha = Top.original_alpha
        /\ f.todo = Top.todo /\ f.best = Top.best
        /\ f \in MidFrames
    BY <1>2 DEF MidFrames, MidWaiting
  <2>2. Moves[Top.pos] = {} /\ ~Terminal(Top.pos) /\ Top.depth > 0 /\ Call(f)
    BY <1>9 DEF SearchPass
  <2> HIDE DEF f
  <2>3. FrameInv(Good, Calls, f)
    BY <1>1, <1>2, <2>1, <2>2 DEF FrameInv, CandidateStages, MidWaiting
  <2>4. f.stage \in MidWaiting /\ FrameLine(Fresh, Surplus, f)
    BY <1>3, <2>1 DEF MidWaiting, FrameLine
  <2> QED
    BY <1>1, <1>2, <2>1, <2>2, <2>3, <2>4, CallLines
<1>10. CASE StartMoves
  <2> DEFINE f == Scored([Top EXCEPT !.hint = HintOf(Top), !.todo = Moves[Top.pos],
                                     !.stage = "loop"])
  <2>1. stack' = SetTop(f) /\ ret' = NoResult /\ tt' = tt /\ session' = session
    BY <1>10 DEF StartMoves, Continue
  <2>2. f.pos = Top.pos /\ f.depth = Top.depth /\ f.best = Top.best
    BY <1>2 DEF Scored, MidFrames
  <2>3. f \in MidFrames
    <3>1. SetTop(f) = stack' /\ Inv'
      BY <1>10, <2>1, EnterKeepsInv
    <3>2. stack' \in Seq(MidFrames) /\ Len(stack') \in Nat
      BY <3>1 DEF Inv, TypeOK
    <3> DEFINE n == Len(stack)
    <3>3. n \in 1 .. n /\ n \in 1 .. Len(stack') /\ stack'[n] = f
      <4>1. stack # << >> /\ stack \in Seq(MidFrames)
        BY <1>1, TopFacts DEF TypeOK
      <4>2. n \in Nat \ {0} /\ DOMAIN stack = 1 .. n
        BY <4>1, EmptySeq, LenProperties
      <4> HIDE DEF f
      <4>3. stack' = [stack EXCEPT ![n] = f]
        BY <2>1 DEF SetTop
      <4>4. DOMAIN stack' = 1 .. n /\ stack'[n] = f
        BY <4>2, <4>3
      <4>5. DOMAIN stack' = 1 .. Len(stack')
        BY <3>2, LenProperties
      <4> QED
        BY <4>2, <4>4, <4>5
    <3> QED
      BY <3>2, <3>3, ElementOfSeq
  <2> HIDE DEF f
  <2>4. FrameLine(Fresh, Surplus, f) /\ SameLines
    BY <1>2, <1>3, <2>1, <2>2 DEF FrameLine, SameLines
  <2> QED
    BY <1>1, <2>1, <2>3, <2>4, ContinueLines
<1> QED
  BY <1>6, <1>7, <1>8, <1>9, <1>10

LEMMA LoopLines ==
  ASSUME Inv, LineInv, UNCHANGED <<caller, job, answer, searches>>,
         SearchFull \/ SearchScout \/ FinishNode
  PROVE  LineInv'
<1>1. Running /\ Top.stage = "loop" /\ job' = job
  BY DEF SearchFull, SearchScout, FinishNode, MoreMoves, InLoop
<1>2. /\ FrameLine(Fresh, Surplus, Top) /\ LineFits(Fresh, Surplus, Top.pos, Top.best)
  BY <1>1, TopLines
<1>3. Top \in MidFrames /\ FrameInv(Good, Calls, Top)
  BY <1>1, TopFacts
<1>4. ASSUME MoreMoves, NEW m \in Top.todo, NEW stage \in CandidateStages, Call(Pick(m, stage))
      PROVE  LineInv'
  <2> DEFINE f == Pick(m, stage)
  <2>1. f \in MidFrames /\ FrameInv(Good, Calls, f) /\ f.stage \in MidWaiting
    BY <1>4, PickInv
  <2>2. f.pos = Top.pos /\ f.depth = Top.depth /\ f.best = Top.best
    BY <1>3 DEF Pick, MidFrames
  <2>3. Call(f)
    BY <1>4
  <2> HIDE DEF f
  <2>4. FrameLine(Fresh, Surplus, f)
    BY <1>2, <2>2 DEF FrameLine
  <2> QED
    BY <1>1, <2>1, <2>3, <2>4, CallLines
<1>5. "full" \in CandidateStages /\ "scout" \in CandidateStages
  BY DEF CandidateStages, MidWaiting
<1>6. CASE SearchFull
  <2>1. MoreMoves /\ \E m \in Top.todo : Call(Pick(m, "full"))
    BY <1>6 DEF SearchFull
  <2> QED
    BY <1>4, <1>5, <2>1
<1>7. CASE SearchScout
  <2>1. MoreMoves /\ \E m \in Top.todo : Call(Pick(m, "scout"))
    BY <1>7 DEF SearchScout
  <2> QED
    BY <1>4, <1>5, <2>1
<1>8. CASE FinishNode
  <2>1. Return(Top.best) /\ tt' \in {tt, StoreNode(Top, Top.best)}
    BY <1>8 DEF FinishNode, StoreAndReturn
  <2>2. Top.best \in NodeResults /\ Top.depth > 0
    BY <1>1, <1>3, FrameTypes DEF FrameInv
  <2> QED
    BY <1>1, <1>2, <2>1, <2>2, ReturnLines
<1> QED
  BY <1>6, <1>7, <1>8

LEMMA ResumeLines ==
  ASSUME Inv, LineInv, UNCHANGED <<caller, job, answer, searches>>,
         ResumePass \/ ResumeScoutInside \/ ResumeScoutOutside \/ ResumeFull
  PROVE  LineInv'
<1>1. Running /\ ret # NoResult /\ Top.stage \in MidWaiting /\ job' = job
  BY DEF ResumePass, ResumeScoutInside, ResumeScoutOutside, ResumeFull, Resumed, MidWaiting
<1>2. /\ FrameLine(Fresh, Surplus, Top) /\ LineFits(Fresh, Surplus, Top.pos, Top.best)
      /\ LineFits(Fresh, Surplus, ChildPos(Top), ret) /\ Surplus \in Int
      /\ Top.pos \in Positions
  BY <1>1, TopLines
<1>3. /\ TypeOK /\ StackInv /\ Top \in MidFrames /\ FrameInv(Good, Calls, Top)
      /\ session \in SessionStates /\ Closed(session.evaluator, Good, Calls)
      /\ stack # << >>
  BY <1>1, TopFacts
<1>4. ret \in NodeResults /\ ret.score \in Int /\ ret.pv \in Seq(Squares)
  BY <1>1, <1>3 DEF TypeOK, NodeResults
<1>5. CASE ResumePass
  <2> DEFINE r == [score |-> -ret.score, best_move |-> NoMove, pv |-> ret.pv]
  <2>1. Top.stage = "pass" /\ Return(r) /\ tt' \in {tt, StoreNode(Top, r)}
    BY <1>5 DEF ResumePass, Resumed, StoreAndReturn
  <2>2. Moves[Top.pos] = {} /\ ~Terminal(Top.pos) /\ ChildPos(Top) = Pass[Top.pos]
    BY <1>3, <2>1 DEF FrameInv, ChildPos
  <2>3. r \in NodeResults /\ r.best_move = NoMove
    BY <1>4 DEF NodeResults
  <2>4. LineFits(Fresh, Surplus, Top.pos, r)
    BY <1>2, <1>4, <2>2, PassFits
  <2> HIDE DEF r
  <2> QED
    BY <1>1, <2>1, <2>3, <2>4, ReturnLines
<1>6. CASE ResumeScoutInside
  <2> DEFINE f == [Top EXCEPT !.stage = "research"]
  <2>1. Call(f) /\ Top.stage = "scout"
    BY <1>6 DEF ResumeScoutInside, Resumed
  <2>2. /\ f.stage = "research" /\ f.todo = Top.todo /\ f.cur = Top.cur
        /\ f.pos = Top.pos /\ f.depth = Top.depth /\ f.alpha = Top.alpha
        /\ f.beta = Top.beta /\ f.original_alpha = Top.original_alpha
        /\ f.best = Top.best /\ f \in MidFrames
    BY <1>3 DEF MidFrames, MidWaiting
  <2> HIDE DEF f
  <2>3. FrameInv(Good, Calls, f)
    <3>1. Searched(f) = Searched(Top)
      BY <2>1, <2>2 DEF Searched
    <3>2. \A q : ChildValues(Good, f, q) = ChildValues(Good, Top, q)
      BY <2>2 DEF ChildValues
    <3>3. LoopInv(Good, Top) => LoopInv(Good, f)
      BY <2>2, <3>1, <3>2 DEF LoopInv
    <3> QED
      BY <1>3, <2>1, <2>2, <3>3 DEF FrameInv, CandidateStages, MidWaiting
  <2>4. f.stage \in MidWaiting /\ FrameLine(Fresh, Surplus, f)
    BY <1>2, <2>2 DEF MidWaiting, FrameLine
  <2> QED
    BY <1>1, <2>1, <2>2, <2>3, <2>4, CallLines
<1>7. CASE ResumeScoutOutside \/ ResumeFull
  <2> DEFINE g == AfterCandidate(Top)
             new == [score |-> -ret.score, best_move |-> Top.cur, pv |-> <<Top.cur>> \o ret.pv]
  <2>1. /\ TryNext(g)
        /\ \/ Top.stage \in {"full", "research"}
           \/ Top.stage = "scout" /\ ~Inside(Top)
    BY <1>7 DEF ResumeScoutOutside, ResumeFull, Resumed
  <2>2. Kept(Good, ret.score, ChildPos(Top), Top.depth - 1, ChildAlpha(Top), ChildBeta(Top))
    BY <1>1, <1>3 DEF StackInv
  <2>3. g \in MidFrames /\ SameCall(g, Top)
    BY <1>3, <1>4, <2>1, <2>2, AfterCandidateInv
  <2>4. g.best \in {new, Top.best}
    BY <1>3 DEF AfterCandidate, Scored, MidFrames
  <2>5. LineFits(Fresh, Surplus, Top.pos, new)
    <3>1. Top.cur \in Moves[Top.pos] /\ ChildPos(Top) = Play[Top.pos][Top.cur]
      BY <1>3, <2>1 DEF FrameInv, ChildPos, CandidateStages, MidWaiting
    <3> QED
      BY <1>2, <1>4, <3>1, MoveFits
  <2> HIDE DEF g, new
  <2>6. FrameLine(Fresh, Surplus, g)
    BY <1>2, <2>3, <2>4, <2>5 DEF FrameLine, SameCall
  <2>7. stack' = SetTop(g) /\ ret' = NoResult /\ tt' = tt
    BY <2>1 DEF TryNext
  <2>8. SameLines
    <3> DEFINE after == RecordCutoff(session.history_killers, Top.cur, g.depth)
    <3>1. session' = session \/ session' = [session EXCEPT !.history_killers = after]
      BY <2>1 DEF TryNext
    <3> HIDE DEF after
    <3> QED
      BY <1>1, <1>3, <3>1 DEF SameLines, SessionStates
  <2> QED
    BY <1>1, <2>3, <2>6, <2>7, <2>8, ContinueLines
<1> QED
  BY <1>5, <1>6, <1>7

LEMMA SearchNodeLines ==
  ASSUME Inv, LineInv, SearchNode
  PROVE  LineInv'
BY EnterLines, LoopLines, ResumeLines DEF SearchNode, NodeStep

(***************************************************************************)
(* The lines of the root searches, of the session and of the answers.      *)
(***************************************************************************)
LEMMA RootLines ==
  ASSUME Inv, LineInv, ReSearchWider \/ ReSearchFull \/ NextDepth
  PROVE  LineInv'
<1>1. /\ TypeOK /\ job # Idle /\ RootReturned
  BY NextRoot DEF Inv, RootReturned
<1>2. PICK j : RootCall(j)
  BY NextRoot
<1> DEFINE f == RootFrame(j.root, j.depth, j.alpha, j.beta, j.line, j.move)
<1>3. /\ j \in Jobs /\ job' = j /\ ret' = NoResult /\ tt' = tt /\ session' = session
      /\ stack' = <<f>> /\ j.root = job.root /\ j.fresh = job.fresh /\ j.depth >= job.depth
  BY <1>2 DEF RootCall, SearchRoot
<1>4. f.pos = j.root /\ f.depth = j.depth /\ f.best = NoCandidate
  BY DEF RootFrame, MidFrame
<1> HIDE DEF f
<1>5. /\ Surplus \in Int /\ job.root \in Positions /\ job.depth \in Nat
      /\ Surplus + Empties[job.root] = job.depth /\ (Fresh <=> job.fresh)
      /\ \A p \in Positions : Empties[p] \in Int
  BY <1>1, SurplusFacts
<1>6. j.depth \in Nat /\ j # Idle
  BY <1>3, JobTypes
<1> DEFINE S == j.depth - Empties[j.root]
<1>7. (Fresh' <=> Fresh) /\ Surplus' = S
  BY <1>1, <1>3, <1>6 DEF Fresh, Surplus
<1>8. S \in Int /\ S >= Surplus /\ S + Empties[j.root] = j.depth
  <2>1. Empties[job.root] \in Int
    BY <1>5
  <2> QED
    BY <1>3, <1>5, <1>6, <2>1 DEF Surplus
<1> HIDE DEF S
<1>9. FrameLine(Fresh, S, f)
  <2>1. LineFits(Fresh, S, j.root, NoCandidate)
    BY <1>3, <1>5, <1>6, <1>8, NoLineFits DEF NoCandidate
  <2>2. f.depth <= S + Empties[f.pos]
    BY <1>4, <1>6, <1>8
  <2> QED
    BY <1>4, <2>1, <2>2 DEF FrameLine
<1>10. FrameLines'
  <2>1. Len(stack') = 1 /\ stack'[1] = f
    BY <1>3
  <2>2. \A i \in 1 .. Len(stack') : FrameLine(Fresh, S, stack'[i])
    BY <1>9, <2>1
  <2> QED
    BY <1>7, <2>2 DEF FrameLines, FrameLine, LineFits
<1>11. TableLines'
  <2>1. ASSUME NEW x \in Stored(tt)
        PROVE  EntryLine(Fresh, S, x)
    <3>1. EntryLine(Fresh, Surplus, x)
      BY DEF LineInv, TableLines
    <3>2. x \in MidEntries
      BY DEF Stored
    <3>3. x.hash \in Positions /\ x.depth \in Depths
      BY <3>2 DEF MidEntries
    <3>4. Empties[x.hash] \in Int /\ x.depth \in Int
      BY <1>5, <3>3, MidTableAssumption DEF Depths
    <3>5. Fresh => x.depth <= Surplus + Empties[x.hash]
      BY <3>1 DEF EntryLine
    <3>6. Fresh => x.depth <= S + Empties[x.hash]
      BY <1>5, <1>8, <3>4, <3>5
    <3> QED
      BY <3>1, <3>6 DEF EntryLine
  <2>2. \A x \in Stored(tt') : EntryLine(Fresh, S, x)
    BY <1>3, <2>1
  <2> QED
    BY <1>7, <2>2 DEF TableLines, EntryLine
<1>12. SessionLine'
  BY <1>3, <1>7 DEF LineInv, SessionLine
<1>13. RetLine'
  BY <1>3 DEF RetLine
<1> QED
  BY <1>10, <1>11, <1>12, <1>13 DEF LineInv

LEMMA BeginLines ==
  ASSUME TypeOK, NEW r \in Requests, NEW count \in Counts(r), BeginTable(r, count)
  PROVE  LET s == Begun(r, count) IN
         /\ Stored(tt') \subseteq Stored(tt)
         /\ s.root_hash = session.root_hash /\ s.best_move = session.best_move
         /\ s.pv = session.pv
<1>1. session \in SessionStates /\ session.bucket_count \in Nat
  BY DEF TypeOK, SessionStates
<1>2. /\ Begun(r, count).root_hash = session.root_hash
      /\ Begun(r, count).best_move = session.best_move
      /\ Begun(r, count).pv = session.pv
  BY <1>1 DEF Begun, SessionStates
<1>3. Stored(tt') \subseteq Stored(tt)
  <2>1. CASE r.entries = session.entries
    BY <2>1 DEF BeginTable, TableAfter
  <2>2. CASE r.entries # session.entries
    <3>1. tt' = NewTable(count)
      BY <2>2 DEF BeginTable, TableAfter
    <3>2. count \in Nat
      BY <1>1, RequestFacts DEF Counts
    <3> QED
      BY <3>1, <3>2, NewTableFacts
  <2> QED
    BY <2>1, <2>2
<1> QED
  BY <1>2, <1>3

\* A table that lost entries, of a session that is not new.
LEMMA OldTableLines ==
  ASSUME LineInv, Stored(tt') \subseteq Stored(tt), ~Fresh'
  PROVE  TableLines'
<1>1. \A x \in Stored(tt') : EntryLine(FALSE, Surplus', x)
  BY DEF LineInv, TableLines, EntryLine
<1> QED
  BY <1>1 DEF TableLines, EntryLine

LEMMA BeginKeepsLines ==
  ASSUME Inv, LineInv, Begin
  PROVE  LineInv'
<1>1. /\ TypeOK /\ TableInv /\ job = Idle /\ ret' = NoResult /\ session \in SessionStates
  BY DEF Inv, ControlInv, TypeOK, Begin
<1> DEFINE Depth(q) == IF q.mode = "FixedDepth" \/ SearchDepth(q) = 0 THEN SearchDepth(q) ELSE 1
           Line(q) == IF q.mode = "Iterative" /\ SearchDepth(q) = 0 THEN << >> ELSE session.pv
           JobOf(q) == [root |-> q.root, request |-> q, depth |-> Depth(q),
                        fresh |-> session.generation = 0,
                        alpha |-> SearchScoreMin, beta |-> SearchScoreMax,
                        aspirated |-> FALSE, window |-> 0, researches |-> 0,
                        move |-> session.best_move, line |-> Line(q), scores |-> << >>]
           FrameOf(q) == RootFrame(q.root, Depth(q), SearchScoreMin, SearchScoreMax, Line(q),
                                   session.best_move)
<1>2. PICK r \in RequestsOf[caller] : \E count \in Counts(r) :
        /\ BeginTable(r, count) /\ session' = Begun(r, count) /\ job' = JobOf(r)
        /\ stack' = <<FrameOf(r)>>
  BY DEF Begin
<1>3. PICK count \in Counts(r) :
        /\ BeginTable(r, count) /\ session' = Begun(r, count) /\ job' = JobOf(r)
        /\ stack' = <<FrameOf(r)>>
  BY <1>2
<1>4. r \in Requests
  BY <1>1, CallerRequests
<1>5. r.root \in Positions /\ Depth(r) \in Nat
  BY <1>4, RequestFacts
<1> DEFINE f == FrameOf(r)
           d == Depth(r)
<1>6. f.pos = r.root /\ f.depth = d /\ f.best = NoCandidate
  BY DEF RootFrame, MidFrame
<1>7. job'.root = r.root /\ job'.depth = d /\ job'.fresh = (session.generation = 0)
  BY <1>3
<1> HIDE DEF f, d, JobOf
<1>8. stack' = <<f>> /\ d \in Nat
  BY <1>3, <1>5 DEF f, d
<1>9. job' # Idle
  BY <1>5, <1>7, SessionAssumption DEF Idle
<1>10. Fresh' <=> session.generation = 0
  BY <1>7, <1>9 DEF Fresh
<1> DEFINE S == d - Empties[r.root]
<1>11. Surplus' = S /\ S \in Int /\ S + Empties[r.root] = d
  <2>1. Empties[r.root] \in Int
    BY <1>5, EmptiesOf
  <2> QED
    BY <1>7, <1>8, <2>1 DEF Surplus
<1> HIDE DEF S
<1>12. FrameLine(Fresh', S, f)
  <2>1. LineFits(Fresh', S, r.root, NoCandidate)
    BY <1>5, <1>8, <1>11, NoLineFits DEF NoCandidate
  <2>2. f.depth <= S + Empties[f.pos]
    BY <1>6, <1>8, <1>11
  <2> QED
    BY <1>6, <2>1, <2>2 DEF FrameLine
<1>13. FrameLines'
  <2>1. Len(stack') = 1 /\ stack'[1] = f
    BY <1>8
  <2>2. \A i \in 1 .. Len(stack') : FrameLine(Fresh', S, stack'[i])
    BY <1>12, <2>1
  <2> QED
    BY <1>11, <2>2 DEF FrameLines
<1>14. RetLine'
  BY <1>1 DEF RetLine
<1>15. TableLines'
  <2>1. CASE session.generation = 0
    <3>1. Stored(tt') = {}
      BY <1>1, <1>3, <1>4, <2>1, BeginFacts
    <3> QED
      BY <3>1 DEF TableLines
  <2>2. CASE session.generation # 0
    <3>1. Stored(tt') \subseteq Stored(tt)
      BY <1>1, <1>3, <1>4, BeginLines
    <3> QED
      BY <1>10, <2>2, <3>1, OldTableLines
  <2> QED
    BY <2>1, <2>2
<1>16. SessionLine'
  <2>1. session'.generation # 0
    BY <1>1, <1>3, <1>4, BeginFacts
  <2>2. session'.root_hash = session.root_hash /\ session'.best_move = session.best_move
        /\ session'.pv = session.pv
    BY <1>1, <1>3, <1>4, BeginLines
  <2> QED
    BY <1>10, <2>1, <2>2 DEF LineInv, SessionLine
<1> QED
  BY <1>13, <1>14, <1>15, <1>16 DEF LineInv

\* The line of the exact solver begins with its best move.
LEMMA ExactLineFits ==
  ASSUME NEW p \in Positions, NEW result \in ExactResults(p)
  PROVE  LineOK(p, result)
<1>1. result.best_move \in LowestOptimal(p) /\ result.pv \in ExactLines[p]
  BY DEF ExactResults
<1>2. /\ LineEnd(p, result.pv) # {}
      /\ Moves[p] # {} => result.pv # << >> /\ Head(result.pv) \in LowestOptimal(p)
  BY <1>1, ExactLinesLegal
<1>3. CASE Moves[p] = {}
  BY <1>1, <1>2, <1>3 DEF LowestOptimal, LineOK
<1>4. CASE Moves[p] # {}
  <2>1. Optimal(p) \subseteq Moves[p] /\ Moves[p] \subseteq Squares
    BY GameTypes DEF Optimal
  <2>2. Optimal(p) \subseteq Int
    BY <2>1 DEF Squares
  <2>3. \A m, n \in LowestOptimal(p) : m \in Optimal(p) /\ m <= n
    BY <1>4 DEF LowestOptimal
  <2>4. \A m, n \in LowestOptimal(p) : m = n
    <3> TAKE m, n \in LowestOptimal(p)
    <3>1. m \in Int /\ n \in Int /\ m <= n /\ n <= m
      BY <2>2, <2>3
    <3> QED
      BY <3>1
  <2>5. result.best_move \in Moves[p] /\ Head(result.pv) = result.best_move
    BY <1>1, <1>2, <1>4, <2>1, <2>3, <2>4
  <2> QED
    BY <1>2, <1>4, <2>5 DEF LineOK
<1> QED
  BY <1>3, <1>4

\* What SolveExactRoot does, with its choices named.
Solves(r, count, result) ==
  /\ r \in Requests /\ count \in Counts(r) /\ result \in ExactResults(r.root)
  /\ BeginTable(r, count)
  /\ session' = Finished([Begun(r, count) EXCEPT !.mode = "ExactEndgame"], r.root, result)
  /\ answer' = Answered(r, result, TRUE, session.generation = 0, count)

LEMMA SolveChoices ==
  ASSUME Inv, SolveExactRoot
  PROVE  \E r, count, result : Solves(r, count, result)
<1>1. TypeOK
  BY DEF Inv
<1>2. PICK r \in RequestsOf[caller] : \E count \in Counts(r), result \in ExactResults(r.root) :
        /\ BeginTable(r, count)
        /\ session' = Finished([Begun(r, count) EXCEPT !.mode = "ExactEndgame"], r.root, result)
        /\ answer' = Answered(r, result, TRUE, session.generation = 0, count)
  BY DEF SolveExactRoot
<1>3. r \in Requests
  BY <1>1, CallerRequests
<1> QED
  BY <1>2, <1>3 DEF Solves

LEMMA SolveLines ==
  ASSUME Inv, LineInv, SolveExactRoot
  PROVE  LineInv'
<1>1. /\ TypeOK /\ TableInv /\ job = Idle /\ job' = job /\ stack = << >> /\ ret = NoResult
      /\ stack' = stack /\ ret' = ret
  BY DEF Inv, ControlInv, SolveExactRoot
<1>2. PICK r, count, result : Solves(r, count, result)
  BY SolveChoices
<1>3. /\ r \in Requests /\ count \in Counts(r) /\ result \in ExactResults(r.root)
      /\ BeginTable(r, count)
  BY <1>2 DEF Solves
<1> DEFINE s == Begun(r, count)
           u == [s EXCEPT !.mode = "ExactEndgame"]
<1>4. s \in SessionStates /\ s.generation # 0 /\ Stored(tt') \subseteq Stored(tt)
  BY <1>1, <1>3, BeginFacts, BeginLines
<1>5. session' = [u EXCEPT !.root_hash = r.root, !.best_move = result.best_move,
                           !.score = result.score, !.pv = result.pv]
  BY <1>2 DEF Solves, Finished
<1> HIDE DEF s
<1>6. /\ u \in SessionStates /\ u.generation # 0
  BY <1>4 DEF SessionStates, Modes
<1> HIDE DEF u
<1>7. /\ session'.generation # 0 /\ session'.root_hash = r.root
      /\ session'.best_move = result.best_move /\ session'.pv = result.pv
  BY <1>5, <1>6 DEF SessionStates
<1>8. r.root \in Positions
  BY <1>3, RequestFacts
<1>9. LineOK(r.root, result)
  BY <1>3, <1>8, ExactLineFits
<1>10. ~Fresh'
  BY <1>1 DEF Fresh
<1>11. TableLines'
  BY <1>4, <1>10, OldTableLines
<1>12. SessionLine'
  BY <1>7, <1>9, <1>10 DEF SessionLine, LineOK
<1>13. FrameLines' /\ RetLine'
  BY <1>1, EmptySeq DEF FrameLines, RetLine
<1> QED
  BY <1>11, <1>12, <1>13 DEF LineInv

LEMMA ResetLines ==
  ASSUME Inv, LineInv, Reset
  PROVE  LineInv'
<1>1. /\ job = Idle /\ job' = job /\ stack = << >> /\ ret = NoResult
      /\ stack' = stack /\ ret' = ret
      /\ session' = ResetSession(session.evaluator, session.options) /\ tt' = NewTable(0)
  BY DEF Inv, ControlInv, Reset
<1>2. Stored(tt') = {}
  BY <1>1, NewTableFacts
<1>3. session'.root_hash = NoRoot
  BY <1>1 DEF ResetSession
<1>4. FrameLines' /\ RetLine'
  BY <1>1, EmptySeq DEF FrameLines, RetLine
<1> QED
  BY <1>2, <1>3, <1>4 DEF LineInv, TableLines, SessionLine

\* What the last root search found, and what is reported for it.
LEMMA ReportedLine ==
  ASSUME Inv, LineInv, RootReturned
  PROVE  /\ LineOK(job.root, RootResult)
         /\ job.fresh => Len(RootResult.pv) <= job.depth
<1>1. TypeOK /\ StackInv /\ job # Idle /\ stack = << >> /\ ret # NoResult
  BY DEF Inv, ControlInv, RootReturned, StackInv
<1>2. /\ Surplus + Empties[job.root] = job.depth /\ (Fresh <=> job.fresh)
      /\ job.root \in Positions
  BY <1>1, SurplusFacts
<1>3. LineFits(Fresh, Surplus, job.root, ret)
  BY <1>1 DEF LineInv, RetLine
<1>4. CASE RootResult = ret
  BY <1>2, <1>3, <1>4 DEF LineFits
<1>5. CASE RootResult # ret
  <2>1. /\ session.root_hash = job.root /\ session.best_move = ret.best_move
        /\ RootResult = [ret EXCEPT !.pv = session.pv]
    BY <1>5 DEF RootResult
  <2>2. session.root_hash # NoRoot
    BY <1>2, <2>1, SessionAssumption
  <2>3. LineOK(job.root, [best_move |-> session.best_move, pv |-> session.pv]) /\ ~Fresh
    BY <2>1, <2>2 DEF LineInv, SessionLine
  <2>4. ret \in NodeResults
    BY <1>1 DEF TypeOK
  <2>5. RootResult.best_move = session.best_move /\ RootResult.pv = session.pv
    BY <2>1, <2>4 DEF NodeResults
  <2>6. LineOK(job.root, RootResult)
    BY <2>3, <2>5 DEF LineOK
  <2> QED
    BY <1>2, <2>3, <2>6
<1> QED
  BY <1>4, <1>5

LEMMA FinishLines ==
  ASSUME Inv, LineInv, FinishSearch
  PROVE  LineInv'
<1>1. /\ TypeOK /\ JobInv /\ RootReturned /\ job # Idle /\ stack = << >>
      /\ session \in SessionStates
  BY DEF Inv, TypeOK, FinishSearch, RootReturned
<1>2. /\ session' = Finished(session, job.root, RootResult)
      /\ job' = Idle /\ ret' = NoResult /\ stack' = stack /\ tt' = tt
  BY DEF FinishSearch
<1>3. LineOK(job.root, RootResult)
  BY <1>1, ReportedLine
<1> DEFINE r == RootResult
<1> HIDE DEF r
<1>4. session' = [session EXCEPT !.root_hash = job.root, !.best_move = r.best_move,
                                 !.score = r.score, !.pv = r.pv]
  BY <1>2 DEF Finished, r
<1>5. /\ session'.generation = session.generation /\ session'.root_hash = job.root
      /\ session'.best_move = r.best_move /\ session'.pv = r.pv
  BY <1>1, <1>4 DEF SessionStates
<1>6. session.generation # 0
  BY <1>1 DEF JobInv
<1>7. ~Fresh'
  BY <1>2 DEF Fresh
<1>8. SessionLine'
  BY <1>3, <1>5, <1>6, <1>7 DEF SessionLine, LineOK, r
<1>9. TableLines'
  BY <1>2, <1>7, OldTableLines
<1>10. FrameLines' /\ RetLine'
  BY <1>1, <1>2, EmptySeq DEF FrameLines, RetLine
<1> QED
  BY <1>8, <1>9, <1>10 DEF LineInv

LEMMA InitLines ==
  ASSUME Init
  PROVE  LineInv
<1>1. PICK r \in RequestsOf[caller] : session = ResetSession(r.evaluator, r.options)
  BY DEF Init
<1>2. stack = << >> /\ ret = NoResult /\ tt = NewTable(0)
  BY DEF Init
<1>3. session.root_hash = NoRoot
  BY <1>1 DEF ResetSession
<1>4. Stored(tt) = {}
  BY <1>2, NewTableFacts
<1> QED
  BY <1>2, <1>3, <1>4, EmptySeq
  DEF LineInv, FrameLines, RetLine, TableLines, SessionLine

LEMMA StepLines ==
  ASSUME Inv, LineInv, [Next]_vars
  PROVE  LineInv'
<1>1. CASE UNCHANGED vars
  BY <1>1 DEF vars, LineInv, FrameLines, RetLine, TableLines, SessionLine, Fresh, Surplus, Top
<1>2. CASE Next
  BY <1>2, BeginKeepsLines, SolveLines, ResetLines, SearchNodeLines, RootLines, FinishLines
  DEF Next
<1> QED
  BY <1>1, <1>2

LEMMA AnswerIsOne ==
  ASSUME NEW a, "exact" \in DOMAIN a
  PROVE  a # NoAnswer
<1>1. "exact" \notin DOMAIN NoAnswer
  BY DEF NoAnswer
<1> QED
  BY <1>1

LEMMA RequestIsOne ==
  ASSUME NEW r \in Requests
  PROVE  r # NoAnswer
<1>1. r.root \in Positions
  BY RequestFacts
<1>2. DOMAIN r # {"request"}
  BY SessionAssumption DEF RequestType
<1>3. DOMAIN NoAnswer = {"request"}
  BY DEF NoAnswer
<1> QED
  BY <1>2, <1>3

\* What is answered, and for what.
LEMMA FinishAnswers ==
  ASSUME Inv, LineInv, FinishSearch
  PROVE  /\ answer' # NoAnswer /\ answer'.request = job.request
         /\ RightLine(job.request, answer')
         /\ job # Idle /\ job' = Idle /\ job.request \in Requests
<1>1. /\ JobInv /\ RootReturned /\ job # Idle /\ job \in Jobs
  BY DEF Inv, TypeOK, FinishSearch, RootReturned
<1>2. /\ answer' = Answered(job.request, RootResult, FALSE, job.fresh, session.bucket_count)
      /\ job.depth = SearchDepth(job.request) /\ job' = Idle
  BY DEF FinishSearch
<1>3. /\ answer'.exact = FALSE /\ answer'.request = job.request
      /\ answer'.result = RootResult /\ answer'.fresh = job.fresh
  BY <1>2 DEF Answered
<1>4. job.root = job.request.root /\ job.request \in Requests
  BY <1>1, JobTypes DEF JobInv
<1>5. LineOK(job.root, RootResult) /\ (job.fresh => Len(RootResult.pv) <= job.depth)
  BY <1>1, ReportedLine
<1>6. RightLine(job.request, answer')
  BY <1>2, <1>3, <1>4, <1>5 DEF RightLine, LineOK
<1>7. answer' # NoAnswer
  <2>1. "exact" \in DOMAIN answer'
    BY <1>2 DEF Answered
  <2> QED
    BY <2>1, AnswerIsOne
<1> QED
  BY <1>1, <1>2, <1>3, <1>4, <1>6, <1>7

LEMMA SolveAnswers ==
  ASSUME Inv, SolveExactRoot
  PROVE  /\ job = Idle /\ job' = job
         /\ \E r \in Requests : /\ answer' # NoAnswer /\ answer'.request = r
                                /\ RightLine(r, answer')
<1>1. job = Idle /\ job' = job
  BY DEF SolveExactRoot
<1>2. PICK r, count, result : Solves(r, count, result)
  BY SolveChoices
<1>3. /\ r \in Requests /\ result \in ExactResults(r.root)
      /\ answer' = Answered(r, result, TRUE, session.generation = 0, count)
  BY <1>2 DEF Solves
<1>4. answer'.exact = TRUE /\ answer'.request = r /\ answer'.result = result
  BY <1>3 DEF Answered
<1>5. r.root \in Positions
  BY <1>3, RequestFacts
<1>6. LineOK(r.root, result)
  BY <1>3, <1>5, ExactLineFits
<1>7. RightLine(r, answer')
  BY <1>4, <1>6 DEF RightLine, LineOK
<1>8. answer' # NoAnswer
  <2>1. "exact" \in DOMAIN answer'
    BY <1>3 DEF Answered
  <2> QED
    BY <2>1, AnswerIsOne
<1> QED
  BY <1>1, <1>3, <1>4, <1>7, <1>8

\* Only these two steps answer.
LEMMA OtherSteps ==
  ASSUME Inv, Next
  PROVE  \/ FinishSearch \/ SolveExactRoot
         \/ /\ Begin /\ answer' = answer /\ job = Idle /\ job' # Idle
            /\ job'.request \in Requests
         \/ /\ answer' = answer /\ (job = Idle <=> job' = Idle)
            /\ job # Idle => job'.request = job.request
<1>1. CASE Begin
  <2>1. job = Idle /\ answer' = answer
    BY <1>1 DEF Begin
  <2>2. job' \in Jobs
    <3>1. Inv'
      BY <1>1, BeginKeepsInv
    <3>2. PICK r \in RequestsOf[caller] : job'.root = r.root
      BY <1>1 DEF Begin
    <3>3. r \in Requests
      BY CallerRequests DEF Inv
    <3>4. r.root # NoRoot
      BY <3>3, RequestFacts, SessionAssumption
    <3>5. job' # Idle
      BY <3>2, <3>4 DEF Idle
    <3> QED
      BY <3>1, <3>5 DEF Inv, TypeOK
  <2>3. job' # Idle /\ job'.request \in Requests
    BY <2>2, JobTypes
  <2> QED
    BY <1>1, <2>1, <2>3
<1>2. CASE Reset
  BY <1>2 DEF Reset
<1>3. CASE SearchNode
  BY <1>3 DEF SearchNode
<1>4. CASE ReSearchWider \/ ReSearchFull \/ NextDepth
  <2>1. job # Idle
    BY <1>4, NextRoot DEF RootReturned
  <2>2. PICK j : RootCall(j)
    BY <1>4, NextRoot
  <2>3. j \in Jobs /\ job' = j /\ answer' = answer /\ j.request = job.request
    BY <2>2 DEF RootCall, SearchRoot
  <2>4. j # Idle
    BY <2>3, JobTypes
  <2> QED
    BY <2>1, <2>3, <2>4
<1> QED
  BY <1>1, <1>2, <1>3, <1>4 DEF Next

\* The line of every answer, a fixed-depth search's, an iterative one's or an
\* exact solver's, can be played from the root and begins with the best move,
\* and in a new session it is no longer than the depth asked for: whatever the
\* table, an earlier search or a pass did to it (AfterCandidate, EntryResult,
\* RootResult).
THEOREM LinesCanBePlayed ==
  Spec => [][answer' # answer => RightLine(answer'.request, answer')]_answer
<1>1. Init => Inv /\ LineInv
  BY InitInv, InitLines
<1>2. Inv /\ LineInv /\ [Next]_vars => (Inv /\ LineInv)'
  BY StepInv, StepLines
<1>3. ASSUME Inv, LineInv, [Next]_vars
      PROVE  [answer' # answer => RightLine(answer'.request, answer')]_answer
  <2>1. CASE UNCHANGED vars
    BY <2>1 DEF vars
  <2>2. CASE Next
    BY <1>3, <2>2, OtherSteps, FinishAnswers, SolveAnswers
  <2> QED
    BY <1>3, <2>1, <2>2
<1> QED
  BY <1>1, <1>2, <1>3, PTL DEF Spec

\* The session is a SearchService: every answer is right for the request it
\* answers, in score and in line, whatever searches of other positions, depths,
\* evaluators and options went before (search, search_iterative).
THEOREM SessionServes ==
  ASSUME IdentitiesTell
  PROVE  Spec => ServiceSpec
<1> DEFINE asked == IF job = Idle THEN NoAnswer ELSE job.request
<1>1. Init => Inv /\ LineInv
  BY InitInv, InitLines
<1>2. Inv /\ LineInv /\ [Next]_vars => (Inv /\ LineInv)'
  BY StepInv, StepLines
<1>3. Init => Service!Init
  BY DEF Init, Service!Init
<1>4. ASSUME Inv, LineInv, [Next]_vars
      PROVE  [Service!Next]_<<asked, answer>>
  <2>1. CASE UNCHANGED vars
    BY <2>1 DEF vars
  <2>2. ASSUME Next, answer' # NoAnswer
        PROVE  RightScore(answer'.request, answer')
    <3>1. Inv'
      BY <1>4, StepInv
    <3> QED
      BY <2>2, <3>1 DEF Inv, AnswerSound, AnswerIsASearchValue
  <2>3. CASE FinishSearch
    <3>1. /\ answer' # NoAnswer /\ answer'.request = job.request
          /\ RightLine(job.request, answer')
          /\ job # Idle /\ job' = Idle /\ job.request \in Requests
      BY <1>4, <2>3, FinishAnswers
    <3>2. RightScore(job.request, answer')
      BY <2>2, <2>3, <3>1 DEF Next
    <3>3. job.request # NoAnswer
      BY <3>1, RequestIsOne
    <3>4. Service!Answer
      BY <3>1, <3>2, <3>3 DEF Service!Answer
    <3> QED
      BY <3>4 DEF Service!Next
  <2>4. CASE SolveExactRoot
    <3>1. job = Idle /\ job' = job
      BY <1>4, <2>4, SolveAnswers
    <3>2. PICK r \in Requests : /\ answer' # NoAnswer /\ answer'.request = r
                                /\ RightLine(r, answer')
      BY <1>4, <2>4, SolveAnswers
    <3>3. RightScore(r, answer')
      BY <2>2, <2>4, <3>2 DEF Next
    <3>4. Service!AskAndAnswer
      BY <3>1, <3>2, <3>3 DEF Service!AskAndAnswer
    <3> QED
      BY <3>4 DEF Service!Next
  <2>5. CASE /\ Begin /\ answer' = answer /\ job = Idle /\ job' # Idle
             /\ job'.request \in Requests
    <3>1. Service!Ask
      BY <2>5 DEF Service!Ask
    <3> QED
      BY <3>1 DEF Service!Next
  <2>6. CASE /\ answer' = answer /\ (job = Idle <=> job' = Idle)
             /\ job # Idle => job'.request = job.request
    BY <2>6
  <2>7. CASE Next
    BY <1>4, <2>3, <2>4, <2>5, <2>6, <2>7, OtherSteps
  <2> QED
    BY <1>4, <2>1, <2>7
<1> QED
  BY <1>1, <1>2, <1>3, <1>4, PTL DEF Spec, ServiceSpec, Service!Spec
=============================================================================
